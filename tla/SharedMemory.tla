---------------------------- MODULE SharedMemory ----------------------------
(* Entities of one process that talk without the Agent: a writer leaves, for *)
(* each matched reader, a pointer into its output stream; whoever next sends *)
(* the streams of a session first hands what was left to the callbacks.      *)
(* src/src/c/profile/shared_memory/shared_memory.c, with the write functions *)
(* and uxr_flash_output_streams that call it, and the locks of               *)
(* src/src/c/profile/multithread/multithread.c.                              *)
(*                                                                           *)
(* A session has one best-effort output stream, whose buffer is a row of     *)
(* cells of one message each; what creates entities goes by another stream.  *)
(* A thread is its stack of calls: a callback runs within the delivery that  *)
(* called it, and may itself write and run the session.                      *)
EXTENDS Matching

CONSTANTS
    Scenes,          \* lists of the entities that an application creates
    Sessions,        \* keys of sessions
    Threads,
    MaxEntities,     \* UXR_CONFIG_SHARED_MEMORY_MAX_ENTITIES
    PoolSize,        \* UXR_CONFIG_SHARED_MEMORY_STATIC_MEM_SIZE
    Capacity,        \* messages that fit in an output stream
    Numbers,         \* request identifiers
    MaxDepth         \* calls within each other

ASSUME SharedMemoryAssumption ==
    /\ MaxEntities \in Nat /\ PoolSize \in Nat /\ Capacity \in Nat /\ MaxDepth \in Nat
    /\ IsFiniteSet(Threads)

(* An application creates a topic before the endpoints that name it.         *)
ASSUME ScenesAssumption ==
    \A s \in Scenes :
        /\ s \in Seq({s[i] : i \in DOMAIN s})
        /\ \A i \in DOMAIN s :
            /\ s[i].session \in Sessions /\ s[i].id \in Nat
            /\ s[i].kind \in {UXR_TOPIC_ID, UXR_DATAWRITER_ID, UXR_DATAREADER_ID,
                              UXR_REQUESTER_ID, UXR_REPLIER_ID}
            /\ s[i].form \in {"xml", "bin"}
            /\ s[i].form = "bin" /\ s[i].kind \in {UXR_DATAWRITER_ID, UXR_DATAREADER_ID} =>
                \E k \in 1..i - 1 : /\ s[k].kind = UXR_TOPIC_ID /\ s[k].id = s[i].topic_id
                                     /\ s[k].session = s[i].session

VARIABLES
    scene, made,     \* what the application creates, and how much of it it has
    users,           \* one thread, whose callbacks may write, or several, whose do not
    entities, matched, list, mempool_freeitems,
    writer, memory,  \* of each session: cells written since it was sent, all cells
    stack            \* the calls of each thread, the innermost first

map == <<entities, matched, list, mempool_freeitems>>
vars == <<scene, made, users, map, writer, memory, stack>>

Entity == 1..MaxEntities
Pool == 1..PoolSize
Empty == [number |-> 0, to |-> <<>>]

(***************************************************************************)
(* Entities and who matches whom.                                          *)
(***************************************************************************)
(* Mutant of uxr_shared_memory_entity_compare: the sessions are not compared.*)
SameObject(session, kind, id, entity) == entity.kind = kind /\ entity.id = id

uxr_shared_memory_entity_compare(session, kind, id, entity) ==
    entity.session = session /\ entity.kind = kind /\ entity.id = id

(* uxr_shared_memory_get_entity, uxr_shared_memory_get_entity_index: the     *)
(* first entity of that name, if there is one.                               *)
IndexesOf(session, kind, id) ==
    {i \in DOMAIN entities : uxr_shared_memory_entity_compare(session, kind, id, entities[i])}
EntityIndex(session, kind, id) ==
    LET indexes == IndexesOf(session, kind, id) IN IF indexes = {} THEN 0 ELSE First(indexes)

(* uxr_add_shared_memory_entity_xml, uxr_add_shared_memory_entity_bin: how   *)
(* an entity is told from others: by its topic and quality, or by a hash.    *)
ByTopic(e) == e.form = "bin" /\ e.kind \in {UXR_DATAWRITER_ID, UXR_DATAREADER_ID}
HashOf(e) ==
    IF e.form = "xml" THEN uxr_generate_hash_from_xml(e.xml, e.kind)
    ELSE uxr_generate_hash_from_strings(e.strings)
Registered(e) ==
    LET Entry(type, hash, topic, qos) ==
            [session |-> e.session, kind |-> e.kind, id |-> e.id,
             type |-> type, hash |-> hash, topic |-> topic, qos |-> qos]
    IN IF ByTopic(e)
       THEN Entry("bin", NoHash, EntityIndex(e.session, UXR_TOPIC_ID, e.topic_id), e.qos)
       ELSE Entry("hash", HashOf(e), 0, 0)

(* uxr_match_binary_entities                                                 *)
uxr_match_binary_entities(all, e1, e2) ==
    /\ {e1.kind, e2.kind} = {UXR_DATAREADER_ID, UXR_DATAWRITER_ID}
    /\ uxr_match_endpoint_qosbinary(e1.qos, e2.qos)
    /\ all[e1.topic].hash = all[e2.topic].hash

(* uxr_update_shared_memory_matching                                         *)
MatchedIn(all, i, j) ==
    /\ i \in DOMAIN all /\ j \in DOMAIN all /\ i # j
    /\ all[i].type = all[j].type /\ all[i].kind # all[j].kind
    /\ all[i].kind # UXR_TOPIC_ID /\ all[j].kind # UXR_TOPIC_ID
    /\ IF all[i].type = "hash" THEN all[i].hash = all[j].hash
       ELSE uxr_match_binary_entities(all, all[i], all[j])

(***************************************************************************)
(* Calls and the locks they hold or wait for. Locks are recursive.         *)
(***************************************************************************)
Calling(t) == stack[t] # <<>>
Top(t) == Head(stack[t])
Push(t, call) == stack' = [stack EXCEPT ![t] = <<call>> \o @]
Pop(t) == stack' = [stack EXCEPT ![t] = Tail(@)]
GoOn(t, call) == stack' = [stack EXCEPT ![t] = <<call>> \o Tail(@)]
At(t, pc) == Calling(t) /\ Top(t).pc = pc

HoldsStream(call, session) ==
    call.pc \in {"preparing", "serializing"} /\ call.session = session

(* Mutant of HoldsMap: the map is kept while the streams are sent.           *)
HoldsMapToTheEnd(call) == call.pc \in {"handling", "called", "sending"}

HoldsMap(call) == call.pc \in {"handling", "called"}

StreamFree(t, session) ==
    \A u \in Threads \ {t} : \A i \in DOMAIN stack[u] : ~HoldsStream(stack[u][i], session)
MapFree(t) == \A u \in Threads \ {t} : \A i \in DOMAIN stack[u] : ~HoldsMap(stack[u][i])

(***************************************************************************)
(* Writing a message: uxr_buffer_topic, uxr_buffer_request,                *)
(* uxr_buffer_reply.                                                       *)
(***************************************************************************)
WriteCall(e, message) ==
    [pc |-> "locking", session |-> e.session, kind |-> e.kind, id |-> e.id,
     message |-> message]

(* The lock of the stream; a full stream refuses the message.                *)
LockStream(t) ==
    /\ At(t, "locking") /\ StreamFree(t, Top(t).session)
    /\ IF writer[Top(t).session] = Capacity THEN Pop(t) /\ UNCHANGED writer
       ELSE /\ writer' = [writer EXCEPT ![Top(t).session] = @ + 1]
            /\ GoOn(t, [Top(t) EXCEPT !.pc = "preparing"])
    /\ UNCHANGED <<scene, made, users, map, memory>>

(* Mutant of ReadersOf: whether they match is not asked.                     *)
EveryEntity(index) == IF index = 0 THEN {} ELSE DOMAIN entities

(* The readers that an entity's message goes to, ...                         *)
ReadersOf(index) ==
    IF index = 0 THEN {} ELSE {j \in DOMAIN entities : matched[index][j]}

(* ... which are given items in the order of the map.                        *)
Rank(readers, j) == Cardinality({k \in readers : k <= j})

(* uxr_prepend_to_list                                                       *)
Left(items, item) == <<item>> \o items

(* uxr_prepare_shared_memory: an item of the pool for each reader, as long   *)
(* as there are any, with a pointer to where the message is going to be.     *)
Prepare(t) ==
    /\ At(t, "preparing") /\ MapFree(t)
    /\ LET call == Top(t)
           index == EntityIndex(call.session, call.kind, call.id)
           readers == ReadersOf(index)
           free == Len(mempool_freeitems)
           given == IF Cardinality(readers) < free THEN Cardinality(readers) ELSE free
           Gets(j) == j \in readers /\ Rank(readers, j) <= given
           Item(n) == [item |-> mempool_freeitems[n], session |-> call.session,
                       cell |-> writer[call.session], request_id |-> call.message.number,
                       meant |-> call.message]
       IN /\ mempool_freeitems' = SubSeq(mempool_freeitems, given + 1, free)
          /\ list' = [i \in Entity |-> [j \in Entity |->
                        IF i = index /\ Gets(j)
                        THEN Left(list[i][j], Item(Rank(readers, j)))
                        ELSE list[i][j]]]
          /\ GoOn(t, [call EXCEPT !.pc = "serializing"])
    /\ UNCHANGED <<scene, made, users, entities, matched, writer, memory>>

(* Only now is the message written where the items point to.                 *)
Serialize(t) ==
    /\ At(t, "serializing")
    /\ memory' = [memory EXCEPT ![Top(t).session][writer[Top(t).session]] = Top(t).message]
    /\ Pop(t)
    /\ UNCHANGED <<scene, made, users, map, writer>>

(***************************************************************************)
(* uxr_flash_output_streams: what was left is handed over, then the stream *)
(* of the session is sent.                                                 *)
(***************************************************************************)
EnterMap(t) ==
    /\ At(t, "entering") /\ MapFree(t)
    /\ GoOn(t, [pc |-> "handling", session |-> Top(t).session, at |-> <<1, 1>>])
    /\ UNCHANGED <<scene, made, users, map, writer, memory>>

Sends(kind) == kind \in {UXR_DATAWRITER_ID, UXR_REPLIER_ID, UXR_REQUESTER_ID}

Before(p, q) == p[1] < q[1] \/ (p[1] = q[1] /\ p[2] <= q[2])

(* Mutant of ToVisit: of each pair, only the last item left is handed over.  *)
VisitOnce(at) ==
    {p \in (DOMAIN entities) \X (DOMAIN entities) :
        ~Before(p, at) /\ Sends(entities[p[1]].kind) /\ list[p[1]][p[2]] # <<>>}

(* The pairs of a writer and a reader that are still to be visited and have  *)
(* something left between them.                                              *)
ToVisit(at) ==
    {p \in (DOMAIN entities) \X (DOMAIN entities) :
        Before(at, p) /\ Sends(entities[p[1]].kind) /\ list[p[1]][p[2]] # <<>>}
NextPair(at) == CHOOSE p \in ToVisit(at) : \A q \in ToVisit(at) : Before(p, q)

(* Who asked: the sixteen bits of an identifier in two octets, ...           *)
IdentityOf(entity, request_id) ==
    [session |-> entity.session, key |-> <<entity.id % 256, (entity.id \div 256) % 256>>,
     kind |-> entity.kind, low |-> request_id]

(* Mutant of AddressedTo: the session is not compared.                       *)
AddressedToId(entity, to) ==
    /\ to # <<>>
    /\ entity.id = (to.key[2] \div 256) + to.key[1]
    /\ to.kind = entity.kind

(* ... of which the second is shifted the wrong way when they are read.      *)
AddressedTo(entity, to) ==
    /\ to # <<>>
    /\ to.session = entity.session
    /\ entity.id = (to.key[2] \div 256) + to.key[1]
    /\ to.kind = entity.kind

MessageOf(item) == memory[item.session][item.cell]

(* Whether a callback is called for an item. A requester only takes the      *)
(* replies that are addressed to it.                                         *)
Taken(reader, item) ==
    \/ reader.kind \in {UXR_DATAREADER_ID, UXR_REPLIER_ID}
    \/ reader.kind = UXR_REQUESTER_ID /\ AddressedTo(reader, MessageOf(item).to)

(* Mutant of Released: the item does not go back to the pool.                *)
NotReleased(items, item) == items

(* An item goes back to the pool.                                            *)
Released(items, item) == <<item.item>> \o items

(* uxr_handle_shared_memory: the last item left goes first.                  *)
Handle(t) ==
    /\ At(t, "handling") /\ ToVisit(Top(t).at) # {}
    /\ LET p == NextPair(Top(t).at)
           item == Head(list[p[1]][p[2]])
           here == [Top(t) EXCEPT !.at = p]
       IN /\ list' = [list EXCEPT ![p[1]][p[2]] = Tail(@)]
          /\ IF Taken(entities[p[2]], item)
             THEN /\ stack' = [stack EXCEPT ![t] =
                        <<[pc |-> "called", did |-> "nothing", from |-> p[1],
                           reader |-> p[2], item |-> item], here>> \o Tail(@)]
                  /\ UNCHANGED mempool_freeitems
             ELSE /\ mempool_freeitems' = Released(mempool_freeitems, item)
                  /\ GoOn(t, here)
    /\ UNCHANGED <<scene, made, users, entities, matched, writer, memory>>

LeaveMap(t) ==
    /\ At(t, "handling") /\ ToVisit(Top(t).at) = {}
    /\ GoOn(t, [pc |-> "sending", session |-> Top(t).session])
    /\ UNCHANGED <<scene, made, users, map, writer, memory>>

(* What the stream held is sent; its buffer is written again from the front. *)
SendStream(t) ==
    /\ At(t, "sending") /\ StreamFree(t, Top(t).session)
    /\ writer' = [writer EXCEPT ![Top(t).session] = 0]
    /\ Pop(t)
    /\ UNCHANGED <<scene, made, users, map, memory>>

Return(t) ==
    /\ At(t, "called") /\ Top(t).did # "wrote"
    /\ mempool_freeitems' = Released(mempool_freeitems, Top(t).item)
    /\ Pop(t)
    /\ UNCHANGED <<scene, made, users, entities, matched, list, writer, memory>>

(***************************************************************************)
(* The application. It creates entities while nothing else goes on. A      *)
(* callback that writes runs the session before it returns, as the         *)
(* examples do.                                                            *)
(***************************************************************************)
Quiet == \A t \in Threads : ~Calling(t)
Alone == Cardinality(users) = 1

Create ==
    /\ Quiet /\ made < Len(scene)
    /\ made' = made + 1
    /\ IF Len(entities) < MaxEntities
       THEN /\ entities' = Append(entities, Registered(scene[made + 1]))
            /\ matched' = [i \in Entity |-> [j \in Entity |-> MatchedIn(entities', i, j)]]
       ELSE UNCHANGED <<entities, matched>>
    /\ UNCHANGED <<scene, users, list, mempool_freeitems, writer, memory, stack>>

(* uxr_delete_session of any session: uxr_clean_shared_memory.               *)
Delete ==
    /\ Quiet /\ Alone /\ made > 0
    /\ made' = 0 /\ entities' = <<>>
    /\ matched' = [i \in Entity |-> [j \in Entity |-> FALSE]]
    /\ list' = [i \in Entity |-> [j \in Entity |-> <<>>]]
    /\ mempool_freeitems' = [n \in Pool |-> PoolSize + 1 - n]
    /\ UNCHANGED <<scene, users, writer, memory, stack>>

Write(t) ==
    /\ ~Calling(t)
    /\ \E i \in 1..made, number \in Numbers :
        /\ scene[i].kind \in {UXR_DATAWRITER_ID, UXR_REQUESTER_ID}
        /\ Push(t, WriteCall(scene[i], [number |-> number, to |-> <<>>]))
    /\ UNCHANGED <<scene, made, users, map, writer, memory>>

Flash(t) ==
    /\ ~Calling(t) /\ made > 0
    /\ \E session \in Sessions : Push(t, [pc |-> "entering", session |-> session])
    /\ UNCHANGED <<scene, made, users, map, writer, memory>>

(* A replier answers (examples/SharedMemoryReqRep); a reader may publish     *)
(* what it read.                                                             *)
CallbackWrites(t) ==
    /\ Alone /\ At(t, "called") /\ Top(t).did = "nothing" /\ Len(stack[t]) < MaxDepth
    /\ LET call == Top(t)
           reader == entities[call.reader]
           wrote == <<[call EXCEPT !.did = "wrote"]>> \o Tail(stack[t])
           Say(e, message) ==
                stack' = [stack EXCEPT ![t] = <<WriteCall(e, message)>> \o wrote]
       IN IF reader.kind = UXR_REPLIER_ID
          THEN Say(reader, [number |-> MessageOf(call.item).number,
                            to |-> IdentityOf(entities[call.from], call.item.request_id)])
          ELSE \E i \in 1..made :
                /\ scene[i].kind = UXR_DATAWRITER_ID /\ reader.kind = UXR_DATAREADER_ID
                /\ Say(scene[i], [number |-> MessageOf(call.item).number, to |-> <<>>])
    /\ UNCHANGED <<scene, made, users, map, writer, memory>>

CallbackRuns(t) ==
    /\ At(t, "called") /\ Top(t).did = "wrote"
    /\ stack' = [stack EXCEPT ![t] =
            <<[pc |-> "entering", session |-> entities[Top(t).reader].session],
              [Top(t) EXCEPT !.did = "ran"]>> \o Tail(@)]
    /\ UNCHANGED <<scene, made, users, map, writer, memory>>

Init ==
    /\ scene \in Scenes /\ made = 0 /\ users \in (SUBSET Threads) \ {{}}
    /\ entities = <<>>
    /\ matched = [i \in Entity |-> [j \in Entity |-> FALSE]]
    /\ list = [i \in Entity |-> [j \in Entity |-> <<>>]]
    /\ mempool_freeitems = [n \in Pool |-> PoolSize + 1 - n]
    /\ writer = [s \in Sessions |-> 0]
    /\ memory = [s \in Sessions |-> [c \in 1..Capacity |-> Empty]]
    /\ stack = [t \in Threads |-> <<>>]

Next ==
    \/ Create \/ Delete
    \/ \E t \in users :
        \/ Write(t) \/ LockStream(t) \/ Prepare(t) \/ Serialize(t)
        \/ Flash(t) \/ EnterMap(t) \/ Handle(t) \/ LeaveMap(t) \/ SendStream(t)
        \/ CallbackWrites(t) \/ CallbackRuns(t) \/ Return(t)

Spec == Init /\ [][Next]_vars

(***************************************************************************)
(* Properties.                                                             *)
(***************************************************************************)
SmTypeOK ==
    /\ made \in 0..Len(scene) /\ Len(entities) <= MaxEntities
    /\ \A s \in Sessions : writer[s] \in 0..Capacity
    /\ \A i, j \in Entity :
        \A n \in DOMAIN list[i][j] : list[i][j][n].item \in Pool /\ matched[i][j]
    /\ \A n \in DOMAIN mempool_freeitems : mempool_freeitems[n] \in Pool
    /\ \A t \in Threads \ users : ~Calling(t)

(* Every item of the pool is in one place: free, left between two entities,  *)
(* or with a callback; none is lost and none is used twice, whatever calls   *)
(* run within a callback.                                                    *)
Places(k) ==
    {<<"free", n>> : n \in {m \in DOMAIN mempool_freeitems : mempool_freeitems[m] = k}}
    \cup (UNION {{<<"left", <<p, n>>>> : n \in {m \in DOMAIN list[p[1]][p[2]] :
                                                list[p[1]][p[2]][m].item = k}} :
                 p \in Entity \X Entity})
    \cup (UNION {{<<"called", <<t, n>>>> : n \in {m \in DOMAIN stack[t] :
                    stack[t][m].pc = "called" /\ stack[t][m].item.item = k}} : t \in Threads})
PoolConserved == \A k \in Pool : Cardinality(Places(k)) = 1

(* What a callback is handed is the message that was written for it, though  *)
(* all it gets is a pointer into a stream that is sent and written again: as *)
(* long as one thread writes and a callback that writes runs the session.    *)
HandedIsWritten ==
    Alone => \A t \in Threads :
        At(t, "called") /\ Top(t).did = "nothing" => MessageOf(Top(t).item) = Top(t).item.meant

(* A reply that waits for several requesters is taken by the one that asked  *)
(* and by no other, also when two sessions gave theirs the same name.        *)
Asked(entity, to) ==
    /\ to.session = entity.session /\ to.kind = entity.kind
    /\ entity.id = to.key[1] + 256 * to.key[2]
RepliesFindTheirRequester ==
    \A i, j \in DOMAIN entities : \A n \in DOMAIN list[i][j] :
        LET to == list[i][j][n].meant.to IN
        entities[j].kind = UXR_REQUESTER_ID /\ to # <<>> =>
            (AddressedTo(entities[j], to) <=> Asked(entities[j], to))

(* Only a writer and a reader of one topic, or a requester and a replier of  *)
(* one service, match, whatever sessions they are of and however they were   *)
(* described.                                                                *)
Complements == {{UXR_DATAWRITER_ID, UXR_DATAREADER_ID}, {UXR_REQUESTER_ID, UXR_REPLIER_ID}}
MatchedAreOfOneSubject ==
    \A i, j \in DOMAIN entities :
        matched[i][j] => /\ {entities[i].kind, entities[j].kind} \in Complements
                         /\ scene[i].about = scene[j].about

(* What this rests on, of descriptions alone: what is hashed of them tells   *)
(* their subjects apart, and a binary endpoint is about its topic.           *)
DescriptionsTell ==
    \A s \in Scenes : \A i, j \in DOMAIN s :
        LET d == s[i]
            e == s[j]
        IN /\ ~ByTopic(d) /\ ~ByTopic(e) /\ HashOf(d) = HashOf(e) =>
               /\ d.about = e.about
               /\ \/ d.kind = e.kind \/ UXR_TOPIC_ID \in {d.kind, e.kind}
                  \/ {d.kind, e.kind} \in Complements
           /\ /\ ByTopic(d) /\ e.kind = UXR_TOPIC_ID
              /\ e.session = d.session /\ e.id = d.topic_id
              => d.about = <<e.about, d.qos>>

(* Callbacks that do not write cannot make two threads wait for each other:  *)
(* one that sends a stream no longer holds the map, which one that writes    *)
(* waits for with the stream.                                                *)
CanGoOn(t) ==
    /\ Top(t).pc \in {"locking", "sending"} => StreamFree(t, Top(t).session)
    /\ Top(t).pc \in {"preparing", "entering"} => MapFree(t)
SomeoneGoesOn ==
    (\E t \in Threads : Calling(t)) => \E t \in Threads : Calling(t) /\ CanGoOn(t)
=============================================================================

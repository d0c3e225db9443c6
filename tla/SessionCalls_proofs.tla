------------------------- MODULE SessionCalls_proofs -------------------------
(* What the calls that wait for an answer of the Agent may rely on: those of *)
(* the life of a session, for every number of attempts and identifiers,      *)
(* every set of lists and however the Agent answers; and those with a clock  *)
(* in hand, for every timeout and number of attempts, any clocks, and        *)
(* however many messages are under way.                                      *)
EXTENDS Session, AgentCalls, TLAPS

(***************************************************************************)
(* The life of a session.                                                  *)
(***************************************************************************)
(* The answers on their way carry a status, and the session holds lists only *)
(* while a call waits for them.                                              *)
Replies == [to : {"create", "delete"}, status : Answers]

Registered ==
    /\ to_agent \subseteq {"create", "delete"}
    /\ to_client \subseteq Replies
    /\ call \notin {"all", "one"} => request_status_list_size = 0

Inv == SessionTypeOK /\ Registered /\ StatusMatches

(* What the Client and the Agent still have to say to each other is of one   *)
(* kind, the last that was called, and no success that was or will be heard  *)
(* has been undone.                                                          *)
OfKind(which) == to_agent \subseteq {which} /\ \A r \in to_client : r.to = which
Agrees(which) == agent_session = (which = "create")

OneKind == OfKind("create") \/ OfKind("delete")
WaitAgrees ==
    call \in {"create", "delete"} =>
        OfKind(call) /\ (last_requested_status = UXR_STATUS_OK => Agrees(call))
AnswersAgree == \A r \in to_client : r.status = UXR_STATUS_OK => Agrees(r.to)
ReturnAgrees ==
    call \notin {"create", "delete"} /\ returned.value /\ returned.call \in {"create", "delete"}
        => OfKind(returned.call) /\ Agrees(returned.call)

Agreement == OneKind /\ WaitAgrees /\ AnswersAgree /\ ReturnAgrees

LEMMA Numbers ==
    /\ MaxRequestId \in Nat /\ MaxRequestId > 9 /\ MaxAttempts \in Nat
    /\ RequestIds = 10..MaxRequestId
  BY SessionAssumption DEF RequestIds, RESERVED_REQUESTS_ID

LEMMA Statuses ==
    /\ UXR_STATUS_NONE \notin Refusals /\ UXR_STATUS_OK \notin Refusals
    /\ Unused \notin Refusals /\ Pending \notin Refusals
  BY SessionAssumption

LEMMA ListsAreSequences ==
    ASSUME NEW list \in Lists \cup {<<>>}
    PROVE  Len(list) \in Nat /\ DOMAIN list = 1..Len(list)
<1> DEFINE Entries == RequestIds \cup {UXR_INVALID_REQUEST_ID}
<1>1. Lists \subseteq Seq(Entries)
  BY SessionAssumption
<1> HIDE DEF Entries
<1>2. CASE list \in Lists
  BY <1>1, <1>2
<1>3. CASE list = <<>>
  BY <1>3
<1> QED BY <1>2, <1>3

LEMMA Entries ==
    ASSUME SessionTypeOK
    PROVE  /\ request_status_list_size \in Nat
           /\ 1..request_status_list_size \subseteq DOMAIN request_list
           /\ Len(request_list) \in Nat
<1>1. Len(request_list) \in Nat /\ DOMAIN request_list = 1..Len(request_list)
  BY ListsAreSequences DEF SessionTypeOK
<1>2. request_status_list_size \in 0..Len(request_list)
  BY DEF SessionTypeOK
<1> QED BY <1>1, <1>2

(* generate_request_id never hands out a reserved identifier.                *)
LEMMA GeneratedIds ==
    ASSUME SessionTypeOK
    PROVE  generate_request_id \in RequestIds
<1>1. last_request_id \in RequestIds \cup {1, 2, 9}
  BY DEF SessionTypeOK, UXR_REQUEST_LOGIN, UXR_REQUEST_LOGOUT, RESERVED_REQUESTS_ID
<1> QED BY <1>1, Numbers DEF generate_request_id, RESERVED_REQUESTS_ID

(* process_status writes the status into one entry of its request, or none.  *)
LEMMA ProcessStatusWrites ==
    ASSUME SessionTypeOK, NEW id, NEW status \in Answers, ProcessStatus(id, status)
    PROVE  /\ status_list' \in [DOMAIN request_list -> Answers \cup {UXR_STATUS_NONE}]
           /\ \A i \in 1..request_status_list_size :
                 \/ status_list'[i] = status_list[i]
                 \/ request_list[i] = id /\ status_list'[i] = status
<1> DEFINE matching == {i \in 1..request_status_list_size : request_list[i] = id}
<1>1. status_list \in [DOMAIN request_list -> Answers \cup {UXR_STATUS_NONE}]
  BY DEF SessionTypeOK
<1>2. matching \subseteq DOMAIN request_list
  BY Entries
<1>3. \/ UNCHANGED status_list
      \/ \E first \in matching : status_list' = [status_list EXCEPT ![first] = status]
  BY DEF ProcessStatus
<1>4. CASE UNCHANGED status_list
  BY <1>1, <1>4
<1>5. ASSUME NEW first \in matching, status_list' = [status_list EXCEPT ![first] = status]
      PROVE  /\ status_list' \in [DOMAIN request_list -> Answers \cup {UXR_STATUS_NONE}]
             /\ \A i \in 1..request_status_list_size :
                   \/ status_list'[i] = status_list[i]
                   \/ request_list[i] = id /\ status_list'[i] = status
  <2>1. \A i \in DOMAIN request_list :
           status_list'[i] = IF i = first THEN status ELSE status_list[i]
    BY <1>1, <1>2, <1>5
  <2>2. 1..request_status_list_size \subseteq DOMAIN request_list
    BY Entries
  <2>3. request_list[first] = id
    BY <1>5
  <2> QED BY <1>1, <1>5, <2>1, <2>2, <2>3
<1> QED BY <1>3, <1>4, <1>5

LEMMA GeneratedRequest ==
    ASSUME SessionTypeOK, GenerateRequest
    PROVE  /\ last_request_id' \in RequestIds
           /\ requests' \in [RequestIds -> Answers \cup {Unused, Pending}]
           /\ \A i \in 1..request_status_list_size :
                 request_list[i] \in RequestIds
                    => requests'[request_list[i]] = requests[request_list[i]]
<1>1. generate_request_id \in RequestIds
  BY GeneratedIds
<1> QED BY <1>1 DEF GenerateRequest, SessionTypeOK

LEMMA InitInv ==
    ASSUME Init
    PROVE  Inv
<1>1. attempts \in 0..MaxAttempts /\ request_status_list_size \in 0..Len(request_list)
  BY Numbers DEF Init
<1>2. status_list \in [DOMAIN request_list -> Answers \cup {UXR_STATUS_NONE}]
  BY DEF Init
<1>3. SessionTypeOK
  BY <1>1, <1>2 DEF Init, SessionTypeOK
<1>4. Registered /\ StatusMatches
  BY DEF Init, Registered, StatusMatches
<1> QED BY <1>3, <1>4 DEF Inv

(* A step that leaves lists and requests alone keeps what they have in       *)
(* common.                                                                   *)
LEMMA ListsUnchanged ==
    ASSUME Inv, UNCHANGED <<lists, requests>>
    PROVE  StatusMatches'
  BY DEF Inv, StatusMatches, lists

(***************************************************************************)
(* One lemma for each kind of call.                                        *)
(***************************************************************************)
LEMMA CreateAndDeleteKeepInv ==
    ASSUME Inv,
           \/ \E n \in 0..MaxAttempts : CreateSession(n) \/ DeleteSession(n)
           \/ SendAgain \/ GiveUp \/ GoOnWaiting \/ EndWait
    PROVE  Inv'
<1>1. UNCHANGED <<lists, requests, to_client, agent_session>>
  BY DEF CreateSession, DeleteSession, SendAgain, GiveUp, GoOnWaiting, EndWait, agent
<1>2. StatusMatches'
  BY <1>1, ListsUnchanged
<1>3. ASSUME NEW n \in 0..MaxAttempts, CreateSession(n) \/ DeleteSession(n)
      PROVE  SessionTypeOK' /\ Registered'
  <2>1. /\ call = "idle" /\ to_agent' \subseteq {"create", "delete"}
        /\ call' \in {"idle", "create", "delete"} /\ heard' \in BOOLEAN
        /\ attempts' \in 0..MaxAttempts
        /\ last_request_id' \in {UXR_REQUEST_LOGIN, UXR_REQUEST_LOGOUT}
        /\ last_requested_status' = UXR_STATUS_NONE
        /\ streams' \in {"reset", "used"}
    <3>1. PICK which \in {"create", "delete"} : WaitSessionStatus(which, n)
      BY <1>3 DEF CreateSession, DeleteSession
    <3>2. /\ call = "idle" /\ streams' \in {"reset", "used"}
          /\ last_request_id' \in {UXR_REQUEST_LOGIN, UXR_REQUEST_LOGOUT}
      BY <1>3 DEF CreateSession, DeleteSession, Inv, SessionTypeOK
    <3>3. /\ last_requested_status' = UXR_STATUS_NONE
          /\ to_agent' = to_agent \cup {which} /\ heard' = FALSE
          /\ \/ UNCHANGED <<call, attempts>>
             \/ n # 0 /\ call' = which /\ attempts' = n - 1
      BY <3>1 DEF WaitSessionStatus
    <3>4. attempts \in 0..MaxAttempts /\ to_agent \subseteq {"create", "delete"}
      BY DEF Inv, SessionTypeOK, Registered
    <3>5. attempts' \in 0..MaxAttempts
      BY <3>3, <3>4, Numbers
    <3> QED BY <3>1, <3>2, <3>3, <3>4, <3>5
  <2> QED BY <1>1, <2>1 DEF Inv, SessionTypeOK, Registered, lists
<1>4. ASSUME SendAgain \/ GiveUp \/ GoOnWaiting \/ EndWait
      PROVE  SessionTypeOK' /\ Registered'
  <2>1. /\ call \in {"create", "delete"} /\ to_agent' \subseteq {"create", "delete"}
        /\ call' \in {"idle", "create", "delete"} /\ heard' \in BOOLEAN
        /\ attempts' \in 0..MaxAttempts
        /\ UNCHANGED <<last_request_id, last_requested_status>>
        /\ streams' \in {"reset", "used"}
    BY <1>4, Numbers DEF SendAgain, GiveUp, GoOnWaiting, EndWait, Returns, info, Inv,
       SessionTypeOK, Registered
  <2> QED BY <1>1, <2>1 DEF Inv, SessionTypeOK, Registered, lists
<1> QED BY <1>2, <1>3, <1>4 DEF Inv

LEMMA RunsKeepInv ==
    ASSUME Inv,
           \/ \E which \in {"all", "one"}, list \in Lists : RunUntilStatus(which, list)
           \/ HearNothing \/ RunOn \/ EndRun
    PROVE  Inv'
<1>1. ASSUME NEW which \in {"all", "one"}, NEW list \in Lists, RunUntilStatus(which, list)
      PROVE  Inv'
  <2>1. Len(list) \in Nat /\ DOMAIN list = 1..Len(list)
    BY ListsAreSequences
  <2>2. /\ call' = which /\ heard' = FALSE
        /\ request_list' = list
        /\ status_list' = [i \in 1..Len(list) |-> UXR_STATUS_NONE]
        /\ request_status_list_size' = Len(list)
        /\ UNCHANGED <<attempts, info, streams, returned, to_agent, agent>>
    BY <1>1 DEF RunUntilStatus
  <2>3. SessionTypeOK'
    <3>1. status_list' \in [DOMAIN request_list' -> Answers \cup {UXR_STATUS_NONE}]
      BY <2>1, <2>2
    <3>2. /\ request_status_list_size' \in 0..Len(request_list')
          /\ request_list' \in Lists \cup {<<>>}
      BY <2>1, <2>2
    <3> QED BY <2>2, <3>1, <3>2 DEF Inv, SessionTypeOK, info, agent
  <2>4. Registered'
    BY <2>2 DEF Inv, Registered, agent
  <2>5. StatusMatches'
    BY <2>1, <2>2, Statuses DEF StatusMatches
  <2> QED BY <2>3, <2>4, <2>5 DEF Inv
<1>2. ASSUME HearNothing \/ RunOn PROVE Inv'
  <2>1. /\ UNCHANGED <<call, attempts, info, lists, streams, to_agent, agent>>
        /\ heard' \in BOOLEAN
    BY <1>2 DEF HearNothing, RunOn
  <2> QED BY <2>1, ListsUnchanged DEF Inv, SessionTypeOK, Registered, info, lists, agent
<1>3. ASSUME EndRun PROVE Inv'
  <2>1. /\ call' = "idle" /\ heard' = FALSE /\ request_status_list_size' = 0
        /\ UNCHANGED <<attempts, info, request_list, status_list, streams, to_agent, agent>>
    BY <1>3 DEF EndRun, Returns, ForgetLists
  <2>2. Len(request_list) \in Nat
    BY Entries DEF Inv
  <2>3. request_status_list_size' \in 0..Len(request_list')
    BY <2>1, <2>2
  <2>4. SessionTypeOK'
    BY <2>1, <2>3 DEF Inv, SessionTypeOK, info, agent
  <2>5. Registered' /\ StatusMatches'
    BY <2>1 DEF Inv, Registered, StatusMatches, agent
  <2> QED BY <2>4, <2>5 DEF Inv
<1> QED BY <1>1, <1>2, <1>3

LEMMA WriteRequestKeepsInv ==
    ASSUME Inv, WriteRequest
    PROVE  Inv'
<1>1. /\ call = "idle" /\ GenerateRequest /\ streams' = "used"
      /\ UNCHANGED <<call, heard, attempts, last_requested_status, lists,
                     to_agent, to_client, agent_session>>
  BY DEF WriteRequest
<1>2. /\ last_request_id' \in RequestIds
      /\ requests' \in [RequestIds -> Answers \cup {Unused, Pending}]
  BY <1>1, GeneratedRequest DEF Inv
<1>3. SessionTypeOK'
  BY <1>1, <1>2 DEF Inv, SessionTypeOK, lists
<1>4. Registered'
  BY <1>1 DEF Inv, Registered, lists
<1>5. StatusMatches'
  <2>1. \A i \in 1..request_status_list_size :
           request_list[i] \in RequestIds
              => requests'[request_list[i]] = requests[request_list[i]]
    BY <1>1, GeneratedRequest DEF Inv
  <2> QED BY <1>1, <2>1 DEF Inv, StatusMatches, lists
<1> QED BY <1>3, <1>4, <1>5 DEF Inv

LEMMA HearSessionStatusKeepsInv ==
    ASSUME Inv, NEW r \in to_client, HearSessionStatus(r)
    PROVE  Inv'
<1>1. /\ heard' = TRUE /\ to_client' = to_client \ {r}
      /\ last_requested_status' \in {r.status, last_requested_status}
      /\ UNCHANGED <<call, attempts, last_request_id, lists, streams, to_agent, requests,
                     agent_session>>
  BY DEF HearSessionStatus, Listens
<1>2. r.status \in Answers
  BY DEF Inv, Registered, Replies
<1>3. SessionTypeOK'
  BY <1>1, <1>2 DEF Inv, SessionTypeOK, lists
<1>4. Registered'
  BY <1>1 DEF Inv, Registered, lists
<1> QED BY <1>1, <1>3, <1>4, ListsUnchanged DEF Inv

(* A status of its request replaces no refusal, so that an entry and the     *)
(* request it stands beside change together.                                 *)
LEMMA HearStatusKeepsInv ==
    ASSUME Inv, NEW id \in RequestIds, NEW status \in Answers, HearStatus(id, status)
    PROVE  Inv'
<1>1. /\ heard' = TRUE /\ requests[id] = Pending
      /\ requests' = [requests EXCEPT ![id] = status]
      /\ ProcessStatus(id, status) /\ streams' = "used"
      /\ UNCHANGED <<call, attempts, info, request_list, request_status_list_size,
                     to_agent, to_client, agent_session>>
  BY DEF HearStatus, Listens
<1>2. requests \in [RequestIds -> Answers \cup {Unused, Pending}]
  BY DEF Inv, SessionTypeOK
<1>3. /\ status_list' \in [DOMAIN request_list -> Answers \cup {UXR_STATUS_NONE}]
      /\ \A i \in 1..request_status_list_size :
            \/ status_list'[i] = status_list[i]
            \/ request_list[i] = id /\ status_list'[i] = status
  BY <1>1, ProcessStatusWrites DEF Inv
<1>4. SessionTypeOK'
  BY <1>1, <1>2, <1>3 DEF Inv, SessionTypeOK, info
<1>5. Registered'
  BY <1>1 DEF Inv, Registered
<1>6. StatusMatches'
  <2>1. ASSUME NEW i \in 1..request_status_list_size, status_list'[i] \in Refusals
        PROVE  request_list[i] \in RequestIds /\ requests'[request_list[i]] = status_list'[i]
    <3>1. CASE request_list[i] = id /\ status_list'[i] = status
      BY <1>1, <1>2, <3>1
    <3>2. CASE status_list'[i] = status_list[i]
      <4>1. /\ request_list[i] \in RequestIds
            /\ requests[request_list[i]] = status_list[i]
        BY <2>1, <3>2 DEF Inv, StatusMatches
      <4>2. request_list[i] # id
        BY <1>1, <2>1, <3>2, <4>1, Statuses
      <4> QED BY <1>1, <1>2, <3>2, <4>1, <4>2
    <3> QED BY <1>3, <3>1, <3>2
  <2> QED BY <1>1, <2>1 DEF StatusMatches
<1> QED BY <1>4, <1>5, <1>6 DEF Inv

LEMMA HearDataKeepsInv ==
    ASSUME Inv, NEW id \in RequestIds, HearData(id)
    PROVE  Inv'
<1>1. /\ heard' = TRUE /\ ProcessStatus(id, UXR_STATUS_OK) /\ streams' = "used"
      /\ UNCHANGED <<last_request_id, requests>> \/ GenerateRequest
      /\ UNCHANGED <<call, attempts, last_requested_status, request_list,
                     request_status_list_size, to_agent, to_client, agent_session>>
  BY DEF HearData, Listens
<1>2. /\ status_list' \in [DOMAIN request_list -> Answers \cup {UXR_STATUS_NONE}]
      /\ \A i \in 1..request_status_list_size :
            status_list'[i] = status_list[i] \/ status_list'[i] = UXR_STATUS_OK
  <2>1. UXR_STATUS_OK \in Answers
    BY DEF Answers
  <2> QED BY <1>1, <2>1, ProcessStatusWrites DEF Inv
<1>3. /\ last_request_id' \in RequestIds \cup {last_request_id}
      /\ requests' \in [RequestIds -> Answers \cup {Unused, Pending}]
      /\ \A i \in 1..request_status_list_size :
            request_list[i] \in RequestIds
               => requests'[request_list[i]] = requests[request_list[i]]
  <2>1. requests \in [RequestIds -> Answers \cup {Unused, Pending}]
    BY DEF Inv, SessionTypeOK
  <2>2. CASE UNCHANGED <<last_request_id, requests>>
    BY <2>1, <2>2
  <2>3. CASE GenerateRequest
    BY <2>3, GeneratedRequest DEF Inv
  <2> QED BY <1>1, <2>2, <2>3
<1>4. SessionTypeOK'
  BY <1>1, <1>2, <1>3 DEF Inv, SessionTypeOK
<1>5. Registered'
  BY <1>1 DEF Inv, Registered
<1>6. StatusMatches'
  BY <1>1, <1>2, <1>3, Statuses DEF Inv, StatusMatches
<1> QED BY <1>4, <1>5, <1>6 DEF Inv

LEMMA OutsideKeepsInv ==
    ASSUME Inv,
           \/ \E d \in to_agent, status \in Answers : AgentHandles(d, status)
           \/ NetworkLoses
           \/ UNCHANGED vars
    PROVE  Inv'
<1>1. UNCHANGED <<call, heard, attempts, info, lists, streams, requests>>
  BY DEF AgentHandles, NetworkLoses, vars, agent
<1>2. /\ to_agent' \subseteq to_agent
      /\ to_client' \subseteq to_client \cup Replies
      /\ agent_session' \in BOOLEAN
  <2>1. ASSUME NEW d \in to_agent, NEW status \in Answers, AgentHandles(d, status)
        PROVE  /\ to_agent' \subseteq to_agent
               /\ to_client' \subseteq to_client \cup Replies
               /\ agent_session' \in BOOLEAN
    <3>1. Reply(d, status) \in Replies
      BY DEF Inv, Registered, Reply, Replies
    <3> QED BY <2>1, <3>1 DEF AgentHandles, Inv, SessionTypeOK
  <2>2. CASE NetworkLoses
    BY <2>2 DEF NetworkLoses, Inv, SessionTypeOK
  <2>3. CASE UNCHANGED vars
    BY <2>3 DEF vars, agent, Inv, SessionTypeOK
  <2> QED BY <2>1, <2>2, <2>3
<1>3. SessionTypeOK'
  BY <1>1, <1>2 DEF Inv, SessionTypeOK, info, lists
<1>4. Registered'
  BY <1>1, <1>2 DEF Inv, Registered, lists
<1> QED BY <1>1, <1>3, <1>4, ListsUnchanged DEF Inv

LEMMA NextKeepsInv ==
    ASSUME Inv, [Next]_vars
    PROVE  Inv'
  BY WriteRequestKeepsInv, CreateAndDeleteKeepInv, RunsKeepInv, HearSessionStatusKeepsInv,
     HearStatusKeepsInv, HearDataKeepsInv, OutsideKeepsInv DEF Next

THEOREM SessionInvariant == Spec => []Inv
<1>1. Init => Inv
  BY InitInv
<1>2. Inv /\ [Next]_vars => Inv'
  BY NextKeepsInv
<1> QED BY <1>1, <1>2, PTL DEF Spec

(* The lists of statuses are as long as those of the requests, and every     *)
(* identifier handed out is outside the reserved range.                      *)
THEOREM SessionTypeCorrect == Spec => []SessionTypeOK
<1>1. Inv => SessionTypeOK
  BY DEF Inv
<1> QED BY <1>1, SessionInvariant, PTL

(* Whatever the Agent refuses, a status stands beside its own request.       *)
THEOREM RefusalsMatch == Spec => []StatusMatches
<1>1. Inv => StatusMatches
  BY DEF Inv
<1> QED BY <1>1, SessionInvariant, PTL

(* No status is written into the lists of a call that returned.              *)
THEOREM ListsReturned == Spec => ListsUntouched
<1>1. ASSUME Inv, [Next]_vars
      PROVE  [call \notin {"all", "one"} /\ call' \notin {"all", "one"}
                 => UNCHANGED status_list]_vars
  <2> SUFFICES ASSUME call \notin {"all", "one"}, call' \notin {"all", "one"}
               PROVE  UNCHANGED status_list
    OBVIOUS
  <2>1. 1..request_status_list_size = {}
    BY <1>1 DEF Inv, Registered
  <2>2. ASSUME NEW id, NEW status, ProcessStatus(id, status)
        PROVE  UNCHANGED status_list
    BY <2>1, <2>2 DEF ProcessStatus
  <2> QED BY <1>1, <2>2 DEF Next, WriteRequest, CreateSession, DeleteSession, SendAgain,
      GiveUp, GoOnWaiting, EndWait, RunUntilStatus, HearNothing, RunOn, EndRun,
      HearSessionStatus, HearData, HearStatus, AgentHandles, NetworkLoses, lists, vars
<1>2. Inv /\ [Next]_vars
        => [call \notin {"all", "one"} /\ call' \notin {"all", "one"}
               => UNCHANGED status_list]_vars
  BY <1>1
<1> QED BY <1>2, SessionInvariant, PTL DEF Spec, ListsUntouched

(***************************************************************************)
(* The Client and the Agent agree (Quiet).                                 *)
(***************************************************************************)
LEMMA AgreementBegins ==
    ASSUME Init
    PROVE  Agreement
  BY DEF Init, Agreement, OneKind, WaitAgrees, AnswersAgree, ReturnAgrees, OfKind

(* A call begins where nothing is left of an earlier one.                    *)
LEMMA CallsAgree ==
    ASSUME Inv, Agreement, Quiet, NEW which \in {"create", "delete"}, NEW n \in 0..MaxAttempts,
           call = "idle", NothingLate, WaitSessionStatus(which, n), UNCHANGED agent
    PROVE  Agreement'
<1>1. /\ to_agent' = {which} /\ to_client' = {}
      /\ last_requested_status' = UXR_STATUS_NONE
      /\ \/ returned' = [call |-> which, value |-> FALSE] /\ call' = "idle"
         \/ call' = which
  BY DEF NothingLate, WaitSessionStatus, agent
<1>2. OfKind(which)'
  BY <1>1 DEF OfKind
<1>3. UXR_STATUS_NONE # UXR_STATUS_OK
  BY DEF UXR_STATUS_NONE, UXR_STATUS_OK
<1>4. call' \in {"idle", which} /\ (call' = "idle" => ~returned'.value)
  BY <1>1
<1> QED
  BY <1>1, <1>2, <1>3, <1>4 DEF Agreement, OneKind, WaitAgrees, AnswersAgree, ReturnAgrees, OfKind

LEMMA WaitsAgree ==
    ASSUME Agreement, SendAgain \/ GiveUp \/ GoOnWaiting \/ EndWait
    PROVE  Agreement'
<1>1. /\ call \in {"create", "delete"} /\ OfKind(call)
      /\ last_requested_status = UXR_STATUS_OK => Agrees(call)
      /\ UNCHANGED <<last_requested_status, to_client, agent_session>>
      /\ to_agent' \in {to_agent, to_agent \cup {call}}
      /\ \/ call' = call
         \/ /\ call' = "idle" /\ returned'.call = call
            /\ returned'.value => last_requested_status = UXR_STATUS_OK
  <2>1. call \in {"create", "delete"} /\ UNCHANGED <<last_requested_status, to_client, agent_session>>
    BY DEF SendAgain, GiveUp, GoOnWaiting, EndWait, info, agent
  <2> DEFINE Goes == /\ to_agent' \in {to_agent, to_agent \cup {call}}
                    /\ \/ call' = call
                       \/ /\ call' = "idle" /\ returned'.call = call
                          /\ returned'.value => last_requested_status = UXR_STATUS_OK
  <2>2. ASSUME SendAgain PROVE Goes
    BY <2>2 DEF SendAgain
  <2>3. ASSUME GiveUp PROVE Goes
    BY <2>3 DEF GiveUp, Returns
  <2>4. ASSUME GoOnWaiting PROVE Goes
    BY <2>4 DEF GoOnWaiting
  <2>5. ASSUME EndWait PROVE Goes
    BY <2>5 DEF EndWait, Returns
  <2>6. OfKind(call) /\ (last_requested_status = UXR_STATUS_OK => Agrees(call))
    BY <2>1 DEF Agreement, WaitAgrees
  <2> QED
    BY <2>1, <2>2, <2>3, <2>4, <2>5, <2>6
<1>2. \A which : Agrees(which)' = Agrees(which)
  BY <1>1 DEF Agrees
<1>3. to_agent' \subseteq {call} /\ \A r \in to_client' : r.to = call
  BY <1>1 DEF OfKind
<1> QED
  BY <1>1, <1>3 DEF Agreement, OneKind, WaitAgrees, AnswersAgree, ReturnAgrees, OfKind, Agrees

(* Calls that wait for no session status.                                    *)
LEMMA OthersAgree ==
    ASSUME Agreement, UNCHANGED <<last_requested_status, to_agent, to_client, agent_session>>,
           \/ UNCHANGED <<call, returned>>
           \/ /\ call \notin {"create", "delete"} /\ call' \notin {"create", "delete"}
              /\ returned' = returned \/ returned'.call \notin {"create", "delete"}
    PROVE  Agreement'
  BY DEF Agreement, OneKind, WaitAgrees, AnswersAgree, ReturnAgrees, OfKind, Agrees

LEMMA HeardAgrees ==
    ASSUME Inv, Agreement, NEW r \in to_client, HearSessionStatus(r)
    PROVE  Agreement'
<1>1. /\ to_client' = to_client \ {r}
      /\ last_requested_status' \in {r.status, last_requested_status}
      /\ UNCHANGED <<call, returned, to_agent, agent_session>>
  BY DEF HearSessionStatus
<1>2. call \in {"create", "delete"} => r.to = call
  BY DEF Agreement, WaitAgrees, OfKind
<1>3. r.status = UXR_STATUS_OK => Agrees(r.to)
  BY DEF Agreement, AnswersAgree
<1> QED
  BY <1>1, <1>2, <1>3
     DEF Agreement, OneKind, WaitAgrees, AnswersAgree, ReturnAgrees, OfKind, Agrees

(* The Agent undoes nothing, since all it hears is of one kind.              *)
LEMMA HandledAgrees ==
    ASSUME Inv, Agreement, NEW d \in to_agent, NEW status \in Answers, AgentHandles(d, status)
    PROVE  Agreement'
<1>1. /\ to_agent' = to_agent \ {d} /\ to_client' = to_client \cup {Reply(d, status)}
      /\ UNCHANGED <<call, last_requested_status, returned>>
      /\ d \in {"create", "delete"}
      /\ d = "create" => agent_session' = (agent_session \/ status = UXR_STATUS_OK)
      /\ d = "delete" => agent_session' = (agent_session /\ status # UXR_STATUS_OK)
  BY DEF AgentHandles, info
<1>2. agent_session \in BOOLEAN
  BY DEF Inv, SessionTypeOK
<1>3. /\ Reply(d, status).to = d /\ Reply(d, status).status = status
  BY DEF Reply
<1>4. \A which \in {"create", "delete"} : OfKind(which) => which = d /\ OfKind(which)'
  BY <1>1, <1>3 DEF OfKind
<1>5. (Agrees(d) => Agrees(d)') /\ (status = UXR_STATUS_OK => Agrees(d)')
  BY <1>1, <1>2 DEF Agrees
<1>6. OneKind' /\ OfKind(d)
  BY <1>4 DEF Agreement, OneKind
<1>7. WaitAgrees'
  BY <1>1, <1>4, <1>5 DEF Agreement, WaitAgrees, OfKind, Agrees
<1>8. AnswersAgree'
  <2>1. ASSUME NEW r \in to_client', r.status = UXR_STATUS_OK
        PROVE  Agrees(r.to)'
    <3>1. CASE r \in to_client
      BY <1>5, <1>6, <2>1, <3>1 DEF Agreement, AnswersAgree, OfKind
    <3>2. CASE r = Reply(d, status)
      BY <1>3, <1>5, <2>1, <3>2
    <3> QED
      BY <1>1, <3>1, <3>2
  <2> QED
    BY <2>1 DEF AnswersAgree, Agrees
<1>9. ReturnAgrees'
  BY <1>1, <1>4, <1>5 DEF Agreement, ReturnAgrees, OfKind, Agrees
<1> QED
  BY <1>6, <1>7, <1>8, <1>9 DEF Agreement

LEMMA LossAgrees ==
    ASSUME Agreement, NetworkLoses
    PROVE  Agreement'
<1>1. /\ to_agent' \subseteq to_agent /\ to_client' \subseteq to_client
      /\ UNCHANGED <<call, last_requested_status, returned, agent_session>>
  BY DEF NetworkLoses, info
<1> QED
  BY <1>1 DEF Agreement, OneKind, WaitAgrees, AnswersAgree, ReturnAgrees, OfKind, Agrees

LEMMA NextAgrees ==
    ASSUME Inv, Agreement, Quiet, [Next]_vars
    PROVE  Agreement'
<1>1. CASE WriteRequest
  BY <1>1, OthersAgree DEF WriteRequest
<1>2. ASSUME NEW n \in 0..MaxAttempts, CreateSession(n)
      PROVE  Agreement'
  BY <1>2, CallsAgree DEF CreateSession
<1>3. ASSUME NEW n \in 0..MaxAttempts, DeleteSession(n)
      PROVE  Agreement'
  BY <1>3, CallsAgree DEF DeleteSession
<1>4. CASE SendAgain \/ GiveUp \/ GoOnWaiting \/ EndWait
  BY <1>4, WaitsAgree
<1>5. ASSUME NEW which \in {"all", "one"}, NEW list \in Lists, RunUntilStatus(which, list)
      PROVE  Agreement'
  BY <1>5, OthersAgree DEF RunUntilStatus, info, agent
<1>6. CASE HearNothing \/ RunOn
  BY <1>6, OthersAgree DEF HearNothing, RunOn, info, agent
<1>7. CASE EndRun
  BY <1>7, OthersAgree DEF EndRun, Returns, info, agent
<1>8. ASSUME NEW r \in to_client, HearSessionStatus(r)
      PROVE  Agreement'
  BY <1>8, HeardAgrees
<1>9. ASSUME NEW id \in RequestIds, HearData(id) \/ \E s \in Answers : HearStatus(id, s)
      PROVE  Agreement'
  BY <1>9, OthersAgree DEF HearData, HearStatus, info
<1>10. ASSUME NEW d \in to_agent, NEW s \in Answers, AgentHandles(d, s)
       PROVE  Agreement'
  BY <1>10, HandledAgrees
<1>11. CASE NetworkLoses
  BY <1>11, LossAgrees
<1>12. CASE UNCHANGED vars
  BY <1>12, OthersAgree DEF vars, info, agent
<1> QED
  BY <1>1, <1>2, <1>3, <1>4, <1>5, <1>6, <1>7, <1>8, <1>9, <1>10, <1>11, <1>12 DEF Next

(* After every uxr_create_session or uxr_delete_session that returned true   *)
(* the Agent has the session, or has it no more, whatever was lost, sent     *)
(* again or answered late, if no answer to an earlier call is on its way     *)
(* when one is called. Without that it is not so (late_answer).              *)
THEOREM AgentAgrees ==
    ASSUME Quiet
    PROVE  Spec => []SessionAgreed
<1>1. Init => Agreement
  BY AgreementBegins
<1>2. Inv /\ Agreement /\ [Next]_vars => Agreement'
  BY NextAgrees
<1>3. Inv /\ Agreement => SessionAgreed
  BY DEF Inv, SessionTypeOK, Agreement, ReturnAgrees, Agrees, SessionAgreed
<1> QED
  BY <1>1, <1>2, <1>3, SessionInvariant, PTL DEF Spec

(***************************************************************************)
(* The calls with a clock in hand: their inductive invariant.              *)
(***************************************************************************)
Askings == [kind : Calls \cup {"none"}, pc : {"none", "trying", "listening"}, tries : Nat,
            left : Nat, called : Nat, began : Nat, until : Int, poll : Int, sent : BOOLEAN]
AskingTypeOK ==
    /\ asking \in Askings
    /\ (asking.kind = "none") <=> (asking.pc = "none")
    /\ asking.left <= asking.tries
Stamps == [seconds : Int, nanoseconds : Int]
Questions == [kind : {"info", "time", "agents"}, t0 : Stamps]
Replied == [kind : {"time"}, t0 : Stamps, t1 : Stamps, t2 : Stamps]
               \cup [kind : {"info", "agents"}, pong : PongStatus]
NetworkTypeOK == questions \subseteq Questions /\ answers \subseteq Replied
CallsTypeOK ==
    /\ now \in Nat /\ now >= Start /\ skew \in Skews
    /\ AskingTypeOK
    /\ on_pong_flag \in PongStatus /\ on_data_flag \in BOOLEAN /\ synchronized \in BOOLEAN
    /\ time_offset \in Int /\ trip \in Int /\ answered \in BOOLEAN
    /\ result \in [kind : Calls \cup {"none"}, value : BOOLEAN]

(* A call is within its time; one that listens began to in the attempts      *)
(* before this one, and what it listens for is left of its attempt.          *)
Used(a) == (a.tries - a.left) * Allowed(a.kind)
TimeKept ==
    asking.kind # "none" =>
        /\ asking.pc = "trying" /\ asking.kind # "run_time" => now <= asking.called + Used(asking)
        /\ asking.pc = "listening" =>
               /\ asking.began <= now /\ now <= asking.until /\ asking.poll <= Timeout
               /\ asking.left < asking.tries
               /\ asking.kind # "run_time" =>
                      /\ asking.began + Allowed(asking.kind) <= asking.called + Used(asking)
                      /\ asking.until <= asking.began + Allowed(asking.kind)

(* The times of a question and its answer follow one another.                *)
Nanos(stamp) == uxr_convert_to_nanos(stamp)
TimesInOrder ==
    /\ \A q \in questions : q.kind = "time" => Nanos(q.t0) \in Start..now
    /\ \A m \in answers : m.kind = "time" =>
           /\ Nanos(m.t0) \in Int /\ Nanos(m.t1) \in Int /\ Nanos(m.t2) \in Int
           /\ Nanos(m.t0) + skew <= Nanos(m.t1) /\ Nanos(m.t1) <= Nanos(m.t2)
           /\ Nanos(m.t2) <= now + skew

(* A pong under way while a ping asks was sent for it; so was one it met.  *)
PongsAreNew ==
    asking.kind \in {"ping_session", "ping"} =>
        /\ \A m \in answers : m.kind = "info" /\ m.pong # NO_PONG_STATUS => answered
        /\ asking.kind = "ping_session" /\ asking.pc = "listening"
              /\ on_pong_flag # NO_PONG_STATUS => answered

CallsKept ==
    /\ CallsTypeOK /\ NetworkTypeOK /\ TimeKept /\ TimesInOrder /\ PongsAreNew
    /\ PongIsAnswered /\ SyncedWithinTrip

(***************************************************************************)
(* Clocks.                                                                 *)
(***************************************************************************)
LEMMA Constants ==
    /\ Timeout \in Nat /\ Timeout >= 1 /\ Start \in Nat /\ MaxTime \in Nat
    /\ NanosPerSecond \in Nat /\ NanosPerSecond >= 1
    /\ \A s \in Skews : s \in Int /\ s >= -Start
BY AgentCallsAssumption DEF AgentCallsAssumption

(* A time stamp tells the time it was made of.                               *)
LEMMA StampTells ==
    ASSUME NEW x \in Nat
    PROVE  Nanos(Timestamp(x)) = x
<1>1. /\ x \div NanosPerSecond \in Int /\ x % NanosPerSecond \in Int
      /\ x = ((x \div NanosPerSecond) * NanosPerSecond) + (x % NanosPerSecond)
  BY Constants
<1> QED
  BY <1>1 DEF Nanos, Timestamp, uxr_convert_to_nanos

LEMMA HalvedHalves ==
    ASSUME NEW a \in Int
    PROVE  Halved(a) \in Int /\ 2 * Halved(a) - a \in {-1, 0, 1}
BY DEF Halved

(* The offset computed of four times in order is off by half the trip.       *)
LEMMA OffsetIsClose ==
    ASSUME NEW t0 \in Int, NEW t1 \in Int, NEW t2 \in Int, NEW t3 \in Int, NEW s \in Int,
           t0 + s <= t1, t1 <= t2, t2 <= t3 + s
    PROVE  /\ OffsetOf(t0, t1, t2, t3) \in Int
           /\ 2 * (s + OffsetOf(t0, t1, t2, t3)) <= (t3 - t0) + 1
           /\ -(2 * (s + OffsetOf(t0, t1, t2, t3))) <= (t3 - t0) + 1
<1> DEFINE a == (t0 + t3) - (t1 + t2)
<1>1. a \in Int /\ a + 2 * s <= t3 - t0 /\ -(a + 2 * s) <= t3 - t0
  OBVIOUS
<1> HIDE DEF a
<1>2. Halved(a) \in Int /\ 2 * Halved(a) <= a + 1 /\ a - 1 <= 2 * Halved(a)
  BY <1>1, HalvedHalves
<1>3. OffsetOf(t0, t1, t2, t3) = Halved(a)
  BY DEF OffsetOf, a
<1> QED
  BY <1>1, <1>2, <1>3

(* How far the two clocks are apart does not change as time goes on.         *)
Apart(time, ahead, offset) ==
    LET off == (time + ahead) - (time - offset) IN IF off < 0 THEN -off ELSE off
LEMMA ApartAlways ==
    ASSUME NEW t \in Int, NEW u \in Int, NEW s \in Int, NEW o \in Int
    PROVE  Apart(t, s, o) = Apart(u, s, o)
<1>1. (t + s) - (t - o) = (u + s) - (u - o)
  OBVIOUS
<1> QED
  BY <1>1 DEF Apart

(***************************************************************************)
(* What a call was given, and what it may still take.                      *)
(***************************************************************************)
LEMMA Asks ==
    ASSUME NEW kind \in Calls, NEW pc \in {"trying", "listening"}, NEW tries \in Nat,
           NEW left \in Nat, NEW called \in Nat, NEW began \in Nat, NEW until \in Int,
           NEW poll \in Int, NEW sent \in BOOLEAN
    PROVE  [kind |-> kind, pc |-> pc, tries |-> tries, left |-> left, called |-> called,
            began |-> began, until |-> until, poll |-> poll, sent |-> sent] \in Askings
BY DEF Askings

LEMMA AllowedType ==
    ASSUME NEW kind
    PROVE  Allowed(kind) \in Nat /\ Allowed(kind) >= Timeout
BY Constants DEF Allowed

(* One attempt more.                                                         *)
LEMMA OneMore ==
    ASSUME NEW x \in Int, NEW a \in Int
    PROVE  x * a \in Int /\ (x + 1) * a = (x * a) + a
OBVIOUS

LEMMA UsedMore ==
    ASSUME AskingTypeOK, NEW b, b.tries = asking.tries, b.left = asking.left - 1, b.kind = asking.kind
    PROVE  /\ Used(asking) \in Int
           /\ Used(b) = Used(asking) + Allowed(asking.kind)
<1> DEFINE x == asking.tries - asking.left
           a == Allowed(asking.kind)
<1>1. x \in Int /\ b.tries - b.left = x + 1
  BY DEF AskingTypeOK, Askings
<1>2. a \in Int
  BY AllowedType
<1>3. Used(asking) = x * a /\ Used(b) = (x + 1) * a
  BY <1>1 DEF Used
<1> HIDE DEF x, a
<1>4. x * a \in Int /\ (x + 1) * a = (x * a) + a
  BY <1>1, <1>2, OneMore
<1> QED
  BY <1>3, <1>4 DEF a

LEMMA UsedType ==
    ASSUME AskingTypeOK
    PROVE  Used(asking) \in Int
<1>1. asking.tries - asking.left \in Int /\ Allowed(asking.kind) \in Int
  BY AllowedType DEF AskingTypeOK, Askings
<1> QED
  BY <1>1, OneMore DEF Used

(* Used depends on these only.                                               *)
LEMMA UsedSame ==
    ASSUME NEW b, b.tries = asking.tries, b.left = asking.left, b.kind = asking.kind
    PROVE  Used(b) = Used(asking)
BY DEF Used

(***************************************************************************)
(* The steps of a call.                                                    *)
(***************************************************************************)
(* What the kind of step below leaves of the invariant to show.              *)
LEMMA NetworkUntouched ==
    ASSUME CallsKept, UNCHANGED <<now, skew>>, questions' = questions, answers' \subseteq answers
    PROVE  NetworkTypeOK' /\ TimesInOrder'
<1>1. NetworkTypeOK'
  BY DEF CallsKept, NetworkTypeOK
<1> QED
  BY <1>1 DEF CallsKept, TimesInOrder, Nanos, uxr_convert_to_nanos

LEMMA CallStays ==
    ASSUME CallsKept, NEW kind \in Calls, NEW n \in 0..MaxTries, Call(kind, n)
    PROVE  CallsKept'
<1>1. /\ asking' = [kind |-> kind, pc |-> "trying", tries |-> n, left |-> n, called |-> now,
                    began |-> 0, until |-> 0, poll |-> 0, sent |-> FALSE]
      /\ asking'.kind = kind /\ asking'.pc = "trying" /\ asking'.tries = n /\ asking'.left = n
      /\ asking'.called = now
  BY DEF Call, None
<1>2. now \in Nat /\ n \in Nat
  BY AgentCallsAssumption DEF CallsKept, CallsTypeOK, AgentCallsAssumption
<1>3. CallsTypeOK'
  <2>1. AskingTypeOK'
    <3>1. kind # "none"
      BY DEF Calls, Asking, Running
    <3> QED
      BY <1>1, <1>2, <3>1 DEF AskingTypeOK, Askings
  <2> QED
    BY <2>1 DEF CallsKept, CallsTypeOK, Call, in_session
<1>4. TimeKept'
  <2>1. Used(asking') = 0
    <3>1. Allowed(asking'.kind) \in Nat
      BY AllowedType
    <3> QED
      BY <1>1, <1>2, <3>1 DEF Used
  <2> QED
    BY <1>1, <1>2, <2>1 DEF TimeKept, Call
<1>5. NetworkTypeOK' /\ TimesInOrder'
  BY NetworkUntouched DEF Call
<1>6. PongsAreNew'
  <2>1. kind \in {"ping_session", "ping"} => NoInfoLate
    BY DEF Call, QuestionOf, Running
  <2> QED
    BY <1>1, <2>1 DEF PongsAreNew, Call, NoInfoLate
<1>7. PongIsAnswered'
  BY <1>1 DEF PongIsAnswered, Calls, Asking, Running
<1>8. SyncedWithinTrip'
  BY DEF CallsKept, SyncedWithinTrip, Call, in_session, uxr_epoch_nanos, uxr_nanos
<1> QED
  BY <1>3, <1>4, <1>5, <1>6, <1>7, <1>8 DEF CallsKept

LEMMA NoTriesLeftStays ==
    ASSUME CallsKept, NoTriesLeft
    PROVE  CallsKept'
<1>1. PICK value \in BOOLEAN :
        /\ asking.kind \notin {"run_time", "run_timeout"} => value = FALSE
        /\ Ends(value)
  BY DEF NoTriesLeft
<1>2. /\ asking' = None /\ asking'.kind = "none" /\ asking'.pc = "none"
      /\ asking'.left = 0 /\ asking'.tries = 0
      /\ result' = [kind |-> asking.kind, value |-> value]
      /\ UNCHANGED <<now, on_pong_flag, on_data_flag, synchronized, time_offset, trip>>
      /\ UNCHANGED <<questions, answers, skew, answered>>
  BY <1>1 DEF NoTriesLeft, Ends, None, in_session, network
<1>3. CallsTypeOK'
  <2>1. AskingTypeOK'
    BY <1>2 DEF AskingTypeOK, Askings, None
  <2> QED
    BY <1>2, <2>1 DEF CallsKept, CallsTypeOK, AskingTypeOK, Askings
<1>4. TimeKept' /\ PongsAreNew'
  BY <1>2 DEF TimeKept, PongsAreNew
<1>5. NetworkTypeOK' /\ TimesInOrder'
  BY <1>2, NetworkUntouched
<1>6. PongIsAnswered'
  BY <1>1, <1>2 DEF PongIsAnswered
<1>7. SyncedWithinTrip'
  BY <1>2 DEF CallsKept, SyncedWithinTrip, uxr_epoch_nanos, uxr_nanos
<1> QED
  BY <1>3, <1>4, <1>5, <1>6, <1>7 DEF CallsKept

(* An attempt begins, of a call that asks or of one that only listens.       *)
LEMMA Attempts ==
    ASSUME CallsKept, UNCHANGED now, asking.pc = "trying", asking.left > 0, NEW sent \in BOOLEAN,
           asking' = [StartsListening EXCEPT !.sent = sent]
    PROVE  /\ AskingTypeOK' /\ TimeKept'
           /\ asking'.kind = asking.kind /\ asking'.pc = "listening" /\ asking.kind # "none"
<1>1. /\ asking' = [kind |-> asking.kind, pc |-> "listening", tries |-> asking.tries,
                    left |-> asking.left - 1, called |-> asking.called, began |-> now,
                    until |-> now + Timeout, poll |-> Timeout, sent |-> sent]
      /\ asking.kind # "none" /\ now \in Nat
  BY DEF CallsKept, CallsTypeOK, AskingTypeOK, Askings, StartsListening
<1>2. /\ Timeout \in Nat /\ asking.left \in Nat /\ asking.tries \in Nat /\ asking.called \in Nat
      /\ asking.left - 1 \in Nat /\ asking.kind \in Calls /\ asking.left <= asking.tries
  BY Constants DEF CallsKept, CallsTypeOK, AskingTypeOK, Askings
<1>3. AskingTypeOK'
  <2>1. asking' \in Askings
    <3>1. now \in Nat /\ now + Timeout \in Int /\ Timeout \in Int /\ "listening" \in {"trying", "listening"}
      BY <1>1, <1>2
    <3>2. [kind |-> asking.kind, pc |-> "listening", tries |-> asking.tries,
           left |-> asking.left - 1, called |-> asking.called, began |-> now,
           until |-> now + Timeout, poll |-> Timeout, sent |-> sent] \in Askings
      BY <1>2, <3>1, Asks, Zenon
    <3> QED
      BY <1>1, <3>2, Zenon
  <2> QED
    BY <1>1, <1>2, <2>1 DEF AskingTypeOK, Askings
<1>8. asking'.tries = asking.tries /\ asking'.left = asking.left - 1 /\ asking'.kind = asking.kind
  BY <1>1
<1>4. /\ Used(asking) \in Int
      /\ Used(asking') = Used(asking) + Allowed(asking.kind)
  BY <1>8, UsedMore DEF CallsKept, CallsTypeOK
<1>5. Allowed(asking.kind) \in Nat /\ Allowed(asking.kind) >= Timeout
  BY AllowedType
<1>6. asking.kind # "run_time" => now <= asking.called + Used(asking)
  BY <1>1 DEF CallsKept, TimeKept
<1>7. TimeKept'
  BY <1>1, <1>2, <1>4, <1>5, <1>6 DEF TimeKept
<1> QED
  BY <1>1, <1>3, <1>7

LEMMA StampOfQuestion ==
    ASSUME CallsTypeOK, NEW kind \in Calls, Question(kind).kind = "time"
    PROVE  Nanos(Question(kind).t0) = now
<1>1. now \in Nat
  BY DEF CallsTypeOK
<1>2. kind = "sync"
  BY DEF Question, QuestionOf, Calls, Asking, Running
<1> QED
  BY <1>1, <1>2, StampTells DEF Question, uxr_nanos

LEMMA TryStays ==
    ASSUME CallsKept, Try
    PROVE  CallsKept'
<1>1. PICK sent \in BOOLEAN :
        /\ questions' = IF sent THEN questions \cup {Question(asking.kind)} ELSE questions
        /\ asking' = [StartsListening EXCEPT !.sent = sent]
  BY DEF Try
<1>2. /\ asking.pc = "trying" /\ asking.left > 0
      /\ on_pong_flag' = FlagReset(asking.kind)
      /\ synchronized' = (synchronized /\ asking.kind # "sync")
      /\ UNCHANGED <<now, on_data_flag, time_offset, trip, result, answers, skew, answered>>
  BY DEF Try
<1>3. /\ AskingTypeOK' /\ TimeKept'
      /\ asking'.kind = asking.kind /\ asking'.pc = "listening" /\ asking.kind # "none"
  BY <1>1, <1>2, Attempts
<1>4. CallsTypeOK'
  BY <1>2, <1>3 DEF CallsKept, CallsTypeOK, FlagReset, PongStatus
<1>5. NetworkTypeOK' /\ TimesInOrder'
  <2>1. now \in Start..now
    BY Constants DEF CallsKept, CallsTypeOK
  <2>2. ASSUME NEW q \in questions', q.kind = "time"
        PROVE  Nanos(q.t0) \in Start..now
    <3>1. q \in questions \/ q = Question(asking.kind)
      BY <1>1
    <3>2. asking.kind \in Calls
      BY <1>3 DEF CallsKept, CallsTypeOK, AskingTypeOK, Askings
    <3> QED
      BY <2>1, <2>2, <3>1, <3>2, StampOfQuestion DEF CallsKept, TimesInOrder
  <2>3. NetworkTypeOK'
    <3>1. Timestamp(0) \in Stamps /\ Timestamp(uxr_nanos) \in Stamps
      BY Constants DEF Timestamp, Stamps, uxr_nanos, CallsKept, CallsTypeOK
    <3>2. asking.kind \in Asking => QuestionOf(asking.kind) \in {"info", "time", "agents"}
      BY DEF QuestionOf, Asking, Running
    <3>3. asking.kind \in Asking
      BY DEF Try
    <3>4. Question(asking.kind) \in Questions
      BY <3>1, <3>2, <3>3 DEF Question, Questions
    <3> QED
      BY <1>1, <1>2, <3>4 DEF CallsKept, NetworkTypeOK
  <2> QED
    BY <1>2, <2>2, <2>3 DEF CallsKept, TimesInOrder, Nanos, uxr_convert_to_nanos
<1>6. PongsAreNew' /\ PongIsAnswered'
  BY <1>2, <1>3 DEF CallsKept, PongsAreNew, PongIsAnswered, FlagReset
<1>7. SyncedWithinTrip'
  BY <1>2 DEF CallsKept, SyncedWithinTrip, uxr_epoch_nanos, uxr_nanos
<1> QED
  BY <1>4, <1>3, <1>5, <1>6, <1>7 DEF CallsKept

LEMMA RunStays ==
    ASSUME CallsKept, Run
    PROVE  CallsKept'
<1>1. /\ asking.pc = "trying" /\ asking.left > 0 /\ asking.kind \in Running
      /\ asking' = StartsListening
      /\ on_data_flag' = (on_data_flag /\ asking.kind # "until_data")
      /\ UNCHANGED <<now, on_pong_flag, synchronized, time_offset, trip, result>>
      /\ UNCHANGED <<questions, answers, skew, answered>>
  BY DEF Run, network
<1>2. /\ asking.sent \in BOOLEAN
      /\ asking' = [StartsListening EXCEPT !.sent = asking.sent]
  BY <1>1 DEF CallsKept, CallsTypeOK, AskingTypeOK, Askings, StartsListening
<1>3. /\ AskingTypeOK' /\ TimeKept'
      /\ asking'.kind = asking.kind /\ asking'.pc = "listening" /\ asking.kind # "none"
  BY <1>1, <1>2, Attempts
<1>4. CallsTypeOK'
  BY <1>1, <1>3 DEF CallsKept, CallsTypeOK
<1>5. NetworkTypeOK' /\ TimesInOrder'
  BY <1>1, NetworkUntouched
<1>6. PongsAreNew' /\ PongIsAnswered'
  BY <1>1, <1>3 DEF CallsKept, PongsAreNew, PongIsAnswered, Running
<1>7. SyncedWithinTrip'
  BY <1>1 DEF CallsKept, SyncedWithinTrip, uxr_epoch_nanos, uxr_nanos
<1> QED
  BY <1>4, <1>3, <1>5, <1>6, <1>7 DEF CallsKept

(* What is left of an attempt when it listens again.                         *)
LEMMA NextFits ==
    ASSUME CallsKept, Listening, NEW next, next = NextListen(asking.kind, now - asking.began)
    PROVE  /\ next \in Int /\ next <= Timeout
           /\ asking.kind # "run_time" /\ next > 0 => now + next <= asking.began + Allowed(asking.kind)
<1>1. /\ asking.kind \in Calls /\ asking.began \in Nat /\ asking.poll \in Int /\ asking.until \in Int
      /\ now \in Nat /\ asking.began <= now /\ now <= asking.until /\ asking.poll <= Timeout
      /\ Timeout \in Nat /\ Timeout >= 1
  BY Constants DEF CallsKept, CallsTypeOK, AskingTypeOK, Askings, TimeKept, Listening
<1> DEFINE kind == asking.kind
           elapsed == now - asking.began
<1>2. elapsed \in Nat
  BY <1>1
<1>3. CASE kind \in OfSession \ {"run_time", "until_timeout"}
  <2>1. next = Timeout - elapsed /\ kind # "ping"
    BY <1>3 DEF NextListen, OfSession, Running
  <2> QED
    BY <1>1, <1>2, <2>1 DEF Allowed
<1>4. CASE kind = "run_time"
  <2>1. next \in {Timeout, 0}
    BY <1>4 DEF NextListen, OfSession, Running
  <2> QED
    BY <1>1, <1>4, <2>1
<1>5. CASE kind = "until_timeout"
  <2>1. next = 0
    BY <1>5 DEF NextListen, OfSession, Running
  <2> QED
    BY <1>1, <2>1
<1>6. CASE kind = "ping"
  <2>1. next = IF elapsed < Timeout THEN Timeout ELSE 0
    BY <1>6 DEF NextListen, OfSession, Running
  <2> QED
    BY <1>1, <1>2, <1>6, <2>1 DEF Allowed
<1>7. CASE kind = "discovery"
  <2>1. next = asking.poll - elapsed
    BY <1>7 DEF NextListen, OfSession, Running
  <2> QED
    BY <1>1, <1>2, <1>7, <2>1 DEF Allowed
<1> QED
  BY <1>1, <1>3, <1>4, <1>5, <1>6, <1>7 DEF Calls, Asking, Running, OfSession

(* A call that ends, with what it met.                                     *)
LEMMA EndsWell ==
    ASSUME CallsKept, NEW value \in BOOLEAN, Ends(value), UNCHANGED <<now, answered>>,
           value /\ asking.kind \in {"ping_session", "ping"} => answered
    PROVE  /\ AskingTypeOK' /\ TimeKept' /\ PongIsAnswered' /\ asking'.kind = "none"
           /\ result' \in [kind : Calls \cup {"none"}, value : BOOLEAN]
<1>1. /\ asking' = None /\ asking'.kind = "none" /\ asking'.pc = "none"
      /\ asking'.left = 0 /\ asking'.tries = 0
      /\ result' = [kind |-> asking.kind, value |-> value]
  BY DEF Ends, None
<1>2. AskingTypeOK'
  BY <1>1 DEF AskingTypeOK, Askings, None
<1>3. asking.kind \in Calls \cup {"none"}
  BY DEF CallsKept, CallsTypeOK, AskingTypeOK, Askings
<1> QED
  BY <1>1, <1>2, <1>3 DEF TimeKept, PongIsAnswered

LEMMA ListenEnds ==
    ASSUME CallsKept, NEW met \in BOOLEAN, Listening, AfterListen(met),
           UNCHANGED <<now, answered>>, on_pong_flag' \in PongStatus,
           asking.kind = "ping_session" /\ on_pong_flag' # NO_PONG_STATUS => answered,
           asking.kind = "ping" /\ met => answered
    PROVE  /\ AskingTypeOK' /\ TimeKept' /\ PongIsAnswered'
           /\ asking'.kind \in {asking.kind, "none"}
           /\ result' \in [kind : Calls \cup {"none"}, value : BOOLEAN]
<1> DEFINE next == NextListen(asking.kind, now - asking.began)
<1>1. /\ asking.kind \in Calls /\ asking.kind # "none" /\ asking.pc = "listening"
      /\ asking \in Askings
      /\ asking.left <= asking.tries /\ asking.left \in Nat /\ asking.tries \in Nat
      /\ asking.called \in Nat /\ asking.began \in Nat /\ asking.until \in Int /\ now \in Nat
      /\ result \in [kind : Calls \cup {"none"}, value : BOOLEAN]
  BY DEF CallsKept, CallsTypeOK, AskingTypeOK, Askings, Listening
<1>2. /\ asking.began <= now /\ now <= asking.until /\ asking.left < asking.tries
      /\ asking.kind # "run_time" =>
             /\ asking.began + Allowed(asking.kind) <= asking.called + Used(asking)
             /\ asking.until <= asking.began + Allowed(asking.kind)
  BY <1>1 DEF CallsKept, TimeKept
<1>3. Used(asking) \in Int /\ Allowed(asking.kind) \in Nat
  BY UsedType, AllowedType DEF CallsKept, CallsTypeOK
<1>4. CASE Success(met)
  <2>1. Ends(TRUE)
    BY <1>4 DEF AfterListen
  <2>2. asking.kind \in {"ping_session", "ping"} => answered
    BY <1>4 DEF Success, Satisfied, NO_PONG_STATUS, PONG_IN_SESSION_STATUS
  <2> QED
    BY <2>1, <2>2, EndsWell
<1>5. CASE ~Success(met) /\ (Satisfied(met) \/ next <= 0)
  <2>1. /\ asking' = [asking EXCEPT !.pc = "trying"] /\ result' = result
        /\ asking'.kind = asking.kind /\ asking'.pc = "trying" /\ asking'.left = asking.left
        /\ asking'.tries = asking.tries /\ asking'.called = asking.called
    BY <1>1, <1>5 DEF AfterListen, Askings
  <2>2. asking' \in Askings
    BY <1>1, <2>1 DEF Askings
  <2>3. Used(asking') = Used(asking)
    BY <2>1, UsedSame
  <2>4. AskingTypeOK'
    BY <1>1, <2>1, <2>2 DEF AskingTypeOK
  <2>5. TimeKept'
    BY <1>1, <1>2, <1>3, <2>1, <2>3 DEF TimeKept
  <2> QED
    BY <1>1, <2>1, <2>4, <2>5 DEF PongIsAnswered
<1>6. CASE ~Success(met) /\ ~(Satisfied(met) \/ next <= 0)
  <2>1. /\ next \in Int /\ next <= Timeout
        /\ asking.kind # "run_time" /\ next > 0 => now + next <= asking.began + Allowed(asking.kind)
    BY NextFits
  <2>2. asking' = [asking EXCEPT !.poll = next, !.until = now + next] /\ result' = result /\ next > 0
    BY <1>6, <2>1 DEF AfterListen
  <2> HIDE DEF next
  <2>3. /\ asking'.kind = asking.kind /\ asking'.pc = "listening" /\ asking'.left = asking.left
        /\ asking'.tries = asking.tries /\ asking'.called = asking.called
        /\ asking'.began = asking.began /\ asking'.poll = next /\ asking'.until = now + next
    BY <1>1, <2>2 DEF Askings
  <2>4. asking' \in Askings
    <3>1. now + next \in Int
      BY <1>1, <2>1
    <3> QED
      BY <1>1, <2>1, <2>2, <3>1 DEF Askings
  <2>5. Used(asking') = Used(asking)
    BY <2>3, UsedSame
  <2>6. AskingTypeOK'
    BY <1>1, <2>3, <2>4 DEF AskingTypeOK
  <2>7. TimeKept'
    BY <1>1, <1>2, <1>3, <2>1, <2>2, <2>3, <2>5, Constants DEF TimeKept
  <2> QED
    BY <1>1, <2>2, <2>3, <2>6, <2>7 DEF PongIsAnswered
<1> QED
  BY <1>4, <1>5, <1>6

(* A listen that changes neither the session's pong nor its synchronization. *)
LEMMA HeardStays ==
    ASSUME CallsKept, NEW met \in BOOLEAN, Listening, AfterListen(met),
           UNCHANGED <<now, skew, answered, questions>>, answers' \subseteq answers,
           UNCHANGED <<on_pong_flag, synchronized, time_offset, trip>>, on_data_flag' \in BOOLEAN,
           asking.kind = "ping" /\ met => answered
    PROVE  CallsKept'
<1>1. asking.kind = "ping_session" /\ on_pong_flag' # NO_PONG_STATUS => answered
  BY DEF CallsKept, PongsAreNew, Listening
<1>2. on_pong_flag' \in PongStatus
  BY DEF CallsKept, CallsTypeOK
<1>3. /\ AskingTypeOK' /\ TimeKept' /\ PongIsAnswered'
      /\ asking'.kind \in {asking.kind, "none"}
      /\ result' \in [kind : Calls \cup {"none"}, value : BOOLEAN]
  BY <1>1, <1>2, ListenEnds
<1>4. CallsTypeOK'
  BY <1>3 DEF CallsKept, CallsTypeOK
<1>5. NetworkTypeOK' /\ TimesInOrder'
  BY NetworkUntouched
<1>6. PongsAreNew'
  <2>1. asking'.kind \in {"ping_session", "ping"} => asking.kind \in {"ping_session", "ping"} /\ asking'.kind = asking.kind
    BY <1>3
  <2> QED
    BY <1>1, <2>1 DEF CallsKept, PongsAreNew
<1>7. SyncedWithinTrip'
  BY DEF CallsKept, SyncedWithinTrip, uxr_epoch_nanos, uxr_nanos
<1> QED
  BY <1>3, <1>4, <1>5, <1>6, <1>7 DEF CallsKept

LEMMA HearsNothingStays ==
    ASSUME CallsKept, HearsNothing \/ HearsOther \/ HearsData
    PROVE  CallsKept'
<1>1. /\ Listening /\ AfterListen(FALSE)
      /\ UNCHANGED <<now, skew, answered, questions, answers>>
      /\ UNCHANGED <<on_pong_flag, synchronized, time_offset, trip>>
      /\ on_data_flag' \in {on_data_flag, TRUE}
  BY DEF HearsNothing, HearsOther, HearsData, in_session, network
<1>2. on_data_flag' \in BOOLEAN
  BY <1>1 DEF CallsKept, CallsTypeOK
<1> QED
  BY <1>1, <1>2, HeardStays

LEMMA HearsAgentStays ==
    ASSUME CallsKept, NEW m \in answers, HearsAgent(m)
    PROVE  CallsKept'
<1>1. /\ asking.kind = "discovery" /\ Listening
      /\ UNCHANGED <<now, skew, answered, questions>> /\ answers' \subseteq answers
      /\ UNCHANGED <<on_pong_flag, on_data_flag, synchronized, time_offset, trip>>
  BY DEF HearsAgent, Taking, in_session
<1>2. PICK found \in BOOLEAN : AfterListen(found)
  BY DEF HearsAgent
<1>3. on_data_flag' \in BOOLEAN
  BY <1>1 DEF CallsKept, CallsTypeOK
<1> QED
  BY <1>1, <1>2, <1>3, HeardStays

LEMMA HearsInfoStays ==
    ASSUME CallsKept, NEW m \in answers, HearsInfo(m)
    PROVE  CallsKept'
<1>1. /\ m.kind = "info" /\ Listening
      /\ UNCHANGED <<now, skew, answered, questions>> /\ answers' \subseteq answers
      /\ on_pong_flag' = IF asking.kind = "ping" THEN on_pong_flag ELSE m.pong
      /\ UNCHANGED <<on_data_flag, synchronized, time_offset, trip>>
      /\ AfterListen(m.pong # NO_PONG_STATUS)
  BY DEF HearsInfo, Taking
<1>2. asking.kind \in {"ping_session", "ping"} /\ m.pong # NO_PONG_STATUS => answered
  BY <1>1 DEF CallsKept, PongsAreNew
<1>3. on_pong_flag' \in PongStatus
  <2>1. m.pong \in PongStatus
    BY <1>1 DEF CallsKept, NetworkTypeOK, Replied
  <2> QED
    BY <1>1, <2>1 DEF CallsKept, CallsTypeOK
<1>4. (m.pong # NO_PONG_STATUS) \in BOOLEAN
  OBVIOUS
<1>5. /\ AskingTypeOK' /\ TimeKept' /\ PongIsAnswered'
      /\ asking'.kind \in {asking.kind, "none"}
      /\ result' \in [kind : Calls \cup {"none"}, value : BOOLEAN]
  <2> DEFINE met == m.pong # NO_PONG_STATUS
  <2>1. /\ met \in BOOLEAN /\ AfterListen(met)
        /\ asking.kind = "ping_session" /\ on_pong_flag' # NO_PONG_STATUS => answered
        /\ asking.kind = "ping" /\ met => answered
    BY <1>1, <1>2
  <2> HIDE DEF met
  <2> QED
    BY <1>1, <1>3, <2>1, ListenEnds
<1>6. CallsTypeOK'
  BY <1>1, <1>3, <1>5 DEF CallsKept, CallsTypeOK
<1>7. NetworkTypeOK' /\ TimesInOrder'
  BY <1>1, NetworkUntouched
<1>8. PongsAreNew'
  <2>1. asking'.kind \in {"ping_session", "ping"} => asking.kind \in {"ping_session", "ping"} /\ asking'.kind = asking.kind
    BY <1>5
  <2> QED
    BY <1>1, <1>2, <2>1 DEF CallsKept, PongsAreNew
<1>9. SyncedWithinTrip'
  BY <1>1 DEF CallsKept, SyncedWithinTrip, uxr_epoch_nanos, uxr_nanos
<1> QED
  BY <1>5, <1>6, <1>7, <1>8, <1>9 DEF CallsKept

LEMMA HearsTimeStays ==
    ASSUME CallsKept, NEW m \in answers, HearsTime(m)
    PROVE  CallsKept'
<1>1. CASE asking.kind = "ping"
  <2>1. /\ Listening /\ AfterListen(FALSE)
        /\ UNCHANGED <<now, skew, answered, questions>> /\ answers' \subseteq answers
        /\ UNCHANGED <<on_pong_flag, on_data_flag, synchronized, time_offset, trip>>
    BY <1>1 DEF HearsTime, Taking
  <2>2. on_data_flag' \in BOOLEAN
    BY <2>1 DEF CallsKept, CallsTypeOK
  <2> QED
    BY <2>1, <2>2, HeardStays
<1>2. CASE asking.kind # "ping"
  <2> DEFINE t0 == Nanos(m.t0)
             t1 == Nanos(m.t1)
             t2 == Nanos(m.t2)
  <2>1. /\ m.kind = "time" /\ Listening /\ AfterListen(FALSE)
        /\ UNCHANGED <<now, skew, answered, questions>> /\ answers' \subseteq answers
        /\ UNCHANGED <<on_pong_flag, on_data_flag>>
        /\ time_offset' = OffsetOf(t0, t1, t2, now) /\ synchronized' = TRUE /\ trip' = now - t0
    BY <1>2 DEF HearsTime, Taking, Nanos, uxr_nanos
  <2>2. /\ t0 \in Int /\ t1 \in Int /\ t2 \in Int
        /\ t0 + skew <= t1 /\ t1 <= t2 /\ t2 <= now + skew
    BY <2>1 DEF CallsKept, TimesInOrder
  <2>3. now \in Int /\ skew \in Int
    BY Constants DEF CallsKept, CallsTypeOK
  <2> HIDE DEF t0, t1, t2
  <2>4. /\ time_offset' \in Int
        /\ 2 * (skew + time_offset') <= trip' + 1 /\ -(2 * (skew + time_offset')) <= trip' + 1
    BY <2>1, <2>2, <2>3, OffsetIsClose
  <2>5. /\ on_pong_flag' \in PongStatus
        /\ asking.kind = "ping_session" /\ on_pong_flag' # NO_PONG_STATUS => answered
    BY <2>1 DEF CallsKept, CallsTypeOK, PongsAreNew, Listening
  <2>6. /\ AskingTypeOK' /\ TimeKept' /\ PongIsAnswered'
        /\ asking'.kind \in {asking.kind, "none"}
        /\ result' \in [kind : Calls \cup {"none"}, value : BOOLEAN]
    BY <2>1, <2>5, ListenEnds
  <2>7. CallsTypeOK'
    BY <2>1, <2>2, <2>3, <2>4, <2>5, <2>6 DEF CallsKept, CallsTypeOK
  <2>8. NetworkTypeOK' /\ TimesInOrder'
    BY <2>1, NetworkUntouched
  <2>9. PongsAreNew'
    <3>1. asking'.kind \in {"ping_session", "ping"} => asking.kind \in {"ping_session", "ping"} /\ asking'.kind = asking.kind
      BY <2>6
    <3> QED
      BY <2>1, <2>5, <3>1 DEF CallsKept, PongsAreNew
  <2>10. SyncedWithinTrip'
    <3>1. trip' \in Int
      BY <2>1, <2>2, <2>3
    <3> QED
      BY <2>1, <2>3, <2>4, <3>1 DEF SyncedWithinTrip, uxr_epoch_nanos, uxr_nanos
  <2> QED
    BY <2>6, <2>7, <2>8, <2>9, <2>10 DEF CallsKept
<1> QED
  BY <1>1, <1>2

(***************************************************************************)
(* The steps of the clock, the Agent and the network.                      *)
(***************************************************************************)
(* What the calls know is left alone, but for the clock going on.            *)
LEMMA CallsUntouched ==
    ASSUME CallsKept, UNCHANGED <<asking, on_pong_flag, on_data_flag, synchronized, time_offset>>,
           UNCHANGED <<trip, result, skew>>, now' \in Nat, now <= now', answered' \in BOOLEAN,
           answered => answered'
    PROVE  CallsTypeOK' /\ PongIsAnswered' /\ SyncedWithinTrip'
<1>1. now \in Nat /\ skew \in Int /\ time_offset \in Int /\ trip \in Int /\ Start \in Nat /\ now >= Start
  BY Constants DEF CallsKept, CallsTypeOK
<1>2. CallsTypeOK'
  BY <1>1 DEF CallsKept, CallsTypeOK, AskingTypeOK
<1>3. PongIsAnswered'
  BY DEF CallsKept, PongIsAnswered
<1>4. SyncedWithinTrip'
  <2>1. Apart(now, skew, time_offset) = Apart(now', skew, time_offset)
    BY <1>1, ApartAlways
  <2> QED
    BY <2>1 DEF CallsKept, SyncedWithinTrip, Apart, uxr_epoch_nanos, uxr_nanos
<1> QED
  BY <1>2, <1>3, <1>4

LEMMA TickStays ==
    ASSUME CallsKept, Tick
    PROVE  CallsKept'
<1>1. /\ asking.pc # "trying" /\ now' = now + 1
      /\ asking.pc = "listening" => now < asking.until
      /\ UNCHANGED <<asking, on_pong_flag, on_data_flag, synchronized, time_offset, trip, result>>
      /\ UNCHANGED <<questions, answers, skew, answered>>
  BY DEF Tick, Listening, in_session, network
<1>2. /\ now \in Nat /\ answered \in BOOLEAN /\ skew \in Int /\ asking.until \in Int
      /\ asking.began \in Nat /\ Start \in Nat
  BY Constants DEF CallsKept, CallsTypeOK, AskingTypeOK, Askings
<1>3. CallsTypeOK' /\ PongIsAnswered' /\ SyncedWithinTrip'
  BY <1>1, <1>2, CallsUntouched
<1>4. NetworkTypeOK' /\ PongsAreNew'
  BY <1>1 DEF CallsKept, NetworkTypeOK, PongsAreNew
<1>5. TimeKept'
  <2>1. Used(asking') = Used(asking)
    BY <1>1 DEF Used
  <2> QED
    BY <1>1, <1>2, <2>1 DEF CallsKept, TimeKept
<1>6. TimesInOrder'
  BY <1>1, <1>2 DEF CallsKept, TimesInOrder, Nanos, uxr_convert_to_nanos
<1> QED
  BY <1>3, <1>4, <1>5, <1>6 DEF CallsKept

(* An answer says when its question was received and that it was now sent.   *)
LEMMA AnswerInOrder ==
    ASSUME CallsKept, NEW q \in questions, NEW m \in AnswersTo(q)
    PROVE  /\ m \in Replied /\ m.kind = q.kind
           /\ m.kind = "time" =>
                  /\ Nanos(m.t0) \in Int /\ Nanos(m.t1) \in Int /\ Nanos(m.t2) \in Int
                  /\ Nanos(m.t0) + skew <= Nanos(m.t1) /\ Nanos(m.t1) <= Nanos(m.t2)
                  /\ Nanos(m.t2) <= now + skew
<1>1. q \in Questions /\ now \in Nat /\ now >= Start /\ Start \in Nat /\ skew \in Int /\ skew >= -Start
  BY Constants DEF CallsKept, CallsTypeOK, NetworkTypeOK
<1>2. CASE q.kind = "time"
  <2>1. Nanos(q.t0) \in Start..now
    BY <1>2 DEF CallsKept, TimesInOrder
  <2>2. PICK t1 \in Received(q) :
          m = [kind |-> "time", t0 |-> q.t0, t1 |-> Timestamp(t1), t2 |-> Timestamp(now + skew)]
    BY <1>2 DEF AnswersTo
  <2>3. /\ t1 \in Nat /\ now + skew \in Nat
        /\ Nanos(q.t0) + skew <= t1 /\ t1 <= now + skew
    BY <1>1, <2>1, <2>2 DEF Received, Nanos
  <2>4. m.kind = "time" /\ m.t0 = q.t0 /\ m.t1 = Timestamp(t1) /\ m.t2 = Timestamp(now + skew)
    BY <2>2
  <2>5. Nanos(m.t1) = t1 /\ Nanos(m.t2) = now + skew
    BY <2>3, <2>4, StampTells
  <2>6. m \in Replied
    <3>1. q.t0 \in Stamps
      BY <1>1 DEF Questions
    <3>2. Timestamp(t1) \in Stamps /\ Timestamp(now + skew) \in Stamps
      BY <2>3, Constants DEF Timestamp, Stamps
    <3> QED
      BY <2>2, <3>1, <3>2 DEF Replied
  <2> QED
    BY <1>1, <1>2, <2>1, <2>3, <2>4, <2>5, <2>6
<1>3. CASE q.kind # "time"
  <2>1. PICK pong \in PongStatus : m = [kind |-> q.kind, pong |-> pong]
    BY <1>3 DEF AnswersTo
  <2>2. q.kind \in {"info", "agents"}
    BY <1>1, <1>3 DEF Questions
  <2> QED
    BY <1>3, <2>1, <2>2 DEF Replied
<1> QED
  BY <1>2, <1>3

LEMMA AgentAnswersCallStays ==
    ASSUME CallsKept, AgentAnswersCall
    PROVE  CallsKept'
<1>0. PICK q \in questions : \E m \in AnswersTo(q) :
        /\ answers' = answers \cup {m}
        /\ questions' \in {questions \ {q}, questions}
        /\ answered' = (answered \/ (q.kind = "info" /\ m.pong # NO_PONG_STATUS))
  BY DEF AgentAnswersCall
<1>1. PICK m \in AnswersTo(q) :
        /\ answers' = answers \cup {m}
        /\ questions' \in {questions \ {q}, questions}
        /\ answered' = (answered \/ (q.kind = "info" /\ m.pong # NO_PONG_STATUS))
  BY <1>0
<1>2. /\ UNCHANGED <<now, asking, on_pong_flag, on_data_flag, synchronized, time_offset, trip>>
      /\ UNCHANGED <<result, skew>>
  BY DEF AgentAnswersCall, in_session
<1>3. /\ m \in Replied /\ m.kind = q.kind
      /\ m.kind = "time" =>
             /\ Nanos(m.t0) \in Int /\ Nanos(m.t1) \in Int /\ Nanos(m.t2) \in Int
             /\ Nanos(m.t0) + skew <= Nanos(m.t1) /\ Nanos(m.t1) <= Nanos(m.t2)
             /\ Nanos(m.t2) <= now + skew
  BY AnswerInOrder
<1>4. now \in Nat /\ answered \in BOOLEAN
  BY DEF CallsKept, CallsTypeOK
<1>5. CallsTypeOK' /\ PongIsAnswered' /\ SyncedWithinTrip'
  <2>1. now' \in Nat /\ now <= now' /\ answered' \in BOOLEAN /\ (answered => answered')
    BY <1>1, <1>2, <1>4
  <2> QED
    BY <1>2, <2>1, CallsUntouched
<1>6. NetworkTypeOK'
  BY <1>1, <1>3 DEF CallsKept, NetworkTypeOK
<1>7. TimeKept'
  BY <1>2 DEF CallsKept, TimeKept, Used
<1>8. TimesInOrder'
  BY <1>1, <1>2, <1>3 DEF CallsKept, TimesInOrder, Nanos, uxr_convert_to_nanos
<1>9. PongsAreNew'
  BY <1>1, <1>2, <1>3 DEF CallsKept, PongsAreNew
<1> QED
  BY <1>5, <1>6, <1>7, <1>8, <1>9 DEF CallsKept

LEMMA LosesStays ==
    ASSUME CallsKept, LosesQuestion \/ LosesAnswer
    PROVE  CallsKept'
<1>1. /\ UNCHANGED <<now, asking, on_pong_flag, on_data_flag, synchronized, time_offset, trip>>
      /\ UNCHANGED <<result, skew, answered>>
      /\ questions' \subseteq questions /\ answers' \subseteq answers
  BY DEF LosesQuestion, LosesAnswer, in_session
<1>2. now \in Nat /\ answered \in BOOLEAN
  BY DEF CallsKept, CallsTypeOK
<1>3. CallsTypeOK' /\ PongIsAnswered' /\ SyncedWithinTrip'
  BY <1>1, <1>2, CallsUntouched
<1>4. NetworkTypeOK'
  BY <1>1 DEF CallsKept, NetworkTypeOK
<1>5. TimeKept'
  BY <1>1 DEF CallsKept, TimeKept, Used
<1>6. TimesInOrder'
  BY <1>1 DEF CallsKept, TimesInOrder, Nanos, uxr_convert_to_nanos
<1>7. PongsAreNew'
  BY <1>1 DEF CallsKept, PongsAreNew
<1> QED
  BY <1>3, <1>4, <1>5, <1>6, <1>7 DEF CallsKept

(***************************************************************************)
(* The theorems.                                                           *)
(***************************************************************************)
LEMMA CallsBegin == InitCalls => CallsKept
<1> SUFFICES ASSUME InitCalls
             PROVE  CallsKept
  OBVIOUS
<1>1. CallsTypeOK
  <2>1. None \in Askings
    BY DEF None, Askings
  <2>2. AskingTypeOK
    BY <2>1 DEF InitCalls, AskingTypeOK, None
  <2> QED
    <3>1. now \in Nat /\ now >= Start /\ skew \in Skews
      BY Constants DEF InitCalls
    <3>2. on_pong_flag \in PongStatus /\ result \in [kind : Calls \cup {"none"}, value : BOOLEAN]
      BY DEF InitCalls, PongStatus
    <3>3. on_data_flag \in BOOLEAN /\ synchronized \in BOOLEAN /\ answered \in BOOLEAN
      BY Zenon DEF InitCalls
    <3>4. time_offset \in Int /\ trip \in Int
      BY DEF InitCalls
    <3> QED
      BY <2>2, <3>1, <3>2, <3>3, <3>4 DEF CallsTypeOK
<1>2. /\ NetworkTypeOK /\ TimesInOrder /\ TimeKept /\ PongsAreNew /\ PongIsAnswered
      /\ SyncedWithinTrip
  BY DEF InitCalls, NetworkTypeOK, TimesInOrder, TimeKept, PongsAreNew, PongIsAnswered,
         SyncedWithinTrip, None
<1> QED
  BY <1>1, <1>2 DEF CallsKept

LEMMA CallsGoOn == CallsKept /\ [NextCalls]_calls_vars => CallsKept'
<1> SUFFICES ASSUME CallsKept, [NextCalls]_calls_vars
             PROVE  CallsKept'
  OBVIOUS
<1>1. ASSUME NEW kind \in Calls, NEW n \in 0..MaxTries, Call(kind, n)
      PROVE  CallsKept'
  BY <1>1, CallStays
<1>2. CASE Try
  BY <1>2, TryStays
<1>3. CASE Run
  BY <1>3, RunStays
<1>4. CASE NoTriesLeft
  BY <1>4, NoTriesLeftStays
<1>5. CASE HearsNothing \/ HearsOther \/ HearsData
  BY <1>5, HearsNothingStays
<1>6. ASSUME NEW m \in answers, HearsInfo(m) \/ HearsTime(m) \/ HearsAgent(m)
      PROVE  CallsKept'
  BY <1>6, HearsInfoStays, HearsTimeStays, HearsAgentStays
<1>7. CASE Tick
  BY <1>7, TickStays
<1>8. CASE AgentAnswersCall
  BY <1>8, AgentAnswersCallStays
<1>9. CASE LosesQuestion \/ LosesAnswer
  BY <1>9, LosesStays
<1>10. CASE UNCHANGED calls_vars
  BY <1>10 DEF calls_vars, in_session, network, CallsKept, CallsTypeOK, AskingTypeOK, NetworkTypeOK,
               TimeKept, Used, TimesInOrder, Nanos, uxr_convert_to_nanos, PongsAreNew,
               PongIsAnswered, SyncedWithinTrip, uxr_epoch_nanos, uxr_nanos
<1> QED
  BY <1>1, <1>2, <1>3, <1>4, <1>5, <1>6, <1>7, <1>8, <1>9, <1>10 DEF NextCalls

THEOREM CallsInvariant == CallsSpec => []CallsKept
<1> QED
  BY CallsBegin, CallsGoOn, PTL DEF CallsSpec

(* A ping that returns true was answered by the Agent since it was called,   *)
(* by whichever of its attempts (uxr_ping_agent_attempts,                    *)
(* uxr_ping_agent_session).                                                  *)
THEOREM PongsAnswer == CallsSpec => []PongIsAnswered
<1>1. CallsKept => PongIsAnswered
  BY DEF CallsKept
<1> QED
  BY <1>1, CallsInvariant, PTL

(* No call but uxr_run_session_time listens longer than its attempts so far  *)
(* allow, whatever it hears meanwhile: the loops of session.c, ping.c and    *)
(* discovery.c take off what has passed.                                     *)
THEOREM CallsEnd == CallsSpec => []CallEndsInTime
<1>1. CallsKept => CallEndsInTime
  <2> SUFFICES ASSUME CallsKept, Listening, asking.kind # "run_time"
               PROVE  asking.until <= asking.called + (asking.tries - asking.left) * Allowed(asking.kind)
    BY DEF CallEndsInTime
  <2>1. asking.kind # "none"
    BY DEF CallsKept, CallsTypeOK, AskingTypeOK, Listening
  <2>2. /\ asking.began + Allowed(asking.kind) <= asking.called + Used(asking)
        /\ asking.until <= asking.began + Allowed(asking.kind)
    BY <2>1 DEF CallsKept, TimeKept, Listening
  <2>3. /\ Used(asking) \in Int /\ Allowed(asking.kind) \in Int
        /\ asking.until \in Int /\ asking.began \in Int /\ asking.called \in Int
    BY UsedType, AllowedType DEF CallsKept, CallsTypeOK, AskingTypeOK, Askings
  <2>4. asking.until <= asking.called + Used(asking)
    BY <2>2, <2>3
  <2> QED
    BY <2>4 DEF Used
<1> QED
  BY <1>1, CallsInvariant, PTL

(* A synchronized session is off the Agent's clock by half of the trip of    *)
(* the answer it took at most, also when that answer is of an earlier call   *)
(* (process_timestamp_reply, uxr_epoch_nanos).                               *)
THEOREM Synchronizes == CallsSpec => []SyncedWithinTrip
<1>1. CallsKept => SyncedWithinTrip
  BY DEF CallsKept
<1> QED
  BY <1>1, CallsInvariant, PTL
=============================================================================

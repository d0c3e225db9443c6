---------------------------- MODULE Threads_proofs ----------------------------
(* Threads and callbacks. Of memory that the sessions of a process share:    *)
(* the pool of items, what callbacks are handed, and its locks, for every    *)
(* number of entities, items, threads and calls within each other. Of a      *)
(* session that threads share: its locks, for any set of threads.            *)
EXTENDS SharedMemory, SessionThreads, TLAPS, FiniteSetTheorems, SequenceTheorems,
        WellFoundedInduction

(***************************************************************************)
(* The inductive invariant.                                                *)
(***************************************************************************)
(* What the application made is in the map, up to its end, in this order;    *)
(* a binary endpoint knows the place of its topic.                           *)
Kinds == {UXR_TOPIC_ID, UXR_DATAWRITER_ID, UXR_DATAREADER_ID, UXR_REQUESTER_ID, UXR_REPLIER_ID}
Senders == {UXR_DATAWRITER_ID, UXR_REPLIER_ID, UXR_REQUESTER_ID}
Describes(entity, e, n) ==
    /\ entity.session = e.session /\ entity.kind = e.kind /\ entity.id = e.id
    /\ entity.type \in {"hash", "bin"}
    /\ entity.type = "bin" => entity.topic \in 1..n
Elements(s) == {s[i] : i \in DOMAIN s}
MapKept ==
    /\ scene \in Scenes /\ made \in 0..Len(scene) /\ users \in (SUBSET Threads) \ {{}}
    /\ entities \in Seq(Elements(entities))
    /\ Len(entities) = IF made <= MaxEntities THEN made ELSE MaxEntities
    /\ \A i \in 1..Len(entities) : Describes(entities[i], scene[i], Len(entities))
    /\ matched = [i \in Entity |-> [j \in Entity |-> MatchedIn(entities, i, j)]]

(* What an entity is compared by is what it was made with.                   *)
MadeFrom(entity, n, s) ==
    /\ entity.type = "bin" <=> ByTopic(s[n])
    /\ ~ByTopic(s[n]) => entity.type = "hash" /\ entity.hash = HashOf(s[n])
    /\ ByTopic(s[n]) =>
        /\ entity.qos = s[n].qos /\ entity.topic \in 1..n - 1
        /\ LET topic == s[entity.topic]
           IN topic.kind = UXR_TOPIC_ID /\ topic.session = s[n].session /\ topic.id = s[n].topic_id
MadeKept == \A n \in 1..Len(entities) : MadeFrom(entities[n], n, scene)

(* Messages, items and calls.                                                *)
Created == UNION {Elements(s) : s \in Scenes}
Said == Numbers \cup {0}
Identities == {IdentityOf(e, nr) : e \in Created, nr \in Said}
Texts == [number : Said, to : {<<>>} \cup Identities]
Items == [item : Pool, session : Sessions, cell : 1..Capacity, request_id : Said, meant : Texts]

Writing == [pc : {"locking", "preparing", "serializing"}, session : Sessions,
            kind : Senders, id : Nat, message : Texts]
Flashing == [pc : {"entering", "sending"}, session : Sessions]
Handling == [pc : {"handling"}, session : Sessions, at : Nat \X Nat]
Handed == [pc : {"called"}, did : {"nothing", "wrote", "ran"},
           from : Nat, reader : Nat, item : Items]
Frames == Writing \cup Flashing \cup Handling \cup Handed

TypesKept ==
    /\ list \in [Entity -> [Entity -> Seq(Items)]]
    /\ mempool_freeitems \in Seq(Pool)
    /\ writer \in [Sessions -> 0..Capacity]
    /\ memory \in [Sessions -> [1..Capacity -> Texts]]
    /\ stack \in [Threads -> Seq(Frames)]
    /\ \A t \in Threads \ users : stack[t] = <<>>

(* Something is left only by a sender for those it matches.                  *)
LeftForMatched ==
    \A i, j \in Entity : list[i][j] # <<>> =>
        /\ i \in 1..Len(entities) /\ j \in 1..Len(entities)
        /\ entities[i].kind \in Senders /\ matched[i][j]

(* The calls of a thread, the innermost first: a callback is within a        *)
(* delivery, and what is within a callback is what it did last.              *)
Nested(s) ==
    /\ \A n \in 1..Len(s) : s[n].pc = "called" => n < Len(s) /\ s[n + 1].pc = "handling"
    /\ \A n \in 2..Len(s) :
        /\ s[n].pc \in {"called", "handling"}
        /\ s[n].pc = "handling" => s[n - 1].pc = "called"
        /\ s[n].pc = "called" =>
            s[n].did = IF s[n - 1].pc \in {"locking", "preparing", "serializing"}
                       THEN "wrote" ELSE "ran"
(* A callback knows entities of the map, and does not write when there are   *)
(* several threads; who holds a stream has a cell in it.                     *)
Fits(f, written) ==
    /\ f.pc = "called" => /\ f.from \in 1..Len(entities) /\ f.reader \in 1..Len(entities)
                          /\ entities[f.from].kind \in Senders
                          /\ ~Alone => f.did = "nothing"
    /\ f.pc \in {"preparing", "serializing"} => written[f.session] >= 1
StacksKept ==
    \A t \in Threads :
        /\ Nested(stack[t])
        /\ \A n \in 1..Len(stack[t]) : Fits(stack[t][n], writer)

(* Where an item is: in one of the free places, in one list, or with one     *)
(* callback.                                                                 *)
FreeIn(free, k) == {n \in 1..Len(free) : free[n] = k}
LeftIn(lists, k) ==
    {p \in Entity \X Entity \X Nat :
        p[3] \in 1..Len(lists[p[1]][p[2]]) /\ lists[p[1]][p[2]][p[3]].item = k}
HasItem(s, n, k) == n \in 1..Len(s) /\ s[n].pc = "called" /\ s[n].item.item = k
HandedIn(stacks, k) == {p \in Threads \X Nat : HasItem(stacks[p[1]], p[2], k)}
Single(S) == \A x, y \in S : x = y
InOne(F, L, H) ==
    /\ F # {} \/ L # {} \/ H # {}
    /\ Single(F) /\ Single(L) /\ Single(H)
    /\ F = {} \/ L = {}
    /\ F = {} \/ H = {}
    /\ L = {} \/ H = {}
ItemsKept ==
    \A k \in Pool : InOne(FreeIn(mempool_freeitems, k), LeftIn(list, k), HandedIn(stack, k))

(* One thread alone: what its innermost delivery has passed is empty, and    *)
(* what is left anywhere points to a message that is there, or that it is    *)
(* about to write.                                                           *)
PassedIsEmpty(lists, at) == \A i, j \in Entity : lists[i][j] # <<>> => Before(at, <<i, j>>)
NothingLeft(lists) == \A i, j \in Entity : lists[i][j] = <<>>
Says(cells, item) == cells[item.session][item.cell] = item.meant
Progress(s, lists, cells) ==
    /\ s[1].pc = "handling" => PassedIsEmpty(lists, s[1].at)
    /\ s[1].pc = "sending" => NothingLeft(lists)
    /\ s[1].pc = "called" /\ s[1].did = "nothing" =>
        PassedIsEmpty(lists, s[2].at) /\ Says(cells, s[1].item)
    /\ s[1].pc = "called" /\ s[1].did = "ran" => NothingLeft(lists)
Points(s, item, written, cells) ==
    /\ item.cell <= written[item.session]
    /\ IF s # <<>> /\ HoldsStream(s[1], item.session) /\ item.cell = written[item.session]
       THEN s[1].pc = "serializing" /\ item.meant = s[1].message
       ELSE Says(cells, item)
AllPoint(s, lists, written, cells) ==
    \A i, j \in Entity : \A n \in 1..Len(lists[i][j]) : Points(s, lists[i][j][n], written, cells)
AloneKept ==
    Alone => \A t \in users :
        /\ stack[t] # <<>> => Progress(stack[t], list, memory)
        /\ AllPoint(stack[t], list, writer, memory)

MemoryKept ==
    MapKept /\ TypesKept /\ LeftForMatched /\ StacksKept /\ ItemsKept /\ AloneKept

(***************************************************************************)
(* Least elements.                                                         *)
(***************************************************************************)
LEMMA LeastOf ==
    ASSUME NEW S, S \subseteq Nat, S # {}
    PROVE  \E n \in S : \A m \in S : n <= m
<1> DEFINE R == StrictSubsetOrdering(Nat)
           F == FiniteSubsetsOf(Nat)
           T == {0..n : n \in S}
<1>1. IsWellFoundedOn(R, F)
  BY FS_StrictSubsetOrderingWellFounded
<1>2. T \subseteq F /\ T # {}
  <2>1. ASSUME NEW n \in S PROVE 0..n \in F
    <3>1. n \in Int /\ 0 \in Int /\ 0..n \in SUBSET Nat
      OBVIOUS
    <3>2. IsFiniteSet(0..n)
      BY <3>1, FS_Interval
    <3> QED BY <3>1, <3>2 DEF FiniteSubsetsOf
  <2> QED BY <2>1
<1>3. PICK s \in T : \A t \in T : ~(<<t, s>> \in R)
  <2> HIDE DEF R, F, T
  <2> QED BY <1>1, <1>2, WFMin
<1>4. PICK n \in S : s = 0..n
  BY <1>3
<1>5. ASSUME NEW m \in S, m < n PROVE FALSE
  <2>1. /\ 0..m \in SUBSET Nat /\ 0..n \in SUBSET Nat
        /\ 0..m \subseteq 0..n /\ n \in 0..n /\ n \notin 0..m
    BY <1>5
  <2>2. <<0..m, 0..n>> \in R
    BY <2>1 DEF StrictSubsetOrdering
  <2> QED BY <1>3, <1>4, <1>5, <2>2
<1> QED BY <1>5

LEMMA FirstIsLeast ==
    ASSUME NEW S, S \subseteq Nat, S # {}
    PROVE  First(S) \in S /\ \A j \in S : First(S) <= j
BY LeastOf DEF First

(* Among pairs, the first has the least first part, ...                      *)
LEMMA FirstPair ==
    ASSUME NEW S, S \subseteq Nat \X Nat, S # {}
    PROVE  \E p \in S : \A q \in S : Before(p, q)
<1> DEFINE A == {p[1] : p \in S}
<1>1. A \subseteq Nat /\ A # {}
  OBVIOUS
<1>2. PICK a \in A : \A m \in A : a <= m
  BY <1>1, LeastOf
<1> DEFINE B == {p[2] : p \in {q \in S : q[1] = a}}
<1>3. B \subseteq Nat /\ B # {}
  BY <1>2
<1>4. PICK b \in B : \A m \in B : b <= m
  BY <1>3, LeastOf
<1>5. PICK p \in S : p[1] = a /\ p[2] = b
  BY <1>4
<1>6. ASSUME NEW q \in S PROVE Before(p, q)
  <2>1. a <= q[1] /\ q[1] \in Nat /\ a \in Nat
    BY <1>1, <1>2
  <2>2. q[1] = a => b <= q[2]
    BY <1>4
  <2> QED BY <1>5, <2>1, <2>2 DEF Before
<1> QED BY <1>5, <1>6

(***************************************************************************)
(* Items are given to readers one by one: the ranks of n readers are 1..n. *)
(***************************************************************************)
LEMMA RanksAreDistinct ==
    ASSUME NEW S, S \subseteq Nat, IsFiniteSet(S)
    PROVE  /\ Cardinality(S) \in Nat
           /\ \A i \in S : Rank(S, i) \in 1..Cardinality(S)
           /\ \A i, j \in S : Rank(S, i) = Rank(S, j) => i = j
           /\ \A n \in 1..Cardinality(S) : \E i \in S : Rank(S, i) = n
<1> DEFINE Upto(i) == {k \in S : k <= i}
           f == [i \in S |-> Cardinality(Upto(i))]
           N == Cardinality(S)
<1>1. N \in Nat
  BY FS_CardinalityType
<1>2. ASSUME NEW i \in S
      PROVE  /\ IsFiniteSet(Upto(i)) /\ Cardinality(Upto(i)) \in 1..N
  <2>1. IsFiniteSet(Upto(i)) /\ Cardinality(Upto(i)) <= N
    BY FS_Subset
  <2>2. Cardinality(Upto(i)) \in Nat
    BY <2>1, FS_CardinalityType
  <2>3. Upto(i) # {}
    BY <1>2
  <2>4. Cardinality(Upto(i)) # 0
    BY <2>1, <2>3, FS_EmptySet
  <2> HIDE DEF Upto, N
  <2> QED BY <1>1, <2>1, <2>2, <2>4
<1>3. ASSUME NEW i \in S, NEW j \in S, Cardinality(Upto(i)) = Cardinality(Upto(j))
      PROVE  i = j
  <2>1. ASSUME NEW a \in S, NEW b \in S, a < b, Cardinality(Upto(a)) = Cardinality(Upto(b))
        PROVE  FALSE
    <3>1. Upto(a) \in SUBSET Upto(b) /\ b \in Upto(b) /\ b \notin Upto(a)
      <4>1. S \subseteq Nat /\ a \in Nat /\ b \in Nat /\ a < b
        BY <2>1
      <4>2. \A k \in S : k <= a => k <= b
        BY <4>1
      <4>3. Upto(a) \in SUBSET Upto(b)
        BY <4>2
      <4> QED BY <4>1, <4>3
    <3>2. IsFiniteSet(Upto(b))
      BY <1>2
    <3> HIDE DEF Upto
    <3>3. Upto(b) = Upto(a)
      BY <2>1, <3>1, <3>2, FS_Subset
    <3> QED BY <3>1, <3>3
  <2>2. i \in Nat /\ j \in Nat
    OBVIOUS
  <2> HIDE DEF Upto
  <2> QED BY <1>3, <2>1, <2>2
<1>4. f \in Injection(S, 1..N)
  <2>1. \A i \in S : f[i] = Cardinality(Upto(i))
    OBVIOUS
  <2>2. f \in [S -> 1..N]
    BY <1>2
  <2> HIDE DEF f, Upto, N
  <2> QED BY <1>3, <2>1, <2>2 DEF Injection, IsInjective
<1>5. IsFiniteSet(1..N) /\ Cardinality(1..N) = N
  BY <1>1, FS_Interval
<1>6. f \in Surjection(S, 1..N)
  <2> HIDE DEF f, N
  <2> QED BY <1>4, <1>5, FS_Injection DEF N
<1>7. \A n \in 1..N : \E i \in S : Cardinality(Upto(i)) = n
  BY <1>6 DEF Surjection
<1> QED BY <1>1, <1>2, <1>3, <1>7 DEF Rank

(***************************************************************************)
(* Sequences: what lies on top, and what below.                            *)
(***************************************************************************)
LEMMA TopOf ==
    ASSUME NEW S, NEW s \in Seq(S), s # <<>>
    PROVE  Head(s) = s[1] /\ s[1] \in S /\ Len(s) \in Nat \ {0}
BY EmptySeq, HeadTailProperties, ElementOfSeq

LEMMA OneAndOne ==
    ASSUME NEW a, NEW b
    PROVE  <<a>> \o <<b>> = <<a, b>>
<1> DEFINE S == {a, b}
           x == <<a>>
           y == <<b>>
           z == <<a, b>>
<1>1. /\ x \in Seq(S) /\ Len(x) = 1 /\ x[1] = a
      /\ y \in Seq(S) /\ Len(y) = 1 /\ y[1] = b
      /\ z \in Seq(S) /\ Len(z) = 2 /\ z[1] = a /\ z[2] = b
  OBVIOUS
<1> HIDE DEF S, x, y, z
<1>2. x \o y \in Seq(S) /\ Len(x \o y) = 2 /\ (x \o y)[1] = a /\ (x \o y)[2] = b
  BY <1>1, ConcatProperties
<1>3. x \o y = z
  BY <1>1, <1>2, SeqEqual
<1> QED BY <1>3 DEF x, y, z

LEMMA OneMore ==
    ASSUME NEW S, NEW s \in Seq(S), NEW a \in S
    PROVE  /\ <<a>> \o s \in Seq(S) /\ <<a>> \o s # <<>>
           /\ Len(<<a>> \o s) = Len(s) + 1 /\ Len(s) \in Nat
           /\ (<<a>> \o s)[1] = a
           /\ \A n \in 2..Len(s) + 1 : (<<a>> \o s)[n] = s[n - 1]
<1>1. <<a>> \in Seq(S) /\ Len(<<a>>) = 1 /\ <<a>>[1] = a
  OBVIOUS
<1>2. Len(s) \in Nat
  BY LenProperties
<1> DEFINE r == <<a>> \o s
<1>3. /\ r \in Seq(S) /\ Len(r) = 1 + Len(s)
      /\ \A i \in 1..1 + Len(s) : r[i] = IF i <= 1 THEN <<a>>[i] ELSE s[i - 1]
  BY <1>1, ConcatProperties
<1> HIDE DEF r
<1>4. r[1] = a /\ r # <<>>
  BY <1>1, <1>2, <1>3, EmptySeq
<1> QED BY <1>2, <1>3, <1>4 DEF r

LEMMA OneLess ==
    ASSUME NEW S, NEW s \in Seq(S), s # <<>>
    PROVE  /\ Tail(s) \in Seq(S) /\ Len(Tail(s)) = Len(s) - 1 /\ Len(s) \in Nat \ {0}
           /\ \A n \in 1..Len(s) - 1 : Tail(s)[n] = s[n + 1]
BY HeadTailProperties, TopOf

LEMMA OneChanged ==
    ASSUME NEW S, NEW s \in Seq(S), s # <<>>, NEW a \in S
    PROVE  /\ <<a>> \o Tail(s) \in Seq(S) /\ <<a>> \o Tail(s) # <<>>
           /\ Len(<<a>> \o Tail(s)) = Len(s) /\ Len(s) \in Nat \ {0}
           /\ (<<a>> \o Tail(s))[1] = a
           /\ \A n \in 2..Len(s) : (<<a>> \o Tail(s))[n] = s[n]
<1> DEFINE q == Tail(s)
           r == <<a>> \o q
<1>1. /\ q \in Seq(S) /\ Len(q) = Len(s) - 1 /\ Len(s) \in Nat \ {0}
      /\ \A n \in 1..Len(s) - 1 : q[n] = s[n + 1]
  BY OneLess
<1> HIDE DEF q
<1>2. /\ r \in Seq(S) /\ r # <<>> /\ Len(r) = Len(q) + 1 /\ r[1] = a
      /\ \A n \in 2..Len(q) + 1 : r[n] = q[n - 1]
  BY <1>1, OneMore
<1> HIDE DEF r
<1>3. Len(r) = Len(s) /\ \A n \in 2..Len(s) : r[n] = s[n]
  BY <1>1, <1>2
<1> QED BY <1>1, <1>2, <1>3 DEF q, r

LEMMA OneOnChanged ==
    ASSUME NEW S, NEW s \in Seq(S), s # <<>>, NEW a \in S, NEW b \in S
    PROVE  /\ <<a, b>> \o Tail(s) \in Seq(S) /\ <<a, b>> \o Tail(s) # <<>>
           /\ Len(<<a, b>> \o Tail(s)) = Len(s) + 1 /\ Len(s) \in Nat \ {0}
           /\ (<<a, b>> \o Tail(s))[1] = a /\ (<<a, b>> \o Tail(s))[2] = b
           /\ \A n \in 3..Len(s) + 1 : (<<a, b>> \o Tail(s))[n] = s[n - 1]
<1>1. <<a, b>> \in Seq(S) /\ Len(<<a, b>>) = 2 /\ <<a, b>>[1] = a /\ <<a, b>>[2] = b
  OBVIOUS
<1> DEFINE q == Tail(s)
           r == <<a, b>> \o q
<1>2. /\ q \in Seq(S) /\ Len(q) = Len(s) - 1 /\ Len(s) \in Nat \ {0}
      /\ \A n \in 1..Len(s) - 1 : q[n] = s[n + 1]
  BY OneLess
<1> HIDE DEF q
<1>3. /\ r \in Seq(S) /\ Len(r) = 2 + Len(q)
      /\ \A i \in 1..2 + Len(q) : r[i] = IF i <= 2 THEN <<a, b>>[i] ELSE q[i - 2]
  BY <1>1, <1>2, ConcatProperties
<1> HIDE DEF r
<1>4. Len(r) = Len(s) + 1 /\ r # <<>>
  BY <1>2, <1>3, EmptySeq
<1>5. r[1] = a /\ r[2] = b
  BY <1>1, <1>2, <1>3
<1>6. ASSUME NEW n \in 3..Len(s) + 1 PROVE r[n] = s[n - 1]
  <2>1. r[n] = q[n - 2] /\ n - 2 \in 1..Len(s) - 1 /\ (n - 2) + 1 = n - 1
    BY <1>2, <1>3
  <2> QED BY <1>2, <2>1
<1> QED BY <1>2, <1>3, <1>4, <1>5, <1>6 DEF q, r

(***************************************************************************)
(* The calls of a thread.                                                  *)
(***************************************************************************)
Writes == {"locking", "preparing", "serializing"}
Flashes == {"entering", "sending"}

LEMMA FrameOf ==
    ASSUME NEW f \in Frames
    PROVE  /\ f.pc \in Writes \cup Flashes \cup {"handling", "called"}
           /\ f.pc \in Writes => f \in Writing
           /\ f.pc \in Flashes => f \in Flashing
           /\ f.pc = "handling" => f \in Handling
           /\ f.pc = "called" => f \in Handed
BY DEF Frames, Writing, Flashing, Handling, Handed, Writes, Flashes

(* The stack stays nested, whichever step its top takes.                     *)
LEMMA NestedMoves ==
    ASSUME NEW s \in Seq(Frames), Nested(s), s # <<>>, NEW a \in Frames,
           s[1].pc # "called", a.pc # "called", s[1].pc \in Writes <=> a.pc \in Writes
    PROVE  Nested(<<a>> \o Tail(s))
<1> DEFINE r == <<a>> \o Tail(s)
<1>1. /\ Len(r) = Len(s) /\ Len(s) \in Nat \ {0} /\ r[1] = a
      /\ \A n \in 2..Len(s) : r[n] = s[n]
  BY OneChanged
<1> HIDE DEF r
<1>2. ASSUME NEW n \in 1..Len(r), r[n].pc = "called"
      PROVE  n < Len(r) /\ r[n + 1].pc = "handling"
  <2>1. n \in 2..Len(s) /\ n + 1 \in Nat
    BY <1>1, <1>2
  <2>2. s[n].pc = "called"
    BY <1>1, <1>2, <2>1
  <2>3. n < Len(s) /\ s[n + 1].pc = "handling"
    BY <2>1, <2>2 DEF Nested
  <2>4. n + 1 \in 2..Len(s)
    BY <1>1, <2>1, <2>3
  <2> QED BY <1>1, <2>3, <2>4
<1>3. ASSUME NEW n \in 2..Len(r)
      PROVE  /\ r[n].pc \in {"called", "handling"}
             /\ r[n].pc = "handling" => r[n - 1].pc = "called"
             /\ r[n].pc = "called" =>
                 r[n].did = IF r[n - 1].pc \in Writes THEN "wrote" ELSE "ran"
  <2>1. r[n] = s[n] /\ n \in 2..Len(s)
    BY <1>1
  <2>2. /\ s[n].pc \in {"called", "handling"}
        /\ s[n].pc = "handling" => s[n - 1].pc = "called"
        /\ s[n].pc = "called" => s[n].did = IF s[n - 1].pc \in Writes THEN "wrote" ELSE "ran"
    BY <2>1 DEF Nested, Writes
  <2>3. CASE n = 2
    BY <1>1, <2>1, <2>2, <2>3
  <2>4. CASE n # 2
    <3>1. n - 1 \in 2..Len(s)
      BY <1>1, <2>1, <2>4
    <3>2. r[n - 1] = s[n - 1]
      BY <1>1, <3>1
    <3> QED BY <2>1, <2>2, <3>2
  <2> QED BY <2>3, <2>4
<1> QED BY <1>2, <1>3 DEF Nested, Writes, r

LEMMA NestedBegins ==
    ASSUME NEW a \in Frames, a.pc # "called"
    PROVE  Nested(<<a>> \o <<>>)
<1>1. <<>> \in Seq(Frames) /\ Len(<<>>) = 0
  BY EmptySeq
<1> DEFINE r == <<a>> \o <<>>
<1>2. Len(r) = 1 /\ r[1] = a
  BY <1>1, OneMore
<1> HIDE DEF r
<1> QED BY <1>2 DEF Nested, r

LEMMA NestedReturns ==
    ASSUME NEW s \in Seq(Frames), Nested(s), s # <<>>
    PROVE  Nested(Tail(s))
<1> DEFINE r == Tail(s)
<1>1. /\ Len(r) = Len(s) - 1 /\ Len(s) \in Nat \ {0}
      /\ \A n \in 1..Len(s) - 1 : r[n] = s[n + 1]
  BY OneLess
<1> HIDE DEF r
<1>2. ASSUME NEW n \in 1..Len(r), r[n].pc = "called"
      PROVE  n < Len(r) /\ r[n + 1].pc = "handling"
  <2>1. n + 1 \in 1..Len(s) /\ s[n + 1].pc = "called" /\ n \in Nat
    BY <1>1, <1>2
  <2>2. n + 1 < Len(s) /\ s[(n + 1) + 1].pc = "handling"
    BY <2>1 DEF Nested
  <2> QED BY <1>1, <2>1, <2>2
<1>3. ASSUME NEW n \in 2..Len(r)
      PROVE  /\ r[n].pc \in {"called", "handling"}
             /\ r[n].pc = "handling" => r[n - 1].pc = "called"
             /\ r[n].pc = "called" =>
                 r[n].did = IF r[n - 1].pc \in Writes THEN "wrote" ELSE "ran"
  <2>1. n + 1 \in 2..Len(s) /\ r[n] = s[n + 1] /\ r[n - 1] = s[(n + 1) - 1]
    BY <1>1
  <2> QED BY <2>1 DEF Nested, Writes
<1> QED BY <1>2, <1>3 DEF Nested, Writes, r

(* A call within the one on top.                                             *)
LEMMA NestedCalls ==
    ASSUME NEW s \in Seq(Frames), Nested(s), s # <<>>, NEW a \in Frames, NEW b \in Frames,
           b.pc = s[1].pc, b.pc \in {"called", "handling"},
           a.pc = "called" <=> b.pc = "handling",
           b.pc = "called" => b.did = IF a.pc \in Writes THEN "wrote" ELSE "ran"
    PROVE  Nested(<<a, b>> \o Tail(s))
<1> DEFINE r == <<a, b>> \o Tail(s)
<1>1. /\ Len(r) = Len(s) + 1 /\ Len(s) \in Nat \ {0} /\ r[1] = a /\ r[2] = b
      /\ \A n \in 3..Len(s) + 1 : r[n] = s[n - 1]
  BY OneOnChanged
<1> HIDE DEF r
<1>2. ASSUME NEW n \in 1..Len(r), r[n].pc = "called"
      PROVE  n < Len(r) /\ r[n + 1].pc = "handling"
  <2>1. CASE n = 1
    BY <1>1, <1>2, <2>1
  <2>2. CASE n = 2
    <3>1. s[1].pc = "called" /\ 1 \in 1..Len(s)
      BY <1>1, <1>2, <2>2
    <3>2. 1 < Len(s) /\ s[1 + 1].pc = "handling"
      BY <3>1 DEF Nested
    <3>3. r[3] = s[2]
      BY <1>1, <3>2
    <3> QED BY <1>1, <2>2, <3>2, <3>3
  <2>3. CASE n \in 3..Len(s) + 1
    <3>1. n - 1 \in 1..Len(s) /\ r[n] = s[n - 1]
      BY <1>1, <2>3
    <3>2. n - 1 < Len(s) /\ s[(n - 1) + 1].pc = "handling"
      BY <1>2, <3>1 DEF Nested
    <3>3. n + 1 \in 3..Len(s) + 1 /\ r[n + 1] = s[(n - 1) + 1]
      BY <1>1, <2>3, <3>2
    <3> QED BY <1>1, <2>3, <3>2, <3>3
  <2> QED BY <1>1, <2>1, <2>2, <2>3
<1>3. ASSUME NEW n \in 2..Len(r)
      PROVE  /\ r[n].pc \in {"called", "handling"}
             /\ r[n].pc = "handling" => r[n - 1].pc = "called"
             /\ r[n].pc = "called" =>
                 r[n].did = IF r[n - 1].pc \in Writes THEN "wrote" ELSE "ran"
  <2>1. CASE n = 2
    BY <1>1, <2>1
  <2>2. CASE n \in 3..Len(s) + 1
    <3>1. n - 1 \in 2..Len(s) /\ r[n] = s[n - 1]
      BY <1>1, <2>2
    <3>2. /\ s[n - 1].pc \in {"called", "handling"}
          /\ s[n - 1].pc = "handling" => s[(n - 1) - 1].pc = "called"
          /\ s[n - 1].pc = "called" =>
              s[n - 1].did = IF s[(n - 1) - 1].pc \in Writes THEN "wrote" ELSE "ran"
      BY <3>1 DEF Nested, Writes
    <3>3. CASE n = 3
      <4>1. r[n - 1] = b /\ s[(n - 1) - 1] = s[1]
        BY <1>1, <3>3
      <4>2. b.pc \notin Writes /\ s[1].pc \notin Writes
        BY DEF Writes
      <4> QED BY <3>1, <3>2, <4>1, <4>2
    <3>4. CASE n # 3
      <4>1. r[n - 1] = s[(n - 1) - 1]
        BY <1>1, <2>2, <3>4
      <4> QED BY <3>1, <3>2, <4>1
    <3> QED BY <3>3, <3>4
  <2> QED BY <1>1, <2>1, <2>2
<1> QED BY <1>2, <1>3 DEF Nested, Writes, r

(***************************************************************************)
(* Places of an item that only shift.                                      *)
(***************************************************************************)
Same(S, T) == (Single(S) => Single(T)) /\ (S = {} <=> T = {})

LEMMA SameItself == ASSUME NEW S PROVE Same(S, S)
BY DEF Same

LEMMA StaysInOne ==
    ASSUME NEW F, NEW L, NEW H, NEW F2, NEW L2, NEW H2, InOne(F, L, H),
           Same(F, F2), Same(L, L2), Same(H, H2)
    PROVE  InOne(F2, L2, H2)
BY DEF InOne, Same

LEMMA OnesTwo ==
    ASSUME NEW S, NEW x, x \in S, Single(S)
    PROVE  S = {x}
BY DEF Single

(* The items of the calls s are those of r, d places further on.             *)
Shifts(s, r, d) ==
    \A k \in Pool, n \in Nat :
        /\ HasItem(r, n, k) => n - d \in Nat /\ HasItem(s, n - d, k)
        /\ HasItem(s, n, k) => n + d \in Nat /\ HasItem(r, n + d, k)

LEMMA HandedShifts ==
    ASSUME NEW old, NEW new, NEW t \in Threads, NEW k, NEW d \in Int,
           \A u \in Threads \ {t} : new[u] = old[u],
           \A n \in Nat :
               /\ HasItem(new[t], n, k) => n - d \in Nat /\ HasItem(old[t], n - d, k)
               /\ HasItem(old[t], n, k) => n + d \in Nat /\ HasItem(new[t], n + d, k)
    PROVE  Same(HandedIn(old, k), HandedIn(new, k))
<1> DEFINE S == HandedIn(old, k)
           T == HandedIn(new, k)
           Back(p) == IF p[1] = t THEN <<t, p[2] - d>> ELSE p
           Forth(p) == IF p[1] = t THEN <<t, p[2] + d>> ELSE p
<1>1. ASSUME NEW p \in T PROVE Back(p) \in S
  <2>1. p \in Threads \X Nat /\ HasItem(new[p[1]], p[2], k)
    BY DEF HandedIn
  <2>2. CASE p[1] = t
    <3>1. p[2] - d \in Nat /\ HasItem(old[t], p[2] - d, k)
      BY <2>1, <2>2
    <3>2. <<t, p[2] - d>> \in S
      BY <3>1 DEF HandedIn
    <3> QED BY <2>2, <3>2
  <2>3. CASE p[1] # t
    <3>1. HasItem(old[p[1]], p[2], k)
      BY <2>1, <2>3
    <3>2. p \in S
      BY <2>1, <3>1 DEF HandedIn
    <3> QED BY <2>3, <3>2
  <2> QED BY <2>2, <2>3
<1>2. ASSUME NEW p \in S PROVE Forth(p) \in T
  <2>1. p \in Threads \X Nat /\ HasItem(old[p[1]], p[2], k)
    BY DEF HandedIn
  <2>2. CASE p[1] = t
    <3>1. p[2] + d \in Nat /\ HasItem(new[t], p[2] + d, k)
      BY <2>1, <2>2
    <3>2. <<t, p[2] + d>> \in T
      BY <3>1 DEF HandedIn
    <3> QED BY <2>2, <3>2
  <2>3. CASE p[1] # t
    <3>1. HasItem(new[p[1]], p[2], k)
      BY <2>1, <2>3
    <3>2. p \in T
      BY <2>1, <3>1 DEF HandedIn
    <3> QED BY <2>3, <3>2
  <2> QED BY <2>2, <2>3
<1>3. S = {} <=> T = {}
  BY <1>1, <1>2
<1>4. ASSUME Single(S) PROVE Single(T)
  <2> SUFFICES ASSUME NEW p \in T, NEW q \in T PROVE p = q
    BY DEF Single
  <2>1. Back(p) = Back(q)
    BY <1>1, <1>4 DEF Single
  <2>2. p \in Threads \X Nat /\ q \in Threads \X Nat
    BY DEF HandedIn
  <2>3. p = <<p[1], p[2]>> /\ q = <<q[1], q[2]>> /\ p[2] \in Nat /\ q[2] \in Nat
    BY <2>2
  <2> QED BY <2>1, <2>3
<1> QED BY <1>3, <1>4 DEF Same

SameCalls(old, new, t, k) ==
    /\ \A u \in Threads \ {t} : new[u] = old[u]
    /\ \A n \in Nat : HasItem(new[t], n, k) <=> HasItem(old[t], n, k)

LEMMA HandedStays ==
    ASSUME NEW old, NEW new, NEW t \in Threads, NEW k, SameCalls(old, new, t, k)
    PROVE  Same(HandedIn(old, k), HandedIn(new, k))
<1>1. \A n \in Nat :
          /\ HasItem(new[t], n, k) => n - 0 \in Nat /\ HasItem(old[t], n - 0, k)
          /\ HasItem(old[t], n, k) => n + 0 \in Nat /\ HasItem(new[t], n + 0, k)
  <2>1. \A n \in Nat : n - 0 = n /\ n + 0 = n
    OBVIOUS
  <2> QED BY <2>1 DEF SameCalls
<1>2. \A u \in Threads \ {t} : new[u] = old[u]
  BY DEF SameCalls
<1> DEFINE P(d) == \A n \in Nat :
               /\ HasItem(new[t], n, k) => n - d \in Nat /\ HasItem(old[t], n - d, k)
               /\ HasItem(old[t], n, k) => n + d \in Nat /\ HasItem(new[t], n + d, k)
<1>3. P(0)
  BY <1>1
<1>4. \A d \in Int : P(d) => Same(HandedIn(old, k), HandedIn(new, k))
  BY <1>2, HandedShifts
<1> HIDE DEF P
<1> QED BY <1>3, <1>4

(* An item that is left at a place k further on.                             *)
LEMMA LeftShifts ==
    ASSUME NEW S, NEW T, NEW on \in [Entity \X Entity -> Int],
           S \subseteq Entity \X Entity \X Nat, T \subseteq Entity \X Entity \X Nat,
           \A i, j \in Entity, n \in Nat :
               <<i, j, n>> \in T => <<i, j, n - on[<<i, j>>]>> \in S,
           \A i, j \in Entity, n \in Nat :
               <<i, j, n>> \in S => <<i, j, n + on[<<i, j>>]>> \in T
    PROVE  Same(S, T)
<1>1. \A p \in Entity \X Entity \X Nat :
          /\ p = <<p[1], p[2], p[3]>> /\ p[1] \in Entity /\ p[2] \in Entity /\ p[3] \in Nat
          /\ on[<<p[1], p[2]>>] \in Int
  OBVIOUS
<1>2. S = {} <=> T = {}
  <2>1. ASSUME NEW p \in T PROVE S # {}
    <3>1. p = <<p[1], p[2], p[3]>> /\ p[1] \in Entity /\ p[2] \in Entity /\ p[3] \in Nat
      BY <1>1
    <3> QED BY <3>1
  <2>2. ASSUME NEW p \in S PROVE T # {}
    <3>1. p = <<p[1], p[2], p[3]>> /\ p[1] \in Entity /\ p[2] \in Entity /\ p[3] \in Nat
      BY <1>1
    <3> QED BY <3>1
  <2> QED BY <2>1, <2>2
<1>3. ASSUME Single(S) PROVE Single(T)
  <2> SUFFICES ASSUME NEW p \in T, NEW q \in T PROVE p = q
    BY DEF Single
  <2>1. /\ p = <<p[1], p[2], p[3]>> /\ p[1] \in Entity /\ p[2] \in Entity /\ p[3] \in Nat
        /\ q = <<q[1], q[2], q[3]>> /\ q[1] \in Entity /\ q[2] \in Entity /\ q[3] \in Nat
        /\ on[<<p[1], p[2]>>] \in Int /\ on[<<q[1], q[2]>>] \in Int
    BY <1>1
  <2>2. <<p[1], p[2], p[3] - on[<<p[1], p[2]>>]>> \in S
    BY <2>1
  <2>3. <<q[1], q[2], q[3] - on[<<q[1], q[2]>>]>> \in S
    BY <2>1
  <2>4. <<p[1], p[2], p[3] - on[<<p[1], p[2]>>]>> = <<q[1], q[2], q[3] - on[<<q[1], q[2]>>]>>
    BY <1>3, <2>2, <2>3 DEF Single
  <2>5. p[1] = q[1] /\ p[2] = q[2] /\ p[3] - on[<<p[1], p[2]>>] = q[3] - on[<<p[1], p[2]>>]
    BY <2>4
  <2> QED BY <2>1, <2>5
<1> QED BY <1>2, <1>3 DEF Same

LEMMA FreeShifts ==
    ASSUME NEW S, NEW T, NEW d \in Int, S \subseteq Nat, T \subseteq Nat,
           \A n \in T : n - d \in S, \A n \in S : n + d \in T
    PROVE  Same(S, T)
<1>1. S = {} <=> T = {}
  OBVIOUS
<1>2. ASSUME Single(S) PROVE Single(T)
  <2> SUFFICES ASSUME NEW m \in T, NEW n \in T PROVE m = n
    BY DEF Single
  <2>1. m - d = n - d /\ m \in Nat /\ n \in Nat
    BY <1>2 DEF Single
  <2> QED BY <2>1
<1> QED BY <1>1, <1>2 DEF Same

LEMMA ItemsChanged ==
    ASSUME NEW s \in Seq(Frames), s # <<>>, NEW a \in Frames, NEW k,
           s[1].pc # "called", a.pc # "called"
    PROVE  \A n \in Nat : HasItem(<<a>> \o Tail(s), n, k) <=> HasItem(s, n, k)
<1> DEFINE r == <<a>> \o Tail(s)
<1>1. /\ Len(r) = Len(s) /\ Len(s) \in Nat \ {0} /\ r[1] = a
      /\ \A n \in 2..Len(s) : r[n] = s[n]
  BY OneChanged
<1> HIDE DEF r
<1>2. ASSUME NEW n \in Nat PROVE HasItem(r, n, k) <=> HasItem(s, n, k)
  <2>1. CASE n = 1
    BY <1>1, <2>1 DEF HasItem
  <2>2. CASE n \in 2..Len(s)
    BY <1>1, <2>2 DEF HasItem
  <2>3. CASE n \notin 1..Len(s)
    BY <1>1, <2>3 DEF HasItem
  <2> QED BY <1>1, <2>1, <2>2, <2>3
<1> QED BY <1>2 DEF r

LEMMA ItemsBelow ==
    ASSUME NEW s \in Seq(Frames), s # <<>>, NEW k
    PROVE  \A n \in Nat : HasItem(Tail(s), n, k) <=> n # 0 /\ HasItem(s, n + 1, k)
<1> DEFINE r == Tail(s)
<1>1. /\ Len(r) = Len(s) - 1 /\ Len(s) \in Nat \ {0}
      /\ \A n \in 1..Len(s) - 1 : r[n] = s[n + 1]
  BY OneLess
<1> HIDE DEF r
<1>2. ASSUME NEW n \in Nat PROVE HasItem(r, n, k) <=> n # 0 /\ HasItem(s, n + 1, k)
  BY <1>1 DEF HasItem
<1> QED BY <1>2 DEF r

LEMMA ItemsCalled ==
    ASSUME NEW s \in Seq(Frames), s # <<>>, NEW a \in Frames, NEW b \in Frames, NEW k,
           b.pc = s[1].pc, b.pc = "called" => b.item = s[1].item
    PROVE  \A n \in Nat : HasItem(<<a, b>> \o Tail(s), n, k) <=>
               IF n = 1 THEN a.pc = "called" /\ a.item.item = k ELSE n # 0 /\ HasItem(s, n - 1, k)
<1> DEFINE r == <<a, b>> \o Tail(s)
<1>1. /\ Len(r) = Len(s) + 1 /\ Len(s) \in Nat \ {0} /\ r[1] = a /\ r[2] = b
      /\ \A n \in 3..Len(s) + 1 : r[n] = s[n - 1]
  BY OneOnChanged
<1> HIDE DEF r
<1>2. ASSUME NEW n \in Nat
      PROVE  HasItem(r, n, k) <=>
               IF n = 1 THEN a.pc = "called" /\ a.item.item = k ELSE n # 0 /\ HasItem(s, n - 1, k)
  <2>1. CASE n = 1
    BY <1>1, <2>1 DEF HasItem
  <2>2. CASE n = 2
    BY <1>1, <2>2 DEF HasItem
  <2>3. CASE n \in 3..Len(s) + 1
    BY <1>1, <2>3 DEF HasItem
  <2>4. CASE n \notin 1..Len(s) + 1
    BY <1>1, <2>4 DEF HasItem
  <2> QED BY <1>1, <2>1, <2>2, <2>3, <2>4
<1> QED BY <1>2 DEF r

LEMMA ItemsNone ==
    ASSUME NEW a \in Frames, NEW k, a.pc # "called"
    PROVE  \A n \in Nat : ~HasItem(<<a>> \o <<>>, n, k) /\ ~HasItem(<<>>, n, k)
<1>1. <<>> \in Seq(Frames) /\ Len(<<>>) = 0
  BY EmptySeq
<1> DEFINE r == <<a>> \o <<>>
<1>2. Len(r) = 1 /\ r[1] = a
  BY <1>1, OneMore
<1> HIDE DEF r
<1>3. \A n \in Nat : ~HasItem(r, n, k) /\ ~HasItem(<<>>, n, k)
  BY <1>1, <1>2 DEF HasItem
<1> QED BY <1>3 DEF r

(***************************************************************************)
(* A step of a thread, as far as it only changes the thread's calls.       *)
(***************************************************************************)
LEMMA AloneIsOne ==
    ASSUME MapKept, Alone, NEW t \in users, NEW u \in users
    PROVE  t = u
<1>1. users \subseteq Threads /\ IsFiniteSet(Threads)
  BY SharedMemoryAssumption DEF MapKept
<1>2. IsFiniteSet(users)
  BY <1>1, FS_Subset
<1>3. \E x : users = {x}
  BY <1>2, FS_Singleton DEF Alone
<1> QED BY <1>3

LEMMA Caller ==
    ASSUME MemoryKept, NEW t \in users
    PROVE  /\ t \in Threads /\ stack[t] \in Seq(Frames) /\ Len(stack[t]) \in Nat
           /\ Nested(stack[t])
           /\ \A n \in 1..Len(stack[t]) : stack[t][n] \in Frames /\ Fits(stack[t][n], writer)
           /\ Calling(t) => /\ stack[t] # <<>> /\ Top(t) = stack[t][1]
                            /\ 1 \in 1..Len(stack[t]) /\ Len(stack[t]) \in Nat \ {0}
           /\ Alone /\ Calling(t) => Progress(stack[t], list, memory)
           /\ Alone => AllPoint(stack[t], list, writer, memory)
<1>1. t \in Threads
  BY DEF MemoryKept, MapKept
<1>2. stack[t] \in Seq(Frames)
  BY <1>1 DEF MemoryKept, TypesKept
<1>3. Len(stack[t]) \in Nat /\ \A n \in 1..Len(stack[t]) : stack[t][n] \in Frames
  BY <1>2, LenProperties, ElementOfSeq
<1>4. Nested(stack[t]) /\ \A n \in 1..Len(stack[t]) : Fits(stack[t][n], writer)
  BY <1>1 DEF MemoryKept, StacksKept
<1>5. Calling(t) => stack[t] # <<>> /\ Top(t) = stack[t][1] /\ Len(stack[t]) \in Nat \ {0}
  BY <1>2, TopOf DEF Calling, Top
<1>6. Alone => /\ Calling(t) => Progress(stack[t], list, memory)
               /\ AllPoint(stack[t], list, writer, memory)
  BY DEF MemoryKept, AloneKept, Calling
<1> QED BY <1>1, <1>2, <1>3, <1>4, <1>5, <1>6

(* What does not change keeps the map.                                       *)
LEMMA MapStays ==
    ASSUME MapKept, UNCHANGED <<scene, made, users, entities, matched>>
    PROVE  MapKept' /\ (Alone' <=> Alone)
BY DEF MapKept, Alone, Describes, MatchedIn, uxr_match_binary_entities, Elements

LEMMA LeftStays ==
    ASSUME LeftForMatched, UNCHANGED <<entities, matched>>,
           \A i, j \in Entity : list'[i][j] # <<>> => list[i][j] # <<>>
    PROVE  LeftForMatched'
BY DEF LeftForMatched

LEMMA StackTypes ==
    ASSUME stack \in [Threads -> Seq(Frames)], NEW t \in users, users \subseteq Threads,
           \A u \in Threads \ users : stack[u] = <<>>, users' = users,
           NEW r \in Seq(Frames), stack' = [stack EXCEPT ![t] = r]
    PROVE  /\ stack' \in [Threads -> Seq(Frames)]
           /\ \A u \in Threads \ users' : stack'[u] = <<>>
           /\ stack'[t] = r /\ \A u \in Threads \ {t} : stack'[u] = stack[u]
OBVIOUS

LEMMA StacksMove ==
    ASSUME StacksKept, UNCHANGED <<users, entities>>, NEW t \in Threads, NEW r,
           stack'[t] = r, \A u \in Threads \ {t} : stack'[u] = stack[u],
           \A u \in Threads \ {t} : \A n \in 1..Len(stack[u]) :
               stack[u][n].pc \in {"preparing", "serializing"} =>
                   writer'[stack[u][n].session] >= 1,
           Nested(r), \A n \in 1..Len(r) : Fits(r[n], writer')
    PROVE  StacksKept'
<1> SUFFICES ASSUME NEW u \in Threads
             PROVE  /\ Nested(stack'[u])
                    /\ \A n \in 1..Len(stack'[u]) : Fits(stack'[u][n], writer')
  BY DEF StacksKept, Fits, Alone
<1>1. CASE u = t
  BY <1>1
<1>2. CASE u # t
  <2>1. stack'[u] = stack[u] /\ u \in Threads \ {t}
    BY <1>2
  <2>2. Nested(stack[u]) /\ \A n \in 1..Len(stack[u]) : Fits(stack[u][n], writer)
    BY DEF StacksKept
  <2>3. \A n \in 1..Len(stack[u]) : Fits(stack[u][n], writer')
    BY <2>1, <2>2 DEF Fits
  <2> QED BY <2>1, <2>2, <2>3
<1> QED BY <1>1, <1>2

LEMMA ItemsStay ==
    ASSUME ItemsKept, UNCHANGED <<list, mempool_freeitems>>, NEW t \in Threads, NEW d \in Int,
           \A u \in Threads \ {t} : stack'[u] = stack[u],
           NEW r, stack'[t] = r, Shifts(stack[t], r, d)
    PROVE  ItemsKept'
<1> SUFFICES ASSUME NEW k \in Pool
             PROVE  InOne(FreeIn(mempool_freeitems, k), LeftIn(list, k), HandedIn(stack', k))
  BY DEF ItemsKept
<1>1. Same(HandedIn(stack, k), HandedIn(stack', k))
  BY HandedShifts DEF Shifts
<1> QED BY <1>1, StaysInOne, SameItself DEF ItemsKept

LEMMA AloneMoves ==
    ASSUME MapKept, NEW t \in users, NEW r, stack'[t] = r, users' = users,
           Alone /\ r # <<>> => Progress(r, list', memory'),
           Alone => AllPoint(r, list', writer', memory')
    PROVE  AloneKept'
<1>1. Alone => \A u \in users : u = t
  BY AloneIsOne
<1>2. Alone' <=> Alone
  BY DEF Alone
<1> QED BY <1>1, <1>2 DEF AloneKept

LEMMA StreamStep ==
    ASSUME MemoryKept, NEW t \in users, NEW r \in Seq(Frames), stack' = [stack EXCEPT ![t] = r],
           UNCHANGED <<scene, made, users, map>>,
           writer' \in [Sessions -> 0..Capacity], memory' \in [Sessions -> [1..Capacity -> Texts]],
           \A u \in Threads \ {t} : \A n \in 1..Len(stack[u]) :
               stack[u][n].pc \in {"preparing", "serializing"} =>
                   writer'[stack[u][n].session] >= 1,
           Nested(r), \A n \in 1..Len(r) : Fits(r[n], writer'),
           NEW d \in Int, Shifts(stack[t], r, d),
           Alone /\ r # <<>> => Progress(r, list, memory'),
           Alone => AllPoint(r, list, writer', memory')
    PROVE  MemoryKept'
<1>1. /\ MapKept /\ TypesKept /\ LeftForMatched /\ StacksKept /\ ItemsKept /\ AloneKept
      /\ UNCHANGED <<entities, matched, list, mempool_freeitems>>
      /\ UNCHANGED <<scene, made, users>>
  BY DEF MemoryKept, map
<1>2. t \in Threads /\ users \subseteq Threads
  BY <1>1 DEF MapKept
<1>3. MapKept' /\ LeftForMatched'
  BY <1>1, MapStays, LeftStays
<1>4. /\ stack' \in [Threads -> Seq(Frames)]
      /\ \A u \in Threads \ users' : stack'[u] = <<>>
      /\ stack'[t] = r /\ \A u \in Threads \ {t} : stack'[u] = stack[u]
  BY <1>1, <1>2, StackTypes DEF TypesKept
<1>5. TypesKept'
  BY <1>1, <1>4 DEF TypesKept
<1>6. StacksKept'
  BY <1>1, <1>2, <1>4, StacksMove
<1>7. ItemsKept'
  BY <1>1, <1>2, <1>4, ItemsStay
<1>8. AloneKept'
  BY <1>1, <1>4, AloneMoves
<1> QED BY <1>3, <1>5, <1>6, <1>7, <1>8 DEF MemoryKept

LEMMA OthersHold ==
    ASSUME MemoryKept
    PROVE  \A u \in Threads : \A n \in 1..Len(stack[u]) :
               stack[u][n].pc \in {"preparing", "serializing"} => writer[stack[u][n].session] >= 1
BY DEF MemoryKept, StacksKept, Fits

LEMMA StackStep ==
    ASSUME MemoryKept, NEW t \in users, NEW r \in Seq(Frames), stack' = [stack EXCEPT ![t] = r],
           UNCHANGED <<scene, made, users, map, writer, memory>>,
           Nested(r), \A n \in 1..Len(r) : Fits(r[n], writer),
           NEW d \in Int, Shifts(stack[t], r, d),
           Alone /\ r # <<>> => Progress(r, list, memory),
           Alone => AllPoint(r, list, writer, memory)
    PROVE  MemoryKept'
<1>1. /\ UNCHANGED <<scene, made, users, map>> /\ writer' = writer /\ memory' = memory
      /\ writer' \in [Sessions -> 0..Capacity] /\ memory' \in [Sessions -> [1..Capacity -> Texts]]
  BY DEF MemoryKept, TypesKept
<1>2. \A u \in Threads \ {t} : \A n \in 1..Len(stack[u]) :
          stack[u][n].pc \in {"preparing", "serializing"} => writer'[stack[u][n].session] >= 1
  BY <1>1, OthersHold
<1>3. \A n \in 1..Len(r) : Fits(r[n], writer')
  BY <1>1
<1>4. /\ Alone /\ r # <<>> => Progress(r, list, memory')
      /\ Alone => AllPoint(r, list, writer', memory')
  BY <1>1
<1> QED BY <1>1, <1>2, <1>3, <1>4, StreamStep

(* As long as no stream is held, all items point to what is there.           *)
Holds(s) == s # <<>> /\ s[1].pc \in {"preparing", "serializing"}
LEMMA PointsWithout ==
    ASSUME NEW s, NEW r, NEW lists, NEW written, NEW cells, ~Holds(s), ~Holds(r),
           AllPoint(s, lists, written, cells)
    PROVE  AllPoint(r, lists, written, cells)
<1>1. \A item : Points(s, item, written, cells) => Points(r, item, written, cells)
  BY DEF Holds, Points, HoldsStream
<1> QED BY <1>1 DEF AllPoint

(***************************************************************************)
(* Records.                                                                *)
(***************************************************************************)
LEMMA FrameKinds ==
    /\ \A p \in Writes, s \in Sessions, k \in Senders, i \in Nat, m \in Texts :
           [pc |-> p, session |-> s, kind |-> k, id |-> i, message |-> m] \in Frames
    /\ \A p \in Flashes, s \in Sessions : [pc |-> p, session |-> s] \in Frames
    /\ \A s \in Sessions, a \in Nat \X Nat :
           [pc |-> "handling", session |-> s, at |-> a] \in Frames
    /\ \A w \in {"nothing", "wrote", "ran"}, i, j \in Nat, x \in Items :
           [pc |-> "called", did |-> w, from |-> i, reader |-> j, item |-> x] \in Frames
BY DEF Frames, Writing, Flashing, Handling, Handed, Writes, Flashes

LEMMA GoesOn ==
    /\ \A f \in Writing, p \in Writes : [f EXCEPT !.pc = p] \in Frames
    /\ \A f \in Handling, a \in Nat \X Nat : [f EXCEPT !.at = a] \in Frames
    /\ \A f \in Handed, w \in {"nothing", "wrote", "ran"} : [f EXCEPT !.did = w] \in Frames
BY DEF Frames, Writing, Handling, Handed, Writes

LEMMA Entities ==
    ASSUME MapKept
    PROVE  /\ \A s \in Scenes : \A i \in DOMAIN s :
                  /\ s[i] \in Created /\ s[i].session \in Sessions /\ s[i].id \in Nat
                  /\ s[i].kind \in Kinds
           /\ Len(scene) \in Nat /\ DOMAIN scene = 1..Len(scene)
           /\ Len(entities) \in Nat /\ DOMAIN entities = 1..Len(entities)
           /\ Len(entities) <= made /\ Len(entities) <= MaxEntities /\ made \in Nat
           /\ \A i \in 1..Len(entities) :
                  /\ i \in DOMAIN scene /\ i \in Entity
                  /\ entities[i].session = scene[i].session /\ entities[i].kind = scene[i].kind
                  /\ entities[i].id = scene[i].id
           /\ \A i \in 1..made : i \in DOMAIN scene
<1>1. \A s \in Scenes : \A i \in DOMAIN s :
          /\ s[i] \in Created /\ s[i].session \in Sessions /\ s[i].id \in Nat
          /\ s[i].kind \in Kinds
  <2>1. \A s \in Scenes : \A i \in DOMAIN s : s[i] \in Created
    BY DEF Created, Elements
  <2> QED BY <2>1, ScenesAssumption DEF Kinds
<1>2. Len(scene) \in Nat /\ DOMAIN scene = 1..Len(scene)
  BY ScenesAssumption, LenProperties DEF MapKept
<1>3. Len(entities) \in Nat /\ DOMAIN entities = 1..Len(entities)
  BY LenProperties DEF MapKept
<1>4. made \in 0..Len(scene) /\ Len(entities) = IF made <= MaxEntities THEN made ELSE MaxEntities
  BY DEF MapKept
<1>5. MaxEntities \in Nat
  BY SharedMemoryAssumption
<1>6. Len(entities) <= made /\ Len(entities) <= MaxEntities /\ made \in Nat
  BY <1>2, <1>4, <1>5
<1>7. \A i \in 1..made : i \in DOMAIN scene
  BY <1>2, <1>4
<1>8. \A i \in 1..Len(entities) : i \in DOMAIN scene /\ i \in Entity
  BY <1>2, <1>3, <1>4, <1>5, <1>6 DEF Entity
<1> QED BY <1>1, <1>2, <1>3, <1>6, <1>7, <1>8 DEF MapKept, Describes

(***************************************************************************)
(* The steps that only call, or go on.                                     *)
(***************************************************************************)
(* The first call of a thread.                                               *)
LEMMA FirstCall ==
    ASSUME MemoryKept, NEW t \in users, ~Calling(t), NEW f \in Frames,
           f.pc \in {"locking", "entering"}, Push(t, f),
           UNCHANGED <<scene, made, users, map, writer, memory>>
    PROVE  MemoryKept'
<1> DEFINE r == <<f>> \o <<>>
<1>1. stack[t] = <<>> /\ stack' = [stack EXCEPT ![t] = <<f>> \o stack[t]]
  BY DEF Calling, Push
<1>2. stack' = [stack EXCEPT ![t] = r]
  BY <1>1
<1>3. <<>> \in Seq(Frames) /\ Len(<<>>) = 0
  BY EmptySeq
<1>4. r \in Seq(Frames) /\ Len(r) = 1 /\ r[1] = f
  BY <1>3, OneMore
<1>5. Nested(r) /\ \A k \in Pool, n \in Nat : ~HasItem(r, n, k) /\ ~HasItem(stack[t], n, k)
  BY <1>1, NestedBegins, ItemsNone
<1> HIDE DEF r
<1>6. \A n \in 1..Len(r) : Fits(r[n], writer)
  BY <1>4 DEF Fits
<1>7. Progress(r, list, memory)
  BY <1>4 DEF Progress
<1>8. Alone => AllPoint(r, list, writer, memory)
  <2>1. ~Holds(stack[t]) /\ ~Holds(r)
    BY <1>1, <1>4 DEF Holds
  <2> QED BY <2>1, Caller, PointsWithout
<1>9. Shifts(stack[t], r, 0)
  BY <1>5 DEF Shifts
<1>10. \A d \in Int : Shifts(stack[t], r, d) => MemoryKept'
  BY <1>2, <1>4, <1>5, <1>6, <1>7, <1>8, StackStep
<1> QED BY <1>9, <1>10

LEMMA WriteKeeps ==
    ASSUME MemoryKept, NEW t \in users, Write(t)
    PROVE  MemoryKept'
<1>1. PICK i \in 1..made, nr \in Numbers :
          /\ scene[i].kind \in {UXR_DATAWRITER_ID, UXR_REQUESTER_ID}
          /\ Push(t, WriteCall(scene[i], [number |-> nr, to |-> <<>>]))
  BY DEF Write
<1> DEFINE m == [number |-> nr, to |-> <<>>]
           f == WriteCall(scene[i], m)
<1>2. m \in Texts
  BY DEF Texts, Said
<1>3. scene[i].session \in Sessions /\ scene[i].id \in Nat /\ scene[i].kind \in Senders
  BY <1>1, Entities DEF MemoryKept, MapKept, Senders
<1> HIDE DEF m
<1>4. f \in Frames /\ f.pc = "locking"
  BY <1>2, <1>3, FrameKinds DEF WriteCall, Writes
<1>5. ~Calling(t) /\ UNCHANGED <<scene, made, users, map, writer, memory>> /\ Push(t, f)
  BY <1>1 DEF Write, m
<1> HIDE DEF f
<1> QED BY <1>4, <1>5, FirstCall

LEMMA FlashKeeps ==
    ASSUME MemoryKept, NEW t \in users, Flash(t)
    PROVE  MemoryKept'
<1>1. PICK s \in Sessions : Push(t, [pc |-> "entering", session |-> s])
  BY DEF Flash
<1> DEFINE f == [pc |-> "entering", session |-> s]
<1>2. f \in Frames /\ f.pc = "entering"
  BY FrameKinds DEF Flashes
<1>3. ~Calling(t) /\ UNCHANGED <<scene, made, users, map, writer, memory>> /\ Push(t, f)
  BY <1>1 DEF Flash
<1> HIDE DEF f
<1> QED BY <1>2, <1>3, FirstCall

(* The call on top goes on, and neither holds a stream nor is in a callback. *)
LEMMA TopGoesOn ==
    ASSUME MemoryKept, NEW t \in users, Calling(t), NEW f \in Frames, GoOn(t, f),
           Top(t).pc \in {"entering", "handling"}, f.pc \in {"handling", "sending"},
           Alone => (f.pc = "handling" => PassedIsEmpty(list, f.at))
                    /\ (f.pc = "sending" => NothingLeft(list)),
           UNCHANGED <<scene, made, users, map, writer, memory>>
    PROVE  MemoryKept'
<1> DEFINE s == stack[t]
           r == <<f>> \o Tail(s)
<1>1. /\ s \in Seq(Frames) /\ Nested(s) /\ s # <<>> /\ Top(t) = s[1]
      /\ \A n \in 1..Len(s) : Fits(s[n], writer)
      /\ stack' = [stack EXCEPT ![t] = r]
  BY Caller DEF GoOn
<1>2. /\ r \in Seq(Frames) /\ r # <<>> /\ Len(r) = Len(s) /\ Len(s) \in Nat \ {0} /\ r[1] = f
      /\ \A n \in 2..Len(s) : r[n] = s[n]
  BY <1>1, OneChanged
<1>3. s[1].pc # "called" /\ f.pc # "called" /\ s[1].pc \notin Writes /\ f.pc \notin Writes
  BY <1>1 DEF Writes
<1>4. Nested(r) /\ \A k \in Pool, n \in Nat : HasItem(r, n, k) <=> HasItem(s, n, k)
  BY <1>1, <1>3, NestedMoves, ItemsChanged
<1>5. Alone => AllPoint(s, list, writer, memory)
  BY Caller
<1> HIDE DEF s, r
<1>6. \A n \in 1..Len(r) : Fits(r[n], writer)
  <2>1. Fits(f, writer)
    BY DEF Fits
  <2>2. \A n \in 1..Len(r) : n = 1 \/ n \in 2..Len(s)
    BY <1>2
  <2> QED BY <1>1, <1>2, <2>1, <2>2
<1>7. Alone => Progress(r, list, memory)
  BY <1>2 DEF Progress
<1>8. Alone => AllPoint(r, list, writer, memory)
  <2>1. ~Holds(s) /\ ~Holds(r)
    BY <1>1, <1>2 DEF Holds
  <2> QED BY <1>5, <2>1, PointsWithout
<1>9. Shifts(s, r, 0)
  BY <1>4 DEF Shifts
<1>10. \A d \in Int : Shifts(stack[t], r, d) => MemoryKept'
  BY <1>1, <1>2, <1>4, <1>6, <1>7, <1>8, StackStep DEF s
<1> QED BY <1>9, <1>10 DEF s

LEMMA EnterMapKeeps ==
    ASSUME MemoryKept, NEW t \in users, EnterMap(t)
    PROVE  MemoryKept'
<1> DEFINE f == [pc |-> "handling", session |-> Top(t).session, at |-> <<1, 1>>]
<1>1. Calling(t) /\ Top(t).pc = "entering" /\ GoOn(t, f)
      /\ UNCHANGED <<scene, made, users, map, writer, memory>>
  BY DEF EnterMap, At
<1>2. Top(t) \in Flashing
  BY <1>1, Caller, FrameOf DEF Flashes
<1>3. f \in Frames /\ f.pc = "handling" /\ f.at = <<1, 1>>
  BY <1>2, FrameKinds DEF Flashing
<1> HIDE DEF f
<1>4. PassedIsEmpty(list, f.at)
  BY <1>3 DEF PassedIsEmpty, Before, Entity
<1> QED BY <1>1, <1>3, <1>4, TopGoesOn

(* What is left is left for a pair of the map, by one who sends.             *)
LEMMA VisitsAll ==
    ASSUME MemoryKept, NEW at \in Nat \X Nat
    PROVE  /\ ToVisit(at) \subseteq Entity \X Entity /\ ToVisit(at) \subseteq Nat \X Nat
           /\ \A p \in ToVisit(at) :
                  /\ Before(at, p) /\ list[p[1]][p[2]] # <<>>
                  /\ p[1] \in 1..Len(entities) /\ p[2] \in 1..Len(entities)
                  /\ entities[p[1]].kind \in Senders
           /\ \A i, j \in Entity : list[i][j] # <<>> /\ Before(at, <<i, j>>) => <<i, j>> \in ToVisit(at)
<1>1. DOMAIN entities = 1..Len(entities) /\ \A i \in 1..Len(entities) : i \in Entity
  BY Entities DEF MemoryKept
<1>2. \A k : Sends(k) <=> k \in Senders
  BY DEF Sends, Senders
<1>3. Entity \subseteq Nat
  BY DEF Entity
<1>4. \A p \in ToVisit(at) :
          /\ Before(at, p) /\ list[p[1]][p[2]] # <<>>
          /\ p \in (DOMAIN entities) \X (DOMAIN entities)
          /\ entities[p[1]].kind \in Senders
  BY <1>2 DEF ToVisit
<1>5. \A i, j \in Entity : list[i][j] # <<>> /\ Before(at, <<i, j>>) => <<i, j>> \in ToVisit(at)
  BY <1>1, <1>2 DEF MemoryKept, LeftForMatched, ToVisit
<1> QED BY <1>1, <1>3, <1>4, <1>5

LEMMA LeaveMapKeeps ==
    ASSUME MemoryKept, NEW t \in users, LeaveMap(t)
    PROVE  MemoryKept'
<1> DEFINE f == [pc |-> "sending", session |-> Top(t).session]
<1>1. Calling(t) /\ Top(t).pc = "handling" /\ GoOn(t, f) /\ ToVisit(Top(t).at) = {}
      /\ UNCHANGED <<scene, made, users, map, writer, memory>>
  BY DEF LeaveMap, At
<1>2. Top(t) \in Handling
  BY <1>1, Caller, FrameOf
<1>3. f \in Frames /\ f.pc = "sending" /\ Top(t).at \in Nat \X Nat
  BY <1>2, FrameKinds DEF Handling, Flashes
<1> HIDE DEF f
<1>4. Alone => NothingLeft(list)
  <2>1. Alone => PassedIsEmpty(list, Top(t).at)
    BY <1>1, Caller DEF Progress
  <2> QED BY <1>1, <1>3, <2>1, VisitsAll DEF PassedIsEmpty, NothingLeft
<1> QED BY <1>1, <1>3, <1>4, TopGoesOn

(* A callback writes, or runs the session: one thread only.                  *)
LEMMA CallbackCalls ==
    ASSUME MemoryKept, NEW t \in users, Alone, Calling(t), Top(t).pc = "called",
           NEW a \in Frames, NEW w \in {"wrote", "ran"},
           a.pc = IF w = "wrote" THEN "locking" ELSE "entering",
           stack' = [stack EXCEPT ![t] = <<a, [Top(t) EXCEPT !.did = w]>> \o Tail(stack[t])],
           UNCHANGED <<scene, made, users, map, writer, memory>>
    PROVE  MemoryKept'
<1> DEFINE s == stack[t]
           b == [Top(t) EXCEPT !.did = w]
           r == <<a, b>> \o Tail(s)
<1>1. /\ s \in Seq(Frames) /\ Nested(s) /\ s # <<>> /\ Top(t) = s[1]
      /\ \A n \in 1..Len(s) : s[n] \in Frames /\ Fits(s[n], writer)
      /\ stack' = [stack EXCEPT ![t] = r] /\ 1 \in 1..Len(s)
  BY Caller
<1>2. s[1] \in Handed
  BY <1>1, FrameOf
<1>3. /\ b \in Frames /\ b.pc = "called" /\ b.did = w /\ b.item = s[1].item
      /\ b.from = s[1].from /\ b.reader = s[1].reader
  BY <1>1, <1>2, GoesOn DEF Handed
<1> HIDE DEF b
<1>4. /\ r \in Seq(Frames) /\ r # <<>> /\ Len(r) = Len(s) + 1 /\ Len(s) \in Nat \ {0}
      /\ r[1] = a /\ r[2] = b /\ \A n \in 3..Len(s) + 1 : r[n] = s[n - 1]
  BY <1>1, <1>3, OneOnChanged
<1>5. /\ b.pc = s[1].pc /\ a.pc # "called" /\ (a.pc \in Writes <=> w = "wrote")
  BY <1>1, <1>3 DEF Writes
<1>6. Nested(r)
  BY <1>1, <1>3, <1>5, NestedCalls
<1>7. \A k \in Pool, n \in Nat : HasItem(r, n, k) <=> n \notin {0, 1} /\ HasItem(s, n - 1, k)
  BY <1>1, <1>3, <1>5, ItemsCalled
<1>8. AllPoint(s, list, writer, memory)
  BY Caller
<1> HIDE DEF s, r
<1>9. \A n \in 1..Len(r) : Fits(r[n], writer)
  <2>1. Fits(a, writer)
    BY DEF Fits
  <2>2. Fits(b, writer)
    BY <1>1, <1>3, <1>5 DEF Fits
  <2>3. ASSUME NEW n \in 3..Len(s) + 1 PROVE Fits(r[n], writer)
    <3>1. n - 1 \in 1..Len(s) /\ r[n] = s[n - 1]
      BY <1>4
    <3> QED BY <1>1, <3>1
  <2>4. \A n \in 1..Len(r) : n = 1 \/ n = 2 \/ n \in 3..Len(s) + 1
    BY <1>4
  <2> QED BY <1>4, <2>1, <2>2, <2>3, <2>4
<1>10. Progress(r, list, memory)
  BY <1>4 DEF Progress
<1>11. AllPoint(r, list, writer, memory)
  <2>1. ~Holds(s) /\ ~Holds(r)
    BY <1>1, <1>4 DEF Holds
  <2> QED BY <1>8, <2>1, PointsWithout
<1>12. Shifts(s, r, 1)
  <2>1. \A k \in Pool, n \in Nat : HasItem(s, n, k) => n # 0
    BY DEF HasItem
  <2>2. \A k \in Pool, n \in Nat : HasItem(s, n, k) => n + 1 \in Nat /\ HasItem(r, n + 1, k)
    <3>1. ASSUME NEW k \in Pool, NEW n \in Nat, HasItem(s, n, k)
          PROVE  HasItem(r, n + 1, k)
      <4>1. n # 0 /\ n + 1 \in Nat /\ n + 1 \notin {0, 1} /\ (n + 1) - 1 = n
        BY <2>1, <3>1
      <4> QED BY <1>7, <3>1, <4>1
    <3> QED BY <3>1
  <2>3. \A k \in Pool, n \in Nat : HasItem(r, n, k) => n - 1 \in Nat /\ HasItem(s, n - 1, k)
    BY <1>7
  <2> QED BY <2>2, <2>3 DEF Shifts
<1>13. \A d \in Int : Shifts(stack[t], r, d) => MemoryKept'
  BY <1>1, <1>4, <1>6, <1>9, <1>10, <1>11, StackStep DEF s
<1> QED BY <1>12, <1>13 DEF s

(* What an item points to is a message.                                      *)
LEMMA ItemParts ==
    ASSUME MemoryKept, NEW x \in Items
    PROVE  MessageOf(x) \in Texts /\ x.request_id \in Said /\ x.item \in Pool /\ x.meant \in Texts
           /\ x.session \in Sessions /\ x.cell \in 1..Capacity
BY DEF MemoryKept, TypesKept, MessageOf, Items

LEMMA CallbackWritesKeeps ==
    ASSUME MemoryKept, NEW t \in users, CallbackWrites(t)
    PROVE  MemoryKept'
<1> DEFINE call == Top(t)
           reader == entities[call.reader]
           b == [call EXCEPT !.did = "wrote"]
           Say(e, m) == stack' = [stack EXCEPT ![t] =
                            <<WriteCall(e, m)>> \o (<<b>> \o Tail(stack[t]))]
           answer == [number |-> MessageOf(call.item).number,
                      to |-> IdentityOf(entities[call.from], call.item.request_id)]
           news == [number |-> MessageOf(call.item).number, to |-> <<>>]
<1>1. /\ Alone /\ Calling(t) /\ call.pc = "called"
      /\ IF reader.kind = UXR_REPLIER_ID THEN Say(reader, answer)
         ELSE \E i \in 1..made : scene[i].kind = UXR_DATAWRITER_ID /\ Say(scene[i], news)
      /\ UNCHANGED <<scene, made, users, map, writer, memory>>
  BY DEF CallbackWrites, At
<1>2. call \in Handed /\ stack[t] \in Seq(Frames) /\ stack[t] # <<>> /\ Fits(call, writer)
  BY <1>1, Caller, FrameOf
<1>3. call.reader \in 1..Len(entities) /\ call.from \in 1..Len(entities) /\ call.item \in Items
  BY <1>1, <1>2 DEF Fits, Handed
<1>4. \A i \in 1..Len(entities) :
          /\ entities[i].session \in Sessions /\ entities[i].id \in Nat
          /\ \A nr : IdentityOf(entities[i], nr) = IdentityOf(scene[i], nr)
          /\ scene[i] \in Created
  BY Entities DEF MemoryKept, MapKept, IdentityOf
<1>5. MessageOf(call.item) \in Texts /\ call.item.request_id \in Said
  BY <1>3, ItemParts
<1>6. answer \in Texts /\ news \in Texts
  <2>1. MessageOf(call.item).number \in Said
    BY <1>5 DEF Texts
  <2>2. IdentityOf(entities[call.from], call.item.request_id) \in Identities
    <3>1. scene[call.from] \in Created /\ call.item.request_id \in Said
          /\ IdentityOf(entities[call.from], call.item.request_id)
                = IdentityOf(scene[call.from], call.item.request_id)
      BY <1>3, <1>4, <1>5
    <3> QED BY <3>1 DEF Identities
  <2> QED BY <2>1, <2>2 DEF Texts
<1> HIDE DEF answer, news
<1>7. PICK e, m : /\ e.session \in Sessions /\ e.id \in Nat /\ e.kind \in Senders
                  /\ m \in Texts /\ Say(e, m)
  <2>1. CASE reader.kind = UXR_REPLIER_ID
    BY <1>1, <1>3, <1>4, <1>6, <2>1 DEF Senders
  <2>2. CASE reader.kind # UXR_REPLIER_ID
    BY <1>1, <1>6, <2>2, Entities DEF MemoryKept, MapKept, Senders
  <2> QED BY <2>1, <2>2
<1> DEFINE a == WriteCall(e, m)
<1>8. a \in Frames /\ a.pc = "locking"
  BY <1>7, FrameKinds DEF WriteCall, Writes
<1>9. b \in Frames
  BY <1>2, GoesOn
<1>10. <<a>> \o (<<b>> \o Tail(stack[t])) = <<a, b>> \o Tail(stack[t])
  <2>1. Tail(stack[t]) \in Seq(Frames) /\ <<a>> \in Seq(Frames) /\ <<b>> \in Seq(Frames)
    BY <1>2, <1>8, <1>9, OneLess
  <2> HIDE DEF a, b
  <2>2. <<a>> \o <<b>> = <<a, b>>
    BY OneAndOne
  <2> QED BY <2>1, <2>2, ConcatAssociative
<1> HIDE DEF a
<1>11. stack' = [stack EXCEPT ![t] = <<a, b>> \o Tail(stack[t])]
  BY <1>7, <1>10 DEF a
<1> QED BY <1>1, <1>8, <1>11, CallbackCalls

LEMMA CallbackRunsKeeps ==
    ASSUME MemoryKept, NEW t \in users, CallbackRuns(t)
    PROVE  MemoryKept'
<1> DEFINE a == [pc |-> "entering", session |-> entities[Top(t).reader].session]
<1>1. /\ Calling(t) /\ Top(t).pc = "called" /\ Top(t).did = "wrote"
      /\ stack' = [stack EXCEPT ![t] = <<a, [Top(t) EXCEPT !.did = "ran"]>> \o Tail(stack[t])]
      /\ UNCHANGED <<scene, made, users, map, writer, memory>>
  BY DEF CallbackRuns, At
<1>2. Fits(Top(t), writer)
  BY <1>1, Caller
<1>3. Alone /\ Top(t).reader \in 1..Len(entities)
  BY <1>1, <1>2 DEF Fits
<1>4. entities[Top(t).reader].session \in Sessions
  BY <1>3, Entities DEF MemoryKept, MapKept
<1>5. a \in Frames /\ a.pc = "entering"
  BY <1>4, FrameKinds DEF Flashes
<1> HIDE DEF a
<1> QED BY <1>1, <1>3, <1>5, CallbackCalls

(***************************************************************************)
(* The steps of a stream.                                                  *)
(***************************************************************************)
LEMMA BelowTop ==
    ASSUME NEW s \in Seq(Frames), Nested(s), s # <<>>
    PROVE  /\ \A n \in 1..Len(Tail(s)) :
                  Tail(s)[n] = s[n + 1] /\ n + 1 \in 1..Len(s) /\ s[n + 1].pc \in {"called", "handling"}
           /\ ~Holds(Tail(s))
           /\ Tail(s) # <<>> =>
                  /\ Tail(s)[1] = s[2]
                  /\ s[1].pc \in Writes => s[2].pc = "called" /\ s[2].did = "wrote"
                  /\ s[1].pc \in Flashes => s[2].pc = "called" /\ s[2].did = "ran"
           /\ s[1].pc = "called" => Tail(s) # <<>> /\ s[2].pc = "handling"
<1> DEFINE r == Tail(s)
<1>1. /\ r \in Seq(Frames) /\ Len(r) = Len(s) - 1 /\ Len(s) \in Nat \ {0}
      /\ \A n \in 1..Len(s) - 1 : r[n] = s[n + 1]
  BY OneLess
<1> HIDE DEF r
<1>2. r # <<>> <=> Len(s) >= 2
  <2>1. r = <<>> => Len(r) = 0
    BY EmptySeq
  <2>2. Len(r) = 0 => r = <<>>
    BY <1>1, EmptySeq
  <2> QED BY <1>1, <2>1, <2>2
<1>3. \A n \in 1..Len(r) : r[n] = s[n + 1] /\ n + 1 \in 1..Len(s) /\ s[n + 1].pc \in {"called", "handling"}
  BY <1>1 DEF Nested
<1>4. ASSUME r # <<>>
      PROVE  /\ r[1] = s[2] /\ s[2].pc \in {"called", "handling"}
             /\ s[2].pc = "handling" => s[1].pc = "called"
             /\ s[2].pc = "called" => s[2].did = IF s[1].pc \in Writes THEN "wrote" ELSE "ran"
  <2>1. 1 \in 1..Len(s) - 1 /\ 2 \in 2..Len(s) /\ 2 - 1 = 1 /\ 1 + 1 = 2
    BY <1>1, <1>2, <1>4
  <2> QED BY <1>1, <2>1 DEF Nested, Writes
<1>5. ~Holds(r)
  BY <1>4 DEF Holds
<1>6. s[1].pc = "called" => r # <<>> /\ s[2].pc = "handling"
  BY <1>1, <1>2 DEF Nested
<1> QED BY <1>3, <1>4, <1>5, <1>6 DEF r, Writes, Flashes

LEMMA PopStep ==
    ASSUME MemoryKept, NEW t \in users, Calling(t), Top(t).pc \in Writes \cup Flashes, Pop(t),
           UNCHANGED <<scene, made, users, map>>,
           writer' \in [Sessions -> 0..Capacity], memory' \in [Sessions -> [1..Capacity -> Texts]],
           \A u \in Threads \ {t} : \A n \in 1..Len(stack[u]) :
               stack[u][n].pc \in {"preparing", "serializing"} =>
                   writer'[stack[u][n].session] >= 1,
           Alone /\ Top(t).pc \in Flashes => NothingLeft(list),
           Alone => AllPoint(Tail(stack[t]), list, writer', memory')
    PROVE  MemoryKept'
<1> DEFINE s == stack[t]
           r == Tail(s)
<1>1. /\ s \in Seq(Frames) /\ Nested(s) /\ s # <<>> /\ Top(t) = s[1]
      /\ \A n \in 1..Len(s) : Fits(s[n], writer)
      /\ stack' = [stack EXCEPT ![t] = r]
  BY Caller DEF Pop
<1>2. r \in Seq(Frames) /\ Nested(r)
  BY <1>1, OneLess, NestedReturns
<1>3. /\ \A n \in 1..Len(r) :
             r[n] = s[n + 1] /\ n + 1 \in 1..Len(s) /\ s[n + 1].pc \in {"called", "handling"}
      /\ r # <<>> => /\ r[1] = s[2]
                     /\ s[1].pc \in Writes => s[2].pc = "called" /\ s[2].did = "wrote"
                     /\ s[1].pc \in Flashes => s[2].pc = "called" /\ s[2].did = "ran"
  BY <1>1, BelowTop
<1>4. \A k \in Pool, n \in Nat : HasItem(r, n, k) <=> n # 0 /\ HasItem(s, n + 1, k)
  BY <1>1, ItemsBelow
<1>5. Alone => AllPoint(r, list, writer', memory')
  OBVIOUS
<1> HIDE DEF s, r
<1>6. \A n \in 1..Len(r) : Fits(r[n], writer')
  BY <1>1, <1>3 DEF Fits
<1>7. Alone /\ r # <<>> => Progress(r, list, memory')
  BY <1>1, <1>3 DEF Progress
<1>8. Shifts(s, r, -1)
  <2>1. \A k \in Pool : ~HasItem(s, 1, k) /\ \A n \in Nat : HasItem(s, n, k) => n # 0
    BY <1>1 DEF HasItem, Writes, Flashes
  <2>2. ASSUME NEW k \in Pool, NEW n \in Nat, HasItem(s, n, k)
        PROVE  n + (-1) \in Nat /\ HasItem(r, n + (-1), k)
    <3>1. n # 0 /\ n # 1
      BY <2>1, <2>2
    <3>2. n + (-1) \in Nat /\ n + (-1) # 0 /\ (n + (-1)) + 1 = n
      BY <3>1
    <3> QED BY <1>4, <2>2, <3>2
  <2>3. ASSUME NEW k \in Pool, NEW n \in Nat, HasItem(r, n, k)
        PROVE  n - (-1) \in Nat /\ HasItem(s, n - (-1), k)
    <3>1. n - (-1) = n + 1
      OBVIOUS
    <3> QED BY <1>4, <2>3, <3>1
  <2> QED BY <2>2, <2>3 DEF Shifts
<1>9. \A d \in Int : Shifts(stack[t], r, d) => MemoryKept'
  BY <1>1, <1>2, <1>5, <1>6, <1>7, StreamStep DEF s
<1> QED BY <1>8, <1>9 DEF s

LEMMA ListItems ==
    ASSUME MemoryKept, NEW i \in Entity, NEW j \in Entity
    PROVE  /\ list[i][j] \in Seq(Items) /\ Len(list[i][j]) \in Nat
           /\ \A n \in 1..Len(list[i][j]) : list[i][j][n] \in Items
<1>1. list[i][j] \in Seq(Items)
  BY DEF MemoryKept, TypesKept
<1> QED BY <1>1, LenProperties, ElementOfSeq

LEMMA StreamParts ==
    ASSUME MemoryKept, NEW f \in Writing
    PROVE  /\ f.session \in Sessions /\ f.kind \in Senders /\ f.id \in Nat /\ f.message \in Texts
           /\ writer[f.session] \in 0..Capacity /\ Capacity \in Nat
BY SharedMemoryAssumption DEF MemoryKept, TypesKept, Writing

LEMMA LockStreamKeeps ==
    ASSUME MemoryKept, NEW t \in users, LockStream(t)
    PROVE  MemoryKept'
<1> DEFINE s == stack[t]
           f == Top(t)
           c == f.session
           a == [f EXCEPT !.pc = "preparing"]
           r == <<a>> \o Tail(s)
<1>1. /\ Calling(t) /\ f.pc = "locking" /\ UNCHANGED <<scene, made, users, map, memory>>
      /\ IF writer[c] = Capacity THEN Pop(t) /\ UNCHANGED writer
         ELSE writer' = [writer EXCEPT ![c] = @ + 1] /\ GoOn(t, a)
  BY DEF LockStream, At
<1>2. /\ s \in Seq(Frames) /\ Nested(s) /\ s # <<>> /\ f = s[1] /\ f \in Writing
      /\ \A n \in 1..Len(s) : s[n] \in Frames /\ Fits(s[n], writer)
  BY <1>1, Caller, FrameOf DEF Writes
<1>3. /\ c \in Sessions /\ writer[c] \in 0..Capacity /\ Capacity \in Nat
      /\ writer \in [Sessions -> 0..Capacity] /\ memory \in [Sessions -> [1..Capacity -> Texts]]
  BY <1>2, StreamParts DEF MemoryKept, TypesKept
<1>4. ~Holds(s)
  BY <1>1, <1>2 DEF Holds
<1>5. Alone => AllPoint(s, list, writer, memory)
  BY Caller
<1>6. CASE writer[c] = Capacity
  <2>1. Pop(t) /\ writer' = writer /\ memory' = memory
    BY <1>1, <1>6
  <2>2. ~Holds(Tail(s))
    BY <1>2, BelowTop
  <2>3. Alone => AllPoint(Tail(s), list, writer, memory)
    BY <1>4, <1>5, <2>2, PointsWithout
  <2>4. Alone => AllPoint(Tail(stack[t]), list, writer', memory')
    BY <2>1, <2>3
  <2>5. \A u \in Threads \ {t} : \A n \in 1..Len(stack[u]) :
            stack[u][n].pc \in {"preparing", "serializing"} => writer'[stack[u][n].session] >= 1
    BY <2>1, OthersHold
  <2>6. Top(t).pc \in Writes \cup Flashes /\ Top(t).pc \notin Flashes
    BY <1>1 DEF Writes, Flashes
  <2> QED BY <1>1, <1>3, <2>1, <2>4, <2>5, <2>6, PopStep
<1>7. CASE writer[c] # Capacity
  <2>1. writer' = [writer EXCEPT ![c] = @ + 1] /\ stack' = [stack EXCEPT ![t] = r] /\ memory' = memory
    BY <1>1, <1>7 DEF GoOn
  <2>2. /\ writer' \in [Sessions -> 0..Capacity] /\ writer'[c] = writer[c] + 1
        /\ \A d \in Sessions : writer[d] \in Nat /\ writer'[d] >= writer[d] /\ writer'[d] \in Nat
        /\ \A d \in Sessions : d # c => writer'[d] = writer[d]
    BY <1>3, <1>7, <2>1
  <2>3. a \in Frames /\ a.pc = "preparing" /\ a.session = c
    BY <1>2, GoesOn DEF Writes, Writing
  <2> HIDE DEF a
  <2>4. /\ r \in Seq(Frames) /\ r # <<>> /\ Len(r) = Len(s) /\ Len(s) \in Nat \ {0} /\ r[1] = a
        /\ \A n \in 2..Len(s) : r[n] = s[n]
    BY <1>2, <2>3, OneChanged
  <2>5. s[1].pc # "called" /\ a.pc # "called" /\ s[1].pc \in Writes /\ a.pc \in Writes
    BY <1>1, <1>2, <2>3 DEF Writes
  <2>6. Nested(r) /\ \A k \in Pool, n \in Nat : HasItem(r, n, k) <=> HasItem(s, n, k)
    BY <1>2, <2>3, <2>5, NestedMoves, ItemsChanged
  <2>7. Shifts(s, r, 0)
    BY <2>6 DEF Shifts
  <2>8. \A u \in Threads \ {t} : \A n \in 1..Len(stack[u]) :
            stack[u][n].pc \in {"preparing", "serializing"} => writer'[stack[u][n].session] >= 1
    <3>1. ASSUME NEW u \in Threads \ {t}, NEW n \in 1..Len(stack[u]),
                 stack[u][n].pc \in {"preparing", "serializing"}
          PROVE  writer'[stack[u][n].session] >= 1
      <4>1. stack[u][n] \in Frames
        BY ElementOfSeq DEF MemoryKept, TypesKept
      <4>2. stack[u][n] \in Writing
        BY <3>1, <4>1, FrameOf DEF Writes
      <4>3. stack[u][n].session \in Sessions
        BY <4>2 DEF Writing
      <4>4. writer[stack[u][n].session] >= 1
        BY <3>1, OthersHold
      <4> QED BY <2>2, <4>3, <4>4
    <3> QED BY <3>1
  <2>9. ASSUME Alone PROVE AllPoint(r, list, writer', memory')
    <3> SUFFICES ASSUME NEW i \in Entity, NEW j \in Entity, NEW n \in 1..Len(list[i][j])
                 PROVE  Points(r, list[i][j][n], writer', memory')
      BY DEF AllPoint
    <3> DEFINE x == list[i][j][n]
    <3>1. x.session \in Sessions /\ x.cell \in 1..Capacity
      BY ListItems, ItemParts
    <3>2. Points(s, x, writer, memory)
      BY <1>5, <2>9 DEF AllPoint
    <3> HIDE DEF x, r, s
    <3>3. x.cell <= writer[x.session] /\ Says(memory, x)
      BY <1>4, <3>2 DEF Points, Holds, HoldsStream
    <3>4. x.cell <= writer'[x.session]
      BY <2>2, <3>1, <3>3
    <3>5. ~(x.session = c /\ x.cell = writer'[x.session])
      BY <1>3, <2>2, <3>1, <3>3
    <3>6. Says(memory', x) /\ r[1].session = c
      BY <2>1, <2>3, <2>4, <3>3
    <3> QED BY <3>4, <3>5, <3>6 DEF Points, HoldsStream, x
  <2> HIDE DEF r, s
  <2>10. \A n \in 1..Len(r) : Fits(r[n], writer')
    <3>1. Fits(a, writer')
      BY <1>3, <2>2, <2>3 DEF Fits
    <3>2. ASSUME NEW n \in 2..Len(s) PROVE Fits(r[n], writer')
      <4>1. s[n].pc \in {"called", "handling"} /\ Fits(s[n], writer) /\ r[n] = s[n]
        BY <1>2, <2>4 DEF Nested
      <4> QED BY <4>1 DEF Fits
    <3>3. \A n \in 1..Len(r) : n = 1 \/ n \in 2..Len(s)
      BY <2>4
    <3> QED BY <2>4, <3>1, <3>2, <3>3
  <2>11. Progress(r, list, memory')
    BY <2>3, <2>4 DEF Progress
  <2>12. memory' \in [Sessions -> [1..Capacity -> Texts]] /\ UNCHANGED <<scene, made, users, map>>
    BY <1>1, <1>3, <2>1
  <2>13. \A d \in Int : Shifts(stack[t], r, d) => MemoryKept'
    BY <2>1, <2>2, <2>4, <2>6, <2>8, <2>9, <2>10, <2>11, <2>12, StreamStep DEF s
  <2> QED BY <2>7, <2>13 DEF s
<1> QED BY <1>6, <1>7

LEMMA SerializeKeeps ==
    ASSUME MemoryKept, NEW t \in users, Serialize(t)
    PROVE  MemoryKept'
<1> DEFINE s == stack[t]
           f == Top(t)
           c == f.session
<1>1. /\ Calling(t) /\ f.pc = "serializing" /\ UNCHANGED <<scene, made, users, map, writer>>
      /\ memory' = [memory EXCEPT ![c][writer[c]] = f.message] /\ Pop(t) /\ writer' = writer
  BY DEF Serialize, At
<1>2. /\ s \in Seq(Frames) /\ Nested(s) /\ s # <<>> /\ f = s[1] /\ f \in Writing
      /\ Fits(f, writer)
  BY <1>1, Caller, FrameOf DEF Writes
<1>3. /\ c \in Sessions /\ writer[c] \in 1..Capacity /\ f.message \in Texts
      /\ writer \in [Sessions -> 0..Capacity] /\ memory \in [Sessions -> [1..Capacity -> Texts]]
  <2>1. writer[c] >= 1
    BY <1>1, <1>2 DEF Fits
  <2> QED BY <1>2, <2>1, StreamParts DEF MemoryKept, TypesKept
<1>4. /\ memory' \in [Sessions -> [1..Capacity -> Texts]]
      /\ \A d \in Sessions, e \in 1..Capacity :
             memory'[d][e] = IF d = c /\ e = writer[c] THEN f.message ELSE memory[d][e]
  BY <1>1, <1>3
<1>5. ASSUME Alone PROVE AllPoint(Tail(s), list, writer', memory')
  <2> SUFFICES ASSUME NEW i \in Entity, NEW j \in Entity, NEW n \in 1..Len(list[i][j])
               PROVE  Points(Tail(s), list[i][j][n], writer', memory')
    BY DEF AllPoint
  <2> DEFINE x == list[i][j][n]
             r == Tail(s)
  <2>1. x.session \in Sessions /\ x.cell \in 1..Capacity
    BY ListItems, ItemParts
  <2>2. Points(s, x, writer, memory)
    BY <1>5, Caller DEF AllPoint
  <2>3. ~Holds(r)
    BY <1>2, BelowTop
  <2> HIDE DEF x, r, s
  <2>4. CASE x.session = c /\ x.cell = writer[c]
    <3>1. x.cell <= writer[x.session] /\ x.meant = f.message
      BY <1>1, <1>2, <2>2, <2>4 DEF Points, HoldsStream
    <3>2. Says(memory', x)
      BY <1>4, <2>1, <2>4, <3>1 DEF Says
    <3> QED BY <1>1, <2>3, <3>1, <3>2 DEF Points, Holds, HoldsStream, x, r
  <2>5. CASE ~(x.session = c /\ x.cell = writer[c])
    <3>1. x.cell <= writer[x.session] /\ Says(memory, x)
      BY <1>2, <2>2, <2>5 DEF Points, HoldsStream
    <3>2. Says(memory', x)
      BY <1>4, <2>1, <2>5, <3>1 DEF Says
    <3> QED BY <1>1, <2>3, <3>1, <3>2 DEF Points, Holds, HoldsStream, x, r
  <2> QED BY <2>4, <2>5
<1>6. \A u \in Threads \ {t} : \A n \in 1..Len(stack[u]) :
          stack[u][n].pc \in {"preparing", "serializing"} => writer'[stack[u][n].session] >= 1
  BY <1>1, OthersHold
<1>7. Top(t).pc \in Writes \cup Flashes /\ Top(t).pc \notin Flashes
  BY <1>1 DEF Writes, Flashes
<1>8. writer' \in [Sessions -> 0..Capacity] /\ UNCHANGED <<scene, made, users, map>>
  BY <1>1, <1>3
<1>9. Alone => AllPoint(Tail(stack[t]), list, writer', memory')
  BY <1>5
<1> QED BY <1>1, <1>4, <1>6, <1>7, <1>8, <1>9, PopStep

LEMMA SendStreamKeeps ==
    ASSUME MemoryKept, NEW t \in users, SendStream(t)
    PROVE  MemoryKept'
<1> DEFINE f == Top(t)
           c == f.session
<1>1. /\ Calling(t) /\ f.pc = "sending" /\ UNCHANGED <<scene, made, users, map>>
      /\ StreamFree(t, c) /\ writer' = [writer EXCEPT ![c] = 0] /\ memory' = memory /\ Pop(t)
  BY DEF SendStream, At
<1>2. Capacity \in Nat /\ writer \in [Sessions -> 0..Capacity]
      /\ memory \in [Sessions -> [1..Capacity -> Texts]] /\ stack \in [Threads -> Seq(Frames)]
  BY SharedMemoryAssumption DEF MemoryKept, TypesKept
<1>3. writer' \in [Sessions -> 0..Capacity] /\ \A d \in Sessions : d # c => writer'[d] = writer[d]
  <2>1. 0 \in 0..Capacity
    BY <1>2
  <2> HIDE DEF c
  <2> QED BY <1>1, <1>2, <2>1
<1>4. ASSUME NEW u \in Threads \ {t}, NEW n \in 1..Len(stack[u]),
             stack[u][n].pc \in {"preparing", "serializing"}
      PROVE  writer'[stack[u][n].session] >= 1
  <2>1. stack[u][n] \in Frames /\ DOMAIN stack[u] = 1..Len(stack[u])
    BY <1>2, ElementOfSeq, LenProperties
  <2>2. stack[u][n] \in Writing
    BY <1>4, <2>1, FrameOf DEF Writes
  <2>3. stack[u][n].session \in Sessions /\ writer[stack[u][n].session] >= 1
    BY <1>4, <2>2, OthersHold DEF Writing
  <2>4. stack[u][n].session # c
    BY <1>1, <1>4, <2>1 DEF StreamFree, HoldsStream
  <2> QED BY <1>3, <2>3, <2>4
<1>5. Alone => NothingLeft(list)
  BY <1>1, Caller DEF Progress
<1>6. Alone => AllPoint(Tail(stack[t]), list, writer', memory')
  <2>1. ASSUME Alone, NEW i \in Entity, NEW j \in Entity PROVE Len(list[i][j]) = 0
    BY <1>5, <2>1, EmptySeq DEF NothingLeft
  <2> QED BY <2>1 DEF AllPoint
<1>7. Top(t).pc \in Writes \cup Flashes
  BY <1>1 DEF Writes, Flashes
<1> QED BY <1>1, <1>2, <1>3, <1>4, <1>5, <1>6, <1>7, PopStep

(***************************************************************************)
(* An item goes from one place to another.                                 *)
(***************************************************************************)
LEMMA LeftAt ==
    ASSUME NEW lists, NEW k, NEW i \in Entity, NEW j \in Entity, NEW n \in Nat
    PROVE  <<i, j, n>> \in LeftIn(lists, k) <=>
               n \in 1..Len(lists[i][j]) /\ lists[i][j][n].item = k
BY DEF LeftIn

(* A list that stays holds what it held.                                     *)
LEMMA LeftElsewhere ==
    ASSUME NEW lists, NEW new, NEW k, NEW i \in Entity, NEW j \in Entity, NEW n \in Nat
    PROVE  new[i][j] = lists[i][j] =>
               (<<i, j, n>> \in LeftIn(new, k) <=> <<i, j, n>> \in LeftIn(lists, k))
<1>1. <<i, j, n>> \in LeftIn(new, k) <=> n \in 1..Len(new[i][j]) /\ new[i][j][n].item = k
  BY DEF LeftIn
<1>2. <<i, j, n>> \in LeftIn(lists, k) <=> n \in 1..Len(lists[i][j]) /\ lists[i][j][n].item = k
  BY DEF LeftIn
<1> QED BY <1>1, <1>2

(* A place in a list of items left is a triple.                              *)
LEMMA LeftPlaces ==
    ASSUME NEW lists, NEW k
    PROVE  \A p \in LeftIn(lists, k) :
              p = <<p[1], p[2], p[3]>> /\ p[1] \in Entity /\ p[2] \in Entity /\ p[3] \in Nat
<1>1. ASSUME NEW p \in Entity \X Entity \X Nat
      PROVE  p = <<p[1], p[2], p[3]>> /\ p[1] \in Entity /\ p[2] \in Entity /\ p[3] \in Nat
  OBVIOUS
<1> QED BY <1>1 DEF LeftIn

Shortened(lists, new, a, b) == \A i, j \in Entity :
    new[i][j] = IF i = a /\ j = b THEN Tail(lists[a][b]) ELSE lists[i][j]

LEMMA LeftTaken ==
    ASSUME NEW lists \in [Entity -> [Entity -> Seq(Items)]], NEW a \in Entity, NEW b \in Entity,
           lists[a][b] # <<>>, NEW k, Single(LeftIn(lists, k)),
           NEW new, Shortened(lists, new, a, b)
    PROVE  /\ lists[a][b][1].item = k => LeftIn(lists, k) # {} /\ LeftIn(new, k) = {}
           /\ lists[a][b][1].item # k => Same(LeftIn(lists, k), LeftIn(new, k))
<1>1. lists[a][b] \in Seq(Items)
  OBVIOUS
<1> DEFINE l == lists[a][b]
           m == Tail(l)
<1>2. Len(m) = Len(l) - 1 /\ Len(l) \in Nat \ {0} /\ \A n \in 1..Len(l) - 1 : m[n] = l[n + 1]
  BY <1>1, OneLess
<1>3. new[a][b] = m
  BY DEF Shortened
<1> HIDE DEF m
<1>4. ASSUME NEW n \in Nat
      PROVE  <<a, b, n>> \in LeftIn(new, k) <=> n # 0 /\ <<a, b, n + 1>> \in LeftIn(lists, k)
  <2>1. n \in 1..Len(m) <=> n # 0 /\ n + 1 \in 1..Len(l)
    BY <1>2
  <2>2. n \in 1..Len(m) => m[n] = l[n + 1]
    BY <1>2
  <2> HIDE DEF l
  <2>3. <<a, b, n>> \in LeftIn(new, k) <=> n \in 1..Len(m) /\ m[n].item = k
    <3>1. <<a, b, n>> \in LeftIn(new, k) <=> n \in 1..Len(new[a][b]) /\ new[a][b][n].item = k
      BY LeftAt
    <3> QED BY <1>3, <3>1
  <2>4. <<a, b, n + 1>> \in LeftIn(lists, k) <=> n + 1 \in 1..Len(l) /\ l[n + 1].item = k
    BY LeftAt DEF l
  <2> QED BY <2>1, <2>2, <2>3, <2>4
<1>5. ASSUME NEW i \in Entity, NEW j \in Entity, ~(i = a /\ j = b), NEW n \in Nat
      PROVE  <<i, j, n>> \in LeftIn(new, k) <=> <<i, j, n>> \in LeftIn(lists, k)
  <2>1. new[i][j] = lists[i][j]
    BY <1>5 DEF Shortened
  <2> QED BY <2>1, LeftElsewhere
<1>6. <<a, b, 1>> \in LeftIn(lists, k) <=> l[1].item = k
  <2>1. 1 \in 1..Len(l)
    BY <1>2
  <2> QED BY <2>1, LeftAt
<1>7. \A p \in LeftIn(lists, k) \cup LeftIn(new, k) :
          p = <<p[1], p[2], p[3]>> /\ p[1] \in Entity /\ p[2] \in Entity /\ p[3] \in Nat
  BY LeftPlaces
<1> HIDE DEF l
<1>8. CASE l[1].item = k
  <2>1. ASSUME NEW p \in LeftIn(new, k) PROVE FALSE
    <3>1. p = <<p[1], p[2], p[3]>> /\ p[1] \in Entity /\ p[2] \in Entity /\ p[3] \in Nat
      BY <1>7
    <3>2. PICK n \in Nat : <<p[1], p[2], n>> \in LeftIn(lists, k) /\ <<p[1], p[2], n>> # <<a, b, 1>>
      <4>1. CASE p[1] = a /\ p[2] = b
        <5>1. p[3] # 0 /\ <<a, b, p[3] + 1>> \in LeftIn(lists, k)
          BY <1>4, <3>1, <4>1
        <5>2. p[3] + 1 \in Nat /\ p[3] + 1 # 1
          <6>1. \A n \in Nat : n # 0 => n + 1 \in Nat /\ n + 1 # 1
            OBVIOUS
          <6> QED BY <3>1, <5>1, <6>1
        <5> QED BY <4>1, <5>1, <5>2
      <4>2. CASE ~(p[1] = a /\ p[2] = b)
        BY <1>5, <3>1, <4>2
      <4> QED BY <4>1, <4>2
    <3> QED BY <1>6, <1>8, <3>2 DEF Single
  <2> QED BY <1>6, <1>8, <2>1 DEF l
<1>9. CASE l[1].item # k
  <2> DEFINE on == [p \in Entity \X Entity |-> IF p = <<a, b>> THEN -1 ELSE 0]
             S == LeftIn(lists, k)
             T == LeftIn(new, k)
  <2>1. on \in [Entity \X Entity -> Int]
    OBVIOUS
  <2>2. \A i, j \in Entity : on[<<i, j>>] = IF i = a /\ j = b THEN -1 ELSE 0
    OBVIOUS
  <2>3. S \subseteq Entity \X Entity \X Nat /\ T \subseteq Entity \X Entity \X Nat
    BY DEF LeftIn
  <2>4. ASSUME NEW i \in Entity, NEW j \in Entity, NEW n \in Nat, <<i, j, n>> \in T
        PROVE  <<i, j, n - on[<<i, j>>]>> \in S
    <3>1. CASE i = a /\ j = b
      <4>1. on[<<i, j>>] = -1 /\ n - (-1) = n + 1
        BY <2>2, <3>1
      <4> HIDE DEF on
      <4> QED BY <1>4, <2>4, <3>1, <4>1
    <3>2. CASE ~(i = a /\ j = b)
      <4>1. on[<<i, j>>] = 0 /\ n - 0 = n
        BY <2>2, <3>2
      <4> HIDE DEF on
      <4> QED BY <1>5, <2>4, <3>2, <4>1
    <3> QED BY <3>1, <3>2
  <2>5. ASSUME NEW i \in Entity, NEW j \in Entity, NEW n \in Nat, <<i, j, n>> \in S
        PROVE  <<i, j, n + on[<<i, j>>]>> \in T
    <3>1. CASE i = a /\ j = b
      <4>1. on[<<i, j>>] = -1
        BY <2>2, <3>1
      <4> HIDE DEF on
      <4>2. n \in 1..Len(lists[i][j])
        BY <2>5, LeftAt
      <4>3. n # 1
        BY <1>6, <1>9, <2>5, <3>1
      <4>4. n + (-1) \in Nat /\ n + (-1) # 0 /\ (n + (-1)) + 1 = n
        BY <4>2, <4>3
      <4> QED BY <1>4, <2>5, <3>1, <4>1, <4>4
    <3>2. CASE ~(i = a /\ j = b)
      <4>1. on[<<i, j>>] = 0 /\ n + 0 = n
        BY <2>2, <3>2
      <4> HIDE DEF on
      <4> QED BY <1>5, <2>5, <3>2, <4>1
    <3> QED BY <3>1, <3>2
  <2> HIDE DEF on, S, T
  <2>6. Same(S, T)
    BY <2>1, <2>3, <2>4, <2>5, LeftShifts
  <2> QED BY <1>9, <2>6 DEF S, T, l
<1> QED BY <1>8, <1>9

LEMMA FreeGrows ==
    ASSUME NEW free \in Seq(Pool), NEW x \in Pool, NEW k
    PROVE  /\ <<x>> \o free \in Seq(Pool)
           /\ x = k /\ FreeIn(free, k) = {} =>
                  FreeIn(<<x>> \o free, k) # {} /\ Single(FreeIn(<<x>> \o free, k))
           /\ x # k => Same(FreeIn(free, k), FreeIn(<<x>> \o free, k))
<1> DEFINE new == <<x>> \o free
           S == FreeIn(free, k)
           T == FreeIn(new, k)
<1>1. /\ new \in Seq(Pool) /\ Len(new) = Len(free) + 1 /\ Len(free) \in Nat /\ new[1] = x
      /\ \A n \in 2..Len(free) + 1 : new[n] = free[n - 1]
  BY OneMore
<1> HIDE DEF new
<1>2. S \subseteq Nat /\ T \subseteq Nat /\ 0 \notin S /\ 0 \notin T
  BY DEF FreeIn
<1>3. 1 \in T <=> x = k
  BY <1>1 DEF FreeIn
<1>4. \A n \in Nat : n \notin {0, 1} => (n \in T <=> n - 1 \in S)
  <2>1. ASSUME NEW n \in Nat, n \notin {0, 1} PROVE n \in T <=> n - 1 \in S
    <3>1. n \in 1..Len(new) <=> n - 1 \in 1..Len(free)
      BY <1>1, <2>1
    <3>2. n \in 1..Len(new) => new[n] = free[n - 1]
      BY <1>1, <2>1
    <3> QED BY <3>1, <3>2 DEF FreeIn
  <2> QED BY <2>1
<1>5. ASSUME x = k, S = {} PROVE T # {} /\ Single(T)
  <2>1. \A n \in T : n = 1
    BY <1>2, <1>4, <1>5
  <2> HIDE DEF S, T
  <2> QED BY <1>3, <1>5, <2>1 DEF Single
<1>6. ASSUME x # k PROVE Same(S, T)
  <2>1. \A n \in T : n - 1 \in S
    BY <1>2, <1>3, <1>4, <1>6
  <2>2. ASSUME NEW n \in S PROVE n + 1 \in T
    <3>1. n + 1 \in Nat /\ n + 1 \notin {0, 1} /\ (n + 1) - 1 = n
      BY <1>2
    <3> QED BY <1>4, <3>1
  <2>3. \A d \in Int : (\A n \in T : n - d \in S) /\ (\A n \in S : n + d \in T) => Same(S, T)
    <3> HIDE DEF S, T
    <3> QED BY <1>2, FreeShifts
  <2> QED BY <2>1, <2>2, <2>3
<1> QED BY <1>1, <1>5, <1>6 DEF new

LEMMA HandedGrows ==
    ASSUME NEW old, NEW new, NEW t \in Threads, NEW k, NEW x,
           \A u \in Threads \ {t} : new[u] = old[u],
           \A n \in Nat : HasItem(new[t], n, k) <=>
               IF n = 1 THEN x = k ELSE n # 0 /\ HasItem(old[t], n - 1, k)
    PROVE  /\ x = k /\ HandedIn(old, k) = {} => HandedIn(new, k) # {} /\ Single(HandedIn(new, k))
           /\ x # k => Same(HandedIn(old, k), HandedIn(new, k))
<1>1. ASSUME x = k, HandedIn(old, k) = {} PROVE HandedIn(new, k) # {} /\ Single(HandedIn(new, k))
  <2>1. <<t, 1>> \in HandedIn(new, k)
    BY <1>1 DEF HandedIn
  <2>2. ASSUME NEW p \in HandedIn(new, k) PROVE p = <<t, 1>>
    <3>1. p \in Threads \X Nat /\ HasItem(new[p[1]], p[2], k) /\ p = <<p[1], p[2]>>
      BY DEF HandedIn
    <3>2. p[1] = t
      <4>1. SUFFICES ASSUME p[1] # t PROVE FALSE
        OBVIOUS
      <4>2. p \in HandedIn(old, k)
        BY <3>1, <4>1 DEF HandedIn
      <4> QED BY <1>1, <4>2
    <3>3. p[2] = 1
      <4>1. SUFFICES ASSUME p[2] # 1 PROVE FALSE
        OBVIOUS
      <4>2. p[2] # 0 /\ HasItem(old[t], p[2] - 1, k) /\ p[2] - 1 \in Nat
        BY <3>1, <3>2, <4>1
      <4>3. <<t, p[2] - 1>> \in HandedIn(old, k)
        BY <4>2 DEF HandedIn
      <4> QED BY <1>1, <4>3
    <3> QED BY <3>1, <3>2, <3>3
  <2> QED BY <2>1, <2>2 DEF Single
<1>2. ASSUME x # k PROVE Same(HandedIn(old, k), HandedIn(new, k))
  <2>1. ASSUME NEW n \in Nat, HasItem(new[t], n, k) PROVE n - 1 \in Nat /\ HasItem(old[t], n - 1, k)
    BY <1>2, <2>1
  <2>2. ASSUME NEW n \in Nat, HasItem(old[t], n, k) PROVE n + 1 \in Nat /\ HasItem(new[t], n + 1, k)
    <3>1. n # 0
      BY <2>2 DEF HasItem
    <3>2. n + 1 \in Nat /\ n + 1 # 1 /\ n + 1 # 0 /\ (n + 1) - 1 = n
      BY <3>1
    <3> QED BY <2>2, <3>2
  <2>3. \A d \in Int :
            (\A n \in Nat :
                /\ HasItem(new[t], n, k) => n - d \in Nat /\ HasItem(old[t], n - d, k)
                /\ HasItem(old[t], n, k) => n + d \in Nat /\ HasItem(new[t], n + d, k))
            => Same(HandedIn(old, k), HandedIn(new, k))
    BY HandedShifts
  <2> QED BY <2>1, <2>2, <2>3
<1> QED BY <1>1, <1>2

Uncalled(old, new, t, k) ==
    /\ \A u \in Threads \ {t} : new[u] = old[u]
    /\ \A n \in Nat : HasItem(new[t], n, k) <=> n # 0 /\ HasItem(old[t], n + 1, k)

LEMMA HandedShrinks ==
    ASSUME NEW old, NEW new, NEW t \in Threads, NEW k, Single(HandedIn(old, k)),
           Uncalled(old, new, t, k)
    PROVE  /\ HasItem(old[t], 1, k) => HandedIn(old, k) # {} /\ HandedIn(new, k) = {}
           /\ ~HasItem(old[t], 1, k) => Same(HandedIn(old, k), HandedIn(new, k))
<1> USE DEF Uncalled
<1>1. ASSUME HasItem(old[t], 1, k) PROVE HandedIn(old, k) # {} /\ HandedIn(new, k) = {}
  <2>1. <<t, 1>> \in HandedIn(old, k)
    BY <1>1 DEF HandedIn
  <2>2. ASSUME NEW p \in HandedIn(new, k) PROVE FALSE
    <3>1. p \in Threads \X Nat /\ HasItem(new[p[1]], p[2], k) /\ p = <<p[1], p[2]>>
      BY DEF HandedIn
    <3>2. CASE p[1] # t
      <4>1. p \in HandedIn(old, k)
        BY <3>1, <3>2 DEF HandedIn
      <4> QED BY <2>1, <3>1, <3>2, <4>1 DEF Single
    <3>3. CASE p[1] = t
      <4>1. p[2] # 0 /\ HasItem(old[t], p[2] + 1, k) /\ p[2] + 1 \in Nat /\ p[2] + 1 # 1
        BY <3>1, <3>3
      <4>2. <<t, p[2] + 1>> \in HandedIn(old, k)
        BY <4>1 DEF HandedIn
      <4> QED BY <2>1, <4>1, <4>2 DEF Single
    <3> QED BY <3>2, <3>3
  <2> QED BY <2>1, <2>2
<1>2. ASSUME ~HasItem(old[t], 1, k) PROVE Same(HandedIn(old, k), HandedIn(new, k))
  <2>1. ASSUME NEW n \in Nat, HasItem(new[t], n, k)
        PROVE  n - (-1) \in Nat /\ HasItem(old[t], n - (-1), k)
    <3>1. n - (-1) = n + 1
      OBVIOUS
    <3> QED BY <2>1, <3>1
  <2>2. ASSUME NEW n \in Nat, HasItem(old[t], n, k)
        PROVE  n + (-1) \in Nat /\ HasItem(new[t], n + (-1), k)
    <3>1. n # 0 /\ n # 1
      <4>1. n # 0
        BY <2>2 DEF HasItem
      <4> QED BY <1>2, <2>2, <4>1
    <3>2. n + (-1) \in Nat /\ n + (-1) # 0 /\ (n + (-1)) + 1 = n
      BY <3>1
    <3> QED BY <2>2, <3>2
  <2> DEFINE P(d) == \A n \in Nat :
                /\ HasItem(new[t], n, k) => n - d \in Nat /\ HasItem(old[t], n - d, k)
                /\ HasItem(old[t], n, k) => n + d \in Nat /\ HasItem(new[t], n + d, k)
  <2>3. P(-1)
    BY <2>1, <2>2
  <2>4. \A d \in Int : P(d) => Same(HandedIn(old, k), HandedIn(new, k))
    BY HandedShifts
  <2> HIDE DEF P
  <2> QED BY <2>3, <2>4
<1> QED BY <1>1, <1>2

LEMMA MovedInOne ==
    ASSUME NEW F, NEW L, NEW H, NEW F2, NEW L2, NEW H2, InOne(F, L, H)
    PROVE  /\ L # {} /\ L2 = {} /\ F2 # {} /\ Single(F2) /\ Same(H, H2) => InOne(F2, L2, H2)
           /\ L # {} /\ L2 = {} /\ H2 # {} /\ Single(H2) /\ Same(F, F2) => InOne(F2, L2, H2)
           /\ H # {} /\ H2 = {} /\ F2 # {} /\ Single(F2) /\ Same(L, L2) => InOne(F2, L2, H2)
           /\ F # {} /\ F2 = {} /\ L2 # {} /\ Single(L2) /\ Same(H, H2) => InOne(F2, L2, H2)
BY DEF InOne, Same, Single

(***************************************************************************)
(* The steps that move items.                                              *)
(***************************************************************************)
LEMMA MemoryStep ==
    ASSUME MemoryKept, NEW t \in users, NEW r \in Seq(Frames), stack' = [stack EXCEPT ![t] = r],
           UNCHANGED <<scene, made, users, entities, matched, writer, memory>>,
           list' \in [Entity -> [Entity -> Seq(Items)]], mempool_freeitems' \in Seq(Pool),
           LeftForMatched', Nested(r), \A n \in 1..Len(r) : Fits(r[n], writer), ItemsKept',
           Alone /\ r # <<>> => Progress(r, list', memory),
           Alone => AllPoint(r, list', writer, memory)
    PROVE  MemoryKept'
<1>1. /\ MapKept /\ TypesKept /\ LeftForMatched /\ StacksKept /\ ItemsKept /\ AloneKept
      /\ UNCHANGED <<entities, matched>> /\ UNCHANGED <<scene, made, users>>
      /\ writer' = writer /\ memory' = memory
  BY DEF MemoryKept
<1>2. t \in Threads /\ users \subseteq Threads
  BY <1>1 DEF MapKept
<1>3. MapKept'
  BY <1>1, MapStays
<1>4. /\ stack' \in [Threads -> Seq(Frames)]
      /\ \A u \in Threads \ users' : stack'[u] = <<>>
      /\ stack'[t] = r /\ \A u \in Threads \ {t} : stack'[u] = stack[u]
  BY <1>1, <1>2, StackTypes DEF TypesKept
<1>5. TypesKept'
  BY <1>1, <1>4 DEF TypesKept
<1>6. \A u \in Threads \ {t} : \A n \in 1..Len(stack[u]) :
          stack[u][n].pc \in {"preparing", "serializing"} => writer'[stack[u][n].session] >= 1
  BY <1>1, OthersHold
<1>7. \A n \in 1..Len(r) : Fits(r[n], writer')
  BY <1>1
<1>8. StacksKept'
  BY <1>1, <1>2, <1>4, <1>6, <1>7, StacksMove
<1>9. /\ Alone /\ r # <<>> => Progress(r, list', memory')
      /\ Alone => AllPoint(r, list', writer', memory')
  BY <1>1
<1>10. AloneKept'
  BY <1>1, <1>4, <1>9, AloneMoves
<1> QED BY <1>3, <1>5, <1>8, <1>10 DEF MemoryKept

LEMMA SinglePlaces ==
    ASSUME MemoryKept, NEW k \in Pool
    PROVE  /\ Single(FreeIn(mempool_freeitems, k)) /\ Single(LeftIn(list, k))
           /\ Single(HandedIn(stack, k))
           /\ InOne(FreeIn(mempool_freeitems, k), LeftIn(list, k), HandedIn(stack, k))
           /\ LeftIn(list, k) # {} => FreeIn(mempool_freeitems, k) = {} /\ HandedIn(stack, k) = {}
           /\ HandedIn(stack, k) # {} => FreeIn(mempool_freeitems, k) = {} /\ LeftIn(list, k) = {}
           /\ FreeIn(mempool_freeitems, k) # {} => LeftIn(list, k) = {} /\ HandedIn(stack, k) = {}
BY DEF MemoryKept, ItemsKept, InOne

LEMMA ReturnKeeps ==
    ASSUME MemoryKept, NEW t \in users, Return(t)
    PROVE  MemoryKept'
<1> DEFINE s == stack[t]
           r == Tail(s)
           f == Top(t)
           x == f.item.item
           free == mempool_freeitems
<1>1. /\ Calling(t) /\ f.pc = "called" /\ f.did # "wrote" /\ list' = list
      /\ free' = <<x>> \o free
      /\ UNCHANGED <<scene, made, users, entities, matched, writer, memory>>
  BY DEF Return, At, Released
<1>2. /\ s \in Seq(Frames) /\ Nested(s) /\ s # <<>> /\ f = s[1] /\ t \in Threads
      /\ \A n \in 1..Len(s) : Fits(s[n], writer) /\ 1 \in 1..Len(s)
      /\ f \in Handed /\ stack' = [stack EXCEPT ![t] = r]
      /\ Alone => Progress(s, list, memory) /\ AllPoint(s, list, writer, memory)
  BY <1>1, Caller, FrameOf DEF Return, Pop
<1>3. f.item \in Items /\ x \in Pool /\ f.did \in {"nothing", "ran"}
  BY <1>1, <1>2, ItemParts DEF Handed
<1>4. r \in Seq(Frames) /\ Nested(r)
  BY <1>2, OneLess, NestedReturns
<1>5. /\ \A n \in 1..Len(r) : r[n] = s[n + 1] /\ n + 1 \in 1..Len(s)
      /\ ~Holds(r) /\ r # <<>> /\ r[1] = s[2] /\ s[2].pc = "handling"
  BY <1>1, <1>2, BelowTop
<1>6. \A k \in Pool : \A n \in Nat : HasItem(r, n, k) <=> n # 0 /\ HasItem(s, n + 1, k)
  BY <1>2, ItemsBelow
<1>7. (\A k \in Pool : HasItem(s, 1, k) <=> k = x) /\ ~Holds(s)
  BY <1>1, <1>2 DEF HasItem, Holds
<1>8. free \in Seq(Pool) /\ list \in [Entity -> [Entity -> Seq(Items)]]
      /\ stack \in [Threads -> Seq(Frames)] /\ LeftForMatched
  BY DEF MemoryKept, TypesKept
<1>9. stack'[t] = r /\ \A u \in Threads \ {t} : stack'[u] = stack[u]
  BY <1>2, <1>8
<1> HIDE DEF s, r, f, x, free
<1>10. ItemsKept'
  <2> SUFFICES ASSUME NEW k \in Pool
               PROVE  InOne(FreeIn(free', k), LeftIn(list', k), HandedIn(stack', k))
    BY DEF ItemsKept, free
  <2>1. /\ Single(HandedIn(stack, k))
        /\ InOne(FreeIn(free, k), LeftIn(list, k), HandedIn(stack, k))
        /\ HandedIn(stack, k) # {} => FreeIn(free, k) = {}
    BY SinglePlaces DEF free
  <2>2. /\ x = k => HandedIn(stack, k) # {} /\ HandedIn(stack', k) = {}
        /\ x # k => Same(HandedIn(stack, k), HandedIn(stack', k))
    <3>1. \A n \in Nat : HasItem(stack'[t], n, k) <=> n # 0 /\ HasItem(stack[t], n + 1, k)
      BY <1>6, <1>9 DEF s
    <3>2. HasItem(stack[t], 1, k) <=> k = x
      BY <1>7 DEF s
    <3>3. Uncalled(stack, stack', t, k)
      BY <1>9, <3>1 DEF Uncalled
    <3> QED BY <1>2, <2>1, <3>2, <3>3, HandedShrinks, ZenonT(60)
  <2>3. /\ x = k /\ FreeIn(free, k) = {} => FreeIn(free', k) # {} /\ Single(FreeIn(free', k))
        /\ x # k => Same(FreeIn(free, k), FreeIn(free', k))
    BY <1>1, <1>3, <1>8, FreeGrows
  <2>4. Same(LeftIn(list, k), LeftIn(list', k))
    BY <1>1, SameItself
  <2>5. CASE x = k
    BY <2>1, <2>2, <2>3, <2>4, <2>5, MovedInOne
  <2>6. CASE x # k
    BY <2>1, <2>2, <2>3, <2>4, <2>6, StaysInOne
  <2> QED BY <2>5, <2>6
<1>11. LeftForMatched'
  BY <1>1, <1>8, LeftStays
<1>12. \A n \in 1..Len(r) : Fits(r[n], writer)
  BY <1>2, <1>5
<1>13. Alone => Progress(r, list', memory)
  <2>1. Alone => PassedIsEmpty(list, s[2].at)
    BY <1>1, <1>2, <1>3 DEF Progress, NothingLeft, PassedIsEmpty
  <2> QED BY <1>1, <1>5, <2>1 DEF Progress
<1>14. Alone => AllPoint(r, list', writer, memory)
  BY <1>1, <1>2, <1>5, <1>7, PointsWithout
<1>15. list' \in [Entity -> [Entity -> Seq(Items)]] /\ mempool_freeitems' \in Seq(Pool)
  BY <1>1, <1>3, <1>8, FreeGrows DEF free
<1> QED BY <1>1, <1>2, <1>4, <1>10, <1>11, <1>12, <1>13, <1>14, <1>15, MemoryStep

LEMMA HandleKeeps ==
    ASSUME MemoryKept, NEW t \in users, Handle(t)
    PROVE  MemoryKept'
<1> DEFINE s == stack[t]
           f == Top(t)
           p == NextPair(f.at)
           item == Head(list[p[1]][p[2]])
           here == [f EXCEPT !.at = p]
           call == [pc |-> "called", did |-> "nothing", from |-> p[1], reader |-> p[2], item |-> item]
           free == mempool_freeitems
           taken == Taken(entities[p[2]], item)
           r == IF taken THEN <<call, here>> \o Tail(s) ELSE <<here>> \o Tail(s)
<1>1. /\ Calling(t) /\ f.pc = "handling" /\ ToVisit(f.at) # {}
      /\ list' = [list EXCEPT ![p[1]][p[2]] = Tail(@)]
      /\ stack' = [stack EXCEPT ![t] = r]
      /\ free' = IF taken THEN free ELSE <<item.item>> \o free
      /\ UNCHANGED <<scene, made, users, entities, matched, writer, memory>>
  BY DEF Handle, At, Released, GoOn
<1>2. /\ s \in Seq(Frames) /\ Nested(s) /\ s # <<>> /\ f = s[1] /\ t \in Threads
      /\ \A n \in 1..Len(s) : Fits(s[n], writer)
      /\ f \in Handling
      /\ Alone => Progress(s, list, memory) /\ AllPoint(s, list, writer, memory)
  BY <1>1, Caller, FrameOf
<1>3. /\ free \in Seq(Pool) /\ list \in [Entity -> [Entity -> Seq(Items)]]
      /\ stack \in [Threads -> Seq(Frames)] /\ LeftForMatched
  BY DEF MemoryKept, TypesKept
<1>4. f.at \in Nat \X Nat
  BY <1>2 DEF Handling
<1>5. p \in ToVisit(f.at) /\ \A q \in ToVisit(f.at) : Before(p, q)
  <2>1. ToVisit(f.at) \subseteq Nat \X Nat
    BY <1>4, VisitsAll
  <2>2. \E q \in ToVisit(f.at) : \A o \in ToVisit(f.at) : Before(q, o)
    BY <1>1, <2>1, FirstPair
  <2> QED BY <2>2 DEF NextPair
<1> HIDE DEF p
<1>6. /\ p \in Entity \X Entity /\ p \in Nat \X Nat /\ list[p[1]][p[2]] # <<>>
      /\ p[1] \in 1..Len(entities) /\ p[2] \in 1..Len(entities)
      /\ entities[p[1]].kind \in Senders
  BY <1>4, <1>5, VisitsAll
<1>7. /\ list[p[1]][p[2]] \in Seq(Items) /\ item = list[p[1]][p[2]][1] /\ item \in Items
      /\ item.item \in Pool /\ 1 \in 1..Len(list[p[1]][p[2]])
      /\ p[1] \in Entity /\ p[2] \in Entity
  <2>1. list[p[1]][p[2]] \in Seq(Items) /\ p[1] \in Entity /\ p[2] \in Entity
    BY <1>3, <1>6
  <2>2. item = list[p[1]][p[2]][1] /\ item \in Items /\ 1 \in 1..Len(list[p[1]][p[2]])
    BY <1>6, <2>1, TopOf
  <2> QED BY <2>1, <2>2, ItemParts
<1>8. \A i, j \in Entity :
          list'[i][j] = IF i = p[1] /\ j = p[2] THEN Tail(list[p[1]][p[2]]) ELSE list[i][j]
  BY <1>1, <1>3, <1>6
<1> HIDE DEF item
<1>9. /\ here \in Frames /\ here.pc = "handling" /\ here.at = p
      /\ call \in Frames /\ call.pc = "called" /\ call.did = "nothing"
      /\ call.from = p[1] /\ call.reader = p[2] /\ call.item = item
  BY <1>1, <1>2, <1>6, <1>7, GoesOn, FrameKinds DEF Handling
<1> HIDE DEF here, call
<1>10. /\ taken => /\ r \in Seq(Frames) /\ r # <<>> /\ Len(r) = Len(s) + 1
                   /\ r[1] = call /\ r[2] = here /\ \A n \in 3..Len(s) + 1 : r[n] = s[n - 1]
       /\ ~taken => /\ r \in Seq(Frames) /\ r # <<>> /\ Len(r) = Len(s)
                    /\ r[1] = here /\ \A n \in 2..Len(s) : r[n] = s[n]
       /\ Len(s) \in Nat \ {0}
  BY <1>2, <1>9, OneOnChanged, OneChanged
<1>11. s[1].pc # "called" /\ s[1].pc \notin Writes /\ here.pc \notin Writes /\ here.pc # "called"
  BY <1>1, <1>2, <1>9 DEF Writes
<1>12. Nested(r)
  <2>1. taken => Nested(r)
    BY <1>1, <1>2, <1>9, NestedCalls
  <2>2. ~taken => Nested(r)
    BY <1>2, <1>9, <1>11, NestedMoves
  <2> QED BY <2>1, <2>2
<1>13. \A k \in Pool : \A n \in Nat : HasItem(r, n, k) <=>
          IF taken THEN (IF n = 1 THEN item.item = k ELSE n # 0 /\ HasItem(s, n - 1, k))
          ELSE HasItem(s, n, k)
  <2>1. ASSUME taken, NEW k \in Pool
        PROVE  \A n \in Nat : HasItem(r, n, k) <=>
                    IF n = 1 THEN item.item = k ELSE n # 0 /\ HasItem(s, n - 1, k)
    BY <1>1, <1>2, <1>9, <2>1, ItemsCalled, SMTT(40)
  <2>2. ASSUME ~taken, NEW k \in Pool
        PROVE  \A n \in Nat : HasItem(r, n, k) <=> HasItem(s, n, k)
    BY <1>2, <1>9, <1>11, <2>2, ItemsChanged
  <2> QED BY <2>1, <2>2
<1>14. stack'[t] = r /\ \A u \in Threads \ {t} : stack'[u] = stack[u]
  BY <1>1, <1>2, <1>3
<1>15. ~Holds(s)
  BY <1>1, <1>2 DEF Holds
<1> HIDE DEF s, r, f, free, taken
<1>16. ItemsKept'
  <2> SUFFICES ASSUME NEW k \in Pool
               PROVE  InOne(FreeIn(free', k), LeftIn(list', k), HandedIn(stack', k))
    BY DEF ItemsKept, free
  <2>1. /\ Single(LeftIn(list, k))
        /\ InOne(FreeIn(free, k), LeftIn(list, k), HandedIn(stack, k))
        /\ LeftIn(list, k) # {} => FreeIn(free, k) = {} /\ HandedIn(stack, k) = {}
    BY SinglePlaces DEF free
  <2>2. /\ item.item = k => LeftIn(list, k) # {} /\ LeftIn(list', k) = {}
        /\ item.item # k => Same(LeftIn(list, k), LeftIn(list', k))
    <3>1. PICK a \in Entity, b \in Entity : a = p[1] /\ b = p[2]
      BY <1>7
    <3>2. list[a][b] # <<>> /\ list[a][b][1] = item
      BY <1>6, <1>7, <3>1
    <3>3. Shortened(list, list', a, b)
      BY <1>8, <3>1 DEF Shortened
    <3>4. /\ list[a][b][1].item = k => LeftIn(list, k) # {} /\ LeftIn(list', k) = {}
          /\ list[a][b][1].item # k => Same(LeftIn(list, k), LeftIn(list', k))
      BY <1>3, <2>1, <3>2, <3>3, LeftTaken
    <3> QED BY <3>2, <3>4
  <2>3. CASE taken
    <3>1. /\ item.item = k /\ HandedIn(stack, k) = {} =>
                 HandedIn(stack', k) # {} /\ Single(HandedIn(stack', k))
          /\ item.item # k => Same(HandedIn(stack, k), HandedIn(stack', k))
      <4>1. \A n \in Nat : HasItem(stack'[t], n, k) <=>
               IF n = 1 THEN item.item = k ELSE n # 0 /\ HasItem(stack[t], n - 1, k)
        BY <1>13, <1>14, <2>3 DEF s
      <4> QED BY <1>2, <1>14, <4>1, HandedGrows
    <3>2. Same(FreeIn(free, k), FreeIn(free', k))
      BY <1>1, <2>3, SameItself
    <3>3. CASE item.item = k
      BY <2>1, <2>2, <3>1, <3>2, <3>3, MovedInOne
    <3>4. CASE item.item # k
      BY <2>1, <2>2, <3>1, <3>2, <3>4, StaysInOne
    <3> QED BY <3>3, <3>4
  <2>4. CASE ~taken
    <3>1. Same(HandedIn(stack, k), HandedIn(stack', k))
      <4>1. \A n \in Nat :
               /\ HasItem(stack'[t], n, k) => n - 0 \in Nat /\ HasItem(stack[t], n - 0, k)
               /\ HasItem(stack[t], n, k) => n + 0 \in Nat /\ HasItem(stack'[t], n + 0, k)
        BY <1>13, <1>14, <2>4 DEF s
      <4> QED BY <1>2, <1>14, <4>1, HandedShifts, SMTT(40)
    <3>2. /\ item.item = k /\ FreeIn(free, k) = {} => FreeIn(free', k) # {} /\ Single(FreeIn(free', k))
          /\ item.item # k => Same(FreeIn(free, k), FreeIn(free', k))
      BY <1>1, <1>3, <1>7, <2>4, FreeGrows
    <3>3. CASE item.item = k
      BY <2>1, <2>2, <3>1, <3>2, <3>3, MovedInOne
    <3>4. CASE item.item # k
      BY <2>1, <2>2, <3>1, <3>2, <3>4, StaysInOne
    <3> QED BY <3>3, <3>4
  <2> QED BY <2>3, <2>4
<1>17. \A i, j \in Entity :
          /\ list'[i][j] # <<>> => list[i][j] # <<>>
          /\ \A n \in 1..Len(list'[i][j]) : \E m \in 1..Len(list[i][j]) : list'[i][j][n] = list[i][j][m]
  <2>1. ASSUME NEW i \in Entity, NEW j \in Entity, ~(i = p[1] /\ j = p[2])
        PROVE  list'[i][j] = list[i][j]
    BY <1>8, <2>1
  <2>2. list'[p[1]][p[2]] = Tail(list[p[1]][p[2]])
    BY <1>7, <1>8
  <2>3. /\ Tail(list[p[1]][p[2]]) \in Seq(Items)
        /\ \A n \in 1..Len(Tail(list[p[1]][p[2]])) : n + 1 \in 1..Len(list[p[1]][p[2]])
                /\ Tail(list[p[1]][p[2]])[n] = list[p[1]][p[2]][n + 1]
    BY <1>6, <1>7, OneLess
  <2> TAKE i, j \in Entity
  <2>4. CASE i = p[1] /\ j = p[2]
    BY <1>6, <2>2, <2>3, <2>4
  <2>5. CASE ~(i = p[1] /\ j = p[2])
    BY <2>1, <2>5
  <2> QED BY <2>4, <2>5
<1>18. LeftForMatched'
  BY <1>1, <1>3, <1>17, LeftStays
<1>19. \A n \in 1..Len(r) : Fits(r[n], writer)
  <2>1. Fits(here, writer) /\ Fits(call, writer)
    BY <1>6, <1>9 DEF Fits
  <2>2. CASE taken
    <3>1. \A n \in 3..Len(s) + 1 : r[n] = s[n - 1] /\ n - 1 \in 1..Len(s)
      BY <1>10, <2>2
    <3>2. \A n \in 1..Len(r) : n = 1 \/ n = 2 \/ n \in 3..Len(s) + 1
      BY <1>10, <2>2
    <3> QED BY <1>2, <1>10, <2>1, <2>2, <3>1, <3>2
  <2>3. CASE ~taken
    <3>1. \A n \in 1..Len(r) : n = 1 \/ n \in 2..Len(s)
      BY <1>10, <2>3
    <3>2. \A n \in 2..Len(s) : n \in 1..Len(s)
      BY <1>10
    <3> QED BY <1>2, <1>10, <2>1, <2>3, <3>1, <3>2
  <2> QED BY <2>2, <2>3
<1>20. ASSUME Alone PROVE PassedIsEmpty(list', p)
  <2> SUFFICES ASSUME NEW i \in Entity, NEW j \in Entity, list'[i][j] # <<>>
               PROVE  Before(p, <<i, j>>)
    BY DEF PassedIsEmpty
  <2>1. list[i][j] # <<>>
    BY <1>17
  <2>2. Before(f.at, <<i, j>>)
    BY <1>1, <1>2, <1>20, <2>1 DEF Progress, PassedIsEmpty
  <2>3. <<i, j>> \in ToVisit(f.at)
    BY <1>4, <2>1, <2>2, VisitsAll
  <2> QED BY <1>5, <2>3
<1>21. Alone => Says(memory, item)
  <2>1. Alone => Points(s, item, writer, memory)
    BY <1>2, <1>7 DEF AllPoint
  <2> QED BY <1>15, <2>1 DEF Points, Holds, HoldsStream
<1>22. Alone => Progress(r, list', memory)
  <2>1. taken /\ Alone => Progress(r, list', memory)
    BY <1>9, <1>10, <1>20, <1>21 DEF Progress
  <2>2. ~taken /\ Alone => Progress(r, list', memory)
    BY <1>9, <1>10, <1>20 DEF Progress
  <2> QED BY <2>1, <2>2
<1>23. Alone => AllPoint(r, list', writer, memory)
  <2>1. ~Holds(r)
    BY <1>9, <1>10 DEF Holds
  <2>2. Alone => AllPoint(r, list, writer, memory)
    BY <1>2, <1>15, <2>1, PointsWithout
  <2> QED BY <1>17, <2>2 DEF AllPoint
<1>24. list' \in [Entity -> [Entity -> Seq(Items)]]
  <2>1. Tail(list[p[1]][p[2]]) \in Seq(Items)
    BY <1>6, <1>7, OneLess
  <2> QED BY <1>1, <1>3, <1>7, <2>1
<1>25. mempool_freeitems' \in Seq(Pool)
  BY <1>1, <1>3, <1>7, FreeGrows DEF free
<1>26. r \in Seq(Frames)
  BY <1>10
<1> QED BY <1>1, <1>12, <1>16, <1>18, <1>19, <1>22, <1>23, <1>24, <1>25, <1>26, MemoryStep

(***************************************************************************)
(* Items are given out.                                                    *)
(***************************************************************************)
Lengthened(lists, new, a, R, it) == \A i, j \in Entity :
    new[i][j] = IF i = a /\ j \in R THEN <<it[j]>> \o lists[i][j] ELSE lists[i][j]

GivesItems(it, R) == \A j \in R : it[j] \in Items

GivesNone(it, R, k) == \A j \in R : it[j].item # k
GivesTo(it, R, k, j) ==
    j \in R \cap Entity /\ it[j].item = k /\ \A h \in R : it[h].item = k => h = j

LEMMA LeftGiven ==
    ASSUME NEW lists \in [Entity -> [Entity -> Seq(Items)]], NEW a, NEW R,
           NEW it, GivesItems(it, R), NEW new, Lengthened(lists, new, a, R, it), NEW k
    PROVE  /\ GivesNone(it, R, k) => Same(LeftIn(lists, k), LeftIn(new, k))
           /\ \A j : GivesTo(it, R, k, j) /\ a \in Entity /\ LeftIn(lists, k) = {}
                  => LeftIn(new, k) # {} /\ Single(LeftIn(new, k))
<1> DEFINE S == LeftIn(lists, k)
           T == LeftIn(new, k)
<1>1. ASSUME a \in Entity, NEW j \in R \cap Entity
      PROVE  /\ new[a][j] \in Seq(Items) /\ Len(new[a][j]) = Len(lists[a][j]) + 1
             /\ Len(lists[a][j]) \in Nat /\ new[a][j][1] = it[j]
             /\ \A n \in 2..Len(lists[a][j]) + 1 : new[a][j][n] = lists[a][j][n - 1]
  <2>1. new[a][j] = <<it[j]>> \o lists[a][j] /\ lists[a][j] \in Seq(Items) /\ it[j] \in Items
    BY <1>1 DEF Lengthened, GivesItems
  <2> QED BY <2>1, OneMore
<1>2. ASSUME a \in Entity, NEW j \in R \cap Entity, NEW n \in Nat
      PROVE  <<a, j, n>> \in T <=>
                IF n = 1 THEN it[j].item = k ELSE n # 0 /\ <<a, j, n - 1>> \in S
  <2>1. <<a, j, n>> \in T <=> n \in 1..Len(new[a][j]) /\ new[a][j][n].item = k
    BY <1>2 DEF LeftIn
  <2>2. n \notin {0, 1} => (<<a, j, n - 1>> \in S <=>
            n - 1 \in 1..Len(lists[a][j]) /\ lists[a][j][n - 1].item = k)
    BY <1>2 DEF LeftIn
  <2>3. CASE n \in {0, 1}
    BY <1>1, <1>2, <2>1, <2>3
  <2>4. CASE n \notin {0, 1}
    <3>1. n \in 1..Len(new[a][j]) <=> n - 1 \in 1..Len(lists[a][j])
      BY <1>1, <1>2, <2>4
    <3>2. n \in 1..Len(new[a][j]) => new[a][j][n] = lists[a][j][n - 1]
      BY <1>1, <1>2, <2>4
    <3> QED BY <2>1, <2>2, <2>4, <3>1, <3>2
  <2> QED BY <2>3, <2>4
<1>3. ASSUME NEW i \in Entity, NEW j \in Entity, ~(i = a /\ j \in R), NEW n \in Nat
      PROVE  <<i, j, n>> \in T <=> <<i, j, n>> \in S
  <2>1. new[i][j] = lists[i][j]
    BY <1>3 DEF Lengthened
  <2> QED BY <2>1, LeftElsewhere
<1>4. \A p \in S \cup T :
          p = <<p[1], p[2], p[3]>> /\ p[1] \in Entity /\ p[2] \in Entity /\ p[3] \in Nat
          /\ (p \in S => p[3] # 0)
  BY DEF LeftIn
<1>5. S \subseteq Entity \X Entity \X Nat /\ T \subseteq Entity \X Entity \X Nat
  BY DEF LeftIn
<1> HIDE DEF S, T
<1>6. ASSUME \A j \in R : it[j].item # k PROVE Same(S, T)
  <2> DEFINE on == [p \in Entity \X Entity |-> IF p[1] = a /\ p[2] \in R THEN 1 ELSE 0]
  <2>1. on \in [Entity \X Entity -> Int]
    OBVIOUS
  <2>2. \A i, j \in Entity : on[<<i, j>>] = IF i = a /\ j \in R THEN 1 ELSE 0
    OBVIOUS
  <2> HIDE DEF on
  <2>3. ASSUME NEW i \in Entity, NEW j \in Entity, NEW n \in Nat, <<i, j, n>> \in T
        PROVE  <<i, j, n - on[<<i, j>>]>> \in S
    <3>1. CASE i = a /\ j \in R
      <4>1. on[<<i, j>>] = 1 /\ a \in Entity /\ j \in R \cap Entity /\ it[j].item # k
        BY <1>6, <2>2, <3>1
      <4> QED BY <1>2, <2>3, <3>1, <4>1
    <3>2. CASE ~(i = a /\ j \in R)
      <4>1. on[<<i, j>>] = 0 /\ n - 0 = n
        BY <2>2, <3>2
      <4> QED BY <1>3, <2>3, <3>2, <4>1
    <3> QED BY <3>1, <3>2
  <2>4. ASSUME NEW i \in Entity, NEW j \in Entity, NEW n \in Nat, <<i, j, n>> \in S
        PROVE  <<i, j, n + on[<<i, j>>]>> \in T
    <3>1. CASE i = a /\ j \in R
      <4>1. on[<<i, j>>] = 1 /\ a \in Entity /\ j \in R \cap Entity /\ n # 0
        BY <1>4, <2>2, <2>4, <3>1
      <4>2. n + 1 \in Nat /\ n + 1 # 1 /\ n + 1 # 0 /\ (n + 1) - 1 = n
        BY <4>1
      <4> QED BY <1>2, <2>4, <3>1, <4>1, <4>2
    <3>2. CASE ~(i = a /\ j \in R)
      <4>1. on[<<i, j>>] = 0 /\ n + 0 = n
        BY <2>2, <3>2
      <4> QED BY <1>3, <2>4, <3>2, <4>1
    <3> QED BY <3>1, <3>2
  <2> QED BY <1>5, <2>1, <2>3, <2>4, LeftShifts
<1>7. ASSUME NEW j \in R \cap Entity, a \in Entity, S = {}, it[j].item = k,
             \A h \in R : it[h].item = k => h = j
      PROVE  T # {} /\ Single(T)
  <2>1. <<a, j, 1>> \in T
    BY <1>2, <1>7
  <2>2. ASSUME NEW p \in T PROVE p = <<a, j, 1>>
    <3>1. p = <<p[1], p[2], p[3]>> /\ p[1] \in Entity /\ p[2] \in Entity /\ p[3] \in Nat
      BY <1>4
    <3>2. p[1] = a /\ p[2] \in R
      BY <1>3, <1>7, <3>1
    <3>3. p[3] = 1 /\ it[p[2]].item = k
      BY <1>2, <1>7, <3>1, <3>2
    <3> QED BY <1>7, <3>1, <3>2, <3>3
  <2> QED BY <2>1, <2>2 DEF Single
<1> QED BY <1>6, <1>7 DEF S, T, GivesNone, GivesTo

LEMMA FreeGiven ==
    ASSUME NEW free \in Seq(Pool), NEW g \in 0..Len(free), NEW k, Single(FreeIn(free, k)),
           NEW new, new = SubSeq(free, g + 1, Len(free))
    PROVE  /\ new \in Seq(Pool)
           /\ \A m \in 1..g : free[m] = k => FreeIn(free, k) # {} /\ FreeIn(new, k) = {}
           /\ (\A m \in 1..g : free[m] # k) => Same(FreeIn(free, k), FreeIn(new, k))
<1> DEFINE S == FreeIn(free, k)
           T == FreeIn(new, k)
           N == Len(free)
<1>1. N \in Nat /\ \A n \in 1..N : free[n] \in Pool
  BY LenProperties, ElementOfSeq
<1>2. g \in Nat /\ g <= N /\ g + 1 \in Int /\ N \in Int /\ \A n \in g + 1..N : free[n] \in Pool
  BY <1>1
<1>3. /\ new \in Seq(Pool) /\ Len(new) = N - g
      /\ \A n \in 1..N - g : new[n] = free[n + g]
  <2>1. /\ new \in Seq(Pool) /\ Len(new) = IF g + 1 <= N THEN N - (g + 1) + 1 ELSE 0
        /\ \A n \in 1..N - (g + 1) + 1 : new[n] = free[g + 1 + n - 1]
    BY <1>2, SubSeqProperties
  <2> HIDE DEF N
  <2>2. N - (g + 1) + 1 = N - g /\ (~(g + 1 <= N) => N - g = 0)
    BY <1>1, <1>2
  <2>3. Len(new) = N - g
    BY <2>1, <2>2
  <2>4. ASSUME NEW n \in 1..N - g PROVE new[n] = free[n + g]
    <3>1. g + 1 + n - 1 = n + g
      BY <1>2
    <3>2. new[n] = free[g + 1 + n - 1]
      BY <2>1, <2>2
    <3> QED BY <3>1, <3>2
  <2> QED BY <2>1, <2>3, <2>4
<1>4. S \subseteq Nat /\ T \subseteq Nat
  BY DEF FreeIn
<1>5. \A n \in T : n + g \in S /\ n >= 1
  BY <1>2, <1>3 DEF FreeIn
<1>6. \A n \in S : n > g => n - g \in T
  <2>1. ASSUME NEW n \in S, n > g PROVE n - g \in T
    <3>1. n \in 1..N /\ free[n] = k
      BY DEF FreeIn
    <3>2. n - g \in 1..N - g /\ (n - g) + g = n
      BY <1>2, <2>1, <3>1
    <3> QED BY <1>3, <3>1, <3>2 DEF FreeIn
  <2> QED BY <2>1
<1>7. \A m \in 1..g : free[m] = k => m \in S
  BY <1>2 DEF FreeIn
<1>8. \A n \in S : n >= 1 /\ free[n] = k
  BY DEF FreeIn
<1> HIDE DEF S, T, N
<1>9. ASSUME NEW m \in 1..g, free[m] = k PROVE S # {} /\ T = {}
  <2>1. m \in S
    BY <1>7, <1>9
  <2>2. ASSUME NEW n \in T PROVE FALSE
    <3>1. n + g = m
      BY <1>5, <2>1 DEF Single, S
    <3>2. n \in Nat /\ n >= 1 /\ m <= g
      BY <1>2, <1>4, <1>5
    <3> QED BY <1>2, <3>1, <3>2
  <2> QED BY <2>1, <2>2
<1>10. ASSUME \A m \in 1..g : free[m] # k PROVE Same(S, T)
  <2>1. \A n \in S : n - g \in T
    <3>1. ASSUME NEW n \in S PROVE n > g
      BY <1>2, <1>4, <1>8, <1>10
    <3> QED BY <1>6, <3>1
  <2>2. T \subseteq Nat /\ S \subseteq Nat /\ g \in Int
    BY <1>2, <1>4
  <2>3. (S = {} <=> T = {})
    BY <1>5, <2>1
  <2>4. ASSUME Single(S), NEW m \in T, NEW n \in T PROVE m = n
    <3>1. m + g = n + g /\ m \in Nat /\ n \in Nat
      BY <1>5, <2>2, <2>4 DEF Single
    <3> QED BY <2>2, <3>1
  <2> QED BY <2>3, <2>4 DEF Same, Single
<1> QED BY <1>3, <1>9, <1>10 DEF S, T

LEMMA IndexFound ==
    ASSUME MapKept, NEW session, NEW kind, NEW id,
           NEW index, index = EntityIndex(session, kind, id)
    PROVE  /\ index \in 0..Len(entities)
           /\ index # 0 => /\ entities[index].kind = kind
                           /\ entities[index].session = session /\ entities[index].id = id
           /\ (\E i \in 1..Len(entities) :
                  entities[i].session = session /\ entities[i].kind = kind /\ entities[i].id = id)
              => index # 0
<1> DEFINE S == IndexesOf(session, kind, id)
<1>1. DOMAIN entities = 1..Len(entities) /\ Len(entities) \in Nat
  BY Entities
<1>2. /\ S \subseteq 1..Len(entities)
      /\ \A i \in S : /\ entities[i].kind = kind
                      /\ entities[i].session = session /\ entities[i].id = id
      /\ \A i \in 1..Len(entities) :
             entities[i].session = session /\ entities[i].kind = kind /\ entities[i].id = id => i \in S
  BY <1>1 DEF IndexesOf, uxr_shared_memory_entity_compare
<1>3. index = IF S = {} THEN 0 ELSE First(S)
  BY DEF EntityIndex
<1> HIDE DEF S
<1>4. S # {} => First(S) \in S
  <2>1. S \subseteq Nat
    BY <1>1, <1>2
  <2> QED BY <2>1, FirstIsLeast
<1>5. CASE S = {}
  BY <1>1, <1>2, <1>3, <1>5
<1>6. CASE S # {}
  BY <1>1, <1>2, <1>3, <1>4, <1>6
<1> QED BY <1>5, <1>6

LEMMA PrepareKeeps ==
    ASSUME MemoryKept, NEW t \in users, Prepare(t)
    PROVE  MemoryKept'
<1> DEFINE s == stack[t]
           f == Top(t)
           c == f.session
           index == EntityIndex(f.session, f.kind, f.id)
           readers == ReadersOf(index)
           free == mempool_freeitems
           given == IF Cardinality(readers) < Len(free) THEN Cardinality(readers) ELSE Len(free)
           Item(n) == [item |-> free[n], session |-> c, cell |-> writer[c],
                       request_id |-> f.message.number, meant |-> f.message]
           R == {j \in readers : Rank(readers, j) <= given}
           it == [j \in R |-> Item(Rank(readers, j))]
           a == [f EXCEPT !.pc = "serializing"]
           r == <<a>> \o Tail(s)
<1>1. /\ Calling(t) /\ f.pc = "preparing"
      /\ free' = SubSeq(free, given + 1, Len(free))
      /\ list' = [i \in Entity |-> [j \in Entity |->
                    IF i = index /\ (j \in readers /\ Rank(readers, j) <= given)
                    THEN <<Item(Rank(readers, j))>> \o list[i][j] ELSE list[i][j]]]
      /\ stack' = [stack EXCEPT ![t] = r]
      /\ UNCHANGED <<scene, made, users, entities, matched, writer, memory>>
  BY DEF Prepare, At, GoOn, Left
<1>2. /\ s \in Seq(Frames) /\ Nested(s) /\ s # <<>> /\ f = s[1] /\ f \in Writing /\ t \in Threads
      /\ \A n \in 1..Len(s) : Fits(s[n], writer) /\ Fits(f, writer)
      /\ Alone => AllPoint(s, list, writer, memory)
  BY <1>1, Caller, FrameOf DEF Writes
<1>3. /\ c \in Sessions /\ writer[c] \in 1..Capacity /\ f.message \in Texts /\ f.kind \in Senders
      /\ f.message.number \in Said
  <2>1. writer[c] >= 1
    <3>1. 1 \in 1..Len(s)
      <4> HIDE DEF s
      <4> QED BY <1>2
    <3>2. Fits(f, writer)
      <4> HIDE DEF s, f
      <4> QED BY <1>2, <3>1
    <3> HIDE DEF f
    <3> QED BY <1>1, <3>2 DEF Fits
  <2> QED BY <1>2, <2>1, StreamParts DEF Texts
<1>4. /\ free \in Seq(Pool) /\ list \in [Entity -> [Entity -> Seq(Items)]]
      /\ stack \in [Threads -> Seq(Frames)] /\ LeftForMatched /\ MapKept
  BY DEF MemoryKept, TypesKept
<1>5. /\ index \in 0..Len(entities)
      /\ index # 0 => entities[index].kind = f.kind
  BY <1>4, IndexFound
<1>6. /\ Len(entities) \in Nat /\ DOMAIN entities = 1..Len(entities)
      /\ \A i \in 1..Len(entities) : i \in Entity
  BY <1>4, Entities
<1> HIDE DEF index
<1>7. /\ readers \subseteq 1..Len(entities)
      /\ \A j \in readers : index \in 1..Len(entities) /\ matched[index][j]
  <2>1. readers = IF index = 0 THEN {} ELSE {j \in DOMAIN entities : matched[index][j]}
    BY DEF ReadersOf
  <2> HIDE DEF readers
  <2>2. CASE index = 0
    BY <2>1, <2>2
  <2>3. CASE index # 0
    <3>1. index \in 1..Len(entities)
      BY <1>5, <1>6, <2>3
    <3>2. readers = {j \in 1..Len(entities) : matched[index][j]}
      BY <1>6, <2>1, <2>3
    <3> QED BY <3>1, <3>2
  <2> QED BY <2>2, <2>3
<1> HIDE DEF readers
<1>8. readers \subseteq Nat /\ IsFiniteSet(readers)
  <2>1. 1 \in Int /\ Len(entities) \in Int /\ 1..Len(entities) \subseteq Nat
    BY <1>6
  <2>2. IsFiniteSet(1..Len(entities))
    BY <2>1, FS_Interval
  <2>3. readers \in SUBSET (1..Len(entities))
    BY <1>7
  <2> HIDE DEF s, f, c, free, given, Item, R, it, a, r
  <2>4. IsFiniteSet(readers)
    BY <2>2, <2>3, FS_Subset
  <2> QED BY <1>7, <2>1, <2>4
<1>9. /\ Cardinality(readers) \in Nat
      /\ \A i \in readers : Rank(readers, i) \in 1..Cardinality(readers)
      /\ \A i, j \in readers : Rank(readers, i) = Rank(readers, j) => i = j
      /\ \A n \in 1..Cardinality(readers) : \E i \in readers : Rank(readers, i) = n
  BY <1>8, RanksAreDistinct
<1>10. Len(free) \in Nat /\ \A n \in 1..Len(free) : free[n] \in Pool
  BY <1>4, LenProperties, ElementOfSeq
<1> HIDE DEF free
<1>11. given \in 0..Len(free) /\ given \in Nat /\ given <= Cardinality(readers) /\ given <= Len(free)
  BY <1>9, <1>10
<1> HIDE DEF given
<1>12. /\ \A j \in R : Rank(readers, j) \in 1..given /\ j \in readers
       /\ \A n \in 1..given : \E j \in R : Rank(readers, j) = n
  BY <1>9, <1>11
<1> HIDE DEF c
<1>13. ASSUME NEW n \in 1..given PROVE Item(n) \in Items
  <2>1. free[n] \in Pool
    BY <1>10, <1>11
  <2> QED BY <1>3, <2>1 DEF Items
<1>14. /\ it \in [R -> Items]
       /\ \A j \in R : /\ it[j].item = free[Rank(readers, j)] /\ it[j].session = c
                       /\ it[j].cell = writer[c] /\ it[j].meant = f.message
  <2>1. \A j \in R : it[j] = Item(Rank(readers, j))
    OBVIOUS
  <2> QED BY <1>12, <1>13
<1>15. Lengthened(list, list', index, R, it)
  BY <1>1 DEF Lengthened
<1>16. /\ a \in Frames /\ a.pc = "serializing" /\ a.session = c /\ a.message = f.message
  BY <1>2, GoesOn DEF Writes, Writing, c
<1> HIDE DEF a, it, R, f
<1>17. /\ r \in Seq(Frames) /\ r # <<>> /\ Len(r) = Len(s) /\ Len(s) \in Nat \ {0} /\ r[1] = a
       /\ \A n \in 2..Len(s) : r[n] = s[n]
  BY <1>2, <1>16, OneChanged
<1>18. s[1].pc # "called" /\ a.pc # "called" /\ s[1].pc \in Writes /\ a.pc \in Writes
  BY <1>1, <1>2, <1>16 DEF Writes
<1>19. Nested(r) /\ \A k \in Pool, n \in Nat : HasItem(r, n, k) <=> HasItem(s, n, k)
  BY <1>2, <1>16, <1>18, NestedMoves, ItemsChanged
<1>20. stack'[t] = r /\ \A u \in Threads \ {t} : stack'[u] = stack[u]
  BY <1>1, <1>2, <1>4
<1> HIDE DEF r, s
<1>21. ItemsKept'
  <2> SUFFICES ASSUME NEW k \in Pool
               PROVE  InOne(FreeIn(free', k), LeftIn(list', k), HandedIn(stack', k))
    BY DEF ItemsKept, free
  <2>1. /\ Single(FreeIn(free, k))
        /\ InOne(FreeIn(free, k), LeftIn(list, k), HandedIn(stack, k))
        /\ FreeIn(free, k) # {} => LeftIn(list, k) = {} /\ HandedIn(stack, k) = {}
    BY SinglePlaces DEF free
  <2>2. Same(HandedIn(stack, k), HandedIn(stack', k))
    <3>1. SameCalls(stack, stack', t, k)
      BY <1>19, <1>20 DEF s, SameCalls
    <3> QED BY <1>2, <3>1, HandedStays
  <2>3. /\ \A m \in 1..given : free[m] = k => FreeIn(free, k) # {} /\ FreeIn(free', k) = {}
        /\ (\A m \in 1..given : free[m] # k) => Same(FreeIn(free, k), FreeIn(free', k))
    BY <1>1, <1>4, <1>11, <2>1, FreeGiven, ZenonT(60)
  <2>4. /\ GivesNone(it, R, k) => Same(LeftIn(list, k), LeftIn(list', k))
        /\ \A j : GivesTo(it, R, k, j) /\ index \in Entity /\ LeftIn(list, k) = {}
               => LeftIn(list', k) # {} /\ Single(LeftIn(list', k))
    <3>1. GivesItems(it, R)
      BY <1>14 DEF GivesItems
    <3> HIDE DEF Item
    <3> QED BY <1>4, <1>15, <3>1, LeftGiven
  <2>5. CASE \E m \in 1..given : free[m] = k
    <3>1. PICK m \in 1..given : free[m] = k
      BY <2>5
    <3>2. PICK j \in R : Rank(readers, j) = m
      BY <1>12
    <3>3. j \in R \cap Entity /\ index \in Entity /\ it[j].item = k
      BY <1>6, <1>7, <1>12, <1>14, <3>1, <3>2
    <3>4. ASSUME NEW h \in R, it[h].item = k PROVE h = j
      <4>1. Rank(readers, h) \in 1..given /\ free[Rank(readers, h)] = k
        BY <1>12, <1>14, <3>4
      <4>2. Rank(readers, h) \in FreeIn(free, k) /\ m \in FreeIn(free, k)
        BY <1>11, <3>1, <4>1 DEF FreeIn
      <4>3. Rank(readers, h) = m
        BY <2>1, <4>2 DEF Single
      <4> QED BY <1>9, <1>12, <3>2, <4>3
    <3>5. FreeIn(free, k) # {} /\ FreeIn(free', k) = {}
      BY <2>3, <3>1
    <3>6. LeftIn(list', k) # {} /\ Single(LeftIn(list', k))
      BY <2>1, <2>4, <3>3, <3>4, <3>5 DEF GivesTo
    <3> QED BY <2>1, <2>2, <3>5, <3>6, MovedInOne
  <2>6. CASE \A m \in 1..given : free[m] # k
    <3>1. Same(FreeIn(free, k), FreeIn(free', k))
      BY <2>3, <2>6
    <3>2. Same(LeftIn(list, k), LeftIn(list', k))
      BY <1>12, <1>14, <2>4, <2>6 DEF GivesNone
    <3> QED BY <2>1, <2>2, <3>1, <3>2, StaysInOne
  <2> QED BY <2>5, <2>6
<1>22. /\ list' \in [Entity -> [Entity -> Seq(Items)]]
       /\ \A i, j \in Entity : ~(i = index /\ j \in R) => list'[i][j] = list[i][j]
       /\ \A i \in Entity, j \in R : i = index /\ j \in Entity =>
              \A n \in 1..Len(list'[i][j]) :
                  \/ list'[i][j][n] = it[j]
                  \/ \E m \in 1..Len(list[i][j]) : list'[i][j][n] = list[i][j][m]
  <2>1. \A i, j \in Entity : ~(i = index /\ j \in R) => list'[i][j] = list[i][j]
    BY <1>15 DEF Lengthened
  <2>2. ASSUME NEW i \in Entity, NEW j \in R, i = index, j \in Entity
        PROVE  /\ list'[i][j] \in Seq(Items)
               /\ \A n \in 1..Len(list'[i][j]) :
                      \/ list'[i][j][n] = it[j]
                      \/ \E m \in 1..Len(list[i][j]) : list'[i][j][n] = list[i][j][m]
    <3>1. list'[i][j] = <<it[j]>> \o list[i][j]
      BY <1>15, <2>2 DEF Lengthened
    <3>2. list[i][j] \in Seq(Items) /\ it[j] \in Items
      BY <1>4, <1>14, <2>2
    <3>3. /\ list'[i][j] \in Seq(Items) /\ list'[i][j][1] = it[j]
          /\ Len(list'[i][j]) = Len(list[i][j]) + 1 /\ Len(list[i][j]) \in Nat
          /\ \A n \in 2..Len(list[i][j]) + 1 : list'[i][j][n] = list[i][j][n - 1]
      BY <3>1, <3>2, OneMore
    <3>4. \A n \in 1..Len(list'[i][j]) : n # 1 =>
              n \in 2..Len(list[i][j]) + 1 /\ n - 1 \in 1..Len(list[i][j])
      BY <3>3
    <3> QED BY <3>3, <3>4
  <2>3. \A i, j \in Entity : list'[i][j] \in Seq(Items)
    <3> TAKE i, j \in Entity
    <3>1. CASE i = index /\ j \in R
      BY <2>2, <3>1
    <3>2. CASE ~(i = index /\ j \in R)
      BY <1>4, <2>1, <3>2
    <3> QED BY <3>1, <3>2
  <2>4. \A i \in Entity : DOMAIN list'[i] = Entity /\ list'[i] = [j \in Entity |-> list'[i][j]]
    BY <1>1
  <2>5. list' \in [Entity -> [Entity -> Seq(Items)]]
    <3>1. list' = [i \in Entity |-> [j \in Entity |-> list'[i][j]]]
      BY <1>1
    <3> QED BY <2>3, <3>1
  <2> QED BY <2>1, <2>2, <2>5
<1>23. LeftForMatched'
  <2> SUFFICES ASSUME NEW i \in Entity, NEW j \in Entity, list'[i][j] # <<>>
               PROVE  /\ i \in 1..Len(entities) /\ j \in 1..Len(entities)
                      /\ entities[i].kind \in Senders /\ matched[i][j]
    BY <1>1 DEF LeftForMatched
  <2>1. CASE i = index /\ j \in R
    <3>1. j \in readers
      BY <1>12, <2>1
    <3>2. index # 0
      BY <1>6, <1>7, <3>1
    <3> QED BY <1>3, <1>5, <1>7, <2>1, <3>1, <3>2
  <2>2. CASE ~(i = index /\ j \in R)
    BY <1>4, <1>22, <2>2 DEF LeftForMatched
  <2> QED BY <2>1, <2>2
<1>24. \A n \in 1..Len(r) : Fits(r[n], writer)
  <2>1. Fits(a, writer)
    BY <1>3, <1>16 DEF Fits
  <2>2. \A n \in 1..Len(r) : n = 1 \/ n \in 2..Len(s)
    BY <1>17
  <2> QED BY <1>2, <1>17, <2>1, <2>2
<1>25. Progress(r, list', memory)
  BY <1>16, <1>17 DEF Progress
<1>26. ASSUME Alone PROVE AllPoint(r, list', writer, memory)
  <2>1. ASSUME NEW x, Points(s, x, writer, memory) PROVE Points(r, x, writer, memory)
    <3>1. ~(HoldsStream(s[1], x.session) /\ x.cell = writer[x.session])
      BY <1>1, <1>2, <2>1 DEF Points
    <3>2. ~(HoldsStream(r[1], x.session) /\ x.cell = writer[x.session])
      BY <1>1, <1>2, <1>16, <1>17, <3>1 DEF HoldsStream, c
    <3> QED BY <2>1, <3>1, <3>2 DEF Points
  <2>2. ASSUME NEW j \in R PROVE Points(r, it[j], writer, memory)
    <3>1. it[j].session = c /\ it[j].cell = writer[c] /\ it[j].meant = f.message
      BY <1>14
    <3>2. writer[c] <= writer[c]
      BY <1>3
    <3> QED BY <1>16, <1>17, <3>1, <3>2 DEF Points, HoldsStream
  <2> SUFFICES ASSUME NEW i \in Entity, NEW j \in Entity, NEW n \in 1..Len(list'[i][j])
               PROVE  Points(r, list'[i][j][n], writer, memory)
    BY DEF AllPoint
  <2>3. \A m \in 1..Len(list[i][j]) : Points(r, list[i][j][m], writer, memory)
    BY <1>2, <1>26, <2>1 DEF AllPoint
  <2>4. CASE i = index /\ j \in R
    BY <1>22, <2>2, <2>3, <2>4
  <2>5. CASE ~(i = index /\ j \in R)
    BY <1>22, <2>3, <2>5
  <2> QED BY <2>4, <2>5
<1>27. mempool_freeitems' \in Seq(Pool)
  <2>1. \A n \in given + 1..Len(free) : free[n] \in Pool
    BY <1>10, <1>11
  <2> QED BY <1>1, <1>10, <1>11, <2>1, SubSeqProperties DEF free
<1> QED BY <1>1, <1>17, <1>19, <1>21, <1>22, <1>23, <1>24, <1>25, <1>26, <1>27, MemoryStep

(***************************************************************************)
(* What the application does while nothing else goes on.                   *)
(***************************************************************************)
LEMMA OwnElements ==
    ASSUME NEW T, NEW s \in Seq(T)
    PROVE  s \in Seq(Elements(s))
<1>1. Len(s) \in Nat /\ s \in [1..Len(s) -> T]
  BY LenProperties
<1>2. s \in [1..Len(s) -> Elements(s)]
  BY <1>1 DEF Elements
<1> QED BY <1>1, <1>2, SeqDef

(* An entity is described as the application made it; a binary endpoint      *)
(* finds the topic that was made for it.                                     *)
LEMMA TopicFound ==
    ASSUME MapKept, Len(entities) = made, made < Len(scene),
           NEW d, d = scene[made + 1], ByTopic(d),
           NEW index, index = EntityIndex(d.session, UXR_TOPIC_ID, d.topic_id)
    PROVE  /\ index \in 1..made
           /\ scene[index].kind = UXR_TOPIC_ID
           /\ scene[index].session = d.session /\ scene[index].id = d.topic_id
<1>1. /\ DOMAIN scene = 1..Len(scene) /\ made \in Nat /\ made + 1 \in DOMAIN scene
      /\ scene \in Scenes /\ (made + 1) - 1 = made
  BY Entities DEF MapKept
<1>2. PICK k \in 1..made : /\ scene[k].kind = UXR_TOPIC_ID /\ scene[k].id = d.topic_id
                           /\ scene[k].session = d.session
  BY <1>1, ScenesAssumption DEF ByTopic
<1>3. /\ k \in 1..Len(entities) /\ entities[k].kind = UXR_TOPIC_ID
      /\ entities[k].id = d.topic_id /\ entities[k].session = d.session
  BY <1>2, Entities
<1>4. /\ index \in 0..Len(entities) /\ index # 0
      /\ entities[index].kind = UXR_TOPIC_ID
      /\ entities[index].session = d.session /\ entities[index].id = d.topic_id
  BY <1>3, IndexFound
<1>5. index \in 1..made
  BY <1>1, <1>4
<1> QED BY <1>4, <1>5, Entities

LEMMA RegisteredIsDescribed ==
    ASSUME MapKept, Len(entities) = made, made < Len(scene),
           NEW e, e = Registered(scene[made + 1])
    PROVE  Describes(e, scene[made + 1], made + 1) /\ MadeFrom(e, made + 1, scene)
<1> DEFINE d == scene[made + 1]
           index == EntityIndex(d.session, UXR_TOPIC_ID, d.topic_id)
<1>1. CASE ByTopic(d)
  <2>1. e = [session |-> d.session, kind |-> d.kind, id |-> d.id, type |-> "bin",
             hash |-> NoHash, topic |-> index, qos |-> d.qos]
    BY <1>1 DEF Registered
  <2>2. /\ index \in 1..made /\ scene[index].kind = UXR_TOPIC_ID
        /\ scene[index].session = d.session /\ scene[index].id = d.topic_id
    BY <1>1, TopicFound
  <2>3. made \in Nat
    BY Entities
  <2> HIDE DEF index
  <2> QED BY <1>1, <2>1, <2>2, <2>3 DEF Describes, MadeFrom
<1>2. CASE ~ByTopic(d)
  <2>1. e = [session |-> d.session, kind |-> d.kind, id |-> d.id, type |-> "hash",
             hash |-> HashOf(d), topic |-> 0, qos |-> 0]
    BY <1>2 DEF Registered
  <2> QED BY <1>2, <2>1 DEF Describes, MadeFrom
<1> QED BY <1>1, <1>2

LEMMA NobodyCalls ==
    ASSUME MemoryKept, Quiet
    PROVE  \A t \in Threads : stack[t] = <<>> /\ Len(stack[t]) = 0
BY EmptySeq DEF Quiet, Calling

LEMMA CreateKeeps ==
    ASSUME MemoryKept, Create
    PROVE  MemoryKept'
<1> DEFINE n == Len(entities)
           e == Registered(scene[made + 1])
<1>1. /\ Quiet /\ made < Len(scene) /\ made' = made + 1
      /\ IF n < MaxEntities
         THEN entities' = Append(entities, e)
              /\ matched' = [i \in Entity |-> [j \in Entity |-> MatchedIn(entities', i, j)]]
         ELSE entities' = entities /\ matched' = matched
      /\ UNCHANGED <<list, mempool_freeitems, writer, memory, stack>>
      /\ scene' = scene /\ users' = users
  BY DEF Create
<1>2. /\ Len(scene) \in Nat /\ made \in Nat /\ n \in Nat /\ MaxEntities \in Nat
      /\ DOMAIN entities = 1..n
  BY SharedMemoryAssumption, Entities DEF MemoryKept
<1>3. /\ scene \in Scenes /\ users \in (SUBSET Threads) \ {{}} /\ entities \in Seq(Elements(entities))
      /\ n = IF made <= MaxEntities THEN made ELSE MaxEntities
      /\ \A i \in 1..n : Describes(entities[i], scene[i], n)
      /\ matched = [i \in Entity |-> [j \in Entity |-> MatchedIn(entities, i, j)]]
  BY DEF MemoryKept, MapKept
<1>4. made' \in 0..Len(scene)
  BY <1>1, <1>2
<1>5. /\ MapKept'
      /\ n <= Len(entities') /\ Len(entities') \in Nat
      /\ \A i \in 1..n : entities'[i] = entities[i]
      /\ \A i, j \in 1..n : i \in Entity /\ j \in Entity /\ matched[i][j] => matched'[i][j]
  <2>1. CASE n < MaxEntities
    <3>1. made = n
      BY <1>2, <1>3, <2>1
    <3>2. Describes(e, scene[made + 1], n + 1)
      BY <1>1, <3>1, RegisteredIsDescribed DEF MemoryKept
    <3> DEFINE S == Elements(entities) \cup {e}
    <3>3. entities \in Seq(S) /\ e \in S
      <4>1. Len(entities) \in Nat /\ entities \in [1..n -> S]
        BY <1>2, <1>3, LenProperties DEF Elements
      <4> QED BY <4>1, SeqDef
    <3>4. entities' = Append(entities, e)
      BY <1>1, <2>1
    <3> HIDE DEF S, e
    <3>5. /\ entities' \in Seq(S) /\ Len(entities') = n + 1
          /\ \A i \in 1..n : entities'[i] = entities[i]
          /\ entities'[n + 1] = e
      BY <3>3, <3>4, AppendProperties
    <3>6. entities' \in Seq(Elements(entities'))
      BY <3>5, OwnElements
    <3>7. Len(entities') = IF made' <= MaxEntities THEN made' ELSE MaxEntities
      BY <1>1, <1>2, <2>1, <3>1, <3>5
    <3>8. ASSUME NEW i \in 1..Len(entities')
          PROVE  Describes(entities'[i], scene[i], Len(entities'))
      <4>1. CASE i = n + 1
        BY <3>1, <3>2, <3>5, <4>1
      <4>2. CASE i \in 1..n
        <5>1. 1..n \subseteq 1..Len(entities')
          BY <1>2, <3>5
        <5>2. Describes(entities[i], scene[i], n) /\ entities'[i] = entities[i]
          BY <1>3, <3>5, <4>2
        <5> QED BY <5>1, <5>2 DEF Describes
      <4> QED BY <1>2, <3>5, <4>1, <4>2
    <3>9. matched' = [i \in Entity |-> [j \in Entity |-> MatchedIn(entities', i, j)]]
      BY <1>1, <2>1
    <3>10. MapKept'
      <4>1. scene' \in Scenes /\ made' \in 0..Len(scene') /\ users' \in (SUBSET Threads) \ {{}}
        BY <1>1, <1>3, <1>4
      <4>2. \A i \in 1..Len(entities') : Describes(entities'[i], scene'[i], Len(entities'))
        BY <1>1, <3>8
      <4> QED BY <3>6, <3>7, <3>9, <4>1, <4>2 DEF MapKept, Describes, MatchedIn,
                                                  uxr_match_binary_entities, Elements
    <3>11. ASSUME NEW i \in 1..n, NEW j \in 1..n, i \in Entity, j \in Entity, matched[i][j]
           PROVE  matched'[i][j]
      <4>1. MatchedIn(entities, i, j)
        BY <1>3, <3>11
      <4>2. entities'[i] = entities[i] /\ entities'[j] = entities[j]
            /\ i \in DOMAIN entities' /\ j \in DOMAIN entities'
        <5>1. DOMAIN entities' = 1..n + 1
          BY <3>5, LenProperties
        <5> QED BY <1>2, <3>5, <5>1
      <4>3. /\ entities[i].type \in {"hash", "bin"}
            /\ entities[i].type = "bin" => entities[i].topic \in 1..n
            /\ entities[j].type = "bin" => entities[j].topic \in 1..n
        BY <1>3 DEF Describes
      <4>4. CASE entities[i].type = "hash"
        <5>1. MatchedIn(entities', i, j)
          BY <4>1, <4>2, <4>4 DEF MatchedIn
        <5> QED BY <3>9, <3>11, <5>1
      <4>5. CASE entities[i].type = "bin"
        <5>1. /\ entities[j].type = "bin"
              /\ uxr_match_binary_entities(entities, entities[i], entities[j])
          BY <4>1, <4>5 DEF MatchedIn
        <5>2. /\ entities'[entities[i].topic] = entities[entities[i].topic]
              /\ entities'[entities[j].topic] = entities[entities[j].topic]
          BY <3>5, <4>3, <4>5, <5>1
        <5>3. uxr_match_binary_entities(entities', entities[i], entities[j])
          BY <5>1, <5>2 DEF uxr_match_binary_entities
        <5>4. MatchedIn(entities', i, j)
          BY <4>1, <4>2, <4>5, <5>3 DEF MatchedIn
        <5> QED BY <3>9, <3>11, <5>4
      <4> QED BY <4>3, <4>4, <4>5
    <3> QED BY <1>2, <3>5, <3>10, <3>11
  <2>2. CASE ~(n < MaxEntities)
    <3>1. entities' = entities /\ matched' = matched
      BY <1>1, <2>2
    <3>2. n = IF made' <= MaxEntities THEN made' ELSE MaxEntities
      BY <1>1, <1>2, <1>3, <2>2
    <3>3. MapKept'
      <4>1. scene' \in Scenes /\ made' \in 0..Len(scene') /\ users' \in (SUBSET Threads) \ {{}}
        BY <1>1, <1>3, <1>4
      <4> QED BY <1>1, <1>3, <3>1, <3>2, <4>1 DEF MapKept, Describes, MatchedIn,
                                                   uxr_match_binary_entities, Elements
    <3> QED BY <1>2, <3>1, <3>3
  <2> QED BY <2>1, <2>2
<1>6. TypesKept'
  BY <1>1 DEF MemoryKept, TypesKept
<1>7. LeftForMatched'
  <2> SUFFICES ASSUME NEW i \in Entity, NEW j \in Entity, list[i][j] # <<>>
               PROVE  /\ i \in 1..Len(entities') /\ j \in 1..Len(entities')
                      /\ entities'[i].kind \in Senders /\ matched'[i][j]
    BY <1>1 DEF LeftForMatched
  <2>1. i \in 1..n /\ j \in 1..n /\ entities[i].kind \in Senders /\ matched[i][j]
    BY DEF MemoryKept, LeftForMatched
  <2> QED BY <1>2, <1>5, <2>1
<1>8. StacksKept'
  <2>1. \A t \in Threads : Len(stack'[t]) = 0
    BY <1>1, NobodyCalls
  <2> QED BY <2>1 DEF StacksKept, Nested
<1>9. ItemsKept'
  BY <1>1 DEF MemoryKept, ItemsKept
<1>10. AloneKept'
  <2>1. \A t \in users : stack'[t] = <<>> /\ stack'[t] = stack[t]
    BY <1>1, <1>3, NobodyCalls
  <2>2. Alone' <=> Alone
    BY <1>1 DEF Alone
  <2> QED BY <1>1, <2>1, <2>2 DEF MemoryKept, AloneKept
<1> QED BY <1>5, <1>6, <1>7, <1>8, <1>9, <1>10 DEF MemoryKept

(* A pool of which all is free.                                              *)
LEMMA AllFree ==
    ASSUME NEW free, free = [n \in Pool |-> PoolSize + 1 - n],
           NEW lists, \A i, j \in Entity : lists[i][j] = <<>>,
           NEW stacks, \A t \in Threads : stacks[t] = <<>>,
           NEW k \in Pool
    PROVE  /\ free \in Seq(Pool)
           /\ InOne(FreeIn(free, k), LeftIn(lists, k), HandedIn(stacks, k))
<1>1. PoolSize \in Nat
  BY SharedMemoryAssumption
<1>2. free \in [1..PoolSize -> Pool]
  BY <1>1 DEF Pool
<1>3. free \in Seq(Pool) /\ Len(free) = PoolSize
  <2>1. free \in Seq(Pool)
    BY <1>1, <1>2, SeqDef
  <2>2. DOMAIN free = 1..PoolSize /\ DOMAIN free = 1..Len(free) /\ Len(free) \in Nat
    BY <1>2, <2>1, LenProperties
  <2> QED BY <1>1, <2>1, <2>2
<1>4. \A n \in Nat : n \in FreeIn(free, k) <=> n = PoolSize + 1 - k
  <2>1. PoolSize + 1 - k \in 1..PoolSize
    BY <1>1 DEF Pool
  <2>2. \A n \in 1..PoolSize : free[n] = PoolSize + 1 - n
    BY DEF Pool
  <2>3. \A n \in 1..PoolSize : PoolSize + 1 - n = k <=> n = PoolSize + 1 - k
    BY <1>1 DEF Pool
  <2> QED BY <1>3, <2>1, <2>2, <2>3 DEF FreeIn
<1>5. FreeIn(free, k) = {PoolSize + 1 - k}
  <2>1. FreeIn(free, k) \subseteq Nat /\ PoolSize + 1 - k \in Nat
    BY <1>1 DEF FreeIn, Pool
  <2> QED BY <1>4, <2>1
<1>6. Len(<<>>) = 0
  BY EmptySeq
<1>7. LeftIn(lists, k) = {}
  <2> SUFFICES ASSUME NEW p \in LeftIn(lists, k) PROVE FALSE
    OBVIOUS
  <2>1. p[1] \in Entity /\ p[2] \in Entity /\ p[3] \in 1..Len(lists[p[1]][p[2]])
    BY DEF LeftIn
  <2>2. p[3] \in 1..0
    BY <1>6, <2>1
  <2> QED BY <2>2
<1>8. HandedIn(stacks, k) = {}
  <2> SUFFICES ASSUME NEW p \in HandedIn(stacks, k) PROVE FALSE
    OBVIOUS
  <2>1. p[1] \in Threads /\ p[2] \in 1..Len(stacks[p[1]])
    BY DEF HandedIn, HasItem
  <2>2. p[2] \in 1..0
    BY <1>6, <2>1
  <2> QED BY <2>2
<1> QED BY <1>3, <1>5, <1>7, <1>8 DEF InOne, Single

(* Nothing made, nothing left, nobody calls.                                 *)
Blank ==
    /\ scene \in Scenes /\ users \in (SUBSET Threads) \ {{}}
    /\ made = 0 /\ entities = <<>>
    /\ matched = [i \in Entity |-> [j \in Entity |-> FALSE]]
    /\ list = [i \in Entity |-> [j \in Entity |-> <<>>]]
    /\ mempool_freeitems = [n \in Pool |-> PoolSize + 1 - n]
    /\ \A t \in Threads : stack[t] = <<>>
    /\ stack \in [Threads -> Seq(Frames)]
    /\ writer \in [Sessions -> 0..Capacity] /\ memory \in [Sessions -> [1..Capacity -> Texts]]

LEMMA BlankIsKept ==
    Blank => MemoryKept
<1> SUFFICES ASSUME Blank PROVE MemoryKept
  OBVIOUS
<1> USE DEF Blank
<1>1. MaxEntities \in Nat /\ Len(scene) \in Nat
  BY SharedMemoryAssumption, ScenesAssumption, LenProperties
<1>2. /\ <<>> \in Seq(Frames) /\ <<>> \in Seq(Items) /\ <<>> \in Seq(Elements(entities))
      /\ Len(<<>>) = 0 /\ DOMAIN <<>> = {}
  BY EmptySeq
<1>3. \A i, j : ~MatchedIn(<<>>, i, j)
  BY <1>2 DEF MatchedIn
<1>4. MapKept
  <2>1. matched = [i \in Entity |-> [j \in Entity |-> MatchedIn(entities, i, j)]]
    <3>1. \A i, j : MatchedIn(entities, i, j) = FALSE
      BY <1>3 DEF MatchedIn
    <3>2. \A i \in Entity : [j \in Entity |-> MatchedIn(entities, i, j)] = [j \in Entity |-> FALSE]
      BY <3>1
    <3>3. [i \in Entity |-> [j \in Entity |-> MatchedIn(entities, i, j)]]
             = [i \in Entity |-> [j \in Entity |-> FALSE]]
      BY <3>2
    <3> QED BY <3>3
  <2>2. Len(entities) = IF made <= MaxEntities THEN made ELSE MaxEntities
    BY <1>1, <1>2
  <2>3. made \in 0..Len(scene) /\ entities \in Seq(Elements(entities)) /\ 1..Len(entities) = {}
    BY <1>1, <1>2
  <2> QED BY <2>1, <2>2, <2>3 DEF MapKept
<1>5. ASSUME NEW k \in Pool
      PROVE  /\ mempool_freeitems \in Seq(Pool)
             /\ InOne(FreeIn(mempool_freeitems, k), LeftIn(list, k), HandedIn(stack, k))
  <2>1. /\ \A i, j \in Entity : list[i][j] = <<>>
        /\ \A t \in Threads : stack[t] = <<>>
        /\ mempool_freeitems = [n \in Pool |-> PoolSize + 1 - n]
    OBVIOUS
  <2> HIDE DEF Blank
  <2> QED BY <2>1, AllFree
<1>6. mempool_freeitems \in Seq(Pool)
  <2>1. CASE Pool = {}
    <3>1. mempool_freeitems \in [1..0 -> Pool]
      BY <2>1
    <3> QED BY <3>1, SeqDef
  <2> QED BY <1>5, <2>1
<1>7. TypesKept
  BY <1>2, <1>6 DEF TypesKept
<1>8. LeftForMatched
  BY DEF LeftForMatched
<1>9. StacksKept
  BY <1>2 DEF StacksKept, Nested
<1>10. ItemsKept
  BY <1>5 DEF ItemsKept
<1>11. AloneKept
  <2>1. \A i, j \in Entity : Len(list[i][j]) = 0
    BY <1>2
  <2> QED BY <2>1 DEF AloneKept, AllPoint
<1> QED BY <1>4, <1>7, <1>8, <1>9, <1>10, <1>11 DEF MemoryKept

LEMMA InitKeeps ==
    ASSUME Init
    PROVE  MemoryKept
<1>1. Empty \in Texts
  BY DEF Empty, Texts, Said
<1>2. /\ writer \in [Sessions -> 0..Capacity] /\ memory \in [Sessions -> [1..Capacity -> Texts]]
  BY <1>1, SharedMemoryAssumption DEF Init
<1>3. \A t \in Threads : stack[t] = <<>>
  BY DEF Init
<1>4. stack \in [Threads -> Seq(Frames)]
  <2>1. <<>> \in Seq(Frames)
    BY EmptySeq
  <2> QED BY <2>1 DEF Init
<1>5. Blank
  BY <1>2, <1>3, <1>4 DEF Init, Blank
<1> QED BY <1>5, BlankIsKept

LEMMA DeleteKeeps ==
    ASSUME MemoryKept, Delete
    PROVE  MemoryKept'
<1>1. Blank'
  <2>1. \A t \in Threads : stack'[t] = <<>>
    BY NobodyCalls DEF Delete
  <2> QED BY <2>1 DEF Delete, Blank, MemoryKept, MapKept, TypesKept
<1>2. Blank' => MemoryKept'
  BY BlankIsKept, PTL
<1> QED BY <1>1, <1>2

LEMMA StepKeeps ==
    ASSUME MemoryKept, [Next]_vars
    PROVE  MemoryKept'
<1>1. CASE Create
  BY <1>1, CreateKeeps
<1>2. CASE Delete
  BY <1>2, DeleteKeeps
<1>3. ASSUME NEW t \in users,
             \/ Write(t) \/ LockStream(t) \/ Prepare(t) \/ Serialize(t)
             \/ Flash(t) \/ EnterMap(t) \/ Handle(t) \/ LeaveMap(t) \/ SendStream(t)
             \/ CallbackWrites(t) \/ CallbackRuns(t) \/ Return(t)
      PROVE  MemoryKept'
  <2>1. CASE Write(t) \/ Flash(t)
    BY <2>1, WriteKeeps, FlashKeeps
  <2>2. CASE LockStream(t) \/ Prepare(t) \/ Serialize(t)
    BY <2>2, LockStreamKeeps, PrepareKeeps, SerializeKeeps
  <2>3. CASE EnterMap(t) \/ Handle(t) \/ LeaveMap(t) \/ SendStream(t)
    BY <2>3, EnterMapKeeps, HandleKeeps, LeaveMapKeeps, SendStreamKeeps
  <2>4. CASE CallbackWrites(t) \/ CallbackRuns(t) \/ Return(t)
    BY <2>4, CallbackWritesKeeps, CallbackRunsKeeps, ReturnKeeps
  <2> QED BY <1>3, <2>1, <2>2, <2>3, <2>4
<1>4. CASE UNCHANGED vars
  <2>1. UNCHANGED <<scene, made, users, entities, matched, list, mempool_freeitems,
                    writer, memory, stack>>
    BY <1>4 DEF vars, map
  <2>2. /\ MapKept /\ TypesKept /\ LeftForMatched /\ StacksKept /\ ItemsKept /\ AloneKept
        /\ UNCHANGED <<scene, made, users>> /\ UNCHANGED <<entities, matched>>
    BY <2>1 DEF MemoryKept
  <2>3. MapKept' /\ LeftForMatched' /\ (Alone' <=> Alone)
    BY <2>1, <2>2, MapStays, LeftStays
  <2>4. TypesKept' /\ ItemsKept'
    BY <2>1, <2>2 DEF TypesKept, ItemsKept
  <2>5. StacksKept'
    BY <2>1, <2>2, <2>3 DEF StacksKept, Fits
  <2>6. AloneKept'
    BY <2>1, <2>2, <2>3 DEF AloneKept
  <2> QED BY <2>3, <2>4, <2>5, <2>6 DEF MemoryKept
<1> QED BY <1>1, <1>2, <1>3, <1>4 DEF Next

(***************************************************************************)
(* Theorems.                                                               *)
(***************************************************************************)
(* Every step of every thread, whatever it is called within, keeps what the  *)
(* properties rest on: the map in the order it was made, the calls nested as *)
(* deliveries and callbacks nest, each item of the pool in one place, and,   *)
(* for one thread alone, every item pointing to its message.                 *)
THEOREM MemoryInvariant == Spec => []MemoryKept
<1>1. Init => MemoryKept
  BY InitKeeps
<1>2. MemoryKept /\ [Next]_vars => MemoryKept'
  BY StepKeeps
<1> QED BY <1>1, <1>2, PTL DEF Spec

(* The entities fit in the map and the messages in the streams; what is left *)
(* is an item of the pool, between two that match; and only the threads that *)
(* use the session are in a call.                                            *)
THEOREM MemoryTypeCorrect == Spec => []SmTypeOK
<1>1. MemoryKept => SmTypeOK
  <2> SUFFICES ASSUME MemoryKept PROVE SmTypeOK
    OBVIOUS
  <2>1. made \in 0..Len(scene) /\ Len(entities) <= MaxEntities
    BY Entities DEF MemoryKept, MapKept
  <2>2. \A s \in Sessions : writer[s] \in 0..Capacity
    BY DEF MemoryKept, TypesKept
  <2>3. ASSUME NEW i \in Entity, NEW j \in Entity, NEW n \in DOMAIN list[i][j]
        PROVE  list[i][j][n].item \in Pool /\ matched[i][j]
    <3>1. list[i][j] \in Seq(Items) /\ n \in 1..Len(list[i][j]) /\ list[i][j][n] \in Items
      BY ListItems, LenProperties
    <3>2. list[i][j] # <<>>
      BY <3>1, EmptySeq
    <3> QED BY <3>1, <3>2 DEF MemoryKept, LeftForMatched, Items
  <2>4. \A n \in DOMAIN mempool_freeitems : mempool_freeitems[n] \in Pool
    BY LenProperties, ElementOfSeq DEF MemoryKept, TypesKept
  <2>5. \A t \in Threads \ users : ~Calling(t)
    BY DEF MemoryKept, TypesKept, Calling
  <2> QED BY <2>1, <2>2, <2>3, <2>4, <2>5 DEF SmTypeOK
<1> QED BY <1>1, MemoryInvariant, PTL

LEMMA PlacesOf ==
    ASSUME MemoryKept, NEW k \in Pool
    PROVE  /\ \A n \in FreeIn(mempool_freeitems, k) : <<"free", n>> \in Places(k)
           /\ \A p \in LeftIn(list, k) : <<"left", <<<<p[1], p[2]>>, p[3]>>>> \in Places(k)
           /\ \A p \in HandedIn(stack, k) : <<"called", <<p[1], p[2]>>>> \in Places(k)
           /\ \A z \in Places(k) :
                  \/ \E n \in FreeIn(mempool_freeitems, k) : z = <<"free", n>>
                  \/ \E p \in LeftIn(list, k) : z = <<"left", <<<<p[1], p[2]>>, p[3]>>>>
                  \/ \E p \in HandedIn(stack, k) : z = <<"called", <<p[1], p[2]>>>>
<1> DEFINE F == {<<"free", n>> : n \in {m \in DOMAIN mempool_freeitems : mempool_freeitems[m] = k}}
           LeftOf(p) == {<<"left", <<p, n>>>> : n \in {m \in DOMAIN list[p[1]][p[2]] :
                                                       list[p[1]][p[2]][m].item = k}}
           L == UNION {LeftOf(p) : p \in Entity \X Entity}
           CalledOf(t) == {<<"called", <<t, n>>>> : n \in {m \in DOMAIN stack[t] :
                               stack[t][m].pc = "called" /\ stack[t][m].item.item = k}}
           H == UNION {CalledOf(t) : t \in Threads}
<1>1. Places(k) = F \cup L \cup H
  BY DEF Places
<1>2. /\ DOMAIN mempool_freeitems = 1..Len(mempool_freeitems)
      /\ \A i, j \in Entity : DOMAIN list[i][j] = 1..Len(list[i][j]) /\ Len(list[i][j]) \in Nat
      /\ \A t \in Threads : DOMAIN stack[t] = 1..Len(stack[t]) /\ Len(stack[t]) \in Nat
  BY LenProperties DEF MemoryKept, TypesKept
<1>3. /\ \A n \in FreeIn(mempool_freeitems, k) : <<"free", n>> \in F
      /\ \A z \in F : \E n \in FreeIn(mempool_freeitems, k) : z = <<"free", n>>
  BY <1>2 DEF FreeIn
<1>4. ASSUME NEW p \in LeftIn(list, k) PROVE <<"left", <<<<p[1], p[2]>>, p[3]>>>> \in L
  <2>1. /\ p[1] \in Entity /\ p[2] \in Entity /\ p[3] \in 1..Len(list[p[1]][p[2]])
        /\ list[p[1]][p[2]][p[3]].item = k
    BY DEF LeftIn
  <2>2. <<"left", <<<<p[1], p[2]>>, p[3]>>>> \in LeftOf(<<p[1], p[2]>>)
    BY <1>2, <2>1
  <2> HIDE DEF LeftOf
  <2> QED BY <2>1, <2>2
<1>5. ASSUME NEW z \in L
      PROVE  \E p \in LeftIn(list, k) : z = <<"left", <<<<p[1], p[2]>>, p[3]>>>>
  <2>1. PICK q \in Entity \X Entity : z \in LeftOf(q)
    OBVIOUS
  <2>2. PICK n \in DOMAIN list[q[1]][q[2]] :
            z = <<"left", <<q, n>>>> /\ list[q[1]][q[2]][n].item = k
    BY <2>1
  <2> HIDE DEF LeftOf, L
  <2>3. q = <<q[1], q[2]>> /\ q[1] \in Entity /\ q[2] \in Entity
        /\ n \in 1..Len(list[q[1]][q[2]]) /\ n \in Nat
    BY <1>2
  <2>4. <<q[1], q[2], n>> \in LeftIn(list, k)
    BY <2>2, <2>3 DEF LeftIn
  <2> QED BY <2>2, <2>3, <2>4
<1>6. ASSUME NEW p \in HandedIn(stack, k) PROVE <<"called", <<p[1], p[2]>>>> \in H
  <2>1. /\ p[1] \in Threads /\ p[2] \in 1..Len(stack[p[1]])
        /\ stack[p[1]][p[2]].pc = "called" /\ stack[p[1]][p[2]].item.item = k
    BY DEF HandedIn, HasItem
  <2>2. <<"called", <<p[1], p[2]>>>> \in CalledOf(p[1])
    BY <1>2, <2>1
  <2> HIDE DEF CalledOf
  <2> QED BY <2>1, <2>2
<1>7. ASSUME NEW z \in H PROVE \E p \in HandedIn(stack, k) : z = <<"called", <<p[1], p[2]>>>>
  <2>1. PICK t \in Threads : z \in CalledOf(t)
    OBVIOUS
  <2>2. PICK n \in DOMAIN stack[t] : /\ z = <<"called", <<t, n>>>> /\ stack[t][n].pc = "called"
                                     /\ stack[t][n].item.item = k
    BY <2>1
  <2> HIDE DEF CalledOf, H
  <2>3. n \in 1..Len(stack[t]) /\ n \in Nat
    BY <1>2
  <2>4. <<t, n>> \in HandedIn(stack, k)
    BY <2>2, <2>3 DEF HandedIn, HasItem
  <2> QED BY <2>2, <2>4
<1> HIDE DEF F, L, H
<1> QED BY <1>1, <1>3, <1>4, <1>5, <1>6, <1>7

(* Whatever threads and callbacks do, each item of the pool is free, left    *)
(* for one pair, or with one callback, once.                                 *)
THEOREM PoolIsConserved == Spec => []PoolConserved
<1>1. MemoryKept => PoolConserved
  <2> SUFFICES ASSUME MemoryKept, NEW k \in Pool PROVE Cardinality(Places(k)) = 1
    BY DEF PoolConserved
  <2> DEFINE F == FreeIn(mempool_freeitems, k)
             L == LeftIn(list, k)
             H == HandedIn(stack, k)
             InLeft(p) == <<"left", <<<<p[1], p[2]>>, p[3]>>>>
             InCalled(p) == <<"called", <<p[1], p[2]>>>>
  <2>1. /\ \A n \in F : <<"free", n>> \in Places(k)
        /\ \A p \in L : InLeft(p) \in Places(k)
        /\ \A p \in H : InCalled(p) \in Places(k)
        /\ \A z \in Places(k) : \/ \E n \in F : z = <<"free", n>>
                                \/ \E p \in L : z = InLeft(p)
                                \/ \E p \in H : z = InCalled(p)
    BY PlacesOf
  <2>2. InOne(F, L, H)
    BY SinglePlaces
  <2> HIDE DEF F, L, H
  <2>3. \E z : Places(k) = {z}
    <3>1. CASE F # {}
      <4>1. PICK n : F = {n}
        BY <2>2, <3>1 DEF InOne, Single
      <4>2. L = {} /\ H = {}
        BY <2>2, <3>1 DEF InOne
      <4> HIDE DEF InLeft, InCalled
      <4>3. Places(k) = {<<"free", n>>}
        BY <2>1, <4>1, <4>2
      <4> QED BY <4>3
    <3>2. CASE L # {}
      <4>1. PICK p : L = {p}
        BY <2>2, <3>2 DEF InOne, Single
      <4>2. F = {} /\ H = {}
        BY <2>2, <3>2 DEF InOne
      <4> HIDE DEF InLeft, InCalled
      <4>3. Places(k) = {InLeft(p)}
        BY <2>1, <4>1, <4>2
      <4> QED BY <4>3
    <3>3. CASE H # {}
      <4>1. PICK p : H = {p}
        BY <2>2, <3>3 DEF InOne, Single
      <4>2. F = {} /\ L = {}
        BY <2>2, <3>3 DEF InOne
      <4> HIDE DEF InLeft, InCalled
      <4>3. Places(k) = {InCalled(p)}
        BY <2>1, <4>1, <4>2
      <4> QED BY <4>3
    <3> QED BY <2>2, <3>1, <3>2, <3>3 DEF InOne
  <2> QED BY <2>3, FS_Singleton
<1> QED BY <1>1, MemoryInvariant, PTL

(* As long as one thread uses the session, what a callback is handed is what *)
(* was written for it, though its cell of the stream is used again: whoever  *)
(* sends the stream first hands over all that points into it, and nothing is *)
(* written while something is handed over but by the callback itself.        *)
THEOREM HandedOver == Spec => []HandedIsWritten
<1>1. MemoryKept => HandedIsWritten
  <2> SUFFICES ASSUME MemoryKept, Alone, NEW t \in Threads, At(t, "called"), Top(t).did = "nothing"
               PROVE  MessageOf(Top(t).item) = Top(t).item.meant
    BY DEF HandedIsWritten
  <2>1. t \in users
    BY DEF MemoryKept, TypesKept, At, Calling
  <2>2. Calling(t) /\ Top(t) = stack[t][1] /\ Top(t).pc = "called"
        /\ Progress(stack[t], list, memory)
    BY <2>1, Caller DEF At
  <2> QED BY <2>2 DEF Progress, Says, MessageOf
<1> QED BY <1>1, MemoryInvariant, PTL

(* Threads never all wait for each other: with several, a callback does not  *)
(* write, so who holds the map is on its way out of it, and who holds a      *)
(* stream waits for nothing but the map.                                     *)
THEOREM NoWaiting == Spec => []SomeoneGoesOn
<1>1. MemoryKept => SomeoneGoesOn
  <2> SUFFICES ASSUME MemoryKept, NEW t \in Threads, Calling(t)
               PROVE  \E u \in Threads : Calling(u) /\ CanGoOn(u)
    BY DEF SomeoneGoesOn
  <2>1. ASSUME NEW u \in Threads, Calling(u)
        PROVE  /\ u \in users /\ stack[u] \in Seq(Frames) /\ Len(stack[u]) \in Nat \ {0}
               /\ Top(u) = stack[u][1] /\ Nested(stack[u])
               /\ \A n \in 1..Len(stack[u]) : Fits(stack[u][n], writer)
    <3>1. u \in users
      BY <2>1 DEF MemoryKept, TypesKept, Calling
    <3> QED BY <2>1, <3>1, Caller
  <2>2. \A u \in Threads : /\ DOMAIN stack[u] = 1..Len(stack[u]) /\ Len(stack[u]) \in Nat
                           /\ \A n \in DOMAIN stack[u] : Calling(u)
    BY LenProperties, EmptySeq DEF MemoryKept, TypesKept, Calling
  <2>3. CASE Alone
    <3>1. \A u \in Threads \ {t} : ~Calling(u)
      BY <2>1, <2>3, AloneIsOne DEF MemoryKept
    <3>2. CanGoOn(t)
      BY <2>2, <3>1 DEF CanGoOn, StreamFree, MapFree
    <3> QED BY <3>2
  <2>4. CASE ~Alone /\ \E u \in Threads : \E n \in DOMAIN stack[u] : HoldsMap(stack[u][n])
    <3>0. PICK u \in Threads : \E n \in DOMAIN stack[u] : HoldsMap(stack[u][n])
      BY <2>4
    <3>1. PICK n \in DOMAIN stack[u] : HoldsMap(stack[u][n])
      BY <3>0
    <3> DEFINE s == stack[u]
    <3>2. Calling(u) /\ n \in 1..Len(s)
      BY <2>2
    <3>3. /\ Len(s) \in Nat \ {0} /\ Top(u) = s[1] /\ Nested(s)
          /\ \A m \in 1..Len(s) : s[m].pc = "called" => s[m].did = "nothing"
      BY <2>1, <2>4, <3>2 DEF Fits
    <3> HIDE DEF s
    <3>4. \A m \in 2..Len(s) : s[m].pc # "called"
      <4>1. ASSUME NEW m \in 2..Len(s), s[m].pc = "called" PROVE FALSE
        <5>1. s[m].did \in {"wrote", "ran"} /\ m \in 1..Len(s)
          BY <3>3, <4>1 DEF Nested
        <5> QED BY <3>3, <4>1, <5>1
      <4> QED BY <4>1
    <3>5. s[1].pc \in {"handling", "called"}
      <4>1. CASE n = 1
        BY <3>1, <4>1 DEF HoldsMap, s
      <4>2. CASE n # 1
        <5>1. n \in 2..Len(s) /\ n - 1 \in 1..Len(s)
          BY <3>2, <3>3, <4>2
        <5>2. s[n - 1].pc = "called"
          BY <3>3, <3>4, <5>1 DEF Nested
        <5>3. n - 1 = 1
          BY <3>4, <5>1, <5>2
        <5> QED BY <5>2, <5>3
      <4> QED BY <4>1, <4>2
    <3>6. CanGoOn(u)
      BY <3>3, <3>5 DEF CanGoOn
    <3> QED BY <3>2, <3>6
  <2>5. CASE ~(\E u \in Threads : \E n \in DOMAIN stack[u] : HoldsMap(stack[u][n]))
    <3>1. \A u \in Threads : MapFree(u)
      BY <2>5 DEF MapFree
    <3>2. CASE \E u \in Threads : Calling(u) /\ Top(u).pc \notin {"locking", "sending"}
      BY <3>1, <3>2 DEF CanGoOn
    <3>3. CASE \A u \in Threads : Calling(u) => Top(u).pc \in {"locking", "sending"}
      <4>1. ASSUME NEW u \in Threads, NEW n \in DOMAIN stack[u], NEW c
            PROVE  ~HoldsStream(stack[u][n], c)
        <5>1. Calling(u) /\ n \in 1..Len(stack[u])
          BY <2>2
        <5>2. /\ Nested(stack[u]) /\ Top(u) = stack[u][1] /\ Len(stack[u]) \in Nat
          BY <2>1, <5>1
        <5>3. CASE n = 1
          BY <3>3, <5>1, <5>2, <5>3 DEF HoldsStream
        <5>4. CASE n # 1
          <6>1. n \in 2..Len(stack[u])
            BY <5>1, <5>2, <5>4
          <6> QED BY <5>2, <6>1 DEF Nested, HoldsStream
        <5> QED BY <5>3, <5>4
      <4>2. CanGoOn(t)
        BY <3>1, <4>1 DEF CanGoOn, StreamFree
      <4> QED BY <4>2
    <3> QED BY <3>2, <3>3
  <2> QED BY <2>3, <2>4, <2>5
<1> QED BY <1>1, MemoryInvariant, PTL

(* A reply finds the requester that asked, and no other, as long as the      *)
(* requesters have identifiers of one octet: of two octets the upper is      *)
(* written by the replier's side and lost when it is read.                   *)
THEOREM RepliesArrive ==
    ASSUME \A s \in Scenes : \A i \in DOMAIN s : s[i].kind = UXR_REQUESTER_ID => s[i].id <= 255
    PROVE  Spec => []RepliesFindTheirRequester
<1>1. MemoryKept => RepliesFindTheirRequester
  <2> SUFFICES ASSUME MemoryKept, NEW i \in DOMAIN entities, NEW j \in DOMAIN entities,
                      NEW n \in DOMAIN list[i][j],
                      entities[j].kind = UXR_REQUESTER_ID, list[i][j][n].meant.to # <<>>
               PROVE  LET to == list[i][j][n].meant.to
                      IN  AddressedTo(entities[j], to) <=> Asked(entities[j], to)
    BY DEF RepliesFindTheirRequester
  <2> DEFINE to == list[i][j][n].meant.to
  <2>1. i \in Entity /\ j \in Entity
    BY Entities DEF MemoryKept
  <2>2. list[i][j][n].meant \in Texts
    BY <2>1, ListItems, LenProperties, ItemParts
  <2>3. to \in Identities
    BY <2>2 DEF Texts
  <2>4. PICK e \in Created, nr \in Said : to = IdentityOf(e, nr)
    BY <2>3 DEF Identities
  <2> HIDE DEF to
  <2>5. /\ to.session = e.session /\ to.kind = e.kind
        /\ to.key[1] = e.id % 256 /\ to.key[2] = (e.id \div 256) % 256
    BY <2>4 DEF IdentityOf
  <2>6. PICK s \in Scenes : \E k \in DOMAIN s : e = s[k]
    BY DEF Created, Elements
  <2>7. e.id \in Nat
    BY <2>6, ScenesAssumption
  <2>8. CASE e.kind = UXR_REQUESTER_ID
    <3>1. e.id \in 0..255
      <4>1. PICK k \in DOMAIN s : e = s[k]
        BY <2>6
      <4>2. s[k].kind = UXR_REQUESTER_ID => s[k].id <= 255
        OBVIOUS
      <4>3. e.id <= 255
        BY <2>8, <4>1, <4>2
      <4>4. \A x \in Nat : x <= 255 => x \in 0..255
        OBVIOUS
      <4> QED BY <2>7, <4>3, <4>4
    <3>2. /\ \A x \in 0..255 : x % 256 = x /\ x \div 256 = 0
          /\ 0 % 256 = 0 /\ 0 \div 256 = 0
      BY SMTT(30)
    <3>5. e.id % 256 = e.id /\ (e.id \div 256) % 256 = 0
      <4> DEFINE x == e.id
      <4>1. x % 256 = x /\ x \div 256 = 0
        <5> HIDE DEF x
        <5> QED BY <3>1, <3>2 DEF x
      <4> QED BY <3>2, <4>1
    <3>3. to.key[1] = e.id /\ to.key[2] = 0 /\ 0 \div 256 = 0
      BY <2>5, <3>2, <3>5
    <3>4. (to.key[2] \div 256) + to.key[1] = e.id /\ to.key[1] + 256 * to.key[2] = e.id
      BY <2>7, <3>3
    <3> QED BY <3>4 DEF AddressedTo, Asked, to
  <2>9. CASE e.kind # UXR_REQUESTER_ID
    BY <2>5, <2>9 DEF AddressedTo, Asked, to
  <2> QED BY <2>8, <2>9
<1> QED BY <1>1, MemoryInvariant, PTL

(* What an entity was made with stays, and no step but a creation adds any.  *)
LEMMA MadeStays ==
    ASSUME MemoryKept, MadeKept, [Next]_vars
    PROVE  MadeKept'
<1>1. CASE Create
  <2> DEFINE n == Len(entities)
             e == Registered(scene[made + 1])
  <2>1. /\ scene' = scene /\ made < Len(scene)
        /\ entities' = IF n < MaxEntities THEN Append(entities, e) ELSE entities
    BY <1>1 DEF Create
  <2>2. /\ n \in Nat /\ made \in Nat /\ MaxEntities \in Nat /\ DOMAIN entities = 1..n
        /\ n = IF made <= MaxEntities THEN made ELSE MaxEntities
    BY SharedMemoryAssumption, Entities DEF MemoryKept, MapKept
  <2>3. CASE n < MaxEntities
    <3>1. made = n
      BY <2>2, <2>3
    <3>2. MadeFrom(e, n + 1, scene)
      BY <2>1, <3>1, RegisteredIsDescribed DEF MemoryKept
    <3> DEFINE S == Elements(entities) \cup {e}
    <3>3. entities \in Seq(S) /\ e \in S
      <4>1. Len(entities) \in Nat /\ entities \in [1..n -> S]
        BY <2>2, LenProperties DEF Elements, MemoryKept, MapKept
      <4> QED BY <4>1, SeqDef
    <3>4. entities' = Append(entities, e)
      BY <2>1, <2>3
    <3> HIDE DEF S, e
    <3>5. /\ Len(entities') = n + 1 /\ entities'[n + 1] = e
          /\ \A i \in 1..n : entities'[i] = entities[i]
      BY <3>3, <3>4, AppendProperties
    <3>6. ASSUME NEW i \in 1..Len(entities') PROVE MadeFrom(entities'[i], i, scene)
      <4>1. CASE i = n + 1
        BY <3>2, <3>5, <4>1
      <4>2. CASE i # n + 1
        <5>1. i \in 1..n
          BY <2>2, <3>5, <4>2
        <5> QED BY <3>5, <5>1 DEF MadeKept
      <4> QED BY <4>1, <4>2
    <3> QED BY <2>1, <3>6 DEF MadeKept, MadeFrom, ByTopic, HashOf
  <2>4. CASE ~(n < MaxEntities)
    BY <2>1, <2>4 DEF MadeKept, MadeFrom, ByTopic, HashOf
  <2> QED BY <2>3, <2>4
<1>2. CASE Delete
  <2>1. entities' = <<>> /\ Len(<<>>) = 0
    BY <1>2, EmptySeq DEF Delete
  <2>2. 1..Len(entities') = {}
    BY <2>1
  <2> QED BY <2>2 DEF MadeKept
<1>3. ASSUME scene' = scene, entities' = entities
      PROVE  MadeKept'
  BY <1>3 DEF MadeKept, MadeFrom, ByTopic, HashOf
<1>4. ASSUME NEW t \in users,
             \/ Write(t) \/ LockStream(t) \/ Prepare(t) \/ Serialize(t)
             \/ Flash(t) \/ EnterMap(t) \/ Handle(t) \/ LeaveMap(t) \/ SendStream(t)
             \/ CallbackWrites(t) \/ CallbackRuns(t) \/ Return(t)
      PROVE  scene' = scene /\ entities' = entities
  BY <1>4 DEF Write, LockStream, Prepare, Serialize, Flash, EnterMap, Handle, LeaveMap,
              SendStream, CallbackWrites, CallbackRuns, Return, map
<1>5. CASE UNCHANGED vars
  BY <1>3, <1>5 DEF vars, map
<1> QED BY <1>1, <1>2, <1>3, <1>4, <1>5 DEF Next

(* Two that match are about the same, whichever sessions they are of, in     *)
(* whichever order they were made and deleted, and whoever did not fit: as   *)
(* long as what is hashed of two descriptions tells their subjects apart.    *)
THEOREM MatchesAreRight ==
    ASSUME DescriptionsTell
    PROVE  Spec => []MatchedAreOfOneSubject
<1>1. Init => MadeKept
  <2>1. Init => entities = <<>> /\ Len(<<>>) = 0
    BY EmptySeq DEF Init
  <2>2. Init => 1..Len(entities) = {}
    BY <2>1
  <2> QED BY <2>2 DEF MadeKept
<1>2. MemoryKept /\ MadeKept /\ [Next]_vars => MadeKept'
  BY MadeStays
<1>3. MemoryKept /\ MadeKept => MatchedAreOfOneSubject
  <2> SUFFICES ASSUME MemoryKept, MadeKept,
                      NEW i \in DOMAIN entities, NEW j \in DOMAIN entities, matched[i][j]
               PROVE  /\ {entities[i].kind, entities[j].kind} \in Complements
                      /\ scene[i].about = scene[j].about
    BY DEF MatchedAreOfOneSubject
  <2> DEFINE d == scene[i]
             e == scene[j]
  <2>1. /\ i \in Entity /\ j \in Entity /\ i \in DOMAIN scene /\ j \in DOMAIN scene
        /\ i \in 1..Len(entities) /\ j \in 1..Len(entities) /\ Len(entities) \in Nat
        /\ entities[i].kind = d.kind /\ entities[j].kind = e.kind /\ scene \in Scenes
    BY Entities DEF MemoryKept, MapKept
  <2>2. MatchedIn(entities, i, j)
    BY <2>1 DEF MemoryKept, MapKept
  <2>3. MadeFrom(entities[i], i, scene) /\ MadeFrom(entities[j], j, scene)
    BY <2>1 DEF MadeKept
  <2>4. CASE entities[i].type = "hash"
    <3>1. ~ByTopic(d) /\ ~ByTopic(e) /\ HashOf(d) = HashOf(e)
      BY <2>2, <2>3, <2>4 DEF MadeFrom, MatchedIn
    <3>2. d.kind # e.kind /\ UXR_TOPIC_ID \notin {d.kind, e.kind}
      BY <2>1, <2>2 DEF MatchedIn
    <3> QED BY <2>1, <3>1, <3>2, ZenonT(60) DEF DescriptionsTell
  <2>5. CASE entities[i].type # "hash"
    <3> DEFINE k == entities[i].topic
               l == entities[j].topic
    <3>1. /\ ByTopic(d) /\ ByTopic(e) /\ d.qos = e.qos
          /\ uxr_match_binary_entities(entities, entities[i], entities[j])
      BY <2>2, <2>3, <2>5 DEF MadeFrom, MatchedIn, uxr_match_binary_entities,
                              uxr_match_endpoint_qosbinary
    <3>2. /\ k \in 1..i - 1 /\ scene[k].kind = UXR_TOPIC_ID
          /\ scene[k].session = d.session /\ scene[k].id = d.topic_id
          /\ l \in 1..j - 1 /\ scene[l].kind = UXR_TOPIC_ID
          /\ scene[l].session = e.session /\ scene[l].id = e.topic_id
      BY <2>3, <3>1 DEF MadeFrom
    <3>3. k \in 1..Len(entities) /\ l \in 1..Len(entities)
      BY <2>1, <3>2
    <3> HIDE DEF k, l
    <3>4. /\ MadeFrom(entities[k], k, scene) /\ MadeFrom(entities[l], l, scene)
          /\ k \in DOMAIN scene /\ l \in DOMAIN scene
      BY <3>3, Entities DEF MadeKept, MemoryKept
    <3>5. ~ByTopic(scene[k]) /\ ~ByTopic(scene[l])
      BY <3>2 DEF ByTopic, UXR_TOPIC_ID, UXR_DATAWRITER_ID, UXR_DATAREADER_ID
    <3>6. HashOf(scene[k]) = HashOf(scene[l])
      BY <3>1, <3>4, <3>5 DEF MadeFrom, uxr_match_binary_entities, k, l
    <3>7. scene[k].about = scene[l].about
      BY <2>1, <3>4, <3>5, <3>6 DEF DescriptionsTell
    <3>8. d.about = <<scene[k].about, d.qos>> /\ e.about = <<scene[l].about, e.qos>>
      BY <2>1, <3>1, <3>2, <3>4 DEF DescriptionsTell
    <3>9. {entities[i].kind, entities[j].kind} \in Complements
      BY <3>1 DEF uxr_match_binary_entities, Complements
    <3> QED BY <3>1, <3>7, <3>8, <3>9
  <2> QED BY <2>4, <2>5
<1> QED BY <1>1, <1>2, <1>3, MemoryInvariant, PTL DEF Spec
(***************************************************************************)
(* What a call holds is told by the place it is at.                        *)
(***************************************************************************)
Named == Calls \cup {"send", "listen"}
CallPlaces ==
    {"enter", "sending", "receiving", "waiting", "reading", "resending", "leaving", "flash",
     "flashing", "beat", "beating", "beaten", "listen", "heard", "asking", "numbering",
     "numbered", "writing", "preparing", "prepared", "checking"}
IsPlace(call, pc) == pc \in CallPlaces /\ (pc \in {"reading", "resending"} => call \in {"listen", "ping"})
CallFrames == {f \in [call : Named, pc : CallPlaces] : IsPlace(f.call, f.pc)}

(* How often a call holds a lock by its own doing.                           *)
Held(f, l) ==
    CASE l = "session" ->
           IF f.call \in {"run", "ping_session"} /\ f.pc # "enter" THEN 1 ELSE 0
      [] l = "out" ->
           IF \/ f.call \in {"run", "ping_session"} /\ f.pc \in {"flashing", "beating", "beaten"}
              \/ f.call = "write" /\ f.pc # "enter"
              \/ f.call = "fragmented" /\ f.pc \notin {"enter", "prepared"}
           THEN 1 ELSE 0
      [] l = "other" -> IF f.call = "write_other" /\ f.pc # "enter" THEN 1 ELSE 0
      [] l = "in" ->
           IF f.call = "listen" /\ f.pc # "enter"
           THEN IF f.pc = "resending" THEN 2 ELSE 1 ELSE 0
      [] l = "transport" ->
           IF f.call = "ping" /\ f.pc # "enter" THEN IF f.pc = "waiting" THEN 2 ELSE 1
           ELSE IF f \in {[call |-> "send", pc |-> "sending"],
                          [call |-> "listen", pc |-> "waiting"]} THEN 1 ELSE 0
      [] OTHER -> 0

(* Where a call of a thread waits for one it made itself.                    *)
CalledFrom(call, f) ==
    CASE call = "send" ->
           \/ f.call = "listen" /\ f.pc \in {"reading", "resending"}
           \/ f.call \in {"run", "ping_session"} /\ f.pc \in {"flashing", "beaten"}
           \/ f.call = "ping_session" /\ f.pc = "flash"
           \/ f.call = "ping" /\ f.pc = "receiving"
           \/ f.call = "wait_status" /\ f.pc = "listen"
      [] call = "write" -> f.call = "listen" /\ f.pc = "reading"
      [] call = "listen" -> f.call \in {"run", "ping_session", "wait_status"} /\ f.pc = "heard"
      [] call = "run" -> f.call = "fragmented" /\ f.pc \in {"prepared", "writing"}
      [] OTHER -> FALSE

IsStack(s) ==
    /\ s \in Seq(CallFrames) /\ Len(s) \in 0..4
    /\ s # <<>> => s[Len(s)].call \in Calls
    /\ \A i \in 1..(Len(s) - 1) : CalledFrom(s[i].call, s[i + 1])

HeldAt(s, i, l) == IF i <= Len(s) THEN Held(s[i], l) ELSE 0
Count(s, l) == HeldAt(s, 1, l) + HeldAt(s, 2, l) + HeldAt(s, 3, l) + HeldAt(s, 4, l)

(***************************************************************************)
(* The inductive invariant.                                                *)
(***************************************************************************)
StacksOK == calls \in [Callers -> Seq(CallFrames)] /\ \A t \in Callers : IsStack(calls[t])

(* A lock is held by a thread exactly as often as its calls took it.         *)
LocksCounted ==
    /\ owner \in [Locks -> Callers \cup {Nobody}] /\ depth \in [Locks -> Nat]
    /\ \A l \in Locks : depth[l] = 0 <=> owner[l] = Nobody
    /\ \A t \in Callers, l \in Locks :
           Count(calls[t], l) = IF owner[l] = t THEN depth[l] ELSE 0

FramesOf(s) == {s[i] : i \in DOMAIN s}

Reads(f) == f.pc \in {"reading", "resending"}
Pings(f) == f.call = "ping" /\ f.pc # "enter"
Received(f) == f.call = "listen" /\ f.pc \notin {"enter", "receiving"}

(* Whoever reads a message has it in the buffer.                             *)
ReadersHaveIt ==
    /\ buffer \in Callers \cup {Nobody}
    /\ \A t \in Callers : \A f \in FramesOf(calls[t]) : Reads(f) => buffer = t

(* Nobody gets past the wait for a message beside a ping.                    *)
PingsKeepOthersOut ==
    \A t \in Callers : \A u \in Callers \ {t} :
        \A f \in FramesOf(calls[t]), g \in FramesOf(calls[u]) : ~(Pings(f) /\ Received(g))

(* A flush within a write is alone.                                          *)
FlushesAreAlone ==
    FlushTogether \/ \A t \in Callers : \A u \in Callers \ {t} : Flushing(t) => ~InCall(u)

(* Requests are written to one stream at a time.                             *)
WritesRequest(f, l) == f.call \in {"write", "write_other", "fragmented"} /\ Held(f, l) = 1
OneStream ==
    TwoStreams \/ \A t, u \in Callers : \A f \in FramesOf(calls[t]), g \in FramesOf(calls[u]) :
                      ~(WritesRequest(f, "out") /\ WritesRequest(g, "other"))

Numbered(f) == f.call \in {"write", "write_other", "fragmented"} /\ f.pc = "writing"
NumbersAreUsed ==
    /\ last_request_id \in 0..MaxRequestId
    /\ seen \in [Callers -> 0..MaxRequestId] /\ number \in [Callers -> 0..MaxRequestId]
    /\ \A t \in Callers : number[t] # 0 => \E f \in FramesOf(calls[t]) : Numbered(f)

ThreadsKept ==
    /\ StacksOK /\ LocksCounted /\ ReadersHaveIt /\ PingsKeepOthersOut
    /\ FlushesAreAlone /\ OneStream /\ NumbersAreUsed

(***************************************************************************)
(* What becomes of a stack when its first call goes on, calls or returns.  *)
(***************************************************************************)
Frame(call, pc) == [call |-> call, pc |-> pc]
Flushes(s) == \E i \in 2..Len(s) : s[i] = Frame("fragmented", "writing")

(* The first call of s, at f, is at g in r; one that returned counts as at   *)
(* its entry again, where it holds nothing.                                  *)
Becomes(s, r, f, g) ==
    /\ s # <<>> /\ f = s[1]
    /\ IsStack(r)
    /\ \A l \in Locks : Count(r, l) = (Count(s, l) - Held(f, l)) + Held(g, l)
    /\ FramesOf(r) \subseteq FramesOf(s) \cup {g} \cup {Entered(c) : c \in Named}
    /\ FramesOf(s) \subseteq FramesOf(r) \cup {f}
    /\ g.pc # "enter" => g \in FramesOf(r)
    /\ Flushes(r) => Flushes(s) \/ (f = g /\ g = Frame("fragmented", "writing"))

LEMMA HeldType == ASSUME NEW f, NEW l PROVE Held(f, l) \in 0..2
BY DEF Held

LEMMA CountType == ASSUME NEW s, NEW l PROVE Count(s, l) \in Nat
<1>1. \A i \in 1..4 : HeldAt(s, i, l) \in Nat
  BY HeldType DEF HeldAt
<1> QED
  BY <1>1 DEF Count

LEMMA EnteredHolds == ASSUME NEW c, NEW l PROVE Held(Entered(c), l) = 0
BY DEF Held, Entered

(* Calls follow one another in one order.                                    *)
Level(call) ==
    IF call \in {"send", "write"} THEN 4 ELSE IF call = "listen" THEN 3
    ELSE IF call = "fragmented" THEN 1 ELSE 2

LEMMA CalledDeeper ==
    ASSUME NEW c \in Named, NEW f \in CallFrames, CalledFrom(c, f)
    PROVE  Level(c) > Level(f.call) /\ Level(c) \in 1..4 /\ Level(f.call) \in 1..4
BY DEF CalledFrom, Level, Named, Calls, CallFrames

Moved(s, g) == <<g>> \o Tail(s)
Called(s, g, c) == <<Entered(c), g>> \o Tail(s)

LEMMA StackMoves ==
    ASSUME NEW s, IsStack(s), s # <<>>, NEW g \in CallFrames, g.call = s[1].call
    PROVE  /\ Moved(s, g) # <<>> /\ Len(Moved(s, g)) = Len(s) /\ Moved(s, g)[1] = g
           /\ \A i \in 2..Len(s) : Moved(s, g)[i] = s[i]
           /\ IsStack(Moved(s, g))
<1> DEFINE r == Moved(s, g)
<1>1. s \in Seq(CallFrames) /\ Len(s) \in 1..4 /\ s[1] \in CallFrames
  BY EmptySeq, SeqDef, LenProperties DEF IsStack
<1>3. Tail(s) \in Seq(CallFrames) /\ Len(Tail(s)) = Len(s) - 1
      /\ \A i \in 1..(Len(s) - 1) : Tail(s)[i] = s[i + 1]
  BY <1>1, HeadTailProperties
<1>4. r \in Seq(CallFrames) /\ Len(r) = Len(s) /\ r[1] = g
      /\ \A i \in 2..Len(s) : r[i] = s[i]
  BY <1>1, <1>3, ConcatProperties DEF Moved
<1> HIDE DEF r
<1>5. r # <<>>
  BY <1>1, <1>4
<1>6. r[Len(r)].call \in Calls
  <2>1. s[Len(s)].call \in Calls
    BY DEF IsStack
  <2>2. Len(s) = 1 \/ Len(s) \in 2..4
    BY <1>1
  <2> QED
    BY <1>4, <2>1, <2>2
<1>7. \A i \in 1..(Len(r) - 1) : CalledFrom(r[i].call, r[i + 1])
  <2> TAKE i \in 1..(Len(r) - 1)
  <2>1. CalledFrom(s[i].call, s[i + 1]) /\ r[i + 1] = s[i + 1]
    BY <1>1, <1>4 DEF IsStack
  <2>2. r[i].call = s[i].call
    BY <1>1, <1>4
  <2> QED
    BY <2>1, <2>2
<1>9. IsStack(r)
  BY <1>1, <1>4, <1>5, <1>6, <1>7 DEF IsStack
<1> QED
  BY <1>1, <1>3, <1>4, <1>5, <1>9 DEF r

LEMMA StackCalls ==
    ASSUME NEW s, IsStack(s), s # <<>>, NEW g \in CallFrames, g.call = s[1].call, NEW c \in Named,
           CalledFrom(c, g)
    PROVE  /\ Len(s) \in 1..3 /\ Len(Called(s, g, c)) = Len(s) + 1
           /\ Called(s, g, c)[1] = Entered(c) /\ Called(s, g, c)[2] = g
           /\ \A i \in 2..Len(s) : Called(s, g, c)[i + 1] = s[i]
           /\ IsStack(Called(s, g, c))
<1> DEFINE r == Called(s, g, c)
<1>1. s \in Seq(CallFrames) /\ Len(s) \in 1..4 /\ s[1] \in CallFrames
  BY EmptySeq, SeqDef, LenProperties DEF IsStack
<1>2. Entered(c) \in CallFrames
  BY <1>1 DEF CallFrames, IsPlace, Entered, CallPlaces
<1>3. Tail(s) \in Seq(CallFrames) /\ Len(Tail(s)) = Len(s) - 1
      /\ \A i \in 1..(Len(s) - 1) : Tail(s)[i] = s[i + 1]
  BY <1>1, HeadTailProperties
<1>4. r \in Seq(CallFrames) /\ Len(r) = Len(s) + 1 /\ r[1] = Entered(c)
      /\ r[2] = g /\ \A i \in 2..Len(s) : r[i + 1] = s[i]
  BY <1>1, <1>2, <1>3, ConcatProperties DEF Called
<1> HIDE DEF r
<1>5. Len(s) \in 1..3
  <2>1. SUFFICES ASSUME Len(s) = 4 PROVE FALSE
    BY <1>1
  <2>2. CalledFrom(s[1].call, s[2]) /\ CalledFrom(s[2].call, s[3])
        /\ CalledFrom(s[3].call, s[4])
    BY <2>1 DEF IsStack
  <2>3. s[2] \in CallFrames /\ s[3] \in CallFrames /\ s[4] \in CallFrames
    <3>1. 2 \in 1..Len(s) /\ 3 \in 1..Len(s) /\ 4 \in 1..Len(s)
      BY <2>1
    <3> QED
      BY <1>1, <3>1, ElementOfSeq
  <2>4. Level(c) > Level(s[1].call) /\ Level(c) \in 1..4
    BY <1>1, CalledDeeper
  <2>5. /\ Level(s[1].call) > Level(s[2].call) /\ Level(s[2].call) > Level(s[3].call)
        /\ Level(s[3].call) > Level(s[4].call) /\ Level(s[4].call) \in 1..4
        /\ Level(s[3].call) \in 1..4 /\ Level(s[2].call) \in 1..4 /\ Level(s[1].call) \in 1..4
    BY <1>1, <2>2, <2>3, CalledDeeper DEF CallFrames
  <2> QED
    BY <2>4, <2>5
<1>6. r[Len(r)].call \in Calls
  <2>1. s[Len(s)].call \in Calls
    BY DEF IsStack
  <2>2. Len(s) = 1 \/ Len(s) \in 2..4
    BY <1>1
  <2> QED
    BY <1>4, <2>1, <2>2
<1>7. \A i \in 1..(Len(r) - 1) : CalledFrom(r[i].call, r[i + 1])
  <2> TAKE i \in 1..(Len(r) - 1)
  <2>1. CASE i = 1
    BY <1>4, <2>1 DEF Entered
  <2>2. CASE i = 2
    <3>1. CalledFrom(s[1].call, s[2]) /\ r[3] = s[2]
      BY <1>1, <1>4, <2>2 DEF IsStack
    <3> QED
      BY <1>4, <2>2, <3>1
  <2>3. CASE i > 2
    <3>1. CalledFrom(s[i - 1].call, s[i]) /\ r[i] = s[i - 1] /\ r[i + 1] = s[i]
      BY <1>1, <1>4, <2>3 DEF IsStack
    <3> QED
      BY <3>1
  <2> QED
    BY <1>1, <1>4, <2>1, <2>2, <2>3
<1>8. Len(r) \in 0..4
  BY <1>4, <1>5
<1>9. IsStack(r)
  BY <1>4, <1>5, <1>6, <1>7, <1>8 DEF IsStack
<1> QED
  BY <1>1, <1>3, <1>4, <1>5, <1>9 DEF r

LEMMA StackReturns ==
    ASSUME NEW s, IsStack(s), s # <<>>
    PROVE  /\ Len(Tail(s)) = Len(s) - 1 /\ Len(s) \in 1..4
           /\ \A i \in 1..(Len(s) - 1) : Tail(s)[i] = s[i + 1]
           /\ IsStack(Tail(s))
<1> DEFINE r == Tail(s)
<1>1. s \in Seq(CallFrames) /\ Len(s) \in 1..4 /\ s[1] \in CallFrames
  BY EmptySeq, SeqDef, LenProperties DEF IsStack
<1>3. r \in Seq(CallFrames) /\ Len(r) = Len(s) - 1
      /\ \A i \in 1..(Len(s) - 1) : r[i] = s[i + 1]
  BY <1>1, HeadTailProperties
<1> HIDE DEF r
<1>6. r # <<>> => r[Len(r)].call \in Calls
  <2>1. s[Len(s)].call \in Calls
    BY DEF IsStack
  <2>2. Len(s) = 1 => r = <<>>
    BY <1>3, EmptySeq
  <2>3. Len(s) # 1 => r[Len(r)] = s[Len(s)]
    BY <1>1, <1>3
  <2> QED
    BY <2>1, <2>2, <2>3
<1>7. \A i \in 1..(Len(r) - 1) : CalledFrom(r[i].call, r[i + 1])
  <2> TAKE i \in 1..(Len(r) - 1)
  <2>1. CalledFrom(s[i + 1].call, s[i + 2]) /\ r[i] = s[i + 1] /\ r[i + 1] = s[i + 2]
    BY <1>1, <1>3 DEF IsStack
  <2> QED
    BY <2>1
<1>9. IsStack(r)
  BY <1>1, <1>3, <1>6, <1>7 DEF IsStack
<1> QED
  BY <1>1, <1>3, <1>9 DEF r

LEMMA MovesBecomes ==
    ASSUME NEW s, IsStack(s), s # <<>>, NEW g \in CallFrames, g.call = s[1].call,
           NEW r, r = Moved(s, g), NEW f, f = s[1]
    PROVE  Becomes(s, r, f, g)
<1>1. /\ r # <<>> /\ Len(r) = Len(s) /\ r[1] = g
      /\ \A i \in 2..Len(s) : r[i] = s[i]
      /\ IsStack(r)
  BY StackMoves
<1>2. s \in Seq(CallFrames) /\ Len(s) \in 1..4 /\ r \in Seq(CallFrames)
  BY <1>1, EmptySeq, SeqDef, LenProperties DEF IsStack
<1>3. DOMAIN s = 1..Len(s) /\ DOMAIN r = 1..Len(s)
  BY <1>1, <1>2, LenProperties
<1>4. \A l \in Locks : Count(r, l) = (Count(s, l) - Held(f, l)) + Held(g, l)
  <2> TAKE l \in Locks
  <2>1. \A i \in 2..4 : HeldAt(r, i, l) = HeldAt(s, i, l)
    BY <1>1, <1>2 DEF HeldAt
  <2>2. HeldAt(r, 1, l) = Held(g, l) /\ HeldAt(s, 1, l) = Held(f, l)
    <3>1. 1 <= Len(r) /\ 1 <= Len(s)
      BY <1>1, <1>2
    <3>2. HeldAt(r, 1, l) = Held(r[1], l) /\ HeldAt(s, 1, l) = Held(s[1], l)
      BY <3>1, Zenon DEF HeldAt
    <3> QED
      BY <1>1, <3>2, Zenon
  <2>3. \A i \in 1..4 : HeldAt(s, i, l) \in Nat
    BY HeldType DEF HeldAt
  <2>4. Held(f, l) \in Nat /\ Held(g, l) \in Nat
    BY HeldType
  <2> QED
    BY <2>1, <2>2, <2>3, <2>4 DEF Count
<1>5. FramesOf(r) \subseteq FramesOf(s) \cup {g} /\ FramesOf(s) \subseteq FramesOf(r) \cup {f}
      /\ g \in FramesOf(r)
  <2>1. 1 \in DOMAIN r /\ 1 \in DOMAIN s
    BY <1>2, <1>3
  <2>2. \A i \in DOMAIN r : i = 1 \/ r[i] = s[i]
    BY <1>1, <1>3
  <2>3. g \in FramesOf(r)
    BY <1>1, <2>1, Zenon DEF FramesOf
  <2>4. \A i \in DOMAIN r : r[i] \in FramesOf(s) \cup {g}
    BY <1>1, <1>3, <2>2, Zenon DEF FramesOf
  <2>5. \A i \in DOMAIN s : s[i] \in FramesOf(r) \cup {f}
    BY <1>1, <1>3, <2>2, Zenon DEF FramesOf
  <2> QED
    BY <2>3, <2>4, <2>5, Zenon DEF FramesOf
<1>6. Flushes(r) => Flushes(s)
  BY <1>1 DEF Flushes
<1> QED
  BY <1>1, <1>4, <1>5, <1>6 DEF Becomes

LEMMA CallsBecomes ==
    ASSUME NEW s, IsStack(s), s # <<>>, NEW g \in CallFrames, g.call = s[1].call, NEW c \in Named,
           CalledFrom(c, g),
           NEW r, r = Called(s, g, c), NEW f, f = s[1], g = Frame("fragmented", "writing") => f = g
    PROVE  Becomes(s, r, f, g)
<1>1. /\ Len(s) \in 1..3 /\ Len(r) = Len(s) + 1
      /\ r[1] = Entered(c) /\ r[2] = g
      /\ \A i \in 2..Len(s) : r[i + 1] = s[i]
      /\ IsStack(r)
  BY StackCalls
<1>2. s \in Seq(CallFrames) /\ r \in Seq(CallFrames)
  BY <1>1 DEF IsStack
<1>3. DOMAIN s = 1..Len(s) /\ DOMAIN r = 1..(Len(s) + 1)
  BY <1>1, <1>2, LenProperties
<1>4. \A l \in Locks : Count(r, l) = (Count(s, l) - Held(f, l)) + Held(g, l)
  <2> TAKE l \in Locks
  <2>1. HeldAt(r, 1, l) = 0 /\ HeldAt(r, 2, l) = Held(g, l)
    BY <1>1, EnteredHolds DEF HeldAt
  <2>2. HeldAt(r, 3, l) = HeldAt(s, 2, l) /\ HeldAt(r, 4, l) = HeldAt(s, 3, l)
        /\ HeldAt(s, 4, l) = 0
    BY <1>1 DEF HeldAt
  <2>3. HeldAt(s, 1, l) = Held(f, l)
    BY <1>1 DEF HeldAt
  <2>4. \A i \in 1..4 : HeldAt(s, i, l) \in Nat
    BY HeldType DEF HeldAt
  <2>5. Held(f, l) \in Nat /\ Held(g, l) \in Nat
    BY HeldType
  <2> QED
    BY <2>1, <2>2, <2>3, <2>4, <2>5 DEF Count
<1>5. FramesOf(r) \subseteq FramesOf(s) \cup {g} \cup {Entered(k) : k \in Named}
  <2> SUFFICES ASSUME NEW i \in DOMAIN r
               PROVE  r[i] \in FramesOf(s) \cup {g} \cup {Entered(k) : k \in Named}
    BY DEF FramesOf
  <2>1. CASE i \in 1..2
    BY <1>1, <2>1
  <2>2. CASE i > 2
    <3>1. i - 1 \in 2..Len(s) /\ r[i] = s[i - 1]
      BY <1>1, <1>3, <2>2
    <3> QED
      BY <1>3, <3>1 DEF FramesOf
  <2> QED
    BY <1>3, <2>1, <2>2
<1>6. FramesOf(s) \subseteq FramesOf(r) \cup {f}
  <2> SUFFICES ASSUME NEW i \in DOMAIN s PROVE s[i] \in FramesOf(r) \cup {f}
    BY DEF FramesOf
  <2>1. i = 1 \/ i \in 2..Len(s)
    BY <1>1, <1>3
  <2>2. i \in 2..Len(s) => i + 1 \in DOMAIN r /\ r[i + 1] = s[i]
    BY <1>1, <1>3
  <2> QED
    BY <2>1, <2>2 DEF FramesOf
<1>7. g \in FramesOf(r)
  <2>1. 2 \in DOMAIN r
    BY <1>1, <1>3
  <2> QED
    BY <1>1, <2>1, Zenon DEF FramesOf
<1>8. Flushes(r) => Flushes(s) \/ (f = g /\ g = Frame("fragmented", "writing"))
  <2> SUFFICES ASSUME NEW i \in 2..Len(r), r[i] = Frame("fragmented", "writing")
               PROVE  Flushes(s) \/ (f = g /\ g = Frame("fragmented", "writing"))
    BY DEF Flushes
  <2>1. CASE i = 2
    BY <1>1, <2>1
  <2>2. CASE i > 2
    <3>1. i - 1 \in 2..Len(s) /\ r[i] = s[i - 1]
      BY <1>1, <2>2
    <3> QED
      BY <3>1 DEF Flushes
  <2> QED
    BY <1>1, <2>1, <2>2
<1> QED
  BY <1>1, <1>4, <1>5, <1>6, <1>7, <1>8 DEF Becomes

LEMMA ReturnsBecomes ==
    ASSUME NEW s, IsStack(s), s # <<>>,
           NEW r, r = Tail(s), NEW f, f = s[1], NEW g, g = Entered(s[1].call)
    PROVE  Becomes(s, r, f, g)
<1>1. /\ Len(r) = Len(s) - 1 /\ Len(s) \in 1..4
      /\ \A i \in 1..(Len(s) - 1) : r[i] = s[i + 1]
      /\ IsStack(r)
  BY StackReturns
<1>2. s \in Seq(CallFrames) /\ r \in Seq(CallFrames)
  BY <1>1 DEF IsStack
<1>3. DOMAIN s = 1..Len(s) /\ DOMAIN r = 1..(Len(s) - 1)
  BY <1>1, <1>2, LenProperties
<1>e. g.pc = "enter" /\ \A l \in Locks : Held(g, l) = 0
  BY EnteredHolds DEF Entered
<1>4. \A l \in Locks : Count(r, l) = (Count(s, l) - Held(f, l)) + Held(g, l)
  <2> TAKE l \in Locks
  <2>1. /\ HeldAt(r, 1, l) = HeldAt(s, 2, l) /\ HeldAt(r, 2, l) = HeldAt(s, 3, l)
        /\ HeldAt(r, 3, l) = HeldAt(s, 4, l) /\ HeldAt(r, 4, l) = 0
    BY <1>1 DEF HeldAt
  <2>3. HeldAt(s, 1, l) = Held(f, l)
    BY <1>1 DEF HeldAt
  <2>4. \A i \in 1..4 : HeldAt(s, i, l) \in Nat
    BY HeldType DEF HeldAt
  <2>5. Held(f, l) \in Nat /\ Held(g, l) = 0
    BY <1>e, HeldType
  <2> QED
    BY <2>1, <2>3, <2>4, <2>5 DEF Count
<1>5. FramesOf(r) \subseteq FramesOf(s)
  <2> SUFFICES ASSUME NEW i \in DOMAIN r PROVE r[i] \in FramesOf(s)
    BY DEF FramesOf
  <2>1. i + 1 \in DOMAIN s /\ r[i] = s[i + 1]
    BY <1>1, <1>3
  <2> QED
    BY <2>1 DEF FramesOf
<1>6. FramesOf(s) \subseteq FramesOf(r) \cup {f}
  <2> SUFFICES ASSUME NEW i \in DOMAIN s PROVE s[i] \in FramesOf(r) \cup {f}
    BY DEF FramesOf
  <2>1. i = 1 \/ (i - 1 \in DOMAIN r /\ r[i - 1] = s[i])
    BY <1>1, <1>3
  <2> QED
    BY <2>1 DEF FramesOf
<1>8. Flushes(r) => Flushes(s)
  <2> SUFFICES ASSUME NEW i \in 2..Len(r), r[i] = Frame("fragmented", "writing")
               PROVE  Flushes(s)
    BY DEF Flushes
  <2>1. i + 1 \in 2..Len(s) /\ r[i] = s[i + 1]
    BY <1>1
  <2> QED
    BY <2>1 DEF Flushes
<1> QED
  BY <1>1, <1>4, <1>5, <1>6, <1>8, <1>e DEF Becomes

(***************************************************************************)
(* The same for the stacks of all threads.                                 *)
(***************************************************************************)
Goes(t, f, g) ==
    /\ calls' \in [Callers -> Seq(CallFrames)]
    /\ Becomes(calls[t], calls'[t], f, g)
    /\ \A u \in Callers \ {t} : calls'[u] = calls[u]

LEMMA AtFrame ==
    ASSUME StacksOK, NEW t \in Callers, NEW c, NEW p, IsAt(t, c, p)
    PROVE  /\ calls[t] \in Seq(CallFrames) /\ IsStack(calls[t]) /\ calls[t] # <<>>
           /\ calls[t][1] = Frame(c, p) /\ calls[t][1] \in CallFrames /\ c \in Named
<1>1. calls[t] \in Seq(CallFrames) /\ calls[t] # <<>> /\ IsStack(calls[t])
  BY DEF StacksOK, IsAt, InCall
<1>2. Head(calls[t]) = calls[t][1] /\ calls[t][1] \in CallFrames
  BY <1>1, HeadTailProperties, EmptySeq, LenProperties, ElementOfSeq
<1> QED
  BY <1>1, <1>2 DEF IsAt, Frame, CallFrames

LEMMA GoToGoes ==
    ASSUME StacksOK, NEW t \in Callers, NEW c, NEW p, IsAt(t, c, p),
           NEW n, IsPlace(c, n), GoTo(t, n)
    PROVE  Goes(t, Frame(c, p), Frame(c, n))
<1> DEFINE s == calls[t]
           g == Frame(c, n)
<1>1. s \in Seq(CallFrames) /\ IsStack(s) /\ s # <<>> /\ s[1] = Frame(c, p) /\ s[1] \in CallFrames
      /\ c \in Named
  BY AtFrame
<1>2. g \in CallFrames /\ g.call = s[1].call
  BY <1>1 DEF Frame, CallFrames, IsPlace
<1>3. [s[1] EXCEPT !.pc = n] = g
  BY <1>1 DEF Frame
<1>4. calls'[t] = Moved(s, g) /\ \A u \in Callers \ {t} : calls'[u] = calls[u]
  BY <1>3 DEF GoTo, Moved, StacksOK
<1>5. Becomes(s, Moved(s, g), s[1], g)
  BY <1>1, <1>2, MovesBecomes
<1>6. Moved(s, g) \in Seq(CallFrames)
  BY <1>5 DEF Becomes, IsStack
<1>7. calls' \in [Callers -> Seq(CallFrames)]
  BY <1>3, <1>6 DEF GoTo, Moved, StacksOK
<1> QED
  BY <1>1, <1>4, <1>5, <1>7 DEF Goes

LEMMA CallGoes ==
    ASSUME StacksOK, NEW t \in Callers, NEW c, NEW p, IsAt(t, c, p),
           NEW n, IsPlace(c, n), NEW k \in Named, Call(t, k, n),
           CalledFrom(k, Frame(c, n)),
           Frame(c, n) = Frame("fragmented", "writing") => Frame(c, n) = Frame(c, p)
    PROVE  Goes(t, Frame(c, p), Frame(c, n))
<1> DEFINE s == calls[t]
           g == Frame(c, n)
<1>1. s \in Seq(CallFrames) /\ IsStack(s) /\ s # <<>> /\ s[1] = Frame(c, p) /\ s[1] \in CallFrames
      /\ c \in Named
  BY AtFrame
<1>2. g \in CallFrames /\ g.call = s[1].call
  BY <1>1 DEF Frame, CallFrames, IsPlace
<1>3. [s[1] EXCEPT !.pc = n] = g
  BY <1>1 DEF Frame
<1>4. calls'[t] = Called(s, g, k) /\ \A u \in Callers \ {t} : calls'[u] = calls[u]
  BY <1>3 DEF Call, Called, StacksOK
<1>5. Becomes(s, Called(s, g, k), s[1], g)
  BY <1>1, <1>2, CallsBecomes
<1>6. Called(s, g, k) \in Seq(CallFrames)
  BY <1>5 DEF Becomes, IsStack
<1>7. calls' \in [Callers -> Seq(CallFrames)]
  BY <1>3, <1>6 DEF Call, Called, StacksOK
<1> QED
  BY <1>1, <1>4, <1>5, <1>7 DEF Goes

LEMMA LeaveGoes ==
    ASSUME StacksOK, NEW t \in Callers, NEW c, NEW p, IsAt(t, c, p), Leave(t)
    PROVE  Goes(t, Frame(c, p), Entered(c))
<1> DEFINE s == calls[t]
<1>1. s \in Seq(CallFrames) /\ IsStack(s) /\ s # <<>> /\ s[1] = Frame(c, p) /\ c \in Named
  BY AtFrame
<1>2. Entered(s[1].call) = Entered(c)
  BY <1>1 DEF Frame
<1>4. calls'[t] = Tail(s) /\ \A u \in Callers \ {t} : calls'[u] = calls[u]
  BY DEF Leave, StacksOK
<1>5. Becomes(s, Tail(s), s[1], Entered(c))
  BY <1>1, <1>2, ReturnsBecomes
<1>6. Tail(s) \in Seq(CallFrames)
  BY <1>5 DEF Becomes, IsStack
<1>7. calls' \in [Callers -> Seq(CallFrames)]
  BY <1>6 DEF Leave, StacksOK
<1> QED
  BY <1>1, <1>4, <1>5, <1>7 DEF Goes

(***************************************************************************)
(* Locks.                                                                  *)
(***************************************************************************)
Alike(f, g) == \A m \in Locks : Held(g, m) = Held(f, m)
Takes(f, g, l) == \A m \in Locks : Held(g, m) = Held(f, m) + (IF m = l THEN 1 ELSE 0)

LEMMA CountGoes ==
    ASSUME StacksOK, NEW t \in Callers, NEW f, NEW g, Goes(t, f, g), NEW l \in Locks
    PROVE  /\ Count(calls'[t], l) = (Count(calls[t], l) - Held(f, l)) + Held(g, l)
           /\ \A u \in Callers \ {t} : Count(calls'[u], l) = Count(calls[u], l)
           /\ Count(calls[t], l) \in Nat /\ Held(f, l) \in 0..2 /\ Held(g, l) \in 0..2
           /\ Held(f, l) <= Count(calls[t], l)
           /\ Count(calls'[t], l) \in Nat
<1>1. Count(calls'[t], l) = (Count(calls[t], l) - Held(f, l)) + Held(g, l)
  BY DEF Goes, Becomes
<1>2. \A u \in Callers \ {t} : Count(calls'[u], l) = Count(calls[u], l)
  BY DEF Goes
<1>3. Held(f, l) <= Count(calls[t], l)
  <2>1. calls[t] # <<>> /\ f = calls[t][1] /\ calls[t] \in Seq(CallFrames)
    BY DEF Goes, Becomes, StacksOK
  <2>2. 1 <= Len(calls[t])
    BY <2>1, EmptySeq, LenProperties
  <2>3. HeldAt(calls[t], 1, l) = Held(f, l)
    BY <2>1, <2>2, Zenon DEF HeldAt
  <2>4. \A i \in 1..4 : HeldAt(calls[t], i, l) \in Nat
    BY HeldType DEF HeldAt
  <2> QED
    BY <2>3, <2>4 DEF Count
<1> QED
  BY <1>1, <1>2, <1>3, CountType, HeldType

LEMMA KeepsLocks ==
    ASSUME StacksOK, LocksCounted, NEW t \in Callers, NEW f, NEW g, Goes(t, f, g),
           Alike(f, g), UNCHANGED locks
    PROVE  LocksCounted'
<1>1. owner' = owner /\ depth' = depth
  BY DEF locks
<1>2. \A u \in Callers, l \in Locks : Count(calls'[u], l) = Count(calls[u], l)
  BY CountGoes DEF Alike
<1> QED
  BY <1>1, <1>2 DEF LocksCounted

LEMMA LockKeepsLocks ==
    ASSUME StacksOK, LocksCounted, NEW t \in Callers, NEW f, NEW g, Goes(t, f, g),
           NEW l \in Locks, Takes(f, g, l), uxr_lock(t, l)
    PROVE  LocksCounted'
<1>1. /\ owner' \in [Locks -> Callers \cup {Nobody}] /\ depth' \in [Locks -> Nat]
      /\ owner'[l] = t /\ depth'[l] = depth[l] + 1 /\ owner[l] \in {Nobody, t}
      /\ \A m \in Locks \ {l} : owner'[m] = owner[m] /\ depth'[m] = depth[m]
  BY DEF uxr_lock, Available, LocksCounted
<1>2. depth[l] \in Nat /\ (depth[l] = 0 <=> owner[l] = Nobody) /\ t # Nobody
  BY ThreadsAssumption DEF LocksCounted, ThreadsAssumption
<1>3. \A m \in Locks : depth'[m] = 0 <=> owner'[m] = Nobody
  BY <1>1, <1>2 DEF LocksCounted
<1>4. ASSUME NEW u \in Callers, NEW m \in Locks
      PROVE  Count(calls'[u], m) = IF owner'[m] = u THEN depth'[m] ELSE 0
  <2>1. Count(calls[u], m) = IF owner[m] = u THEN depth[m] ELSE 0
    BY DEF LocksCounted
  <2>2. CASE u # t
    <3>1. Count(calls'[u], m) = Count(calls[u], m)
      BY <2>2, CountGoes
    <3> QED
      BY <1>1, <1>2, <2>1, <2>2, <3>1
  <2>3. CASE u = t
    <3>1. Count(calls'[t], m) = Count(calls[t], m) + (IF m = l THEN 1 ELSE 0)
      BY CountGoes DEF Takes
    <3> QED
      BY <1>1, <1>2, <2>1, <2>3, <3>1
  <2> QED
    BY <2>2, <2>3
<1> QED
  BY <1>1, <1>3, <1>4 DEF LocksCounted

LEMMA UnlockKeepsLocks ==
    ASSUME StacksOK, LocksCounted, NEW t \in Callers, NEW f, NEW g, Goes(t, f, g),
           NEW l \in Locks, Takes(g, f, l), uxr_unlock(t, l)
    PROVE  LocksCounted' /\ owner[l] = t
<1>1. owner[l] = t /\ depth[l] = Count(calls[t], l) /\ depth[l] >= 1
  <2>1. Count(calls[t], l) >= 1
    <3>1. Held(f, l) = Held(g, l) + 1
      BY DEF Takes
    <3>2. /\ Held(f, l) \in 0..2 /\ Held(g, l) \in 0..2
          /\ Held(f, l) <= Count(calls[t], l) /\ Count(calls[t], l) \in Nat
      BY CountGoes
    <3> QED
      BY <3>1, <3>2
  <2>2. Count(calls[t], l) = IF owner[l] = t THEN depth[l] ELSE 0
    BY DEF LocksCounted
  <2> QED
    BY <2>1, <2>2
<1>2. /\ owner \in [Locks -> Callers \cup {Nobody}] /\ depth \in [Locks -> Nat]
      /\ t # Nobody /\ depth[l] \in Nat
  BY ThreadsAssumption DEF LocksCounted, ThreadsAssumption
<1>3. /\ owner' \in [Locks -> Callers \cup {Nobody}] /\ depth' \in [Locks -> Nat]
      /\ owner'[l] = Owner(t, depth[l] - 1) /\ depth'[l] = depth[l] - 1
      /\ \A m \in Locks \ {l} : owner'[m] = owner[m] /\ depth'[m] = depth[m]
  <2>1. owner' = [owner EXCEPT ![l] = Owner(t, depth[l] - 1)] /\ depth' = [depth EXCEPT ![l] = @ - 1]
    BY <1>1 DEF uxr_unlock
  <2>2. Owner(t, depth[l] - 1) \in Callers \cup {Nobody} /\ depth[l] - 1 \in Nat
    BY <1>1, <1>2 DEF Owner
  <2> QED
    BY <1>2, <2>1, <2>2
<1>4. \A m \in Locks : depth'[m] = 0 <=> owner'[m] = Nobody
  BY <1>2, <1>3 DEF LocksCounted, Owner
<1>5. ASSUME NEW u \in Callers, NEW m \in Locks
      PROVE  Count(calls'[u], m) = IF owner'[m] = u THEN depth'[m] ELSE 0
  <2>1. Count(calls[u], m) = IF owner[m] = u THEN depth[m] ELSE 0
    BY DEF LocksCounted
  <2>2. CASE u # t
    <3>1. Count(calls'[u], m) = Count(calls[u], m) /\ u # Nobody
      BY <2>2, CountGoes, ThreadsAssumption DEF ThreadsAssumption
    <3> QED
      BY <1>1, <1>2, <1>3, <2>1, <2>2, <3>1 DEF Owner
  <2>3. CASE u = t
    <3>1. Count(calls'[t], m) = Count(calls[t], m) - (IF m = l THEN 1 ELSE 0)
      <4>1. Held(f, m) = Held(g, m) + (IF m = l THEN 1 ELSE 0)
        BY DEF Takes
      <4> QED
        BY <4>1, CountGoes
    <3> QED
      BY <1>1, <1>2, <1>3, <2>1, <2>3, <3>1 DEF Owner
  <2> QED
    BY <2>2, <2>3
<1> QED
  BY <1>1, <1>3, <1>4, <1>5 DEF LocksCounted

(***************************************************************************)
(* The other parts of the invariant, when a call goes on.                  *)
(***************************************************************************)
LEMMA StacksGo ==
    ASSUME StacksOK, NEW t \in Callers, NEW f, NEW g, Goes(t, f, g)
    PROVE  StacksOK'
BY DEF StacksOK, Goes, Becomes

(* What holds no place of its own: a call that is entered.                   *)
LEMMA EnteredIsPlain ==
    ASSUME NEW k \in Named
    PROVE  LET e == Entered(k) IN
           ~Reads(e) /\ ~Pings(e) /\ ~Received(e) /\ (\A l : ~WritesRequest(e, l)) /\ ~Numbered(e)
BY EnteredHolds DEF Entered, Reads, Pings, Received, WritesRequest, Numbered

LEMMA FramesGo ==
    ASSUME StacksOK, NEW t \in Callers, NEW f, NEW g, Goes(t, f, g)
    PROVE  /\ f \in FramesOf(calls[t])
           /\ \A h \in FramesOf(calls'[t]) :
                  h \in FramesOf(calls[t]) \/ h = g \/ \E k \in Named : h = Entered(k)
           /\ \A h \in FramesOf(calls[t]) : h = f \/ h \in FramesOf(calls'[t])
           /\ g.pc # "enter" => g \in FramesOf(calls'[t])
           /\ \A u \in Callers \ {t} : FramesOf(calls'[u]) = FramesOf(calls[u])
<1>1. calls[t] \in Seq(CallFrames) /\ calls[t] # <<>> /\ f = calls[t][1]
  BY DEF StacksOK, Goes, Becomes
<1>2. 1 \in DOMAIN calls[t]
  BY <1>1, EmptySeq, LenProperties
<1>3. f \in FramesOf(calls[t])
  BY <1>1, <1>2 DEF FramesOf
<1>4. /\ FramesOf(calls'[t]) \subseteq FramesOf(calls[t]) \cup {g} \cup {Entered(c) : c \in Named}
      /\ FramesOf(calls[t]) \subseteq FramesOf(calls'[t]) \cup {f}
      /\ g.pc # "enter" => g \in FramesOf(calls'[t])
      /\ \A u \in Callers \ {t} : calls'[u] = calls[u]
  BY DEF Goes, Becomes
<1> QED
  BY <1>3, <1>4

LEMMA ReadersGo ==
    ASSUME StacksOK, ReadersHaveIt, NEW t \in Callers, NEW f, NEW g, Goes(t, f, g),
           Reads(g) => Reads(f), buffer' = buffer
    PROVE  ReadersHaveIt'
<1> SUFFICES ASSUME NEW u \in Callers, NEW h \in FramesOf(calls'[u]), Reads(h)
             PROVE  buffer = u
  BY DEF ReadersHaveIt
<1>1. CASE u # t
  BY <1>1, FramesGo DEF ReadersHaveIt
<1>2. CASE u = t
  <2>1. h \in FramesOf(calls[t]) \/ h = g
    BY <1>2, FramesGo, EnteredIsPlain
  <2>2. f \in FramesOf(calls[t])
    BY FramesGo
  <2> QED
    BY <1>2, <2>1, <2>2 DEF ReadersHaveIt
<1> QED
  BY <1>1, <1>2

LEMMA PingsGo ==
    ASSUME StacksOK, PingsKeepOthersOut, NEW t \in Callers, NEW f, NEW g, Goes(t, f, g),
           \/ Pings(g) => Pings(f)
           \/ \A u \in Callers \ {t} : \A h \in FramesOf(calls[u]) : ~Received(h),
           \/ Received(g) => Received(f)
           \/ \A u \in Callers \ {t} : \A h \in FramesOf(calls[u]) : ~Pings(h)
    PROVE  PingsKeepOthersOut'
<1> SUFFICES ASSUME NEW u \in Callers, NEW v \in Callers \ {u}, NEW h \in FramesOf(calls'[u]),
                    NEW k \in FramesOf(calls'[v]), Pings(h), Received(k)
             PROVE  FALSE
  BY DEF PingsKeepOthersOut
<1>f. f \in FramesOf(calls[t])
  BY FramesGo
<1>1. CASE u # t /\ v # t
  BY <1>1, FramesGo DEF PingsKeepOthersOut
<1>2. CASE u = t
  <2>1. h \in FramesOf(calls[t]) \/ h = g
    BY <1>2, FramesGo, EnteredIsPlain
  <2>2. k \in FramesOf(calls[v]) /\ v # t
    BY <1>2, FramesGo
  <2> QED
    BY <1>2, <1>f, <2>1, <2>2 DEF PingsKeepOthersOut
<1>3. CASE v = t
  <2>1. k \in FramesOf(calls[t]) \/ k = g
    BY <1>3, FramesGo, EnteredIsPlain
  <2>2. h \in FramesOf(calls[u]) /\ u # t
    BY <1>3, FramesGo
  <2> QED
    BY <1>3, <1>f, <2>1, <2>2 DEF PingsKeepOthersOut
<1> QED
  BY <1>1, <1>2, <1>3

LEMMA FlushesGo ==
    ASSUME StacksOK, FlushesAreAlone, NEW t \in Callers, NEW f, NEW g, Goes(t, f, g),
           \/ FlushTogether
           \/ f # g
           \/ g # Frame("fragmented", "writing")
           \/ \A u \in Callers \ {t} : ~InCall(u)
    PROVE  FlushesAreAlone'
<1> SUFFICES ASSUME ~FlushTogether, NEW u \in Callers, NEW v \in Callers \ {u}, Flushing(u)'
             PROVE  ~InCall(v)'
  BY DEF FlushesAreAlone
<1>1. \A k \in Callers \ {t} : calls'[k] = calls[k]
  BY DEF Goes
<1>2. InCall(t)
  BY DEF Goes, Becomes, InCall
<1>3. CASE u # t
  <2>1. Flushing(u)
    BY <1>1, <1>3 DEF Flushing
  <2>2. v # t
    BY <1>2, <2>1 DEF FlushesAreAlone
  <2> QED
    BY <1>1, <2>1, <2>2 DEF FlushesAreAlone, InCall
<1>4. CASE u = t
  <2>1. Flushes(calls'[t])
    BY <1>4 DEF Flushing, Flushes, Frame
  <2>2. Flushes(calls[t]) \/ (f = g /\ g = Frame("fragmented", "writing"))
    BY <2>1 DEF Goes, Becomes
  <2>3. Flushes(calls[t]) => Flushing(t)
    BY DEF Flushes, Flushing, Frame
  <2>4. ~InCall(v)
    BY <1>4, <2>2, <2>3 DEF FlushesAreAlone
  <2> QED
    BY <1>1, <1>4, <2>4 DEF InCall
<1> QED
  BY <1>3, <1>4

LEMMA StreamsGo ==
    ASSUME StacksOK, OneStream, NEW t \in Callers, NEW f, NEW g, Goes(t, f, g),
           \/ TwoStreams
           \/ /\ WritesRequest(g, "out") => WritesRequest(f, "out")
              /\ WritesRequest(g, "other") => WritesRequest(f, "other")
           \/ /\ ~WritesRequest(g, "other")
              /\ \A u \in Callers : \A h \in FramesOf(calls[u]) : ~WritesRequest(h, "other")
           \/ /\ ~WritesRequest(g, "out")
              /\ \A u \in Callers : \A h \in FramesOf(calls[u]) : ~WritesRequest(h, "out")
    PROVE  OneStream'
<1> SUFFICES ASSUME ~TwoStreams, NEW u \in Callers, NEW v \in Callers, NEW h \in FramesOf(calls'[u]),
                    NEW k \in FramesOf(calls'[v]), WritesRequest(h, "out"), WritesRequest(k, "other")
             PROVE  FALSE
  BY DEF OneStream
<1>f. f \in FramesOf(calls[t])
  BY FramesGo
<1>1. h \in FramesOf(calls[u]) \/ (u = t /\ h = g)
  BY FramesGo, EnteredIsPlain
<1>2. k \in FramesOf(calls[v]) \/ (v = t /\ k = g)
  BY FramesGo, EnteredIsPlain
<1>3. \A a, b \in Callers : \A x \in FramesOf(calls[a]), y \in FramesOf(calls[b]) :
         ~(WritesRequest(x, "out") /\ WritesRequest(y, "other"))
  BY DEF OneStream
<1>4. ~(WritesRequest(g, "out") /\ WritesRequest(g, "other"))
  BY DEF WritesRequest, Held
<1> QED
  BY <1>f, <1>1, <1>2, <1>3, <1>4

LEMMA NumbersGo ==
    ASSUME StacksOK, NumbersAreUsed, NEW t \in Callers, NEW f, NEW g, Goes(t, f, g),
           Numbered(f) => g = f,
           last_request_id' \in 0..MaxRequestId, number' = number,
           seen' \in [Callers -> 0..MaxRequestId]
    PROVE  NumbersAreUsed'
<1> SUFFICES ASSUME NEW u \in Callers, number[u] # 0
             PROVE  \E h \in FramesOf(calls'[u]) : Numbered(h)
  BY DEF NumbersAreUsed
<1>1. PICK h \in FramesOf(calls[u]) : Numbered(h)
  BY DEF NumbersAreUsed
<1>2. CASE u # t
  BY <1>1, <1>2, FramesGo
<1>3. CASE u = t /\ h # f
  BY <1>1, <1>3, FramesGo
<1>4. CASE u = t /\ h = f
  <2>1. g = f /\ g.pc # "enter"
    BY <1>1, <1>4 DEF Numbered
  <2> QED
    BY <1>1, <1>4, <2>1, FramesGo
<1> QED
  BY <1>2, <1>3, <1>4

(* A move that asks nothing of the other threads.                            *)
Plain(f, g) ==
    /\ Reads(g) => Reads(f)
    /\ Pings(g) => Pings(f)
    /\ Received(g) => Received(f)
    /\ WritesRequest(g, "out") => WritesRequest(f, "out")
    /\ WritesRequest(g, "other") => WritesRequest(f, "other")
    /\ Numbered(f) => g = f
    /\ f # g \/ g # Frame("fragmented", "writing")

LEMMA PlainGoes ==
    ASSUME ThreadsKept, NEW t \in Callers, NEW f, NEW g, Goes(t, f, g),
           Plain(f, g), UNCHANGED <<buffer, numbers>>, LocksCounted'
    PROVE  ThreadsKept'
<1> USE DEF ThreadsKept
<1>1. buffer' = buffer /\ last_request_id' = last_request_id /\ number' = number /\ seen' = seen
  BY DEF numbers
<1>2. StacksOK'
  BY StacksGo
<1>3. ReadersHaveIt'
  BY <1>1, ReadersGo DEF Plain
<1>4. PingsKeepOthersOut'
  BY PingsGo DEF Plain
<1>5. FlushesAreAlone'
  BY FlushesGo DEF Plain
<1>6. OneStream'
  BY StreamsGo DEF Plain
<1>7. NumbersAreUsed'
  <2>1. last_request_id' \in 0..MaxRequestId /\ seen' \in [Callers -> 0..MaxRequestId]
    BY <1>1 DEF NumbersAreUsed
  <2> QED
    BY <1>1, <2>1, NumbersGo DEF Plain
<1> QED
  BY <1>2, <1>3, <1>4, <1>5, <1>6, <1>7

(***************************************************************************)
(* The steps that are told by the places they go between.                  *)
(***************************************************************************)
LockFits(c, p, l, n) ==
    l \in Locks /\ IsPlace(c, n) /\ Takes(Frame(c, p), Frame(c, n), l) /\ Plain(Frame(c, p), Frame(c, n))
UnlockFits(c, p, l, n) ==
    l \in Locks /\ IsPlace(c, n) /\ Takes(Frame(c, n), Frame(c, p), l) /\ Plain(Frame(c, p), Frame(c, n))
ReturnFits(c, p, l) ==
    l \in Locks /\ Takes(Entered(c), Frame(c, p), l) /\ Plain(Frame(c, p), Entered(c))
CallFits(c, p, k, n) ==
    /\ k \in Named /\ IsPlace(c, n) /\ CalledFrom(k, Frame(c, n))
    /\ Alike(Frame(c, p), Frame(c, n)) /\ Plain(Frame(c, p), Frame(c, n))
    /\ Frame(c, n) # Frame("fragmented", "writing")
JumpFits(c, p, n) == IsPlace(c, n) /\ Alike(Frame(c, p), Frame(c, n)) /\ Plain(Frame(c, p), Frame(c, n))
LeaveFits(c, p) == Alike(Frame(c, p), Entered(c)) /\ Plain(Frame(c, p), Entered(c))

LEMMA LockKeeps ==
    ASSUME ThreadsKept, NEW t \in Callers, NEW c, NEW p, NEW l, NEW n,
           LockThen(t, c, p, l, n), LockFits(c, p, l, n)
    PROVE  ThreadsKept'
<1>1. StacksOK /\ LocksCounted /\ l \in Locks /\ IsPlace(c, n)
  BY DEF ThreadsKept, LockFits
<1>2. Goes(t, Frame(c, p), Frame(c, n))
  BY <1>1, GoToGoes DEF LockThen
<1>3. LocksCounted'
  BY <1>1, <1>2, LockKeepsLocks DEF LockThen, LockFits
<1> QED
  BY <1>2, <1>3, PlainGoes DEF LockThen, LockFits

LEMMA UnlockKeeps ==
    ASSUME ThreadsKept, NEW t \in Callers, NEW c, NEW p, NEW l, NEW n,
           UnlockThen(t, c, p, l, n), UnlockFits(c, p, l, n)
    PROVE  ThreadsKept'
<1>1. StacksOK /\ LocksCounted /\ l \in Locks /\ IsPlace(c, n)
  BY DEF ThreadsKept, UnlockFits
<1>2. Goes(t, Frame(c, p), Frame(c, n))
  BY <1>1, GoToGoes DEF UnlockThen
<1>3. LocksCounted'
  BY <1>1, <1>2, UnlockKeepsLocks DEF UnlockThen, UnlockFits
<1> QED
  BY <1>2, <1>3, PlainGoes DEF UnlockThen, UnlockFits

LEMMA ReturningKeeps ==
    ASSUME ThreadsKept, NEW t \in Callers, NEW c, NEW p, NEW l,
           UnlockAndReturn(t, c, p, l), ReturnFits(c, p, l)
    PROVE  ThreadsKept'
<1>1. StacksOK /\ LocksCounted /\ l \in Locks
  BY DEF ThreadsKept, ReturnFits
<1>2. Goes(t, Frame(c, p), Entered(c))
  BY <1>1, LeaveGoes DEF UnlockAndReturn
<1>3. LocksCounted'
  BY <1>1, <1>2, UnlockKeepsLocks DEF UnlockAndReturn, ReturnFits
<1> QED
  BY <1>2, <1>3, PlainGoes DEF UnlockAndReturn, ReturnFits

LEMMA CallKeeps ==
    ASSUME ThreadsKept, NEW t \in Callers, NEW c, NEW p, NEW k, NEW n,
           CallThen(t, c, p, k, n), CallFits(c, p, k, n)
    PROVE  ThreadsKept'
<1>1. StacksOK /\ LocksCounted /\ k \in Named /\ IsPlace(c, n)
  BY DEF ThreadsKept, CallFits
<1>2. Goes(t, Frame(c, p), Frame(c, n))
  BY <1>1, CallGoes DEF CallThen, CallFits
<1>3. LocksCounted'
  BY <1>1, <1>2, KeepsLocks DEF CallThen, CallFits
<1> QED
  BY <1>2, <1>3, PlainGoes DEF CallThen, CallFits

LEMMA JumpKeeps ==
    ASSUME ThreadsKept, NEW t \in Callers, NEW c, NEW p, NEW n,
           Jump(t, c, p, n), JumpFits(c, p, n)
    PROVE  ThreadsKept'
<1>1. StacksOK /\ LocksCounted /\ IsPlace(c, n)
  BY DEF ThreadsKept, JumpFits
<1>2. Goes(t, Frame(c, p), Frame(c, n))
  BY <1>1, GoToGoes DEF Jump
<1>3. LocksCounted'
  BY <1>1, <1>2, KeepsLocks DEF Jump, JumpFits
<1> QED
  BY <1>2, <1>3, PlainGoes DEF Jump, JumpFits

LEMMA LeaveKeeps ==
    ASSUME ThreadsKept, NEW t \in Callers, NEW c, NEW p,
           IsAt(t, c, p), Leave(t), UNCHANGED <<locks, buffer, numbers>>, LeaveFits(c, p)
    PROVE  ThreadsKept'
<1>1. StacksOK /\ LocksCounted
  BY DEF ThreadsKept
<1>2. Goes(t, Frame(c, p), Entered(c))
  BY <1>1, LeaveGoes
<1>3. LocksCounted'
  BY <1>1, <1>2, KeepsLocks DEF LeaveFits
<1> QED
  BY <1>2, <1>3, PlainGoes DEF LeaveFits

(***************************************************************************)
(* The steps of each call.                                                 *)
(***************************************************************************)
LEMMA SendMsgKeeps ==
    ASSUME ThreadsKept, NEW t \in Callers, SendMsg(t)
    PROVE  ThreadsKept'
<1>1. LockFits("send", "enter", "transport", "sending") /\ ReturnFits("send", "sending", "transport")
  BY DEF LockFits, ReturnFits, Takes, Plain, Held, Frame, Entered, Reads, Pings, Received,
         WritesRequest, Numbered, Locks, IsPlace, CallPlaces
<1> QED
  BY <1>1, LockKeeps, ReturningKeeps DEF SendMsg

LEMMA FlashingKeeps ==
    ASSUME ThreadsKept, NEW t \in Callers, NEW c \in {"run", "ping_session"}, FlashStreams(t, c)
    PROVE  ThreadsKept'
<1>1. /\ LockFits(c, "flash", "out", "flashing") /\ UnlockFits(c, "flashing", "out", "beat")
      /\ CallFits(c, "flashing", "send", "flashing")
  BY DEF LockFits, UnlockFits, CallFits, Takes, Alike, Plain, Held, Frame, CalledFrom,
         Reads, Pings, Received, WritesRequest, Numbered, Locks, IsPlace, CallPlaces, Named
<1> QED
  BY <1>1, LockKeeps, UnlockKeeps, CallKeeps DEF FlashStreams

LEMMA ListenReliablyKeeps ==
    ASSUME ThreadsKept, NEW t \in Callers, NEW c \in {"run", "ping_session"}, ListenReliably(t, c)
    PROVE  ThreadsKept'
<1>1. /\ LockFits(c, "beat", "out", "beating") /\ CallFits(c, "beating", "send", "beaten")
      /\ UnlockFits(c, "beating", "out", "listen") /\ UnlockFits(c, "beaten", "out", "listen")
      /\ CallFits(c, "listen", "listen", "heard") /\ JumpFits(c, "heard", "beat")
  BY DEF LockFits, UnlockFits, CallFits, JumpFits, Takes, Alike, Plain, Held, Frame, CalledFrom,
         Reads, Pings, Received, WritesRequest, Numbered, Locks, IsPlace, CallPlaces, Named
<1> QED
  BY <1>1, LockKeeps, UnlockKeeps, CallKeeps, JumpKeeps DEF ListenReliably

LEMMA RunSessionKeeps ==
    ASSUME ThreadsKept, NEW t \in Callers, RunSession(t)
    PROVE  ThreadsKept'
<1>1. /\ LockFits("run", "enter", "session", "flash") /\ ReturnFits("run", "heard", "session")
  BY DEF LockFits, ReturnFits, Takes, Plain, Held, Frame, Entered, Reads, Pings, Received,
         WritesRequest, Numbered, Locks, IsPlace, CallPlaces
<1> QED
  BY <1>1, LockKeeps, ReturningKeeps, FlashingKeeps, ListenReliablyKeeps DEF RunSession

LEMMA PingSessionKeeps ==
    ASSUME ThreadsKept, NEW t \in Callers, PingSession(t)
    PROVE  ThreadsKept'
<1>1. /\ LockFits("ping_session", "enter", "session", "asking")
      /\ CallFits("ping_session", "asking", "send", "flash")
      /\ JumpFits("ping_session", "heard", "asking")
      /\ ReturnFits("ping_session", "heard", "session")
  BY DEF LockFits, CallFits, JumpFits, ReturnFits, Takes, Alike, Plain, Held, Frame, Entered,
         CalledFrom, Reads, Pings, Received, WritesRequest, Numbered, Locks, IsPlace, CallPlaces, Named
<1> QED
  BY <1>1, LockKeeps, CallKeeps, JumpKeeps, ReturningKeeps, FlashingKeeps, ListenReliablyKeeps
     DEF PingSession

(* Who has a call that holds a lock owns it.                                 *)
LEMMA HolderOwns ==
    ASSUME StacksOK, LocksCounted, NEW u \in Callers, NEW h \in FramesOf(calls[u]),
           NEW l \in Locks, Held(h, l) # 0
    PROVE  owner[l] = u
<1>1. PICK i \in DOMAIN calls[u] : h = calls[u][i]
  BY DEF FramesOf
<1>2. i \in 1..4 /\ i <= Len(calls[u])
  <2>1. calls[u] \in Seq(CallFrames) /\ Len(calls[u]) \in 0..4
    BY DEF StacksOK, IsStack
  <2> QED
    BY <1>1, <2>1, LenProperties
<1>3. HeldAt(calls[u], i, l) >= 1
  BY <1>1, <1>2, HeldType DEF HeldAt
<1>4. Count(calls[u], l) >= 1
  <2>1. \A j \in 1..4 : HeldAt(calls[u], j, l) \in Nat
    BY HeldType DEF HeldAt
  <2> QED
    BY <1>2, <1>3, <2>1 DEF Count
<1>5. Count(calls[u], l) = IF owner[l] = u THEN depth[l] ELSE 0
  BY DEF LocksCounted
<1> QED
  BY <1>4, <1>5

LEMMA ReceivesKeeps ==
    ASSUME ThreadsKept, NEW t \in Callers, NEW c \in {"listen", "ping"}, Receives(t, c)
    PROVE  ThreadsKept'
<1> DEFINE f == Frame(c, "waiting")
           g == Frame(c, "reading")
<1>1. StacksOK /\ LocksCounted /\ IsPlace(c, "reading")
  BY DEF ThreadsKept, IsPlace, CallPlaces
<1>2. Goes(t, f, g)
  BY <1>1, GoToGoes DEF Receives
<1>3. /\ "transport" \in Locks /\ "in" \in Locks /\ Takes(g, f, "transport")
      /\ Pings(g) => Pings(f)
      /\ Received(g) => Received(f)
      /\ ~WritesRequest(g, "out") /\ ~WritesRequest(g, "other") /\ ~Numbered(f)
      /\ g # Frame("fragmented", "writing")
      /\ c = "listen" => Held(f, "in") # 0
      /\ c = "ping" => Pings(f)
  BY DEF Takes, Held, Frame, Pings, Received, WritesRequest, Numbered, Locks
<1>f. f \in FramesOf(calls[t])
  BY <1>1, <1>2, FramesGo
<1> HIDE DEF f, g
<1>4. LocksCounted' /\ owner["transport"] = t
  BY <1>1, <1>2, <1>3, UnlockKeepsLocks DEF Receives
<1>5. /\ buffer' = t /\ last_request_id' = last_request_id /\ number' = number /\ seen' = seen
  BY DEF Receives, numbers
<1>6. StacksOK'
  BY <1>1, <1>2, StacksGo
<1>7. ReadersHaveIt'
  <2> SUFFICES ASSUME NEW u \in Callers \ {t}, NEW h \in FramesOf(calls'[u]), Reads(h)
               PROVE  FALSE
    BY <1>5 DEF ReadersHaveIt
  <2>1. h \in FramesOf(calls[u])
    BY <1>1, <1>2, FramesGo
  <2>2. \/ h.call = "ping" /\ Held(h, "transport") # 0
        \/ h.call = "listen" /\ Held(h, "in") # 0 /\ Received(h)
    <3>1. h \in CallFrames
      BY <1>1, <2>1, ElementOfSeq DEF StacksOK, FramesOf
    <3> QED
      BY <3>1 DEF CallFrames, IsPlace, Reads, Held, Received
  <2>3. CASE h.call = "ping" /\ Held(h, "transport") # 0
    <3>1. owner["transport"] = u
      BY <1>1, <1>3, <2>1, <2>3, HolderOwns
    <3> QED
      BY <1>4, <3>1
  <2>4. CASE Held(h, "in") # 0 /\ Received(h)
    <3>1. owner["in"] = u
      BY <1>1, <1>3, <2>1, <2>4, HolderOwns
    <3>2. c = "listen" => owner["in"] = t
      BY <1>1, <1>3, <1>f, HolderOwns
    <3>3. c # "ping"
      BY <1>3, <1>f, <2>1, <2>4 DEF ThreadsKept, PingsKeepOthersOut
    <3> QED
      BY <3>1, <3>2, <3>3
  <2> QED
    BY <2>2, <2>3, <2>4
<1>8. PingsKeepOthersOut'
  BY <1>1, <1>2, <1>3, PingsGo DEF ThreadsKept
<1>9. FlushesAreAlone'
  BY <1>1, <1>2, <1>3, FlushesGo DEF ThreadsKept
<1>10. OneStream'
  BY <1>1, <1>2, <1>3, StreamsGo DEF ThreadsKept
<1>11. NumbersAreUsed'
  <2>1. last_request_id' \in 0..MaxRequestId /\ seen' \in [Callers -> 0..MaxRequestId]
    BY <1>5 DEF ThreadsKept, NumbersAreUsed
  <2> QED
    BY <1>1, <1>2, <1>3, <1>5, <2>1, NumbersGo DEF ThreadsKept
<1> QED
  BY <1>4, <1>6, <1>7, <1>8, <1>9, <1>10, <1>11 DEF ThreadsKept

(* A lock step that is not plain: whoever else has a call that the new place *)
(* excludes would own a lock that is free.                                   *)
LEMMA GuardedLockKeeps ==
    ASSUME ThreadsKept, NEW t \in Callers, NEW c, NEW p, NEW l \in Locks, NEW n, IsPlace(c, n),
           LockThen(t, c, p, l, n),
           Takes(Frame(c, p), Frame(c, n), l),
           Reads(Frame(c, n)) => Reads(Frame(c, p)),
           \/ Pings(Frame(c, n)) => Pings(Frame(c, p))
           \/ \A u \in Callers \ {t} : \A h \in FramesOf(calls[u]) : ~Received(h),
           \/ Received(Frame(c, n)) => Received(Frame(c, p))
           \/ \A u \in Callers \ {t} : \A h \in FramesOf(calls[u]) : ~Pings(h),
           \/ TwoStreams
           \/ /\ WritesRequest(Frame(c, n), "out") => WritesRequest(Frame(c, p), "out")
              /\ WritesRequest(Frame(c, n), "other") => WritesRequest(Frame(c, p), "other")
           \/ /\ ~WritesRequest(Frame(c, n), "other")
              /\ \A u \in Callers : \A h \in FramesOf(calls[u]) : ~WritesRequest(h, "other")
           \/ /\ ~WritesRequest(Frame(c, n), "out")
              /\ \A u \in Callers : \A h \in FramesOf(calls[u]) : ~WritesRequest(h, "out"),
           ~Numbered(Frame(c, p)),
           Frame(c, n) # Frame("fragmented", "writing")
    PROVE  ThreadsKept'
<1>1. StacksOK /\ LocksCounted
  BY DEF ThreadsKept
<1>2. Goes(t, Frame(c, p), Frame(c, n))
  BY <1>1, GoToGoes DEF LockThen
<1>3. LocksCounted'
  BY <1>1, <1>2, LockKeepsLocks DEF LockThen
<1>4. buffer' = buffer /\ last_request_id' = last_request_id /\ number' = number /\ seen' = seen
  BY DEF LockThen, numbers
<1>5. StacksOK'
  BY <1>1, <1>2, StacksGo
<1>6. ReadersHaveIt'
  BY <1>1, <1>2, <1>4, ReadersGo DEF ThreadsKept
<1>7. PingsKeepOthersOut'
  BY <1>1, <1>2, PingsGo DEF ThreadsKept
<1>8. FlushesAreAlone'
  BY <1>1, <1>2, FlushesGo DEF ThreadsKept
<1>9. OneStream'
  BY <1>1, <1>2, StreamsGo DEF ThreadsKept
<1>10. NumbersAreUsed'
  <2>1. last_request_id' \in 0..MaxRequestId /\ seen' \in [Callers -> 0..MaxRequestId]
    BY <1>4 DEF ThreadsKept, NumbersAreUsed
  <2> QED
    BY <1>1, <1>2, <1>4, <2>1, NumbersGo DEF ThreadsKept
<1> QED
  BY <1>3, <1>5, <1>6, <1>7, <1>8, <1>9, <1>10 DEF ThreadsKept

LEMMA RecvMsgKeeps ==
    ASSUME ThreadsKept, NEW t \in Callers, NEW c \in {"listen", "ping"}, RecvMsg(t, c)
    PROVE  ThreadsKept'
<1>1. CASE LockThen(t, c, "receiving", "transport", "waiting")
  <2>1. /\ Takes(Frame(c, "receiving"), Frame(c, "waiting"), "transport")
        /\ ~Reads(Frame(c, "waiting"))
        /\ Pings(Frame(c, "waiting")) => Pings(Frame(c, "receiving"))
        /\ ~WritesRequest(Frame(c, "waiting"), "out") /\ ~WritesRequest(Frame(c, "waiting"), "other")
        /\ ~Numbered(Frame(c, "receiving"))
        /\ Frame(c, "waiting") # Frame("fragmented", "writing")
        /\ "transport" \in Locks /\ IsPlace(c, "waiting")
    BY DEF Takes, Held, Frame, Reads, Pings, WritesRequest, Numbered, Locks, IsPlace, CallPlaces
  <2>2. \A u \in Callers \ {t} : \A h \in FramesOf(calls[u]) : ~Pings(h)
    <3> SUFFICES ASSUME NEW u \in Callers \ {t}, NEW h \in FramesOf(calls[u]), Pings(h)
                 PROVE  FALSE
      OBVIOUS
    <3>1. Held(h, "transport") # 0
      BY DEF Pings, Held
    <3>2. owner["transport"] = u
      BY <2>1, <3>1, HolderOwns DEF ThreadsKept
    <3>3. u # Nobody
      BY ThreadsAssumption DEF ThreadsAssumption
    <3> QED
      BY <1>1, <3>2, <3>3 DEF LockThen, uxr_lock, Available
  <2> QED
    BY <1>1, <2>1, <2>2, GuardedLockKeeps
<1>2. CASE Receives(t, c)
  BY <1>2, ReceivesKeeps
<1>3. CASE UnlockThen(t, c, "waiting", "transport", "leaving")
  <2>1. UnlockFits(c, "waiting", "transport", "leaving")
    BY DEF UnlockFits, Takes, Plain, Held, Frame, Reads, Pings, Received, WritesRequest, Numbered,
           Locks, IsPlace, CallPlaces
  <2> QED
    BY <1>3, <2>1, UnlockKeeps
<1> QED
  BY <1>1, <1>2, <1>3 DEF RecvMsg

LEMMA ListenKeeps ==
    ASSUME ThreadsKept, NEW t \in Callers, Listen(t)
    PROVE  ThreadsKept'
<1>1. /\ LockFits("listen", "enter", "in", "receiving")
      /\ LockFits("listen", "reading", "in", "resending")
      /\ UnlockFits("listen", "resending", "in", "reading")
      /\ ReturnFits("listen", "reading", "in") /\ ReturnFits("listen", "leaving", "in")
  BY DEF LockFits, UnlockFits, ReturnFits, Takes, Plain, Held, Frame, Entered, Reads, Pings,
         Received, WritesRequest, Numbered, Locks, IsPlace, CallPlaces
<1>2. /\ CallFits("listen", "resending", "send", "resending")
      /\ CallFits("listen", "reading", "send", "reading")
      /\ CallFits("listen", "reading", "write", "reading")
  BY DEF CallFits, Alike, Plain, Held, Frame, CalledFrom, Reads, Pings, Received, WritesRequest,
         Numbered, Locks, IsPlace, CallPlaces, Named, Calls
<1> QED
  BY <1>1, <1>2, LockKeeps, UnlockKeeps, ReturningKeeps, CallKeeps, RecvMsgKeeps
     DEF Listen, LockInputs, HandleMessage

LEMMA PingAgentKeeps ==
    ASSUME ThreadsKept, NEW t \in Callers, PingAgent(t)
    PROVE  ThreadsKept'
<1>1. CASE (\A u \in Callers \ {t} : ~Listening(u)) /\ LockThen(t, "ping", "enter", "transport", "asking")
  <2> DEFINE f == Frame("ping", "enter")
             g == Frame("ping", "asking")
  <2>1. /\ Takes(f, g, "transport") /\ ~Reads(g) /\ ~Received(g)
        /\ ~WritesRequest(g, "out") /\ ~WritesRequest(g, "other") /\ ~Numbered(f)
        /\ g # Frame("fragmented", "writing")
        /\ "transport" \in Locks /\ IsPlace("ping", "asking")
    BY DEF Takes, Held, Frame, Reads, Received, WritesRequest, Numbered, Locks, IsPlace, CallPlaces
  <2>2. \A u \in Callers \ {t} : \A h \in FramesOf(calls[u]) : ~Received(h)
    BY <1>1 DEF FramesOf, Received, Listening
  <2> QED
    BY <1>1, <2>1, <2>2, GuardedLockKeeps
<1>2. /\ CallFits("ping", "asking", "send", "receiving")
      /\ JumpFits("ping", "reading", "receiving") /\ JumpFits("ping", "leaving", "receiving")
      /\ UnlockFits("ping", "reading", "transport", "enter")
      /\ UnlockFits("ping", "leaving", "transport", "enter")
      /\ ReturnFits("ping", "reading", "transport") /\ ReturnFits("ping", "leaving", "transport")
  BY DEF CallFits, JumpFits, UnlockFits, ReturnFits, Takes, Alike, Plain, Held, Frame, Entered,
         CalledFrom, Reads, Pings, Received, WritesRequest, Numbered, Locks, IsPlace, CallPlaces, Named
<1> QED
  BY <1>1, <1>2, CallKeeps, JumpKeeps, UnlockKeeps, ReturningKeeps, RecvMsgKeeps DEF PingAgent

(* A move that changes the numbers alone.                                    *)
LEMMA NumberingKeeps ==
    ASSUME ThreadsKept, NEW t \in Callers, NEW f, NEW g, Goes(t, f, g), LocksCounted',
           buffer' = buffer, Reads(g) => Reads(f), ~Pings(g), ~Received(g),
           WritesRequest(g, "out") => WritesRequest(f, "out"), WritesRequest(g, "other") => WritesRequest(f, "other"),
           f # g, NumbersAreUsed'
    PROVE  ThreadsKept'
<1>1. StacksOK'
  BY StacksGo DEF ThreadsKept
<1>2. ReadersHaveIt'
  BY ReadersGo DEF ThreadsKept
<1>3. PingsKeepOthersOut'
  BY PingsGo DEF ThreadsKept
<1>4. FlushesAreAlone'
  BY FlushesGo DEF ThreadsKept
<1>5. OneStream'
  BY StreamsGo DEF ThreadsKept
<1> QED
  BY <1>1, <1>2, <1>3, <1>4, <1>5 DEF ThreadsKept

LEMMA BufferDeleteSessionKeeps ==
    ASSUME ThreadsKept, NEW t \in Callers, BufferDeleteSession(t)
    PROVE  ThreadsKept'
<1> DEFINE f == Frame("wait_status", "enter")
           g == Frame("wait_status", "asking")
<1>1. StacksOK /\ LocksCounted /\ NumbersAreUsed /\ IsPlace("wait_status", "asking")
  BY DEF ThreadsKept, IsPlace, CallPlaces
<1>2. Goes(t, f, g)
  BY <1>1, GoToGoes DEF BufferDeleteSession
<1>3. /\ Alike(f, g) /\ ~Reads(g) /\ ~Pings(g) /\ ~Received(g) /\ ~WritesRequest(g, "out")
      /\ ~WritesRequest(g, "other") /\ f # g /\ ~Numbered(f)
  BY DEF Alike, Held, Frame, Reads, Pings, Received, WritesRequest, Numbered, Locks
<1>4. LocksCounted'
  BY <1>1, <1>2, <1>3, KeepsLocks DEF BufferDeleteSession
<1>5. /\ last_request_id' \in 0..MaxRequestId /\ number' = number
      /\ seen' \in [Callers -> 0..MaxRequestId] /\ buffer' = buffer
  <2>1. UXR_REQUEST_LOGOUT \in 0..MaxRequestId
    BY ThreadsAssumption DEF ThreadsAssumption, UXR_REQUEST_LOGOUT, RESERVED_REQUESTS_ID
  <2> QED
    BY <1>1, <2>1 DEF BufferDeleteSession, NumbersAreUsed
<1> HIDE DEF f, g
<1>6. NumbersAreUsed'
  BY <1>1, <1>2, <1>3, <1>5, NumbersGo
<1> QED
  BY <1>2, <1>3, <1>4, <1>5, <1>6, NumberingKeeps

LEMMA WaitSessionStatusKeeps ==
    ASSUME ThreadsKept, NEW t \in Callers, WaitSessionStatus(t)
    PROVE  ThreadsKept'
<1>1. /\ CallFits("wait_status", "asking", "send", "listen")
      /\ CallFits("wait_status", "listen", "listen", "heard")
      /\ JumpFits("wait_status", "heard", "listen") /\ JumpFits("wait_status", "heard", "asking")
      /\ LeaveFits("wait_status", "heard")
  BY DEF CallFits, JumpFits, LeaveFits, Alike, Plain, Held, Frame, Entered, CalledFrom, Reads,
         Pings, Received, WritesRequest, Numbered, Locks, IsPlace, CallPlaces, Named
<1> QED
  BY <1>1, BufferDeleteSessionKeeps, CallKeeps, JumpKeeps, LeaveKeeps DEF WaitSessionStatus

Requesters == {"write", "write_other", "fragmented"}

LEMMA NextNumberType ==
    ASSUME NEW id \in 0..MaxRequestId
    PROVE  NextRequestId(id) \in 0..MaxRequestId
BY ThreadsAssumption DEF NextRequestId, ThreadsAssumption, RESERVED_REQUESTS_ID

LEMMA ReadsNumberKeeps ==
    ASSUME ThreadsKept, NEW t \in Callers, NEW c \in Requesters, ReadsNumber(t, c)
    PROVE  ThreadsKept'
<1> DEFINE f == Frame(c, "numbering")
           g == Frame(c, "numbered")
<1>1. StacksOK /\ LocksCounted /\ NumbersAreUsed /\ IsPlace(c, "numbered")
  BY DEF ThreadsKept, IsPlace, CallPlaces
<1>2. Goes(t, f, g)
  BY <1>1, GoToGoes DEF ReadsNumber
<1>3. /\ Alike(f, g) /\ ~Reads(g) /\ ~Pings(g) /\ ~Received(g)
      /\ WritesRequest(g, "out") => WritesRequest(f, "out")
      /\ WritesRequest(g, "other") => WritesRequest(f, "other")
      /\ f # g /\ ~Numbered(f)
  BY DEF Alike, Held, Frame, Reads, Pings, Received, WritesRequest, Numbered, Locks, Requesters
<1>4. LocksCounted'
  BY <1>1, <1>2, <1>3, KeepsLocks DEF ReadsNumber
<1>5. /\ last_request_id' \in 0..MaxRequestId /\ number' = number
      /\ seen' \in [Callers -> 0..MaxRequestId] /\ buffer' = buffer
  BY <1>1 DEF ReadsNumber, NumbersAreUsed
<1> HIDE DEF f, g
<1>6. NumbersAreUsed'
  BY <1>1, <1>2, <1>3, <1>5, NumbersGo
<1> QED
  BY <1>2, <1>3, <1>4, <1>5, <1>6, NumberingKeeps

LEMMA TakesNumberKeeps ==
    ASSUME ThreadsKept, NEW t \in Callers, NEW c \in Requesters, TakesNumber(t, c)
    PROVE  ThreadsKept'
<1> DEFINE f == Frame(c, "numbered")
           g == Frame(c, "writing")
<1>1. StacksOK /\ LocksCounted /\ NumbersAreUsed /\ IsPlace(c, "writing")
  BY DEF ThreadsKept, IsPlace, CallPlaces
<1>2. Goes(t, f, g)
  BY <1>1, GoToGoes DEF TakesNumber
<1>3. /\ Alike(f, g) /\ ~Reads(g) /\ ~Pings(g) /\ ~Received(g)
      /\ WritesRequest(g, "out") => WritesRequest(f, "out")
      /\ WritesRequest(g, "other") => WritesRequest(f, "other")
      /\ f # g /\ Numbered(g) /\ g.pc # "enter"
  BY DEF Alike, Held, Frame, Reads, Pings, Received, WritesRequest, Numbered, Locks, Requesters
<1>4. LocksCounted'
  BY <1>1, <1>2, <1>3, KeepsLocks DEF TakesNumber
<1>5. /\ last_request_id' \in 0..MaxRequestId /\ buffer' = buffer
      /\ seen' \in [Callers -> 0..MaxRequestId] /\ number' \in [Callers -> 0..MaxRequestId]
      /\ \A u \in Callers \ {t} : number'[u] = number[u]
  <2>1. NextRequestId(seen[t]) \in 0..MaxRequestId /\ 0 \in 0..MaxRequestId
    BY <1>1, NextNumberType, ThreadsAssumption DEF NumbersAreUsed, ThreadsAssumption
  <2> QED
    BY <1>1, <2>1 DEF TakesNumber, NumbersAreUsed
<1> HIDE DEF f, g
<1>6. NumbersAreUsed'
  <2> SUFFICES ASSUME NEW u \in Callers, number'[u] # 0
               PROVE  \E h \in FramesOf(calls'[u]) : Numbered(h)
    BY <1>5 DEF NumbersAreUsed
  <2>1. CASE u = t
    BY <1>1, <1>2, <1>3, <2>1, FramesGo
  <2>2. CASE u # t
    <3>1. PICK h \in FramesOf(calls[u]) : Numbered(h)
      BY <1>1, <1>5, <2>2 DEF NumbersAreUsed
    <3> QED
      BY <1>1, <1>2, <2>2, <3>1, FramesGo
  <2> QED
    BY <2>1, <2>2
<1> QED
  BY <1>2, <1>3, <1>4, <1>5, <1>6, NumberingKeeps

LEMMA WrittenKeeps ==
    ASSUME ThreadsKept, NEW t \in Callers, NEW c \in Requesters, NEW l \in {"out", "other"},
           l = (IF c = "write_other" THEN "other" ELSE "out"), Written(t, c, l)
    PROVE  ThreadsKept'
<1> DEFINE f == Frame(c, "writing")
           g == Entered(c)
<1>1. StacksOK /\ LocksCounted /\ NumbersAreUsed
  BY DEF ThreadsKept
<1>2. Goes(t, f, g)
  BY <1>1, LeaveGoes DEF Written
<1>3. /\ Takes(g, f, l) /\ ~Reads(g) /\ ~Pings(g) /\ ~Received(g) /\ ~WritesRequest(g, "out")
      /\ ~WritesRequest(g, "other") /\ f # g /\ l \in Locks
  BY DEF Takes, Held, Frame, Entered, Reads, Pings, Received, WritesRequest, Locks, Requesters
<1>4. LocksCounted'
  BY <1>1, <1>2, <1>3, UnlockKeepsLocks DEF Written
<1>5. /\ last_request_id' \in 0..MaxRequestId /\ buffer' = buffer
      /\ seen' \in [Callers -> 0..MaxRequestId] /\ number' \in [Callers -> 0..MaxRequestId]
      /\ number'[t] = 0 /\ \A u \in Callers \ {t} : number'[u] = number[u]
  <2>1. 0 \in 0..MaxRequestId
    BY ThreadsAssumption DEF ThreadsAssumption
  <2> QED
    BY <1>1, <2>1 DEF Written, NumbersAreUsed
<1> HIDE DEF f, g
<1>6. NumbersAreUsed'
  <2> SUFFICES ASSUME NEW u \in Callers \ {t}, number'[u] # 0
               PROVE  \E h \in FramesOf(calls'[u]) : Numbered(h)
    BY <1>5 DEF NumbersAreUsed
  <2>1. PICK h \in FramesOf(calls[u]) : Numbered(h)
    BY <1>1, <1>5 DEF NumbersAreUsed
  <2> QED
    BY <1>1, <1>2, <2>1, FramesGo
<1> QED
  BY <1>2, <1>3, <1>4, <1>5, <1>6, NumberingKeeps

(* The lock of a stream is taken for a request when the other is free.       *)
LEMMA LockStreamIdKeeps ==
    ASSUME ThreadsKept, NEW t \in Callers, NEW c, NEW p, NEW l, NEW n,
           <<c, p, l, n>> \in {<<"write", "enter", "out", "numbering">>,
                              <<"write_other", "enter", "other", "numbering">>,
                              <<"fragmented", "enter", "out", "preparing">>,
                              <<"fragmented", "prepared", "out", "checking">>},
           LockStreamId(t, c, p, l, n)
    PROVE  ThreadsKept'
<1>1. /\ l \in Locks /\ IsPlace(c, n) /\ Takes(Frame(c, p), Frame(c, n), l)
      /\ ~Reads(Frame(c, n)) /\ ~Pings(Frame(c, n)) /\ ~Received(Frame(c, n))
      /\ ~Numbered(Frame(c, p)) /\ Frame(c, n) # Frame("fragmented", "writing")
      /\ \/ l = "out" /\ ~WritesRequest(Frame(c, n), "other")
         \/ l = "other" /\ ~WritesRequest(Frame(c, n), "out")
  BY DEF Takes, Held, Frame, Reads, Pings, Received, WritesRequest, Numbered, Locks, IsPlace, CallPlaces
<1>2. ASSUME NEW o \in {"out", "other"}, owner[o] = Nobody,
             NEW u \in Callers, NEW h \in FramesOf(calls[u]), WritesRequest(h, o)
      PROVE  FALSE
  <2>1. o \in Locks /\ u # Nobody /\ Held(h, o) # 0
    BY <1>2, ThreadsAssumption DEF Locks, ThreadsAssumption, WritesRequest
  <2>2. owner[o] = u
    BY <2>1, HolderOwns DEF ThreadsKept
  <2> QED
    BY <1>2, <2>1, <2>2
<1>3. TwoStreams \/ (l = "out" /\ owner["other"] = Nobody) \/ (l = "other" /\ owner["out"] = Nobody)
  BY <1>1 DEF LockStreamId
<1>4. LockThen(t, c, p, l, n)
  BY DEF LockStreamId
<1> QED
  BY <1>1, <1>2, <1>3, <1>4, GuardedLockKeeps

LEMMA WriteRequestKeeps ==
    ASSUME ThreadsKept, NEW t \in Callers, WriteRequest(t)
    PROVE  ThreadsKept'
<1>1. ReturnFits("write", "numbering", "out") /\ ReturnFits("write_other", "numbering", "other")
  BY DEF ReturnFits, Takes, Plain, Held, Frame, Entered, Reads, Pings, Received, WritesRequest,
         Numbered, Locks
<1>2. CASE WriteTo(t, "write", "out")
  BY <1>1, <1>2, LockStreamIdKeeps, ReturningKeeps, ReadsNumberKeeps, TakesNumberKeeps, WrittenKeeps
     DEF WriteTo, Requesters
<1>3. CASE WriteTo(t, "write_other", "other")
  BY <1>1, <1>3, LockStreamIdKeeps, ReturningKeeps, ReadsNumberKeeps, TakesNumberKeeps, WrittenKeeps
     DEF WriteTo, Requesters
<1> QED
  BY <1>2, <1>3 DEF WriteRequest

LEMMA PrepareCallsKeeps ==
    ASSUME ThreadsKept, NEW t \in Callers, PrepareCalls(t)
    PROVE  ThreadsKept'
<1> DEFINE f == Frame("fragmented", "preparing")
           g == Frame("fragmented", "prepared")
<1>1. StacksOK /\ LocksCounted /\ IsPlace("fragmented", "prepared") /\ "run" \in Named /\ "out" \in Locks
  BY DEF ThreadsKept, IsPlace, CallPlaces, Named, Calls, Locks
<1>2. CalledFrom("run", g) /\ g # Frame("fragmented", "writing") /\ Takes(g, f, "out") /\ Plain(f, g)
  BY DEF CalledFrom, Frame, Takes, Plain, Held, Reads, Pings, Received, WritesRequest, Numbered, Locks
<1>3. Goes(t, f, g)
  BY <1>1, <1>2, CallGoes DEF PrepareCalls
<1>4. LocksCounted'
  BY <1>1, <1>2, <1>3, UnlockKeepsLocks DEF PrepareCalls
<1> QED
  BY <1>2, <1>3, <1>4, PlainGoes DEF PrepareCalls

LEMMA PrepareFragmentedKeeps ==
    ASSUME ThreadsKept, NEW t \in Callers, PrepareFragmented(t)
    PROVE  ThreadsKept'
<1>1. /\ ReturnFits("fragmented", "preparing", "out") /\ ReturnFits("fragmented", "checking", "out")
      /\ LeaveFits("fragmented", "prepared")
      /\ JumpFits("fragmented", "preparing", "numbering")
      /\ JumpFits("fragmented", "checking", "numbering")
  BY DEF ReturnFits, LeaveFits, JumpFits, Takes, Alike, Plain, Held, Frame, Entered, Reads, Pings,
         Received, WritesRequest, Numbered, Locks, IsPlace, CallPlaces
<1> QED
  BY <1>1, LockStreamIdKeeps, ReturningKeeps, PrepareCallsKeeps, LeaveKeeps, JumpKeeps,
     ReadsNumberKeeps, TakesNumberKeeps
     DEF PrepareFragmented, FindsNoRoom, Requesters

LEMMA FillKeeps ==
    ASSUME ThreadsKept, NEW t \in Callers, Fill(t)
    PROVE  ThreadsKept'
<1>1. CASE /\ FlushTogether \/ \A u \in Callers \ {t} : ~InCall(u)
           /\ CallThen(t, "fragmented", "writing", "run", "writing")
  <2> DEFINE f == Frame("fragmented", "writing")
  <2>1. StacksOK /\ LocksCounted /\ IsPlace("fragmented", "writing") /\ "run" \in Named /\ CalledFrom("run", f)
        /\ Alike(f, f)
    BY DEF ThreadsKept, IsPlace, CallPlaces, Named, Calls, CalledFrom, Frame, Alike
  <2>2. Goes(t, f, f)
    BY <1>1, <2>1, CallGoes DEF CallThen
  <2>3. /\ buffer' = buffer /\ last_request_id' = last_request_id /\ number' = number
        /\ seen' = seen
    BY <1>1 DEF CallThen, numbers
  <2> HIDE DEF f
  <2>4. LocksCounted'
    BY <1>1, <2>1, <2>2, KeepsLocks DEF CallThen
  <2>5. StacksOK' /\ ReadersHaveIt' /\ PingsKeepOthersOut' /\ FlushesAreAlone' /\ OneStream'
    BY <1>1, <2>1, <2>2, <2>3, StacksGo, ReadersGo, PingsGo, FlushesGo, StreamsGo DEF ThreadsKept
  <2>6. NumbersAreUsed'
    <3>1. last_request_id' \in 0..MaxRequestId /\ seen' \in [Callers -> 0..MaxRequestId]
      BY <2>3 DEF ThreadsKept, NumbersAreUsed
    <3> QED
      BY <2>1, <2>2, <2>3, <3>1, NumbersGo DEF ThreadsKept
  <2> QED
    BY <2>4, <2>5, <2>6 DEF ThreadsKept
<1>2. CASE Written(t, "fragmented", "out")
  BY <1>2, WrittenKeeps DEF Requesters
<1> QED
  BY <1>1, <1>2 DEF Fill

LEMMA BeginKeeps ==
    ASSUME ThreadsKept, NEW t \in Callers, NEW c \in Calls, Begin(t, c)
    PROVE  ThreadsKept'
<1> DEFINE r == <<Entered(c)>>
<1>1. /\ calls \in [Callers -> Seq(CallFrames)] /\ calls[t] = <<>>
      /\ calls' = [calls EXCEPT ![t] = r]
      /\ owner' = owner /\ depth' = depth /\ buffer' = buffer
      /\ last_request_id' = last_request_id /\ seen' = seen /\ number' = number
  BY DEF ThreadsKept, StacksOK, Begin, InCall, locks, numbers
<1>2. r \in Seq(CallFrames) /\ Len(r) = 1 /\ r[1] = Entered(c) /\ DOMAIN r = {1}
  BY DEF CallFrames, Entered, Named, IsPlace, CallPlaces
<1>3. IsStack(r)
  BY <1>2 DEF IsStack, Entered
<1>4. \A l \in Locks : Count(r, l) = 0
  BY <1>2, EnteredHolds DEF Count, HeldAt
<1>5. \A l \in Locks : Count(calls[t], l) = 0
  BY <1>1 DEF Count, HeldAt
<1>6. /\ c \in Named /\ FramesOf(r) = {Entered(c)} /\ FramesOf(calls[t]) = {}
  BY <1>1, <1>2 DEF FramesOf, Named
<1> HIDE DEF r
<1>7. calls' \in [Callers -> Seq(CallFrames)] /\ calls'[t] = r /\ \A u \in Callers \ {t} : calls'[u] = calls[u]
  BY <1>1, <1>2
<1>8. StacksOK'
  BY <1>3, <1>7 DEF ThreadsKept, StacksOK
<1>9. LocksCounted'
  <2>1. \A u \in Callers, l \in Locks : Count(calls'[u], l) = Count(calls[u], l)
    BY <1>4, <1>5, <1>7
  <2> QED
    BY <1>1, <2>1 DEF ThreadsKept, LocksCounted
<1>10. \A u \in Callers : \A h \in FramesOf(calls'[u]) : h \in FramesOf(calls[u]) \/ h = Entered(c)
  BY <1>6, <1>7
<1>11. ReadersHaveIt'
  BY <1>1, <1>6, <1>10, EnteredIsPlain DEF ThreadsKept, ReadersHaveIt
<1>12. PingsKeepOthersOut'
  <2>1. \A h : h = Entered(c) => ~Pings(h) /\ ~Received(h)
    BY <1>6, EnteredIsPlain
  <2> QED
    BY <1>10, <2>1 DEF ThreadsKept, PingsKeepOthersOut
<1>13. FlushesAreAlone'
  <2> SUFFICES ASSUME ~FlushTogether, NEW u \in Callers, NEW v \in Callers \ {u}, Flushing(u)'
               PROVE  ~InCall(v)'
    BY DEF FlushesAreAlone
  <2>1. u # t
    BY <1>2, <1>7 DEF Flushing
  <2>2. Flushing(u)
    BY <1>7, <2>1 DEF Flushing
  <2> QED
    BY <2>2 DEF Begin
<1>14. OneStream'
  <2>1. \A h, l : h = Entered(c) => ~WritesRequest(h, l)
    BY <1>6, EnteredIsPlain
  <2> QED
    BY <1>10, <2>1 DEF ThreadsKept, OneStream
<1>15. NumbersAreUsed'
  BY <1>1, <1>6, <1>7 DEF ThreadsKept, NumbersAreUsed
<1> QED
  BY <1>8, <1>9, <1>11, <1>12, <1>13, <1>14, <1>15 DEF ThreadsKept

LEMMA InitKept == ThreadsInit => ThreadsKept
<1> SUFFICES ASSUME ThreadsInit PROVE ThreadsKept
  OBVIOUS
<1> USE ThreadsAssumption DEF ThreadsInit, ThreadsAssumption
<1>1. \A t \in Callers : calls[t] = <<>> /\ FramesOf(calls[t]) = {}
  <2>1. \A t \in Callers : calls[t] = <<>>
    OBVIOUS
  <2>2. FramesOf(<<>>) = {}
    BY DEF FramesOf
  <2> QED
    BY <2>1, <2>2
<1>2. StacksOK
  BY DEF StacksOK, IsStack
<1>3. LocksCounted
  <2>1. \A t \in Callers, l \in Locks : Count(calls[t], l) = 0
    BY <1>1 DEF Count, HeldAt
  <2> QED
    BY <2>1 DEF LocksCounted
<1>4. ReadersHaveIt /\ PingsKeepOthersOut
  BY <1>1 DEF ReadersHaveIt, PingsKeepOthersOut
<1>5. FlushesAreAlone /\ OneStream
  BY <1>1 DEF FlushesAreAlone, Flushing, OneStream
<1>6. NumbersAreUsed
  BY DEF NumbersAreUsed, RESERVED_REQUESTS_ID
<1> QED
  BY <1>2, <1>3, <1>4, <1>5, <1>6 DEF ThreadsKept

LEMMA StutterKept == ThreadsKept /\ UNCHANGED threads_vars => ThreadsKept'
BY DEF threads_vars, locks, numbers, ThreadsKept, StacksOK, LocksCounted, ReadersHaveIt,
       PingsKeepOthersOut, FlushesAreAlone, Flushing, InCall, OneStream, NumbersAreUsed

(* The places of all calls tell which locks are held, how often, and whose   *)
(* message is in the buffer.                                                 *)
THEOREM ThreadsInvariant == ThreadsSpec => []ThreadsKept
<1>1. ThreadsInit => ThreadsKept
  BY InitKept
<1>2. ThreadsKept /\ [ThreadsNext]_threads_vars => ThreadsKept'
  <2> SUFFICES ASSUME ThreadsKept, [ThreadsNext]_threads_vars PROVE ThreadsKept'
    OBVIOUS
  <2>1. CASE UNCHANGED threads_vars
    BY <2>1, StutterKept
  <2>2. ASSUME NEW t \in Callers, Step(t)
        PROVE  ThreadsKept'
    BY <2>2, SendMsgKeeps, ListenKeeps, RunSessionKeeps, PingSessionKeeps, PingAgentKeeps,
       WaitSessionStatusKeeps, WriteRequestKeeps, PrepareFragmentedKeeps, FillKeeps
       DEF Step
  <2>3. ASSUME NEW t \in Callers, NEW c \in Calls, Begin(t, c)
        PROVE  ThreadsKept'
    BY <2>3, BeginKeeps
  <2> QED
    BY <2>1, <2>2, <2>3 DEF ThreadsNext
<1> QED
  BY <1>1, <1>2, PTL DEF ThreadsSpec

(***************************************************************************)
(* What follows from it.                                                   *)
(***************************************************************************)
LEMMA CountBound ==
    ASSUME NEW s, IsStack(s), NEW l \in Locks
    PROVE  Count(s, l) \in 0..2
<1>1. s \in Seq(CallFrames) /\ Len(s) \in 0..4 /\ \A i \in 1..Len(s) : s[i] \in CallFrames
  BY ElementOfSeq DEF IsStack
<1>2. \A i \in 1..(Len(s) - 1) : CalledFrom(s[i].call, s[i + 1])
  BY DEF IsStack
<1>3. CASE Len(s) = 0
  BY <1>3 DEF Count, HeldAt
<1>4. CASE Len(s) = 1
  BY <1>4, HeldType DEF Count, HeldAt
<1>5. CASE Len(s) = 2
  <2>1. Count(s, l) = Held(s[1], l) + Held(s[2], l)
    BY <1>5, HeldType DEF Count, HeldAt
  <2>2. CalledFrom(s[1].call, s[2])
    BY <1>2, <1>5
  <2> QED
    BY <2>1, <2>2 DEF CalledFrom, Held, Locks
<1>6. CASE Len(s) = 3
  <2>1. Count(s, l) = Held(s[1], l) + Held(s[2], l) + Held(s[3], l)
    BY <1>6, HeldType DEF Count, HeldAt
  <2>2. CalledFrom(s[1].call, s[2]) /\ CalledFrom(s[2].call, s[3])
    BY <1>2, <1>6
  <2> QED
    BY <2>1, <2>2 DEF CalledFrom, Held, Locks
<1>7. CASE Len(s) = 4
  <2>1. Count(s, l) = Held(s[1], l) + Held(s[2], l) + Held(s[3], l) + Held(s[4], l)
    BY <1>7, HeldType DEF Count, HeldAt
  <2>2. CalledFrom(s[1].call, s[2]) /\ CalledFrom(s[2].call, s[3]) /\ CalledFrom(s[3].call, s[4])
    BY <1>2, <1>7
  <2> QED
    BY <2>1, <2>2 DEF CalledFrom, Held, Locks
<1> QED
  BY <1>1, <1>3, <1>4, <1>5, <1>6, <1>7

(* Type correctness; a lock is taken at most twice by its thread, and calls  *)
(* are at most four deep.                                                    *)
THEOREM ThreadsTypeCorrect == ThreadsSpec => []ThreadsTypeOK
<1>1. ThreadsKept => ThreadsTypeOK
  <2> SUFFICES ASSUME ThreadsKept PROVE ThreadsTypeOK
    OBVIOUS
  <2>1. \A l \in Locks : depth[l] \in 0..2
    <3> SUFFICES ASSUME NEW l \in Locks PROVE depth[l] \in 0..2
      OBVIOUS
    <3>1. CASE owner[l] = Nobody
      BY <3>1 DEF ThreadsKept, LocksCounted
    <3>2. CASE owner[l] # Nobody
      <4>1. owner[l] \in Callers
        BY <3>2 DEF ThreadsKept, LocksCounted
      <4>2. Count(calls[owner[l]], l) = depth[l]
        BY <4>1 DEF ThreadsKept, LocksCounted
      <4> QED
        BY <4>1, <4>2, CountBound DEF ThreadsKept, StacksOK
    <3> QED
      BY <3>1, <3>2
  <2>2. \A t \in Callers : Len(calls[t]) \in 0..4
    BY DEF ThreadsKept, StacksOK, IsStack
  <2> QED
    BY <2>1, <2>2 DEF ThreadsTypeOK, ThreadsKept, LocksCounted, ReadersHaveIt, NumbersAreUsed
<1> QED
  BY <1>1, ThreadsInvariant, PTL

(* The message a thread is reading stays in the transport's buffer, whatever *)
(* the other threads do.                                                     *)
THEOREM MessagesIntact == ThreadsSpec => []MessageIntact
<1>1. ThreadsKept => MessageIntact
  <2> SUFFICES ASSUME ThreadsKept, NEW t \in Callers, NEW i \in DOMAIN calls[t],
                      calls[t][i].pc \in {"reading", "resending"}
               PROVE  buffer = t
    BY DEF MessageIntact
  <2>1. calls[t][i] \in FramesOf(calls[t]) /\ Reads(calls[t][i])
    BY DEF FramesOf, Reads
  <2> QED
    BY <2>1 DEF ThreadsKept, ReadersHaveIt
<1> QED
  BY <1>1, ThreadsInvariant, PTL

(* A call that returns leaves no lock behind, whatever way it took out.      *)
THEOREM LocksReturned == ThreadsSpec => []LocksGivenBack
<1>1. ThreadsKept => LocksGivenBack
  <2> SUFFICES ASSUME ThreadsKept, NEW t \in Callers, ~InCall(t), NEW l \in Locks, owner[l] = t
               PROVE  FALSE
    BY DEF LocksGivenBack
  <2>1. calls[t] = <<>>
    BY DEF InCall
  <2>2. Count(calls[t], l) = 0
    BY <2>1 DEF Count, HeldAt
  <2>3. Count(calls[t], l) = depth[l]
    BY DEF ThreadsKept, LocksCounted
  <2>4. t # Nobody
    BY ThreadsAssumption DEF ThreadsAssumption
  <2> QED
    BY <2>2, <2>3, <2>4 DEF ThreadsKept, LocksCounted
<1> QED
  BY <1>1, ThreadsInvariant, PTL

(* With requests written to one stream at a time, two that are being written *)
(* do not have the same identifier: only one of them has got one.            *)
THEOREM RequestsDiffer ==
    ASSUME ~TwoStreams
    PROVE  ThreadsSpec => []NumbersDiffer
<1>1. ThreadsKept => NumbersDiffer
  <2> SUFFICES ASSUME ThreadsKept, NEW t \in Callers, NEW u \in Callers \ {t},
                      number[t] # 0, number[t] = number[u]
               PROVE  FALSE
    BY DEF NumbersDiffer
  <2>1. PICK f \in FramesOf(calls[t]) : Numbered(f)
    BY DEF ThreadsKept, NumbersAreUsed
  <2>2. PICK g \in FramesOf(calls[u]) : Numbered(g)
    BY DEF ThreadsKept, NumbersAreUsed
  <2>3. \A h : Numbered(h) => WritesRequest(h, "out") \/ WritesRequest(h, "other")
    BY DEF Numbered, WritesRequest, Held
  <2>4. \A l \in {"out", "other"} : ~(WritesRequest(f, l) /\ WritesRequest(g, l))
    <3> SUFFICES ASSUME NEW l \in {"out", "other"}, WritesRequest(f, l), WritesRequest(g, l) PROVE FALSE
      OBVIOUS
    <3>1. l \in Locks /\ Held(f, l) # 0 /\ Held(g, l) # 0
      BY DEF Locks, WritesRequest
    <3> QED
      BY <2>1, <2>2, <3>1, HolderOwns DEF ThreadsKept
  <2>5. /\ ~(WritesRequest(f, "out") /\ WritesRequest(g, "other"))
        /\ ~(WritesRequest(g, "out") /\ WritesRequest(f, "other"))
    BY <2>1, <2>2 DEF ThreadsKept, OneStream
  <2> QED
    BY <2>1, <2>2, <2>3, <2>4, <2>5
<1> QED
  BY <1>1, ThreadsInvariant, PTL

(***************************************************************************)
(* Locks are taken in one order, so that no threads wait in a circle.      *)
(***************************************************************************)
LockRank(l) ==
    CASE l = "session" -> 1 [] l = "in" -> 2 [] l = "out" -> 3 [] l = "other" -> 4
      [] l = "transport" -> 5

LEMMA StackHoldsLower ==
    ASSUME NEW s, IsStack(s), s # <<>>, ~Flushes(s), NEW w \in Waits, s[1] = Frame(w[1], w[2]),
           NEW l \in Locks, NEW i \in 1..Len(s), Held(s[i], l) # 0
    PROVE  LockRank(l) < LockRank(w[3]) \/ w[3] = "transport"
<1>1. Len(s) \in 1..4
  BY EmptySeq, LenProperties DEF IsStack
<1>2. \A k \in 1..(Len(s) - 1) : CalledFrom(s[k].call, s[k + 1])
  BY DEF IsStack
<1>3. \A k \in 2..Len(s) : s[k] # Frame("fragmented", "writing")
  BY DEF Flushes
<1>4. \A k \in 1..Len(s) : s[k] = Frame(s[k].call, s[k].pc)
  <2> TAKE k \in 1..Len(s)
  <2>1. s[k] \in CallFrames
    BY ElementOfSeq DEF IsStack
  <2> QED
    BY <2>1 DEF CallFrames, Frame
<1>5. \A f, c : CalledFrom(c, f) => c \in {"send", "write", "listen", "run"}
  BY DEF CalledFrom
(* What a call is made from, when no flush goes on.                          *)
<1>6. \A k \in 2..Len(s) : s[k].call = "fragmented" => s[k].pc # "writing"
  BY <1>3, <1>4
<1>7. /\ Len(s) >= 2 => CalledFrom(s[1].call, s[2])
      /\ Len(s) >= 3 => CalledFrom(s[2].call, s[3])
      /\ Len(s) >= 4 => CalledFrom(s[3].call, s[4])
  BY <1>1, <1>2
<1>8. CASE w[1] \in {"write_other", "fragmented", "ping", "ping_session"} /\ w[3] # "transport"
  <2>1. Len(s) = 1 /\ i = 1
    BY <1>1, <1>5, <1>7, <1>8 DEF Frame
  <2> QED
    BY <1>8, <2>1 DEF Waits, Frame, Held, LockRank, Locks
<1>9. CASE w[1] = "run"
  <2>1. Len(s) >= 2 => s[2].call = "fragmented" /\ s[2].pc = "prepared"
    BY <1>1, <1>6, <1>7, <1>9 DEF Frame, CalledFrom
  <2>2. Len(s) <= 2
    BY <1>1, <1>5, <1>7, <2>1
  <2>3. w[2] \in {"enter", "flash", "beat"}
        /\ (w[2] # "enter" => w[3] = "out") /\ (w[2] = "enter" => w[3] = "session")
    BY <1>9 DEF Waits
  <2>4. i = 1 \/ i = 2
    BY <1>1, <2>2
  <2> QED
    BY <1>9, <2>1, <2>3, <2>4 DEF Frame, Held, LockRank, Locks
<1>10. CASE w[1] = "listen" /\ w[3] # "transport"
  <2>1. w[2] = "enter" /\ w[3] = "in"
    BY <1>10 DEF Waits
  <2>2. Len(s) >= 2 => s[2].call \in {"run", "ping_session", "wait_status"} /\ s[2].pc = "heard"
    BY <1>1, <1>7, <1>10 DEF Frame, CalledFrom
  <2>3. Len(s) >= 3 => s[3].call = "fragmented" /\ s[3].pc = "prepared"
    BY <1>1, <1>6, <1>7, <2>2 DEF CalledFrom
  <2>4. Len(s) <= 3
    BY <1>1, <1>5, <1>7, <2>3
  <2>5. i = 1 \/ i = 2 \/ i = 3
    BY <1>1, <2>4
  <2> QED
    BY <1>10, <2>1, <2>2, <2>3, <2>5 DEF Frame, Held, LockRank, Locks
<1>11. CASE w[1] = "write"
  <2>1. w[2] = "enter" /\ w[3] = "out"
    BY <1>11 DEF Waits
  <2>2. Len(s) >= 2 => s[2].call = "listen" /\ s[2].pc = "reading"
    BY <1>1, <1>7, <1>11 DEF Frame, CalledFrom
  <2>3. Len(s) >= 3 => s[3].call \in {"run", "ping_session", "wait_status"} /\ s[3].pc = "heard"
    BY <1>1, <1>7, <2>2 DEF CalledFrom
  <2>4. Len(s) >= 4 => s[4].call = "fragmented" /\ s[4].pc = "prepared"
    BY <1>1, <1>6, <1>7, <2>3 DEF CalledFrom
  <2>5. i = 1 \/ i = 2 \/ i = 3 \/ i = 4
    BY <1>1
  <2> QED
    BY <1>11, <2>1, <2>2, <2>3, <2>4, <2>5 DEF Frame, Held, LockRank, Locks
<1> QED
  BY <1>8, <1>9, <1>10, <1>11 DEF Waits

LEMMA OwnerHolds ==
    ASSUME ThreadsKept, NEW u \in Callers, NEW l \in Locks, owner[l] = u
    PROVE  calls[u] # <<>> /\ \E i \in 1..Len(calls[u]) : Held(calls[u][i], l) # 0
<1>1. depth[l] # 0 /\ Count(calls[u], l) = depth[l]
  BY ThreadsAssumption DEF ThreadsKept, LocksCounted, ThreadsAssumption
<1>2. PICK i \in 1..4 : HeldAt(calls[u], i, l) # 0
  BY <1>1, HeldType DEF Count, HeldAt
<1>3. i <= Len(calls[u]) /\ Held(calls[u][i], l) # 0
  BY <1>2 DEF HeldAt
<1>4. Len(calls[u]) \in Nat
  BY DEF ThreadsKept, StacksOK, IsStack
<1>5. i \in 1..Len(calls[u])
  BY <1>3, <1>4
<1>6. calls[u] # <<>>
  BY <1>5, EmptySeq
<1> QED
  BY <1>3, <1>5, <1>6

LEMMA WaitsUpwards ==
    ASSUME ThreadsKept, ~FlushTogether, NEW u \in Callers, NEW v \in Callers \ {u},
           NEW w \in Waits, IsAt(u, w[1], w[2]), owner[w[3]] = v,
           NEW l \in Locks, owner[l] = u
    PROVE  LockRank(l) < LockRank(w[3])
<1>1. w[3] \in Locks
  BY DEF Waits, Locks
<1>2. InCall(v)
  BY <1>1, OwnerHolds DEF InCall
<1>3. ~Flushes(calls[u])
  BY <1>2 DEF ThreadsKept, FlushesAreAlone, Flushing, Flushes, Frame
<1>4. PICK i \in 1..Len(calls[u]) : Held(calls[u][i], l) # 0
  BY OwnerHolds
<1>5. IsStack(calls[u]) /\ calls[u] # <<>> /\ calls[u][1] = Frame(w[1], w[2])
  BY AtFrame DEF ThreadsKept
<1>6. LockRank(l) < LockRank(w[3]) \/ w[3] = "transport"
  BY <1>3, <1>4, <1>5, StackHoldsLower
<1>7. w[3] = "transport" => LockRank(l) < LockRank(w[3])
  <2>1. w[3] # l
    OBVIOUS
  <2> QED
    BY <2>1 DEF LockRank, Locks
<1> QED
  BY <1>6, <1>7

(* While a flush within a write goes on alone, no threads wait for each      *)
(* other in a circle.                                                        *)
THEOREM NoDeadlock ==
    ASSUME ~FlushTogether
    PROVE  ThreadsSpec => []NoCircle
<1>1. ThreadsKept => NoCircle
  <2> SUFFICES ASSUME ThreadsKept, NEW together \in (SUBSET Callers) \ {{}},
                      \A t \in together : \E u \in together : WaitsFor(t, u)
               PROVE  FALSE
    BY DEF NoCircle
  <2> DEFINE Waiting(n) ==
               \E t \in together, u \in together, w \in Waits :
                   t # u /\ IsAt(t, w[1], w[2]) /\ owner[w[3]] = u /\ LockRank(w[3]) >= n
  <2>1. \A w \in Waits : LockRank(w[3]) \in 1..5 /\ w[3] \in Locks
    BY DEF Waits, LockRank, Locks
  <2>2. Waiting(1)
    BY <2>1 DEF WaitsFor
  <2>3. ASSUME NEW n \in 1..5, Waiting(n)
        PROVE  Waiting(n + 1)
    <3>1. PICK t \in together, u \in together, w \in Waits :
              t # u /\ IsAt(t, w[1], w[2]) /\ owner[w[3]] = u /\ LockRank(w[3]) >= n
      BY <2>3
    <3>2. PICK v \in together, x \in Waits :
              v # u /\ IsAt(u, x[1], x[2]) /\ owner[x[3]] = v
      BY <3>1 DEF WaitsFor
    <3>3. LockRank(w[3]) < LockRank(x[3])
      BY <2>1, <3>1, <3>2, WaitsUpwards
    <3>4. LockRank(x[3]) >= n + 1
      BY <2>1, <3>1, <3>3
    <3> QED
      BY <3>2, <3>4
  <2>4. ~Waiting(6)
    BY <2>1
  <2> HIDE DEF Waiting
  <2>5. Waiting(2) /\ Waiting(3) /\ Waiting(4) /\ Waiting(5) /\ Waiting(6)
    BY <2>2, <2>3
  <2> QED
    BY <2>4, <2>5
<1> QED
  BY <1>1, ThreadsInvariant, PTL
===============================================================================

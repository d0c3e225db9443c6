------------------------- MODULE AgentToClient_proofs -------------------------
(* What a reliable input stream reads and acknowledges, for every number of  *)
(* buffers, every size of the circle, every window of the Agent and any      *)
(* lifetime of the datagrams.                                                *)
(*                                                                           *)
(* Every number that occurs is reached from last_handled by a distance less  *)
(* than half of the circle: the buffers that follow it, the messages that    *)
(* may still arrive (before it, too), the last acknack and agent_acked.      *)
EXTENDS AgentToClient, SeqNum_proofs, SequenceTheorems

LEMMA Sizes ==
    /\ History \in Nat \ {0} /\ BitmapWidth \in Nat \ {0}
    /\ AgentWindow \in Nat \ {0} /\ MaxFragments \in Nat /\ Lifetime \in Nat
    /\ AgentWindow + History + Lifetime < SeqNumMidsize
    /\ History + 1 < SeqNumMidsize
    /\ SeqNumSize \in Nat \ {0} /\ SeqNumMidsize \in Nat
    /\ SeqNumSize = 2 * SeqNumMidsize
    /\ SeqNumMax = SeqNumSize - 1
  BY SeqNumSizes, HistoryAssumption, AgentAssumption, BitmapAssumption

(***************************************************************************)
(* The ring: the buffers of the numbers around s.                          *)
(***************************************************************************)
LEMMA SlotOfAdd ==
    ASSUME NEW s \in SeqNums, NEW i \in Int
    PROVE  Slot(SeqNumAdd(s, i)) = (s + i) % History
<1>1. PICK laps \in 1..SeqNumSize : SeqNumSize = History * laps
  BY HistoryAssumption
<1>2. laps \in Int /\ History \in Nat \ {0}
  BY Sizes
<1> QED BY <1>1, <1>2, RingSlot DEF Slot

LEMMA SlotType ==
    ASSUME NEW s \in SeqNums
    PROVE  Slot(s) \in Slots
  BY Sizes DEF Slot, Slots, SeqNums

LEMMA SlotsDiffer ==
    ASSUME NEW s \in SeqNums, NEW i \in Int, NEW j \in Int,
           i # j, i - j < History, j - i < History
    PROVE  Slot(SeqNumAdd(s, i)) # Slot(SeqNumAdd(s, j))
<1> DEFINE a == s + i
           b == s + j
<1>1. a \in Int /\ b \in Int /\ a # b /\ a - b < History /\ b - a < History
  BY Sizes DEF SeqNums
<1>2. Slot(SeqNumAdd(s, i)) = a % History /\ Slot(SeqNumAdd(s, j)) = b % History
  BY SlotOfAdd
<1> HIDE DEF a, b
<1>3. a % History # b % History
  BY <1>1, RestsDiffer, Sizes
<1> QED BY <1>2, <1>3

LEMMA SlotComesRound ==
    ASSUME NEW s \in SeqNums, NEW i \in Int
    PROVE  Slot(SeqNumAdd(s, i + History)) = Slot(SeqNumAdd(s, i))
<1> DEFINE a == s + i
           one == 1
<1>1. a \in Int /\ one \in Int /\ i + History \in Int /\ s + (i + History) = a + History * one
  BY Sizes DEF SeqNums
<1>2. /\ Slot(SeqNumAdd(s, i)) = a % History
      /\ Slot(SeqNumAdd(s, i + History)) = (s + (i + History)) % History
  BY <1>1, SlotOfAdd
<1> HIDE DEF a, one
<1>3. (a + History * one) % History = a % History
  BY <1>1, RestOfSum, Sizes
<1> QED BY <1>1, <1>2, <1>3

(***************************************************************************)
(* The buffers that follow `handled`, when one is filled, when the first   *)
(* is passed, and when n of them are read and emptied.                     *)
(***************************************************************************)
Rings == [Slots -> Messages \cup {None}]

LEMMA HeldType ==
    ASSUME NEW held \in Rings, NEW handled \in SeqNums, NEW n \in Int
    PROVE  Held(held, handled, n) \in Messages \cup {None}
  BY AddType, SlotType DEF Held, Rings

LEMMA HeldWhenStored ==
    ASSUME NEW held, NEW stored, NEW handled \in SeqNums, NEW k \in 1..History,
           \A i \in Slots : i # Slot(SeqNumAdd(handled, k)) => stored[i] = held[i]
    PROVE  \A m \in 1..History :
              m # k => Held(stored, handled, m) = Held(held, handled, m)
<1> TAKE m \in 1..History
<1>1. k \in Int /\ m \in Int /\ k - m < History /\ m - k < History
  BY Sizes
<1>2. m # k => Slot(SeqNumAdd(handled, m)) # Slot(SeqNumAdd(handled, k))
  BY <1>1, SlotsDiffer
<1>3. Slot(SeqNumAdd(handled, m)) \in Slots
  BY <1>1, AddType, SlotType
<1> QED BY <1>2, <1>3 DEF Held

LEMMA HeldOneOn ==
    ASSUME NEW held, NEW handled \in SeqNums, NEW m \in 1..History
    PROVE  Held(held, SeqNumAdd(handled, 1), m)
              = IF m < History THEN Held(held, handled, m + 1)
                               ELSE Held(held, handled, 1)
<1>1. m \in Int /\ 1 + m \in Int /\ 1 + m = m + 1
  OBVIOUS
<1>2. SeqNumAdd(SeqNumAdd(handled, 1), m) = SeqNumAdd(handled, m + 1)
  BY <1>1, AddTwice
<1>3. m = History => Slot(SeqNumAdd(handled, m + 1)) = Slot(SeqNumAdd(handled, 1))
  BY <1>1, SlotComesRound
<1> QED BY <1>2, <1>3, Sizes DEF Held

LEMMA HeldWhenEmptied ==
    ASSUME NEW held \in Rings, NEW handled \in SeqNums,
           NEW n \in 0..History, NEW m \in 1..History
    PROVE  Held(Emptied(held, handled, n), SeqNumAdd(handled, n), m)
              = IF n + m <= History THEN Held(held, handled, n + m) ELSE None
<1> DEFINE i == Slot(SeqNumAdd(handled, n + m))
<1>1. n \in Int /\ m \in Int /\ n + m \in Int
  OBVIOUS
<1>2. SeqNumAdd(SeqNumAdd(handled, n), m) = SeqNumAdd(handled, n + m)
  BY <1>1, AddTwice
<1>3. i \in Slots
  BY <1>1, AddType, SlotType
<1>4. Held(Emptied(held, handled, n), SeqNumAdd(handled, n), m)
        = IF \E k \in 1..n : i = Slot(SeqNumAdd(handled, k)) THEN None ELSE held[i]
  BY <1>2, <1>3 DEF Held, Emptied
<1>5. ASSUME n + m <= History, NEW k \in 1..n PROVE i # Slot(SeqNumAdd(handled, k))
  <2>1. k \in Int /\ n + m # k /\ n + m - k < History /\ k - (n + m) < History
    BY <1>5, Sizes
  <2> QED BY <1>1, <2>1, SlotsDiffer
<1>6. ASSUME n + m > History PROVE \E k \in 1..n : i = Slot(SeqNumAdd(handled, k))
  <2>1. n + m - History \in 1..n /\ n + m - History + History = n + m
    BY <1>6, Sizes
  <2>2. Slot(SeqNumAdd(handled, n + m - History + History))
           = Slot(SeqNumAdd(handled, n + m - History))
    BY <2>1, SlotComesRound
  <2> QED BY <2>1, <2>2
<1>7. CASE n + m <= History
  BY <1>4, <1>5, <1>7 DEF Held
<1>8. CASE n + m > History
  <2>1. ~(n + m <= History)
    BY <1>8, Sizes
  <2> QED BY <1>4, <1>6, <1>8, <2>1
<1> QED BY <1>7, <1>8, Sizes

LEMMA EmptiedType ==
    ASSUME NEW held \in Rings, NEW handled, NEW n
    PROVE  Emptied(held, handled, n) \in Rings
  BY DEF Emptied, Rings

(***************************************************************************)
(* What is read: the longest run of whole submessages that waits.          *)
(***************************************************************************)
LEMMA AllReadableIsGreatest ==
    ASSUME NEW held, NEW handled
    PROVE  /\ AllReadable(held, handled) \in 0..History
           /\ Readable(held, handled, AllReadable(held, handled))
           /\ \A m \in AllReadable(held, handled) + 1..History : ~Readable(held, handled, m)
<1> DEFINE S == {n \in 0..History : Readable(held, handled, n)}
<1>1. 0 \in S /\ S \subseteq 0..History
  BY Sizes DEF Readable
<1>2. PICK n \in S : \A m \in S : m <= n
  <2> HIDE DEF S
  <2> QED BY <1>1, GreatestOf, Sizes
<1>3. n \in 0..History /\ Readable(held, handled, n)
  BY <1>2
<1>4. ASSUME NEW m \in n + 1..History PROVE ~Readable(held, handled, m)
  <2>1. m \in 0..History /\ ~(m <= n)
    BY <1>3, <1>4, Sizes
  <2> QED BY <1>2, <2>1
<1> QED BY <1>3, <1>4 DEF AllReadable

(* A message that needs no other would have been read, too.                  *)
LEMMA ReadToTheNextGap ==
    ASSUME NEW held, NEW handled, AllReadable(held, handled) < History
    PROVE  ~NO_FRAGMENTED(Held(held, handled, AllReadable(held, handled) + 1))
<1> DEFINE n == AllReadable(held, handled)
<1>1. /\ n \in 0..History /\ Readable(held, handled, n)
      /\ n + 1 <= History => ~Readable(held, handled, n + 1)
  BY AllReadableIsGreatest, Sizes
<1> HIDE DEF n
<1> SUFFICES ASSUME n < History, NO_FRAGMENTED(Held(held, handled, n + 1)) PROVE FALSE
  BY DEF n
<1>2. \A i \in 1..n + 1 : i \in 1..n \/ i = n + 1
  BY <1>1
<1>3. \A i \in 1..(n + 1) - 1 : i \in 1..n - 1 \/ i = n
  BY <1>1
<1>4. n > 0 => ~INTERMEDIATE_FRAGMENT(Held(held, handled, n))
  BY <1>1 DEF Readable, EndsSubmessage, NO_FRAGMENTED, LAST_FRAGMENT, INTERMEDIATE_FRAGMENT
<1>5. \A i \in 1..n + 1 : Held(held, handled, i) # None
  BY <1>1, <1>2 DEF Readable, NO_FRAGMENTED
<1>6. \A i \in 1..(n + 1) - 1 :
         INTERMEDIATE_FRAGMENT(Held(held, handled, i))
           => ~NO_FRAGMENTED(Held(held, handled, i + 1))
  BY <1>1, <1>3, <1>4 DEF Readable
<1>7. Readable(held, handled, n + 1)
  BY <1>5, <1>6 DEF Readable, EndsSubmessage
<1> QED BY <1>1, <1>7, Sizes

(* A fragmented submessage that is complete is read.                         *)
LEMMA CompleteIsRead ==
    ASSUME NEW held, NEW handled, NEW n \in 1..History,
           LAST_FRAGMENT(Held(held, handled, n)),
           \A i \in 1..n - 1 : INTERMEDIATE_FRAGMENT(Held(held, handled, i))
    PROVE  AllReadable(held, handled) >= 1
<1>1. \A i \in 1..n : i \in 1..n - 1 \/ i = n
  BY Sizes
<1>2. \A i \in 1..n - 1 : i + 1 \in 1..n
  BY Sizes
<1>3. Readable(held, handled, n)
  BY <1>1, <1>2 DEF Readable, EndsSubmessage, NO_FRAGMENTED, LAST_FRAGMENT,
                    INTERMEDIATE_FRAGMENT
<1> DEFINE r == AllReadable(held, handled)
<1>4. r \in 0..History /\ (r + 1 <= n => ~Readable(held, handled, n))
  BY AllReadableIsGreatest, Sizes
<1> HIDE DEF r
<1>5. r >= 1
  BY <1>3, <1>4, Sizes
<1> QED BY <1>5 DEF r

(***************************************************************************)
(* The inductive invariant. To BuffersMatchStream and AcknowledgedIsHeld   *)
(* it adds how far the cursors may be from each other (Order), that the    *)
(* message that waits first is a fragment (otherwise ReceiveNext would     *)
(* jump over it), and that the acknack an Agent may still take confirms    *)
(* nothing the Client does not have.                                       *)
(***************************************************************************)
Order ==
    /\ NotHandled <= Len(agent_log)
    /\ Len(agent_log) <= AgentWindow + History + Lifetime
    /\ Unconfirmed <= AgentWindow
    /\ NotHandled <= Unconfirmed + History

HeadWaits == ~NO_FRAGMENTED(Held(slots, last_handled, 1))

AcknackHeld ==
    acknack # NoAck =>
        \E n \in 0..History :
            /\ acknack = SeqNumAdd(last_handled, n)
            /\ \A m \in 1..n - 1 : Held(slots, last_handled, m) # None

StreamKept ==
    /\ AgentTypeOK /\ Order
    /\ BuffersMatchStream /\ AcknowledgedIsHeld
    /\ HeadWaits /\ AcknackHeld

LEMMA Positions ==
    ASSUME AgentTypeOK, Order
    PROVE  /\ NotHandled \in Nat /\ Unconfirmed \in Nat /\ Len(agent_log) \in Nat
           /\ last_handled \in SeqNums /\ slots \in Rings
           /\ agent_last = SeqNumAdd(last_handled, NotHandled)
           /\ agent_acked = SeqNumAdd(last_handled, NotHandled - Unconfirmed)
<1>1. /\ last_handled \in SeqNums /\ slots \in Rings /\ agent_last \in SeqNums
      /\ agent_acked \in SeqNums /\ agent_log \in Seq(Messages)
  BY DEF AgentTypeOK, TypeOK, Rings
<1>2. NotHandled \in SeqNums /\ Unconfirmed \in SeqNums
  BY <1>1, SeqNumSubType DEF NotHandled, Unconfirmed
<1>3. NotHandled \in Nat /\ Unconfirmed \in 0..SeqNumSize - 1 /\ Len(agent_log) \in Nat
  BY <1>1, <1>2, Sizes DEF SeqNums
<1>4. agent_last = SeqNumAdd(last_handled, NotHandled)
  BY <1>1, AddOfSub DEF NotHandled
<1>5. agent_last = SeqNumAdd(agent_acked, Unconfirmed)
  BY <1>1, AddOfSub DEF Unconfirmed
<1>6. SeqNumAdd(agent_last, -Unconfirmed) = SeqNumAdd(agent_acked, Unconfirmed + (-Unconfirmed))
  BY <1>1, <1>3, <1>5, AddTwice
<1>7. SeqNumAdd(agent_last, -Unconfirmed) = SeqNumAdd(last_handled, NotHandled + (-Unconfirmed))
  BY <1>1, <1>3, <1>4, AddTwice
<1>8. Unconfirmed + (-Unconfirmed) = 0 /\ NotHandled + (-Unconfirmed) = NotHandled - Unconfirmed
  BY <1>3
<1>9. agent_acked = SeqNumAdd(last_handled, NotHandled - Unconfirmed)
  BY <1>1, <1>6, <1>7, <1>8, AddNothing
<1> QED BY <1>1, <1>3, <1>4, <1>9

(* The message of the log that arrives, as a distance.                       *)
LEMMA PositionOfMessage ==
    ASSUME AgentTypeOK, Order, NEW n \in 1..Len(agent_log)
    PROVE  /\ SeqNumOf(n) = SeqNumAdd(last_handled, NotHandled - (Len(agent_log) - n))
           /\ SeqNumOf(n) \in SeqNums
           /\ agent_log[n] \in Messages
<1> DEFINE back == Len(agent_log) - n
<1>1. /\ NotHandled \in Nat /\ Len(agent_log) \in Nat
      /\ last_handled \in SeqNums /\ agent_log \in Seq(Messages)
      /\ agent_last = SeqNumAdd(last_handled, NotHandled)
  BY Positions DEF AgentTypeOK
<1>2. back \in 0..SeqNumSize - 1
  BY <1>1, Sizes DEF Order
<1> HIDE DEF back
<1>3. SeqNumSub(agent_last, back) = SeqNumAdd(last_handled, NotHandled - back)
  BY <1>1, <1>2, SubGoesBack
<1>4. SeqNumAdd(last_handled, NotHandled - back) \in SeqNums
  BY <1>1, <1>2, AddType
<1> QED BY <1>1, <1>3, <1>4, ElementOfSeq DEF SeqNumOf, back

(* What arrives is stored or read when it is one of the History messages     *)
(* that follow last_handled.                                                 *)
LEMMA InWindowMeans ==
    ASSUME AgentTypeOK, Order, NEW n \in 1..Len(agent_log), InWindow(SeqNumOf(n))
    PROVE  \E k \in 1..History :
              /\ SeqNumOf(n) = SeqNumAdd(last_handled, k)
              /\ k <= NotHandled
              /\ n = Len(agent_log) - NotHandled + k
<1> DEFINE k == NotHandled - (Len(agent_log) - n)
<1>1. /\ NotHandled \in Nat /\ Len(agent_log) \in Nat /\ Unconfirmed \in Nat
      /\ last_handled \in SeqNums
  BY Positions
<1>2. SeqNumOf(n) = SeqNumAdd(last_handled, k)
  BY PositionOfMessage
<1>3. /\ k \in Int /\ k <= NotHandled /\ n = Len(agent_log) - NotHandled + k
      /\ 0 - k < SeqNumMidsize /\ k - 0 < SeqNumMidsize
      /\ k - History < SeqNumMidsize
  BY <1>1, Sizes DEF Order
<1> HIDE DEF k
<1>4. SeqNumAdd(last_handled, 0) = last_handled
  BY <1>1, AddNothing
<1>5. k > 0
  <2>1. SeqNumCmp(SeqNumAdd(last_handled, 0), SeqNumAdd(last_handled, k)) < 0 <=> 0 < k
    BY <1>1, <1>3, CmpCompares
  <2> QED BY <1>2, <1>3, <1>4, <2>1 DEF InWindow
<1>6. k <= History
  <2>1. History - k < SeqNumMidsize /\ History \in Int
    BY <1>3, <1>5, Sizes
  <2>2. SeqNumCmp(SeqNumAdd(last_handled, History), SeqNumAdd(last_handled, k)) >= 0
          <=> History >= k
    BY <1>1, <1>3, <2>1, CmpCompares
  <2> QED BY <1>2, <1>3, <2>1, <2>2 DEF InWindow
<1> QED BY <1>2, <1>3, <1>5, <1>6, Sizes

(***************************************************************************)
(* The reading of everything that waits, d after last_handled: d is 1 when *)
(* a message was read straight from the transport, 0 when it was stored.   *)
(***************************************************************************)
Position(k) == Len(agent_log) - NotHandled + k

LEMMA Reading ==
    ASSUME AgentTypeOK, Order,
           NEW d \in {0, 1}, d <= NotHandled, NEW held \in Rings, NEW first \in Seq(Messages),
           \A m \in 1..History :
              Held(held, SeqNumAdd(last_handled, d), m) # None =>
                  /\ d + m <= NotHandled
                  /\ Held(held, SeqNumAdd(last_handled, d), m) = agent_log[Position(d + m)],
           \A m \in 1..History :
              d + m <= NotHandled - Unconfirmed =>
                  Held(held, SeqNumAdd(last_handled, d), m) # None,
           ReadAll(held, SeqNumAdd(last_handled, d), first),
           UNCHANGED agent
    PROVE  \E n \in 0..History :
              /\ n = AllReadable(held, SeqNumAdd(last_handled, d))
              /\ d + n <= NotHandled
              /\ last_handled' = SeqNumAdd(last_handled, d + n)
              /\ last_handled' \in SeqNums /\ slots' \in Rings
              /\ NotHandled' = NotHandled - (d + n)
              /\ Unconfirmed' = Unconfirmed
              /\ BuffersMatchStream' /\ AcknowledgedIsHeld'
              /\ HeadWaits'
              /\ \A i \in 1..n :
                    Held(held, SeqNumAdd(last_handled, d), i) = agent_log[Position(d + i)]
              /\ delivered' = first \o [i \in 1..n |-> agent_log[Position(d + i)]]
              /\ delivered' \in Seq(Messages)
              /\ n > 0 => EndsSubmessage(agent_log[Position(d + n)])
<1> DEFINE h == SeqNumAdd(last_handled, d)
           n == AllReadable(held, h)
<1>1. /\ NotHandled \in Nat /\ Unconfirmed \in Nat /\ Len(agent_log) \in Nat
      /\ last_handled \in SeqNums /\ d \in Nat
      /\ agent_last = SeqNumAdd(last_handled, NotHandled)
  BY Positions
<1>2. h \in SeqNums
  BY <1>1, AddType
<1>3. n \in 0..History /\ Readable(held, h, n)
  BY AllReadableIsGreatest
<1>4. last_handled' = SeqNumAdd(h, n) /\ slots' = Emptied(held, h, n)
  BY DEF ReadAll
<1>5. last_handled' = SeqNumAdd(last_handled, d + n)
  BY <1>1, <1>3, <1>4, AddTwice
<1>6. last_handled' \in SeqNums /\ slots' \in Rings
  BY <1>1, <1>3, <1>4, <1>5, AddType, EmptiedType
<1>7. \A m \in 1..History :
         Held(slots', last_handled', m) = IF n + m <= History THEN Held(held, h, n + m) ELSE None
  BY <1>2, <1>3, <1>4, HeldWhenEmptied
<1>8. d + n <= NotHandled
  <2>1. CASE n = 0
    BY <1>1, <2>1
  <2>2. CASE n > 0
    <3>1. n \in 1..n /\ n \in 1..History
      BY <1>3, <2>2
    <3>2. Held(held, h, n) # None
      BY <1>3, <3>1 DEF Readable
    <3> QED BY <3>1, <3>2
  <2> QED BY <1>3, <2>1, <2>2
<1>9. /\ NotHandled' = NotHandled - (d + n) /\ Unconfirmed' = Unconfirmed
      /\ agent_log' = agent_log
  <2>1. agent_last' = agent_last /\ agent_acked' = agent_acked /\ agent_log' = agent_log
    BY DEF agent
  <2>2. /\ d + n \in Int /\ NotHandled - (d + n) < SeqNumSize
    BY <1>1, <1>3, Sizes DEF Order
  <2>3. SeqNumSub(SeqNumAdd(last_handled, NotHandled), SeqNumAdd(last_handled, d + n))
           = NotHandled - (d + n)
    BY <1>1, <1>8, <2>2, SubMeasures
  <2> QED BY <1>1, <1>5, <2>1, <2>3 DEF NotHandled, Unconfirmed
<1>10. \A i \in 1..n : Held(held, h, i) = agent_log[Position(d + i)]
  <2> TAKE i \in 1..n
  <2>1. i \in 1..History
    BY <1>3, Sizes
  <2>2. Held(held, h, i) # None
    BY <1>3 DEF Readable
  <2> QED BY <2>1, <2>2
<1>11. BuffersMatchStream'
  <2> SUFFICES ASSUME NEW m \in 1..History, Held(slots', last_handled', m) # None
               PROVE  /\ m <= NotHandled'
                      /\ Held(slots', last_handled', m)
                            = agent_log'[Len(agent_log') - NotHandled' + m]
    BY DEF BuffersMatchStream
  <2>1. n + m <= History /\ Held(slots', last_handled', m) = Held(held, h, n + m)
    BY <1>7
  <2>2. n + m \in 1..History /\ Held(held, h, n + m) # None
    BY <1>3, <2>1
  <2>3. /\ d + (n + m) <= NotHandled
        /\ Held(held, h, n + m) = agent_log[Position(d + (n + m))]
    BY <2>2
  <2>4. m <= NotHandled' /\ Position(d + (n + m)) = Len(agent_log') - NotHandled' + m
    BY <1>1, <1>3, <1>9, <2>3 DEF Position
  <2> QED BY <1>9, <2>1, <2>3, <2>4
<1>12. AcknowledgedIsHeld'
  <2> SUFFICES ASSUME NEW m \in 1..NotHandled' - Unconfirmed'
               PROVE  Held(slots', last_handled', m) # None
    BY DEF AcknowledgedIsHeld
  <2>1. d + (n + m) <= NotHandled - Unconfirmed /\ n + m \in 1..History /\ m \in 1..History
    <3> HIDE DEF h, n
    <3>1. /\ m \in Int /\ n \in Nat /\ m >= 1
          /\ m <= NotHandled - (d + n) - Unconfirmed
      BY <1>1, <1>3, <1>9
    <3>2. NotHandled - Unconfirmed <= History /\ History \in Nat
      BY <1>1, Sizes DEF Order
    <3> QED BY <1>1, <3>1, <3>2
  <2>2. Held(held, h, n + m) # None
    BY <2>1
  <2> QED BY <1>7, <2>1, <2>2
<1>13. HeadWaits'
  <2>1. 1 \in 1..History
    BY Sizes
  <2>2. Held(slots', last_handled', 1) = IF n + 1 <= History THEN Held(held, h, n + 1) ELSE None
    BY <1>7, <2>1
  <2>3. n + 1 <= History => ~NO_FRAGMENTED(Held(held, h, n + 1))
    <3>1. n + 1 <= History => n < History
      BY <1>3, Sizes
    <3> QED BY <3>1, ReadToTheNextGap
  <2> QED BY <2>2, <2>3 DEF HeadWaits, NO_FRAGMENTED
<1>14. delivered' = first \o [i \in 1..n |-> agent_log[Position(d + i)]]
  <2>1. delivered' = first \o [i \in 1..n |-> Held(held, h, i)]
    BY DEF ReadAll
  <2>2. [i \in 1..n |-> Held(held, h, i)] = [i \in 1..n |-> agent_log[Position(d + i)]]
    BY <1>10
  <2> QED BY <2>1, <2>2
<1>15. delivered' \in Seq(Messages)
  <2> DEFINE read == [i \in 1..n |-> agent_log[Position(d + i)]]
  <2>1. \A i \in 1..n : agent_log[Position(d + i)] \in Messages
    <3> TAKE i \in 1..n
    <3>1. Held(held, h, i) \in Messages \cup {None}
      BY <1>2, <1>3, HeldType
    <3>2. Held(held, h, i) # None
      BY <1>3 DEF Readable
    <3> QED BY <1>10, <3>1, <3>2
  <2>2. read \in [1..n -> Messages]
    BY <2>1
  <2>3. n \in Nat
    BY <1>3
  <2>4. read \in Seq(Messages)
    <3> HIDE DEF n, read
    <3> QED BY <2>2, <2>3, SeqDef
  <2> HIDE DEF n, read
  <2>5. first \o read \in Seq(Messages)
    BY <2>4, ConcatProperties
  <2> QED BY <1>14, <2>5 DEF read
<1>16. n > 0 => EndsSubmessage(agent_log[Position(d + n)])
  <2>1. n > 0 => n \in 1..n
    BY <1>3
  <2> QED BY <1>3, <1>10, <2>1 DEF Readable
<1> HIDE DEF n
<1>17. \A k : k = n => AllReadable(held, h) = k
  BY DEF n
<1> QED BY <1>3, <1>5, <1>6, <1>8, <1>9, <1>10, <1>11, <1>12, <1>13, <1>14, <1>15,
          <1>16, <1>17

(***************************************************************************)
(* uxr_get_first_unacked: the acknack that ends both handlers.             *)
(***************************************************************************)
LEMMA FirstGap ==
    ASSUME NEW held, NEW handled, NEW G,
           G = {n \in 1..History : Held(held, handled, n) = None}, G # {}
    PROVE  \E g \in 1..History :
              /\ g = CHOOSE n \in G : \A m \in G : n <= m
              /\ Held(held, handled, g) = None
              /\ \A m \in 1..g - 1 : Held(held, handled, m) # None
<1> DEFINE g == CHOOSE n \in G : \A m \in G : n <= m
<1>1. G \subseteq Nat
  BY Sizes
<1>2. \E n \in G : \A m \in G : n <= m
  BY <1>1, LeastOf
<1>3. g \in G /\ \A m \in G : g <= m
  BY <1>2
<1> HIDE DEF g
<1>4. ASSUME NEW m \in 1..g - 1 PROVE Held(held, handled, m) # None
  <2>1. m \in 1..History /\ ~(g <= m)
    BY <1>1, <1>3, <1>4, Sizes
  <2> QED BY <1>3, <2>1
<1>5. \A k : k = g => k = CHOOSE n \in G : \A m \in G : n <= m
  BY DEF g
<1> QED BY <1>3, <1>4, <1>5

LEMMA WriteAcknackKeeps ==
    ASSUME last_handled' \in SeqNums, WriteAcknack
    PROVE  AcknackHeld' /\ acknack' \in SeqNums
<1> DEFINE G == {n \in 1..History : Held(slots', last_handled', n) = None}
           g == CHOOSE n \in G : \A m \in G : n <= m
<1>1. acknack' = IF G = {} THEN last_handled' ELSE SeqNumAdd(last_handled', g)
  BY DEF WriteAcknack, FirstUnacked, Gaps
<1>2. SUFFICES \E n \in 0..History :
                  /\ acknack' = SeqNumAdd(last_handled', n)
                  /\ \A m \in 1..n - 1 : Held(slots', last_handled', m) # None
  BY AddType DEF AcknackHeld
<1>3. CASE G = {}
  <2>1. acknack' = SeqNumAdd(last_handled', 0) /\ 0 \in 0..History
    BY <1>1, <1>3, AddNothing, Sizes
  <2> QED BY <2>1
<1>4. CASE G # {}
  <2>1. /\ g \in 1..History
        /\ \A m \in 1..g - 1 : Held(slots', last_handled', m) # None
    <3>1. G = {n \in 1..History : Held(slots', last_handled', n) = None}
      OBVIOUS
    <3> HIDE DEF G
    <3>2. \E n \in 1..History :
             /\ n = g
             /\ Held(slots', last_handled', n) = None
             /\ \A m \in 1..n - 1 : Held(slots', last_handled', m) # None
      BY <1>4, <3>1, FirstGap
    <3> HIDE DEF g
    <3> QED BY <3>2
  <2>2. acknack' = SeqNumAdd(last_handled', g)
    BY <1>1, <1>4
  <2> HIDE DEF g, G
  <2>3. g \in 0..History
    BY <2>1, Sizes
  <2> QED BY <2>1, <2>2, <2>3
<1> QED BY <1>3, <1>4

LEMMA AnnounceType ==
    ASSUME last_announced \in SeqNums, NEW s \in SeqNums, Announce(s)
    PROVE  last_announced' \in SeqNums
  BY DEF Announce

(***************************************************************************)
(* A message the Agent sends.                                              *)
(***************************************************************************)
LEMMA LogWhenSent ==
    ASSUME AgentTypeOK, Order, NEW p \in Messages, AgentSend(p)
    PROVE  \E cut \in {0, 1} :
              /\ cut <= Len(agent_log) - NotHandled
              /\ agent_log' \in Seq(Messages)
              /\ Len(agent_log') = Len(agent_log) + 1 - cut
              /\ \A k \in 1..Len(agent_log) - cut : agent_log'[k] = agent_log[k + cut]
              /\ agent_log'[Len(agent_log')] = p
              /\ Len(agent_log') <= AgentWindow + History + Lifetime
<1>1. /\ agent_log \in Seq(Messages) /\ Len(agent_log) \in Nat
      /\ NotHandled \in Nat /\ Unconfirmed \in Nat
  BY Positions DEF AgentTypeOK
<1>2. agent_log' = Append(StillArriving, p) /\ Unconfirmed < AgentWindow
  BY DEF AgentSend
<1>3. CASE Len(agent_log) > NotHandled /\ Len(agent_log) >= Lifetime
  <2>1. agent_log # <<>> /\ StillArriving = Tail(agent_log)
    BY <1>1, <1>3, EmptySeq DEF StillArriving
  <2>2. /\ Tail(agent_log) \in Seq(Messages)
        /\ Len(Tail(agent_log)) = Len(agent_log) - 1
        /\ \A i \in 1..Len(Tail(agent_log)) : Tail(agent_log)[i] = agent_log[i + 1]
    BY <1>1, <2>1, HeadTailProperties
  <2>3. /\ agent_log' \in Seq(Messages)
        /\ Len(agent_log') = Len(Tail(agent_log)) + 1
        /\ \A i \in 1..Len(Tail(agent_log)) : agent_log'[i] = Tail(agent_log)[i]
        /\ agent_log'[Len(Tail(agent_log)) + 1] = p
    BY <1>2, <2>1, <2>2, AppendProperties
  <2>4. /\ 1 <= Len(agent_log) - NotHandled
        /\ Len(agent_log') = Len(agent_log) + 1 - 1
        /\ Len(agent_log') <= AgentWindow + History + Lifetime
    BY <1>1, <1>3, <2>2, <2>3 DEF Order
  <2> QED BY <1>1, <2>2, <2>3, <2>4
<1>4. CASE ~(Len(agent_log) > NotHandled /\ Len(agent_log) >= Lifetime)
  <2>1. StillArriving = agent_log
    BY <1>4 DEF StillArriving
  <2>2. /\ agent_log' \in Seq(Messages)
        /\ Len(agent_log') = Len(agent_log) + 1
        /\ \A i \in 1..Len(agent_log) : agent_log'[i] = agent_log[i]
        /\ agent_log'[Len(agent_log) + 1] = p
    BY <1>1, <1>2, <2>1, AppendProperties
  <2>3. /\ 0 <= Len(agent_log) - NotHandled
        /\ Len(agent_log') = Len(agent_log) + 1 - 0
        /\ Len(agent_log') <= AgentWindow + History + Lifetime
    BY <1>1, <1>2, <1>4, <2>2, Sizes DEF Order
  <2> QED BY <1>1, <2>2, <2>3
<1> QED BY <1>3, <1>4

LEMMA SendKeeps ==
    ASSUME StreamKept, NEW p \in Messages, AgentSend(p)
    PROVE  StreamKept' /\ NotHandled' = NotHandled + 1
<1>1. AgentTypeOK /\ Order /\ BuffersMatchStream /\ AcknowledgedIsHeld
      /\ HeadWaits /\ AcknackHeld
  BY DEF StreamKept
<1>2. /\ NotHandled \in Nat /\ Unconfirmed \in Nat /\ Len(agent_log) \in Nat
      /\ last_handled \in SeqNums /\ agent_last \in SeqNums /\ agent_acked \in SeqNums
      /\ agent_last = SeqNumAdd(last_handled, NotHandled)
  BY <1>1, Positions DEF AgentTypeOK
<1>3. /\ UNCHANGED vars /\ agent_acked' = agent_acked /\ acknack' = acknack
      /\ agent_last' = SeqNumAdd(agent_last, 1)
      /\ Unconfirmed < AgentWindow
  BY DEF AgentSend
<1>4. UNCHANGED <<last_handled, last_announced, slots, looping, delivered, round>>
  BY <1>3 DEF vars
<1>5. PICK cut \in {0, 1} :
         /\ cut <= Len(agent_log) - NotHandled
         /\ agent_log' \in Seq(Messages)
         /\ Len(agent_log') = Len(agent_log) + 1 - cut
         /\ \A k \in 1..Len(agent_log) - cut : agent_log'[k] = agent_log[k + cut]
         /\ agent_log'[Len(agent_log')] = p
         /\ Len(agent_log') <= AgentWindow + History + Lifetime
  BY <1>1, LogWhenSent
<1>6. NotHandled' = NotHandled + 1
  <2>1. agent_last' = SeqNumAdd(last_handled, NotHandled + 1)
    BY <1>2, <1>3, AddTwice
  <2>2. NotHandled + 1 \in Nat /\ NotHandled + 1 < SeqNumSize
    BY <1>1, <1>2, <1>3, Sizes DEF Order
  <2> QED BY <1>2, <1>4, <2>1, <2>2, SubOfAdd DEF NotHandled
<1>7. Unconfirmed' = Unconfirmed + 1
  <2>1. agent_last = SeqNumAdd(agent_acked, Unconfirmed)
    BY <1>2, AddOfSub DEF Unconfirmed
  <2>2. agent_last' = SeqNumAdd(agent_acked, Unconfirmed + 1)
    BY <1>2, <1>3, <2>1, AddTwice
  <2>3. Unconfirmed + 1 \in Nat /\ Unconfirmed + 1 < SeqNumSize
    BY <1>1, <1>2, <1>3, Sizes
  <2> QED BY <1>2, <1>3, <2>2, <2>3, SubOfAdd DEF Unconfirmed
<1>8. AgentTypeOK'
  <2>1. agent_last' \in SeqNums
    BY <1>2, <1>3, AddType
  <2> QED BY <1>1, <1>3, <1>4, <1>5, <2>1 DEF AgentTypeOK, TypeOK
<1>9. Order'
  BY <1>1, <1>2, <1>3, <1>5, <1>6, <1>7, Sizes DEF Order
<1>10. BuffersMatchStream'
  <2> SUFFICES ASSUME NEW n \in 1..History, Held(slots, last_handled, n) # None
               PROVE  /\ n <= NotHandled'
                      /\ Held(slots, last_handled, n)
                            = agent_log'[Len(agent_log') - NotHandled' + n]
    BY <1>4 DEF BuffersMatchStream, Held
  <2>1. /\ n <= NotHandled
        /\ Held(slots, last_handled, n) = agent_log[Len(agent_log) - NotHandled + n]
    BY <1>1 DEF BuffersMatchStream
  <2> DEFINE k == Len(agent_log') - NotHandled' + n
  <2>2. /\ k \in 1..Len(agent_log) - cut
        /\ k + cut = Len(agent_log) - NotHandled + n
    BY <1>2, <1>5, <1>6, <2>1
  <2>3. agent_log'[k] = agent_log[k + cut]
    BY <1>5, <2>2
  <2> QED BY <1>2, <1>6, <2>1, <2>2, <2>3
<1>11. AcknowledgedIsHeld'
  <2>1. NotHandled' - Unconfirmed' = NotHandled - Unconfirmed
    BY <1>2, <1>6, <1>7
  <2> QED BY <1>1, <1>4, <2>1 DEF AcknowledgedIsHeld, Held
<1>12. HeadWaits' /\ AcknackHeld'
  BY <1>1, <1>3, <1>4 DEF HeadWaits, AcknackHeld, Held
<1> QED BY <1>6, <1>8, <1>9, <1>10, <1>11, <1>12 DEF StreamKept

(***************************************************************************)
(* A message that arrives. A step either reads the front of what was not   *)
(* handled, up to the end of a submessage, or nothing.                     *)
(***************************************************************************)
DeliversFront ==
    \E c \in 1..NotHandled :
        /\ NotHandled' = NotHandled - c
        /\ agent_log[Position(c)].last
        /\ delivered' \in Seq(Messages) /\ Len(delivered') = c
        /\ \A i \in 1..c : delivered'[i] = agent_log[Position(i)]
        /\ round' = 1 - round

DeliversNothing == NotHandled' = NotHandled /\ UNCHANGED <<delivered, round>>

LEMMA MessagesAreSomething ==
    ASSUME NEW p \in Messages
    PROVE  p # None /\ (EndsSubmessage(p) => p.last)
  BY MessagesAssumption DEF EndsSubmessage, NO_FRAGMENTED, LAST_FRAGMENT

(* The buffers when the message that belongs into one of them is stored.     *)
LEMMA StoredMatches ==
    ASSUME StreamKept, NEW k \in 1..History, k <= NotHandled,
           NEW held \in Rings,
           held[Slot(SeqNumAdd(last_handled, k))] = agent_log[Position(k)],
           \A i \in Slots :
              i # Slot(SeqNumAdd(last_handled, k)) => held[i] = slots[i]
    PROVE  /\ \A m \in 1..History :
                 Held(held, last_handled, m) # None =>
                     /\ m <= NotHandled
                     /\ Held(held, last_handled, m) = agent_log[Position(m)]
           /\ \A m \in 1..History :
                 m <= NotHandled - Unconfirmed => Held(held, last_handled, m) # None
           /\ \A m \in 1..History :
                 Held(held, last_handled, m)
                    = IF m = k THEN agent_log[Position(k)] ELSE Held(slots, last_handled, m)
           /\ agent_log[Position(k)] \in Messages
<1>1. /\ NotHandled \in Nat /\ Unconfirmed \in Nat /\ Len(agent_log) \in Nat
      /\ last_handled \in SeqNums /\ slots \in Rings /\ agent_log \in Seq(Messages)
      /\ NotHandled <= Len(agent_log)
  BY Positions DEF StreamKept, AgentTypeOK, Order
<1>2. agent_log[Position(k)] \in Messages /\ agent_log[Position(k)] # None
  <2>1. Position(k) \in 1..Len(agent_log)
    BY <1>1 DEF Position
  <2>2. agent_log[Position(k)] \in Messages
    BY <1>1, <2>1, ElementOfSeq
  <2> QED BY <2>2, MessagesAreSomething
<1>3. \A m \in 1..History :
         Held(held, last_handled, m)
            = IF m = k THEN agent_log[Position(k)] ELSE Held(slots, last_handled, m)
  <2>1. \A m \in 1..History :
           m # k => Held(held, last_handled, m) = Held(slots, last_handled, m)
    BY <1>1, HeldWhenStored
  <2>2. Held(held, last_handled, k) = agent_log[Position(k)]
    BY DEF Held
  <2> QED BY <2>1, <2>2
<1>4. \A m \in 1..History :
         Held(held, last_handled, m) # None =>
             /\ m <= NotHandled
             /\ Held(held, last_handled, m) = agent_log[Position(m)]
  BY <1>3 DEF StreamKept, BuffersMatchStream, Position
<1>5. \A m \in 1..History :
         m <= NotHandled - Unconfirmed => Held(held, last_handled, m) # None
  <2> SUFFICES ASSUME NEW m \in 1..History, m <= NotHandled - Unconfirmed
               PROVE  Held(held, last_handled, m) # None
    OBVIOUS
  <2>1. m \in 1..NotHandled - Unconfirmed
    BY <1>1
  <2> QED BY <1>2, <1>3, <2>1 DEF StreamKept, AcknowledgedIsHeld
<1> QED BY <1>2, <1>3, <1>4, <1>5

(* What remains to be shown once the reading is known.                       *)
LEMMA KeptWhenRead ==
    ASSUME StreamKept, NEW n \in Nat, n <= NotHandled,
           last_handled' \in SeqNums, slots' \in Rings, delivered' \in Seq(Messages),
           last_announced' \in SeqNums, looping' \in BOOLEAN, round' \in {0, 1},
           NotHandled' = NotHandled - n, Unconfirmed' = Unconfirmed,
           UNCHANGED agent, acknack' \in SeqNums \cup {NoAck}
    PROVE  AgentTypeOK' /\ Order'
<1>1. /\ NotHandled \in Nat /\ Unconfirmed \in Nat /\ Len(agent_log) \in Nat
      /\ AgentTypeOK /\ Order
  BY Positions DEF StreamKept
<1>2. /\ agent_log' = agent_log /\ agent_last' = agent_last /\ agent_acked' = agent_acked
  BY DEF agent
<1>3. AgentTypeOK'
  BY <1>1, <1>2 DEF AgentTypeOK, TypeOK, Rings
<1>4. Order'
  BY <1>1, <1>2, Sizes DEF Order
<1> QED BY <1>3, <1>4

LEMMA ReceiveNextKeeps ==
    ASSUME StreamKept, NEW n \in 1..Len(agent_log), ~looping,
           ReceiveNext(SeqNumOf(n), agent_log[n]), WriteAcknack, UNCHANGED agent
    PROVE  StreamKept' /\ DeliversFront
<1> DEFINE h == SeqNumAdd(last_handled, 1)
           p == agent_log[n]
<1>1. /\ NotHandled \in Nat /\ Unconfirmed \in Nat /\ Len(agent_log) \in Nat
      /\ last_handled \in SeqNums /\ slots \in Rings /\ last_announced \in SeqNums
      /\ looping \in BOOLEAN /\ round \in {0, 1}
      /\ AgentTypeOK /\ Order /\ NotHandled <= Unconfirmed + History
  BY Positions DEF StreamKept, AgentTypeOK, TypeOK, Order
<1>2. SeqNumOf(n) \in SeqNums /\ p \in Messages
  BY <1>1, PositionOfMessage
<1>3. /\ InWindow(SeqNumOf(n)) /\ NO_FRAGMENTED(p) /\ SeqNumOf(n) = h
      /\ ReadAll(slots, h, <<p>>) /\ Announce(SeqNumOf(n)) /\ looping' = looping
  BY DEF ReceiveNext, IsNext
<1>4. n = Position(1) /\ 1 <= NotHandled
  <2>1. PICK k \in 1..History :
           /\ SeqNumOf(n) = SeqNumAdd(last_handled, k)
           /\ k <= NotHandled
           /\ n = Len(agent_log) - NotHandled + k
    BY <1>1, <1>3, InWindowMeans
  <2>2. k \in Int /\ 1 \in Int /\ k - 1 < SeqNumMidsize /\ 1 - k < SeqNumMidsize
    BY Sizes
  <2>3. SeqNumAdd(last_handled, k) = SeqNumAdd(last_handled, 1) <=> k = 1
    BY <1>1, <2>2, CmpCompares
  <2> QED BY <1>3, <2>1, <2>3 DEF Position
<1>5. Held(slots, last_handled, 1) = None
  <2>1. 1 \in 1..History
    BY Sizes
  <2> QED BY <1>3, <1>4, <2>1 DEF StreamKept, BuffersMatchStream, HeadWaits, Position
<1>6. ASSUME NEW m \in 1..History, Held(slots, h, m) # None
      PROVE  1 + m <= NotHandled /\ Held(slots, h, m) = agent_log[Position(1 + m)]
  <2>1. m < History /\ Held(slots, h, m) = Held(slots, last_handled, m + 1)
    BY <1>1, <1>5, <1>6, HeldOneOn
  <2>2. m + 1 \in 1..History /\ m + 1 = 1 + m
    BY <2>1, Sizes
  <2> QED BY <1>6, <2>1, <2>2 DEF StreamKept, BuffersMatchStream, Position
<1>7. ASSUME NEW m \in 1..History, 1 + m <= NotHandled - Unconfirmed
      PROVE  Held(slots, h, m) # None
  <2>1. m < History /\ m + 1 \in 1..NotHandled - Unconfirmed
    BY <1>1, <1>7, Sizes
  <2>2. Held(slots, h, m) = Held(slots, last_handled, m + 1)
    BY <1>1, <2>1, HeldOneOn
  <2> QED BY <2>1, <2>2 DEF StreamKept, AcknowledgedIsHeld
<1>8. <<p>> \in Seq(Messages)
  BY <1>2
<1>9. PICK r \in 0..History :
         /\ 1 + r <= NotHandled
         /\ last_handled' \in SeqNums /\ slots' \in Rings
         /\ NotHandled' = NotHandled - (1 + r) /\ Unconfirmed' = Unconfirmed
         /\ BuffersMatchStream' /\ AcknowledgedIsHeld' /\ HeadWaits'
         /\ delivered' = <<p>> \o [i \in 1..r |-> agent_log[Position(1 + i)]]
         /\ delivered' \in Seq(Messages)
         /\ r > 0 => EndsSubmessage(agent_log[Position(1 + r)])
  <2>1. 1 \in {0, 1}
    OBVIOUS
  <2> HIDE DEF p
  <2> QED BY <1>1, <1>3, <1>4, <1>6, <1>7, <1>8, <2>1, Reading
<1>10. AcknackHeld' /\ acknack' \in SeqNums
  BY <1>9, WriteAcknackKeeps
<1>11. last_announced' \in SeqNums /\ looping' \in BOOLEAN /\ round' \in {0, 1}
       /\ round' = 1 - round
  BY <1>1, <1>2, <1>3, AnnounceType DEF ReadAll
<1>12. AgentTypeOK' /\ Order'
  BY <1>1, <1>9, <1>10, <1>11, KeptWhenRead
<1>13. DeliversFront
  <2> DEFINE c == 1 + r
             more == [i \in 1..r |-> agent_log[Position(1 + i)]]
  <2>1. c \in 1..NotHandled /\ NotHandled' = NotHandled - c
    BY <1>1, <1>9
  <2>2. agent_log[Position(c)].last
    <3>1. EndsSubmessage(agent_log[Position(c)])
      BY <1>3, <1>4, <1>9 DEF EndsSubmessage
    <3>2. Position(c) \in 1..Len(agent_log)
      BY <1>1, <2>1 DEF Position, Order
    <3>3. agent_log[Position(c)] \in Messages
      BY <1>1, <3>2, ElementOfSeq DEF AgentTypeOK
    <3> QED BY <3>1, <3>3, MessagesAreSomething
  <2>3. more \in Seq(Messages) /\ Len(more) = r /\ Len(<<p>>) = 1
    <3>1. \A i \in 1..r : agent_log[Position(1 + i)] \in Messages
      <4> TAKE i \in 1..r
      <4>1. Position(1 + i) \in 1..Len(agent_log)
        BY <1>1, <1>9 DEF Position, Order
      <4> QED BY <1>1, <4>1, ElementOfSeq DEF AgentTypeOK
    <3>2. more \in [1..r -> Messages] /\ r \in Nat
      BY <3>1
    <3> HIDE DEF more
    <3>3. more \in Seq(Messages)
      BY <3>2, SeqDef
    <3> QED BY <3>2, <3>3, LenProperties
  <2>4. /\ Len(delivered') = c
        /\ \A i \in 1..c : delivered'[i] = IF i <= 1 THEN <<p>>[i] ELSE more[i - 1]
    <3> HIDE DEF more, p
    <3>1. delivered' = <<p>> \o more
      BY <1>9 DEF more
    <3>2. /\ Len(<<p>> \o more) = Len(<<p>>) + Len(more)
          /\ \A i \in 1..Len(<<p>>) + Len(more) :
                (<<p>> \o more)[i]
                   = IF i <= Len(<<p>>) THEN <<p>>[i] ELSE more[i - Len(<<p>>)]
      BY <1>8, <2>3, ConcatProperties
    <3> QED BY <2>3, <3>1, <3>2
  <2>5. ASSUME NEW i \in 1..c PROVE delivered'[i] = agent_log[Position(i)]
    <3>1. CASE i = 1
      <4>1. <<p>>[1] = p /\ p = agent_log[Position(1)]
        BY <1>4
      <4> HIDE DEF p, c, more
      <4>2. delivered'[1] = <<p>>[1]
        BY <2>4, <3>1
      <4> QED BY <3>1, <4>1, <4>2
    <3>2. CASE i > 1
      <4>1. i - 1 \in 1..r /\ 1 + (i - 1) = i
        BY <3>2
      <4>2. more[i - 1] = agent_log[Position(1 + (i - 1))]
        BY <4>1
      <4>3. delivered'[i] = more[i - 1]
        <5> HIDE DEF p, more
        <5> QED BY <2>4, <3>2
      <4> QED BY <4>1, <4>2, <4>3
    <3> QED BY <3>1, <3>2
  <2> QED BY <1>9, <1>11, <2>1, <2>2, <2>4, <2>5 DEF DeliversFront
<1> QED BY <1>9, <1>10, <1>12, <1>13 DEF StreamKept

(* Storing changes one buffer.                                               *)
LEMMA OneBufferChanges ==
    ASSUME StreamKept, NEW n \in 1..Len(agent_log)
    PROVE  LET held == [slots EXCEPT ![Slot(SeqNumOf(n))] = agent_log[n]] IN
           /\ held \in Rings
           /\ held[Slot(SeqNumOf(n))] = agent_log[n]
           /\ \A i \in Slots : i # Slot(SeqNumOf(n)) => held[i] = slots[i]
<1>1. slots \in Rings /\ agent_log[n] \in Messages /\ SeqNumOf(n) \in SeqNums
  BY Positions, PositionOfMessage DEF StreamKept
<1>2. Slot(SeqNumOf(n)) \in Slots
  BY <1>1, SlotType
<1> QED BY <1>1, <1>2 DEF Rings

(* The buffers when a message that arrives is stored.                        *)
LEMMA Stored ==
    ASSUME StreamKept, NEW n \in 1..Len(agent_log), InWindow(SeqNumOf(n)),
           NEW held \in Rings, held[Slot(SeqNumOf(n))] = agent_log[n],
           \A i \in Slots : i # Slot(SeqNumOf(n)) => held[i] = slots[i]
    PROVE  \E k \in 1..History :
              /\ SeqNumOf(n) = SeqNumAdd(last_handled, k)
              /\ k <= NotHandled /\ agent_log[n] = agent_log[Position(k)]
              /\ \A m \in 1..History :
                    Held(held, last_handled, m) # None =>
                        /\ m <= NotHandled
                        /\ Held(held, last_handled, m) = agent_log[Position(m)]
              /\ \A m \in 1..History :
                    m <= NotHandled - Unconfirmed => Held(held, last_handled, m) # None
              /\ \A m \in 1..History :
                    Held(held, last_handled, m)
                       = IF m = k THEN agent_log[Position(k)] ELSE Held(slots, last_handled, m)
              /\ agent_log[Position(k)] \in Messages
<1>1. /\ AgentTypeOK /\ Order /\ last_handled \in SeqNums /\ slots \in Rings
      /\ agent_log[n] \in Messages
  BY Positions, PositionOfMessage DEF StreamKept
<1>2. PICK k \in 1..History :
         /\ SeqNumOf(n) = SeqNumAdd(last_handled, k)
         /\ k <= NotHandled
         /\ n = Position(k)
  BY <1>1, InWindowMeans DEF Position
<1>3. /\ held[Slot(SeqNumAdd(last_handled, k))] = agent_log[Position(k)]
      /\ \A i \in Slots : i # Slot(SeqNumAdd(last_handled, k)) => held[i] = slots[i]
  BY <1>2
<1>4. /\ \A m \in 1..History :
            Held(held, last_handled, m) # None =>
                /\ m <= NotHandled
                /\ Held(held, last_handled, m) = agent_log[Position(m)]
      /\ \A m \in 1..History :
            m <= NotHandled - Unconfirmed => Held(held, last_handled, m) # None
      /\ \A m \in 1..History :
            Held(held, last_handled, m)
               = IF m = k THEN agent_log[Position(k)] ELSE Held(slots, last_handled, m)
      /\ agent_log[Position(k)] \in Messages
  BY <1>2, <1>3, StoredMatches
<1> QED BY <1>2, <1>4

LEMMA StoringKeeps ==
    ASSUME StreamKept, NEW n \in 1..Len(agent_log), InWindow(SeqNumOf(n)),
           slots[Slot(SeqNumOf(n))] = None, ~IsNext(SeqNumOf(n), agent_log[n]),
           slots' \in Rings, slots'[Slot(SeqNumOf(n))] = agent_log[n],
           \A i \in Slots : i # Slot(SeqNumOf(n)) => slots'[i] = slots[i],
           UNCHANGED <<last_handled, delivered, round>>, UNCHANGED agent,
           last_announced' \in SeqNums, looping' \in BOOLEAN,
           WriteAcknack \/ UNCHANGED acknack
    PROVE  StreamKept' /\ DeliversNothing
<1>1. /\ NotHandled \in Nat /\ Unconfirmed \in Nat /\ Len(agent_log) \in Nat
      /\ last_handled \in SeqNums /\ slots \in Rings
      /\ delivered \in Seq(Messages) /\ round \in {0, 1}
      /\ acknack \in SeqNums \cup {NoAck}
  BY Positions DEF StreamKept, AgentTypeOK, TypeOK
<1>2. PICK k \in 1..History :
         /\ SeqNumOf(n) = SeqNumAdd(last_handled, k)
         /\ k <= NotHandled /\ agent_log[n] = agent_log[Position(k)]
         /\ \A m \in 1..History :
               Held(slots', last_handled, m) # None =>
                   /\ m <= NotHandled
                   /\ Held(slots', last_handled, m) = agent_log[Position(m)]
         /\ \A m \in 1..History :
               m <= NotHandled - Unconfirmed => Held(slots', last_handled, m) # None
         /\ \A m \in 1..History :
               Held(slots', last_handled, m)
                  = IF m = k THEN agent_log[Position(k)] ELSE Held(slots, last_handled, m)
         /\ agent_log[Position(k)] \in Messages
  BY Stored
<1>3. /\ agent_log' = agent_log /\ agent_last' = agent_last /\ agent_acked' = agent_acked
      /\ NotHandled' = NotHandled /\ Unconfirmed' = Unconfirmed
      /\ last_handled' = last_handled /\ delivered' = delivered /\ round' = round
  BY DEF agent, NotHandled, Unconfirmed
<1>4. BuffersMatchStream'
  BY <1>2, <1>3 DEF BuffersMatchStream, Position
<1>5. AcknowledgedIsHeld'
  <2> SUFFICES ASSUME NEW m \in 1..NotHandled - Unconfirmed
               PROVE  Held(slots', last_handled, m) # None
    BY <1>3 DEF AcknowledgedIsHeld
  <2>1. m \in 1..History /\ m <= NotHandled - Unconfirmed
    BY <1>1, Sizes DEF StreamKept, Order
  <2> QED BY <1>2, <2>1
<1>6. HeadWaits'
  <2>1. 1 \in 1..History
    BY Sizes
  <2>2. CASE k = 1
    <3>1. ~NO_FRAGMENTED(agent_log[Position(k)])
      BY <1>2, <2>2 DEF IsNext
    <3> QED BY <1>2, <1>3, <2>1, <2>2, <3>1 DEF HeadWaits
  <2>3. CASE k # 1
    BY <1>2, <1>3, <2>1, <2>3 DEF HeadWaits, StreamKept
  <2> QED BY <2>2, <2>3
<1>7. AcknackHeld' /\ acknack' \in SeqNums \cup {NoAck}
  <2>1. CASE WriteAcknack
    BY <1>1, <1>3, <2>1, WriteAcknackKeeps
  <2>2. CASE UNCHANGED acknack
    <3> SUFFICES ASSUME acknack # NoAck
                 PROVE  \E i \in 0..History :
                           /\ acknack = SeqNumAdd(last_handled, i)
                           /\ \A m \in 1..i - 1 : Held(slots', last_handled, m) # None
      BY <1>1, <1>3, <2>2 DEF AcknackHeld
    <3>1. PICK i \in 0..History :
             /\ acknack = SeqNumAdd(last_handled, i)
             /\ \A m \in 1..i - 1 : Held(slots, last_handled, m) # None
      BY DEF StreamKept, AcknackHeld
    <3>2. agent_log[Position(k)] # None
      BY <1>2, MessagesAreSomething
    <3>3. ASSUME NEW m \in 1..i - 1 PROVE Held(slots', last_handled, m) # None
      <4>1. m \in 1..History
        BY Sizes
      <4> QED BY <1>2, <3>1, <3>2, <4>1
    <3> QED BY <3>1, <3>3
  <2> QED BY <2>1, <2>2
<1>8. AgentTypeOK' /\ Order'
  <2>1. 0 \in Nat /\ 0 <= NotHandled /\ NotHandled' = NotHandled - 0
    BY <1>1, <1>3
  <2> QED BY <1>1, <1>2, <1>3, <1>7, <2>1, KeptWhenRead
<1> QED BY <1>3, <1>4, <1>5, <1>6, <1>7, <1>8 DEF StreamKept, DeliversNothing

LEMMA ReceiveAndCompleteKeeps ==
    ASSUME StreamKept, NEW n \in 1..Len(agent_log), ~looping,
           ReceiveAndComplete(SeqNumOf(n), agent_log[n]), WriteAcknack, UNCHANGED agent
    PROVE  StreamKept' /\ DeliversFront
<1> DEFINE held == [slots EXCEPT ![Slot(SeqNumOf(n))] = agent_log[n]]
<1>1. /\ NotHandled \in Nat /\ Unconfirmed \in Nat /\ Len(agent_log) \in Nat
      /\ last_handled \in SeqNums /\ last_announced \in SeqNums
      /\ looping \in BOOLEAN /\ round \in {0, 1}
      /\ AgentTypeOK /\ Order /\ agent_log \in Seq(Messages)
  BY Positions DEF StreamKept, AgentTypeOK, TypeOK
<1>2. /\ InWindow(SeqNumOf(n)) /\ LastFragmentFound(held)
      /\ ReadAll(held, last_handled, <<>>) /\ Announce(SeqNumOf(n)) /\ looping' = looping
  BY DEF ReceiveAndComplete
<1>3. /\ held \in Rings
      /\ held[Slot(SeqNumOf(n))] = agent_log[n]
      /\ \A i \in Slots : i # Slot(SeqNumOf(n)) => held[i] = slots[i]
  BY OneBufferChanges
<1> HIDE DEF held
<1>4. /\ \A m \in 1..History :
            Held(held, last_handled, m) # None =>
                /\ m <= NotHandled
                /\ Held(held, last_handled, m) = agent_log[Position(m)]
      /\ \A m \in 1..History :
            m <= NotHandled - Unconfirmed => Held(held, last_handled, m) # None
  BY <1>2, <1>3, Stored
<1>5. SeqNumAdd(last_handled, 0) = last_handled
  BY <1>1, AddNothing
<1>6. PICK r \in 0..History :
         /\ r = AllReadable(held, last_handled)
         /\ 0 + r <= NotHandled
         /\ last_handled' \in SeqNums /\ slots' \in Rings
         /\ NotHandled' = NotHandled - (0 + r) /\ Unconfirmed' = Unconfirmed
         /\ BuffersMatchStream' /\ AcknowledgedIsHeld' /\ HeadWaits'
         /\ delivered' = <<>> \o [i \in 1..r |-> agent_log[Position(0 + i)]]
         /\ delivered' \in Seq(Messages)
         /\ r > 0 => EndsSubmessage(agent_log[Position(0 + r)])
  <2>1. 0 \in {0, 1} /\ 0 <= NotHandled /\ <<>> \in Seq(Messages)
    BY <1>1
  <2>2. \A m \in 1..History :
           Held(held, SeqNumAdd(last_handled, 0), m) # None =>
               /\ 0 + m <= NotHandled
               /\ Held(held, SeqNumAdd(last_handled, 0), m) = agent_log[Position(0 + m)]
    BY <1>4, <1>5
  <2>3. \A m \in 1..History :
           0 + m <= NotHandled - Unconfirmed =>
               Held(held, SeqNumAdd(last_handled, 0), m) # None
    BY <1>4, <1>5
  <2>4. ReadAll(held, SeqNumAdd(last_handled, 0), <<>>)
    BY <1>2, <1>5
  <2>5. \E r \in 0..History :
         /\ r = AllReadable(held, SeqNumAdd(last_handled, 0))
         /\ 0 + r <= NotHandled
         /\ last_handled' \in SeqNums /\ slots' \in Rings
         /\ NotHandled' = NotHandled - (0 + r) /\ Unconfirmed' = Unconfirmed
         /\ BuffersMatchStream' /\ AcknowledgedIsHeld' /\ HeadWaits'
         /\ delivered' = <<>> \o [i \in 1..r |-> agent_log[Position(0 + i)]]
         /\ delivered' \in Seq(Messages)
         /\ r > 0 => EndsSubmessage(agent_log[Position(0 + r)])
    BY <1>1, <1>3, <2>1, <2>2, <2>3, <2>4, Reading
  <2> QED BY <1>5, <2>5
<1>7. AcknackHeld' /\ acknack' \in SeqNums
  BY <1>6, WriteAcknackKeeps
<1>8. /\ last_announced' \in SeqNums /\ looping' \in BOOLEAN /\ round' \in {0, 1}
      /\ round' = 1 - round
  BY <1>1, <1>2, PositionOfMessage, AnnounceType DEF ReadAll
<1>9. r \in Nat /\ r <= NotHandled /\ NotHandled' = NotHandled - r
  BY <1>1, <1>6
<1>10. AgentTypeOK' /\ Order'
  BY <1>6, <1>7, <1>8, <1>9, KeptWhenRead
<1>11. r >= 1
  <2>1. PICK k \in 1..History :
           /\ LAST_FRAGMENT(Held(held, last_handled, k))
           /\ \A i \in 1..k - 1 : INTERMEDIATE_FRAGMENT(Held(held, last_handled, i))
    BY <1>2 DEF LastFragmentFound
  <2> QED BY <1>6, <2>1, CompleteIsRead
<1>12. ASSUME NEW i \in 1..r PROVE agent_log[Position(i)] \in Messages
  <2>1. Position(i) \in 1..Len(agent_log)
    BY <1>1, <1>9 DEF Position, Order
  <2> QED BY <1>1, <2>1, ElementOfSeq
<1>13. DeliversFront
  <2> DEFINE read == [i \in 1..r |-> agent_log[Position(i)]]
  <2>1. read \in [1..r -> Messages]
    BY <1>12
  <2>2. [i \in 1..r |-> agent_log[Position(0 + i)]] = read
    <3>1. \A i \in 1..r : 0 + i = i
      OBVIOUS
    <3> QED BY <3>1
  <2>3. delivered' = <<>> \o read
    BY <1>6, <2>2
  <2>4. \A i \in 1..r : read[i] = agent_log[Position(i)]
    OBVIOUS
  <2> HIDE DEF read
  <2>5. read \in Seq(Messages) /\ Len(read) = r
    <3>1. read \in Seq(Messages)
      BY <1>9, <2>1, SeqDef
    <3> QED BY <1>9, <2>1, <3>1, LenProperties
  <2>6. delivered' = read
    BY <2>3, <2>5, ConcatEmptySeq
  <2>7. r \in 1..NotHandled /\ r \in 1..r
    BY <1>1, <1>9, <1>11
  <2>8. agent_log[Position(r)].last
    <3>1. EndsSubmessage(agent_log[Position(r)])
      BY <1>6, <1>9, <1>11
    <3> QED BY <1>12, <2>7, <3>1, MessagesAreSomething
  <2> QED BY <1>8, <1>9, <2>4, <2>5, <2>6, <2>7, <2>8 DEF DeliversFront
<1> QED BY <1>6, <1>7, <1>10, <1>13 DEF StreamKept

(* A step that changes no buffer and no cursor but last_announced.           *)
LEMMA NothingReadKeeps ==
    ASSUME StreamKept, UNCHANGED <<last_handled, slots, looping, delivered, round>>,
           UNCHANGED agent, last_announced' \in SeqNums, WriteAcknack \/ UNCHANGED acknack
    PROVE  StreamKept' /\ DeliversNothing
<1>1. /\ NotHandled \in Nat /\ last_handled \in SeqNums /\ slots \in Rings
      /\ delivered \in Seq(Messages) /\ round \in {0, 1} /\ looping \in BOOLEAN
      /\ acknack \in SeqNums \cup {NoAck}
  BY Positions DEF StreamKept, AgentTypeOK, TypeOK
<1>2. /\ agent_log' = agent_log /\ agent_last' = agent_last /\ agent_acked' = agent_acked
      /\ NotHandled' = NotHandled /\ Unconfirmed' = Unconfirmed
  BY DEF agent, NotHandled, Unconfirmed
<1>3. BuffersMatchStream' /\ AcknowledgedIsHeld' /\ HeadWaits'
  BY <1>2 DEF StreamKept, BuffersMatchStream, AcknowledgedIsHeld, HeadWaits, Held
<1>4. AcknackHeld' /\ acknack' \in SeqNums \cup {NoAck}
  <2>1. CASE WriteAcknack
    BY <1>1, <2>1, WriteAcknackKeeps
  <2>2. CASE UNCHANGED acknack
    BY <1>1, <2>2 DEF StreamKept, AcknackHeld, Held
  <2> QED BY <2>1, <2>2
<1>5. AgentTypeOK' /\ Order'
  <2>1. 0 \in Nat /\ 0 <= NotHandled /\ NotHandled' = NotHandled - 0
    BY <1>1, <1>2
  <2> QED BY <1>1, <1>2, <1>4, <2>1, KeptWhenRead
<1> QED BY <1>2, <1>3, <1>4, <1>5 DEF StreamKept, DeliversNothing

LEMMA DataKeeps ==
    ASSUME StreamKept, NEW n \in 1..Len(agent_log), DataArrives(n)
    PROVE  StreamKept' /\ (DeliversFront \/ DeliversNothing)
<1> DEFINE s == SeqNumOf(n)
           p == agent_log[n]
<1>1. /\ ~looping /\ UNCHANGED agent
      /\ IF looping' THEN UNCHANGED acknack ELSE WriteAcknack
  BY DEF DataArrives, Receive
<1>2. last_announced \in SeqNums /\ looping \in BOOLEAN /\ s \in SeqNums
  BY PositionOfMessage DEF StreamKept, AgentTypeOK, TypeOK
<1>3. CASE ReceiveNext(s, p)
  <2>1. ~looping'
    BY <1>1, <1>3 DEF ReceiveNext
  <2> QED BY <1>1, <1>3, <2>1, ReceiveNextKeeps
<1>4. CASE ReceiveAndStore(s, p)
  <2>1. /\ InWindow(s) /\ ~IsNext(s, p) /\ slots[Slot(s)] = None
        /\ slots' = [slots EXCEPT ![Slot(s)] = p]
        /\ Announce(s)
        /\ UNCHANGED <<last_handled, looping, delivered, round>>
    BY <1>4 DEF ReceiveAndStore
  <2>2. /\ slots' \in Rings /\ slots'[Slot(s)] = p
        /\ \A i \in Slots : i # Slot(s) => slots'[i] = slots[i]
    BY <2>1, OneBufferChanges
  <2>3. last_announced' \in SeqNums
    BY <1>2, <2>1, AnnounceType
  <2>4. UNCHANGED <<last_handled, delivered, round>> /\ looping' \in BOOLEAN
    BY <1>2, <2>1
  <2>5. WriteAcknack
    BY <1>1, <2>1
  <2>6. InWindow(s) /\ ~IsNext(s, p) /\ slots[Slot(s)] = None
    BY <2>1
  <2> QED BY <1>1, <2>2, <2>3, <2>4, <2>5, <2>6, StoringKeeps
<1>5. CASE ReceiveAndComplete(s, p)
  <2>1. ~looping'
    BY <1>1, <1>5 DEF ReceiveAndComplete
  <2> QED BY <1>1, <1>5, <2>1, ReceiveAndCompleteKeeps
<1>6. CASE ReceiveAndLoop(s, p)
  <2>1. /\ InWindow(s) /\ ~NO_FRAGMENTED(p) /\ slots[Slot(s)] = None
        /\ slots' = [slots EXCEPT ![Slot(s)] = p]
        /\ looping' = TRUE
        /\ UNCHANGED <<last_handled, last_announced, delivered, round>>
    BY <1>6 DEF ReceiveAndLoop
  <2>2. /\ slots' \in Rings /\ slots'[Slot(s)] = p
        /\ \A i \in Slots : i # Slot(s) => slots'[i] = slots[i]
    BY <2>1, OneBufferChanges
  <2>3. last_announced' \in SeqNums /\ looping' \in BOOLEAN /\ ~IsNext(s, p)
    BY <1>2, <2>1 DEF IsNext
  <2>4. UNCHANGED <<last_handled, delivered, round>> /\ UNCHANGED acknack
    BY <1>1, <2>1
  <2>5. InWindow(s) /\ slots[Slot(s)] = None
    BY <2>1
  <2> QED BY <1>1, <2>2, <2>3, <2>4, <2>5, StoringKeeps
<1>7. CASE ReceiveAndIgnore(s, p)
  <2>1. Announce(s) /\ UNCHANGED <<last_handled, slots, looping, delivered, round>>
    BY <1>7 DEF ReceiveAndIgnore
  <2>2. last_announced' \in SeqNums /\ WriteAcknack
    BY <1>1, <1>2, <2>1, AnnounceType
  <2> QED BY <1>1, <2>1, <2>2, NothingReadKeeps
<1> QED BY <1>3, <1>4, <1>5, <1>6, <1>7 DEF DataArrives, Receive

LEMMA HeartbeatKeeps ==
    ASSUME StreamKept, NEW n \in 1..Len(agent_log), HeartbeatArrives(n)
    PROVE  StreamKept' /\ DeliversNothing
<1>1. /\ Announce(SeqNumOf(n)) /\ WriteAcknack /\ UNCHANGED agent
      /\ UNCHANGED <<last_handled, slots, looping, delivered, round>>
  BY DEF HeartbeatArrives, ProcessHeartbeat
<1>2. last_announced' \in SeqNums
  BY <1>1, PositionOfMessage, AnnounceType DEF StreamKept, AgentTypeOK, TypeOK
<1> QED BY <1>1, <1>2, NothingReadKeeps

(* An acknack confirms at most what precedes the first gap.                  *)
LEMMA AcknackKeeps ==
    ASSUME StreamKept, AgentHandlesAcknack
    PROVE  StreamKept' /\ DeliversNothing
<1>1. /\ NotHandled \in Nat /\ Unconfirmed \in Nat /\ Len(agent_log) \in Nat
      /\ last_handled \in SeqNums
      /\ agent_last = SeqNumAdd(last_handled, NotHandled)
      /\ agent_acked = SeqNumAdd(last_handled, NotHandled - Unconfirmed)
      /\ AgentTypeOK /\ Order
  BY Positions DEF StreamKept
<1>2. /\ acknack # NoAck
      /\ SeqNumSub(acknack, SeqNumAdd(agent_acked, 1)) \in 1..Unconfirmed
      /\ agent_acked' = SeqNumSub(acknack, 1)
      /\ UNCHANGED vars /\ agent_log' = agent_log /\ agent_last' = agent_last
      /\ acknack' = acknack
  BY DEF AgentHandlesAcknack
<1>3. UNCHANGED <<last_handled, last_announced, slots, looping, delivered, round>>
  BY <1>2 DEF vars
<1>4. PICK j \in 0..History :
         /\ acknack = SeqNumAdd(last_handled, j)
         /\ \A m \in 1..j - 1 : Held(slots, last_handled, m) # None
  BY <1>2 DEF StreamKept, AcknackHeld
<1> DEFINE acked == NotHandled - Unconfirmed
           d == j - (acked + 1)
<1>5. acked \in Int /\ acked + 1 \in Int /\ j \in Int /\ d \in Int
  BY <1>1
<1>6. SeqNumAdd(agent_acked, 1) = SeqNumAdd(last_handled, acked + 1)
  BY <1>1, <1>5, AddTwice
<1>7. d \in 1..Unconfirmed
  <2>1. d <= AgentWindow + History /\ -d <= History + 1
    BY <1>1, Sizes DEF Order
  <2> HIDE DEF acked
  <2>2. CASE d >= 0
    <3>1. acked + 1 <= j /\ j - (acked + 1) < SeqNumSize
      BY <1>5, <2>1, <2>2, Sizes
    <3>2. SeqNumSub(acknack, SeqNumAdd(agent_acked, 1)) = d
      BY <1>1, <1>4, <1>5, <1>6, <3>1, SubMeasures
    <3> QED BY <1>2, <3>2
  <2>3. CASE d < 0
    <3>1. j < acked + 1 /\ acked + 1 - j <= SeqNumSize
      BY <1>5, <2>1, <2>3, Sizes
    <3>2. SeqNumSub(SeqNumAdd(last_handled, j), SeqNumAdd(last_handled, acked + 1))
             = j - (acked + 1) + SeqNumSize
      BY <1>1, <1>5, <3>1, SubWraps
    <3>3. SeqNumSub(acknack, SeqNumAdd(agent_acked, 1)) = j - (acked + 1) + SeqNumSize
      BY <1>4, <1>6, <3>2
    <3>4. j - (acked + 1) + SeqNumSize > AgentWindow
      BY <1>5, <2>1, <2>3, Sizes
    <3>5. Unconfirmed <= AgentWindow
      BY <1>1 DEF Order
    <3> QED BY <1>1, <1>2, <3>3, <3>4, <3>5, Sizes
  <2> QED BY <1>5, <2>2, <2>3
<1>8. agent_acked' = SeqNumAdd(last_handled, j - 1)
  <2>1. 1 \in 0..SeqNumSize - 1
    BY Sizes
  <2> QED BY <1>1, <1>2, <1>4, <1>5, <2>1, SubGoesBack
<1>9. Unconfirmed' = NotHandled - (j - 1)
  <2>1. j - 1 \in Int /\ j - 1 <= NotHandled /\ NotHandled - (j - 1) < SeqNumSize
    BY <1>1, <1>5, <1>7, Sizes DEF Order
  <2> QED BY <1>1, <1>2, <1>8, <2>1, SubMeasures DEF Unconfirmed
<1>10. NotHandled' = NotHandled
  BY <1>2, <1>3 DEF NotHandled
<1>11. AgentTypeOK'
  <2>1. agent_acked' \in SeqNums
    BY <1>1, <1>5, <1>8, AddType
  <2> QED BY <1>1, <1>2, <1>3, <2>1 DEF AgentTypeOK, TypeOK
<1>12. Order'
  BY <1>1, <1>2, <1>5, <1>7, <1>9, <1>10, Sizes DEF Order
<1>13. AcknowledgedIsHeld'
  <2>1. NotHandled' - Unconfirmed' = j - 1
    BY <1>1, <1>5, <1>9, <1>10
  <2> QED BY <1>3, <1>4, <2>1 DEF AcknowledgedIsHeld, Held
<1>14. BuffersMatchStream' /\ HeadWaits' /\ AcknackHeld'
  BY <1>2, <1>3, <1>10 DEF StreamKept, BuffersMatchStream, HeadWaits, AcknackHeld, Held
<1> QED BY <1>3, <1>10, <1>11, <1>12, <1>13, <1>14 DEF StreamKept, DeliversNothing

(***************************************************************************)
(* The theorems.                                                           *)
(***************************************************************************)
LEMMA InitialDistances ==
    ASSUME AgentInit
    PROVE  /\ NotHandled = 0 /\ Unconfirmed = 0 /\ Len(agent_log) = 0
           /\ \A n \in 1..History : Held(slots, last_handled, n) = None
<1>1. /\ last_handled = SeqNumMax /\ agent_last = SeqNumMax /\ agent_acked = SeqNumMax
      /\ agent_log = <<>> /\ slots = [i \in Slots |-> None]
  BY DEF AgentInit, Init
<1>2. SeqNumMax \in SeqNums
  BY Sizes DEF SeqNums
<1>3. SeqNumSub(SeqNumMax, SeqNumMax) = 0
  BY Sizes DEF SeqNumSub
<1>4. \A n \in 1..History : Slot(SeqNumAdd(last_handled, n)) \in Slots
  BY <1>1, <1>2, AddType, SlotType
<1> QED BY <1>1, <1>3, <1>4 DEF NotHandled, Unconfirmed, Held

LEMMA KeptInitially == AgentInit => StreamKept
<1> SUFFICES ASSUME AgentInit PROVE StreamKept
  OBVIOUS
<1>1. /\ NotHandled = 0 /\ Unconfirmed = 0 /\ Len(agent_log) = 0
      /\ \A n \in 1..History : Held(slots, last_handled, n) = None
  BY InitialDistances
<1>2. AgentTypeOK
  <2>1. SeqNumMax \in SeqNums
    BY Sizes DEF SeqNums
  <2>2. /\ last_handled \in SeqNums /\ last_announced \in SeqNums
        /\ agent_last \in SeqNums /\ agent_acked \in SeqNums
        /\ looping \in BOOLEAN /\ round \in {0, 1} /\ acknack = NoAck
    BY <2>1 DEF AgentInit, Init
  <2>3. slots \in [Slots -> Messages \cup {None}]
    BY DEF AgentInit, Init
  <2>4. delivered \in Seq(Messages) /\ agent_log \in Seq(Messages)
    BY EmptySeq DEF AgentInit, Init
  <2> QED BY <2>2, <2>3, <2>4 DEF AgentTypeOK, TypeOK
<1>3. Order
  BY <1>1, Sizes DEF Order
<1>4. BuffersMatchStream /\ AcknowledgedIsHeld /\ HeadWaits /\ AcknackHeld
  BY <1>1, Sizes DEF AgentInit, BuffersMatchStream, AcknowledgedIsHeld, HeadWaits,
                     NO_FRAGMENTED, AcknackHeld
<1> QED BY <1>2, <1>3, <1>4 DEF StreamKept

LEMMA KeptByStep == StreamKept /\ [AgentNext]_agentVars => StreamKept'
<1> SUFFICES ASSUME StreamKept, [AgentNext]_agentVars PROVE StreamKept'
  OBVIOUS
<1>1. ASSUME NEW p \in Messages, AgentSend(p) PROVE StreamKept'
  BY <1>1, SendKeeps
<1>2. ASSUME NEW n \in 1..Len(agent_log), DataArrives(n) PROVE StreamKept'
  BY <1>2, DataKeeps
<1>3. ASSUME NEW n \in 1..Len(agent_log), HeartbeatArrives(n) PROVE StreamKept'
  BY <1>3, HeartbeatKeeps
<1>4. CASE AgentHandlesAcknack
  BY <1>4, AcknackKeeps
<1>5. CASE UNCHANGED agentVars
  BY <1>5, NothingReadKeeps DEF agentVars, vars, agent, StreamKept, AgentTypeOK, TypeOK
<1> QED BY <1>1, <1>2, <1>3, <1>4, <1>5 DEF AgentNext

(* What an input stream of the Client holds, and what the Agent may forget,  *)
(* stays consistent however datagrams are lost, repeated and reordered.      *)
THEOREM StreamInvariant == AgentSpec => []StreamKept
<1>1. AgentInit => StreamKept
  BY KeptInitially
<1>2. StreamKept /\ [AgentNext]_agentVars => StreamKept'
  BY KeptByStep
<1> QED BY <1>1, <1>2, PTL DEF AgentSpec

(* The variables of the stream and of the Agent keep their types.            *)
THEOREM StreamTypeCorrect == AgentSpec => []AgentTypeOK
<1>1. StreamKept => AgentTypeOK
  BY DEF StreamKept
<1> QED BY <1>1, StreamInvariant, PTL

(* A buffer never holds a message of an earlier lap or one that was read.    *)
THEOREM NoLeftovers == AgentSpec => []BuffersMatchStream
<1>1. StreamKept => BuffersMatchStream
  BY DEF StreamKept
<1> QED BY <1>1, StreamInvariant, PTL

(* No acknack makes the Agent forget a message the Client does not have.     *)
THEOREM NothingForgotten == AgentSpec => []AcknowledgedIsHeld
<1>1. StreamKept => AcknowledgedIsHeld
  BY DEF StreamKept
<1> QED BY <1>1, StreamInvariant, PTL

(* The nack bitmap of an acknack asks for exactly the announced messages     *)
(* that are missing, when it has a bit for every buffer.                     *)
THEOREM NacksExact ==
    ASSUME History <= BitmapWidth
    PROVE  AgentSpec => []NackIsExact
<1>1. ASSUME StreamKept PROVE NackIsExact
  <2> DEFINE far == SeqNumSub(last_announced, last_handled)
             g == CHOOSE n \in Gaps : \A m \in Gaps : n <= m
  <2>1. last_handled \in SeqNums /\ last_announced \in SeqNums
    BY <1>1 DEF StreamKept, AgentTypeOK, TypeOK
  <2>2. /\ far \in 0..SeqNumSize - 1
        /\ last_announced = SeqNumAdd(last_handled, far)
    BY <2>1, SeqNumSubType, AddOfSub, Sizes DEF SeqNums
  <2> HIDE DEF far
  <2> SUFFICES ASSUME NEW n \in 1..far, NEW i,
                      i = SeqNumSub(SeqNumAdd(last_handled, n), FirstUnacked),
                      n <= History, i < SeqNumMidsize
               PROVE  i \in NackBitmap <=> Held(slots, last_handled, n) = None
    BY DEF NackIsExact, far
  <2>3. n \in 1..History /\ n \in Int
    BY Sizes
  <2>4. CASE Gaps = {}
    <3>1. FirstUnacked = last_handled
      BY <2>4 DEF FirstUnacked
    <3>2. Held(slots, last_handled, n) # None
      BY <2>3, <2>4 DEF Gaps
    <3>3. i = n
      <4>1. n \in Nat /\ n < SeqNumSize
        BY <2>2, <2>3, Sizes
      <4> QED BY <2>1, <3>1, <4>1, SubOfAdd
    <3> QED BY <3>1, <3>2, <3>3 DEF NackBitmap, Held
  <2>5. CASE Gaps # {}
    <3>1. FirstUnacked = SeqNumAdd(last_handled, g)
      BY <2>5 DEF FirstUnacked
    <3>2. /\ g \in 1..History
          /\ \A m \in 1..g - 1 : Held(slots, last_handled, m) # None
      <4>1. \E k \in 1..History :
               /\ k = g
               /\ Held(slots, last_handled, k) = None
               /\ \A m \in 1..k - 1 : Held(slots, last_handled, m) # None
        BY <2>5, FirstGap DEF Gaps
      <4> HIDE DEF g
      <4> QED BY <4>1
    <3> HIDE DEF g
    <3>3. g <= n
      <4> SUFFICES ASSUME n < g PROVE FALSE
        BY <2>3, <3>2
      <4>1. g - n <= SeqNumSize /\ g \in Int
        BY <2>3, <3>2, Sizes
      <4>2. i = n - g + SeqNumSize
        BY <2>1, <2>3, <3>1, <4>1, SubWraps
      <4> QED BY <2>3, <3>2, <4>2, Sizes
    <3>4. i = n - g
      <4>1. g \in Int /\ n - g < SeqNumSize
        BY <2>3, <3>2, Sizes
      <4> QED BY <2>1, <2>3, <3>1, <3>3, <4>1, SubMeasures
    <3>5. SeqNumAdd(FirstUnacked, i) = SeqNumAdd(last_handled, n)
      <4>1. g \in Int /\ n - g \in Int /\ g + (n - g) = n
        BY <2>3, <3>2
      <4> QED BY <2>1, <3>1, <3>4, <4>1, AddTwice
    <3>6. BuffersToAck = far - (g - 1)
      <4>1. g \in Int /\ far \in Int /\ g - 1 \in Int /\ 1 \in 0..SeqNumSize - 1
        BY <2>2, <3>2, Sizes
      <4>2. SeqNumSub(FirstUnacked, 1) = SeqNumAdd(last_handled, g - 1)
        BY <2>1, <3>1, <4>1, SubGoesBack
      <4>3. g - 1 <= far /\ far - (g - 1) < SeqNumSize
        BY <2>2, <2>3, <3>2, <3>3, Sizes
      <4> QED BY <2>1, <2>2, <4>1, <4>2, <4>3, SubMeasures DEF BuffersToAck
    <3>7. i \in 0..BuffersToAck - 1 /\ i < BitmapWidth
      BY <2>2, <2>3, <3>2, <3>3, <3>4, <3>6, Sizes
    <3> QED BY <3>5, <3>7 DEF NackBitmap, Held
  <2> QED BY <2>4, <2>5
<1> QED BY <1>1, StreamInvariant, PTL

(***************************************************************************)
(* check_last_fragment: a run of intermediate fragments cannot fill the    *)
(* ring when no submessage has more fragments than the ring has buffers,   *)
(* for the fragments that follow each other are numbered one by one.       *)
(***************************************************************************)
FragmentsNumbered ==
    /\ \A j \in 1..Len(agent_log) : ~agent_log[j].last => agent_log[j].part < MaxFragments
    /\ \A i, j \in 1..Len(agent_log) :
          i <= j /\ (\A k \in i..j - 1 : ~agent_log[k].last)
             => agent_log[j].part >= agent_log[i].part + (j - i)

LEMMA SendNumbers ==
    ASSUME StreamKept, FragmentsNumbered, MaxFragments >= 2,
           NEW p \in Messages, AgentSend(p)
    PROVE  FragmentsNumbered'
<1> DEFINE L == Len(agent_log)
           M == Len(agent_log')
<1>1. AgentTypeOK /\ Order /\ L \in Nat /\ NotHandled \in Nat
      /\ agent_log \in Seq(Messages) /\ MayFollow(p)
  BY Positions DEF StreamKept, AgentTypeOK, AgentSend
<1>2. PICK cut \in {0, 1} :
         /\ cut <= L - NotHandled
         /\ agent_log' \in Seq(Messages)
         /\ M = L + 1 - cut
         /\ \A k \in 1..L - cut : agent_log'[k] = agent_log[k + cut]
         /\ agent_log'[M] = p
  BY <1>1, LogWhenSent
<1>3. \A k \in 1..L : /\ agent_log[k].part \in Nat /\ agent_log[k].last \in BOOLEAN
  BY <1>1, ElementOfSeq, MessagesAssumption
<1>4. p.part \in Nat /\ p.last \in BOOLEAN /\ (p.part = 0 => p.last)
  BY MessagesAssumption
<1>5. M - 1 \in Nat /\ M \in 1..M /\ M - 1 = L - cut
  BY <1>1, <1>2
(* The last message of the log and the one that follows it.                  *)
<1>6. ASSUME L > 0, ~agent_log[L].last
      PROVE  /\ p.part = agent_log[L].part + 1
             /\ agent_log[L].part < MaxFragments
             /\ p.part = MaxFragments => p.last
  <2>1. agent_log # <<>> /\ L \in 1..L
    BY <1>1, <1>6, EmptySeq
  <2> QED BY <1>6, <2>1, <1>1 DEF MayFollow, FragmentsNumbered
<1>7. ~p.last => p.part < MaxFragments
  <2>1. CASE L > 0 /\ ~agent_log[L].last
    <3>1. L \in 1..L
      BY <1>1, <2>1
    <3> QED BY <1>3, <1>4, <1>6, <2>1, <3>1, Sizes
  <2>2. CASE ~(L > 0 /\ ~agent_log[L].last)
    <3>1. agent_log = <<>> \/ agent_log[L].last
      BY <1>1, <2>2, EmptySeq
    <3>2. p.part = 0 \/ (p.part = 1 /\ ~p.last)
      BY <1>1, <3>1 DEF MayFollow
    <3> QED BY <1>4, <3>2, Sizes
  <2> QED BY <2>1, <2>2
<1>8. ASSUME NEW j \in 1..M, ~agent_log'[j].last PROVE agent_log'[j].part < MaxFragments
  <2>1. CASE j = M
    BY <1>2, <1>7, <1>8, <2>1
  <2>2. CASE j < M
    <3>1. j \in 1..L - cut /\ j + cut \in 1..L
      BY <1>1, <1>5, <2>2
    <3> QED BY <1>2, <1>8, <3>1 DEF FragmentsNumbered
  <2> QED BY <1>5, <2>1, <2>2
<1>9. ASSUME NEW i \in 1..M, NEW j \in 1..M, i <= j,
             \A k \in i..j - 1 : ~agent_log'[k].last
      PROVE  agent_log'[j].part >= agent_log'[i].part + (j - i)
  <2>1. CASE j < M
    <3>1. /\ i \in 1..L - cut /\ i + cut \in 1..L
          /\ j \in 1..L - cut /\ j + cut \in 1..L /\ i + cut <= j + cut
          /\ (j + cut) - (i + cut) = j - i
      BY <1>1, <1>5, <1>9, <2>1
    <3>2. ASSUME NEW k \in i + cut..(j + cut) - 1 PROVE ~agent_log[k].last
      <4>1. k - cut \in i..j - 1 /\ k - cut \in 1..L - cut /\ (k - cut) + cut = k
        BY <1>1, <3>1
      <4>2. agent_log'[k - cut] = agent_log[(k - cut) + cut]
        BY <1>2, <4>1
      <4> QED BY <1>9, <4>1, <4>2
    <3>3. agent_log[j + cut].part >= agent_log[i + cut].part + ((j + cut) - (i + cut))
      BY <3>1, <3>2 DEF FragmentsNumbered
    <3> QED BY <1>2, <3>1, <3>3
  <2>2. CASE j = M /\ i = M
    BY <1>2, <1>4, <2>2, <1>5
  <2>3. CASE j = M /\ i < M
    <3>1. /\ M - 1 \in i..j - 1 /\ M - 1 \in 1..L - cut /\ (M - 1) + cut = L
          /\ i \in 1..L - cut /\ i + cut \in 1..L /\ L \in 1..L /\ i + cut <= L
      BY <1>1, <1>5, <2>3
    <3>2. ASSUME NEW k \in i + cut..L PROVE ~agent_log[k].last
      <4>1. k - cut \in i..j - 1 /\ k - cut \in 1..L - cut /\ (k - cut) + cut = k
        BY <1>1, <1>5, <2>3, <3>1
      <4>2. agent_log'[k - cut] = agent_log[(k - cut) + cut]
        BY <1>2, <4>1
      <4> QED BY <1>9, <4>1, <4>2
    <3>3. \A k \in i + cut..L - 1 : k \in i + cut..L
      BY <1>1
    <3>4. agent_log[L].part >= agent_log[i + cut].part + (L - (i + cut))
      BY <3>1, <3>2, <3>3 DEF FragmentsNumbered
    <3>5. p.part = agent_log[L].part + 1
      <4>1. L \in i + cut..L /\ L > 0
        BY <3>1
      <4> QED BY <1>6, <3>2, <4>1
    <3>6. agent_log'[i] = agent_log[i + cut] /\ agent_log'[j] = p
      BY <1>2, <2>3, <3>1
    <3>7. agent_log[L].part \in Nat /\ agent_log[i + cut].part \in Nat
      BY <1>3, <3>1
    <3> QED BY <1>1, <1>5, <2>3, <3>1, <3>4, <3>5, <3>6, <3>7, SMTT(40)
  <2> QED BY <1>5, <2>1, <2>2, <2>3
<1> QED BY <1>8, <1>9 DEF FragmentsNumbered

LEMMA RingNotFilled ==
    ASSUME StreamKept, FragmentsNumbered, MaxFragments <= History,
           NEW n \in 1..Len(agent_log)
    PROVE  ~ReceiveAndLoop(SeqNumOf(n), agent_log[n])
<1> SUFFICES ASSUME ReceiveAndLoop(SeqNumOf(n), agent_log[n]) PROVE FALSE
  OBVIOUS
<1> DEFINE held == [slots EXCEPT ![Slot(SeqNumOf(n))] = agent_log[n]]
<1>1. /\ NotHandled \in Nat /\ Len(agent_log) \in Nat /\ last_handled \in SeqNums
      /\ NotHandled <= Len(agent_log) /\ agent_log \in Seq(Messages)
  BY Positions DEF StreamKept, Order, AgentTypeOK
<1>2. InWindow(SeqNumOf(n)) /\ NeverEnds(held)
  BY DEF ReceiveAndLoop
<1>3. /\ held \in Rings
      /\ held[Slot(SeqNumOf(n))] = agent_log[n]
      /\ \A i \in Slots : i # Slot(SeqNumOf(n)) => held[i] = slots[i]
  BY OneBufferChanges
<1> HIDE DEF held
<1>4. \A m \in 1..History :
         Held(held, last_handled, m) # None =>
             /\ m <= NotHandled
             /\ Held(held, last_handled, m) = agent_log[Position(m)]
  BY <1>2, <1>3, Stored
<1>5. ASSUME NEW m \in 1..History
      PROVE  /\ m <= NotHandled /\ Position(m) \in 1..Len(agent_log)
             /\ agent_log[Position(m)].part \in Nat \ {0}
             /\ ~agent_log[Position(m)].last
  <2>1. Slot(SeqNumAdd(last_handled, m)) \in Slots
    BY <1>1, AddType, SlotType
  <2>2. INTERMEDIATE_FRAGMENT(Held(held, last_handled, m))
    BY <1>2, <2>1 DEF NeverEnds, Held
  <2>3. /\ m <= NotHandled
        /\ INTERMEDIATE_FRAGMENT(agent_log[Position(m)])
    BY <1>4, <2>2 DEF INTERMEDIATE_FRAGMENT
  <2>4. Position(m) \in 1..Len(agent_log)
    BY <1>1, <2>3 DEF Position
  <2>5. agent_log[Position(m)] \in Messages
    BY <1>1, <2>4, ElementOfSeq
  <2> QED BY <2>3, <2>4, <2>5, MessagesAssumption DEF INTERMEDIATE_FRAGMENT
<1> DEFINE first == Position(1)
           final == Position(History)
<1>6. 1 \in 1..History /\ History \in 1..History
  BY Sizes
<1>7. final = first + (History - 1) /\ first \in Int
  BY <1>1, Sizes DEF Position
<1>8. ASSUME NEW k \in first..final - 1 PROVE ~agent_log[k].last
  <2>1. k - first + 1 \in 1..History /\ Position(k - first + 1) = k
    BY <1>1, <1>7, <1>8, Sizes DEF Position
  <2> QED BY <1>5, <2>1
<1>9. /\ first \in 1..Len(agent_log) /\ agent_log[first].part \in Nat \ {0}
      /\ final \in 1..Len(agent_log) /\ agent_log[final].part \in Nat \ {0}
      /\ ~agent_log[final].last
  BY <1>5, <1>6
<1> HIDE DEF first, final
<1>10. first <= final
  BY <1>7, Sizes
<1>11. agent_log[final].part >= agent_log[first].part + (final - first)
  BY <1>8, <1>9, <1>10 DEF FragmentsNumbered
<1>12. agent_log[final].part < MaxFragments
  BY <1>9 DEF FragmentsNumbered
<1>13. final - first = History - 1
  BY <1>7, Sizes
<1> QED BY <1>9, <1>11, <1>12, <1>13, Sizes

(* check_last_fragment returns when no submessage has more fragments than    *)
(* the stream has buffers (a submessage in one fragment is not fragmented).  *)
THEOREM LoopEnds ==
    ASSUME MaxFragments \in 2..History
    PROVE  AgentSpec => []NeverLoops
<1> DEFINE Inv == StreamKept /\ FragmentsNumbered /\ NeverLoops
<1>1. AgentInit => Inv
  <2> SUFFICES ASSUME AgentInit PROVE Inv
    OBVIOUS
  <2>1. StreamKept
    BY KeptInitially
  <2>2. Len(agent_log) = 0 /\ ~looping
    BY InitialDistances DEF AgentInit, Init
  <2> QED BY <2>1, <2>2 DEF FragmentsNumbered, NeverLoops
<1>2. Inv /\ [AgentNext]_agentVars => Inv'
  <2> SUFFICES ASSUME Inv, [AgentNext]_agentVars PROVE FragmentsNumbered' /\ NeverLoops'
    BY KeptByStep
  <2>1. ASSUME NEW p \in Messages, AgentSend(p) PROVE FragmentsNumbered' /\ NeverLoops'
    <3>1. FragmentsNumbered'
      BY <2>1, SendNumbers, Sizes
    <3> QED BY <2>1, <3>1 DEF AgentSend, vars, NeverLoops
  <2>2. ASSUME NEW n \in 1..Len(agent_log), DataArrives(n)
        PROVE  FragmentsNumbered' /\ NeverLoops'
    <3>1. ~ReceiveAndLoop(SeqNumOf(n), agent_log[n])
      BY RingNotFilled, Sizes
    <3>2. looping' = looping /\ agent_log' = agent_log
      BY <2>2, <3>1 DEF DataArrives, Receive, ReceiveNext, ReceiveAndStore,
                        ReceiveAndComplete, ReceiveAndIgnore, agent
    <3> QED BY <3>2 DEF FragmentsNumbered, NeverLoops
  <2>3. ASSUME NEW n \in 1..Len(agent_log), HeartbeatArrives(n)
        PROVE  FragmentsNumbered' /\ NeverLoops'
    BY <2>3 DEF HeartbeatArrives, ProcessHeartbeat, agent, FragmentsNumbered, NeverLoops
  <2>4. CASE AgentHandlesAcknack
    BY <2>4 DEF AgentHandlesAcknack, vars, FragmentsNumbered, NeverLoops
  <2>5. CASE UNCHANGED agentVars
    BY <2>5 DEF agentVars, agent, vars, FragmentsNumbered, NeverLoops
  <2> QED BY <2>1, <2>2, <2>3, <2>4, <2>5 DEF AgentNext
<1>3. Inv => NeverLoops
  OBVIOUS
<1> QED BY <1>1, <1>2, <1>3, PTL DEF AgentSpec

(***************************************************************************)
(* The refinement: the messages not handled are the queue of               *)
(* InOrderDelivery.                                                        *)
(***************************************************************************)
LEMMA EndOfSequence ==
    ASSUME NEW seq \in Seq(Messages), NEW n \in Nat, n <= Len(seq)
    PROVE  LET end == SubSeq(seq, Len(seq) - n + 1, Len(seq)) IN
           /\ end \in Seq(Messages) /\ Len(end) = n
           /\ \A k \in 1..n : end[k] = seq[Len(seq) - n + k]
<1>1. Len(seq) \in Nat
  OBVIOUS
<1> DEFINE a == Len(seq) - n + 1
           b == Len(seq)
           end == SubSeq(seq, a, b)
<1>2. /\ a \in Int /\ b \in Int /\ \A i \in a..b : seq[i] \in Messages
      /\ b - a + 1 = n /\ (a <= b \/ n = 0)
      /\ \A k \in 1..n : a + k - 1 = Len(seq) - n + k
  BY <1>1, ElementOfSeq
<1> HIDE DEF a, b
<1>3. /\ end \in Seq(Messages)
      /\ Len(end) = IF a <= b THEN b - a + 1 ELSE 0
      /\ \A i \in 1..b - a + 1 : end[i] = seq[a + i - 1]
  BY <1>2, SubSeqProperties
<1>4. Len(end) = n
  BY <1>2, <1>3
<1> QED BY <1>2, <1>3, <1>4 DEF a, b

LEMMA UnreadIs ==
    ASSUME StreamKept
    PROVE  /\ NotHandled \in Nat
           /\ Unread \in Seq(Messages) /\ Len(Unread) = NotHandled
           /\ \A k \in 1..NotHandled : Unread[k] = agent_log[Position(k)]
<1>1. /\ agent_log \in Seq(Messages) /\ NotHandled \in Nat
      /\ NotHandled <= Len(agent_log)
  BY Positions DEF StreamKept, AgentTypeOK, Order
<1> QED BY <1>1, EndOfSequence DEF Unread, Position

LEMMA UnreadBecomes ==
    ASSUME StreamKept'
    PROVE  /\ NotHandled' \in Nat
           /\ Unread' \in Seq(Messages) /\ Len(Unread') = NotHandled'
           /\ \A k \in 1..NotHandled' :
                 Unread'[k] = agent_log'[Len(agent_log') - NotHandled' + k]
<1>1. agent_log' \in Seq(Messages) /\ last_handled' \in SeqNums /\ agent_last' \in SeqNums
  BY DEF StreamKept, AgentTypeOK, TypeOK
<1>2. NotHandled' \in Nat /\ NotHandled' <= Len(agent_log')
  BY <1>1, SeqNumSubType, Sizes DEF StreamKept, Order, NotHandled, SeqNums
<1> QED BY <1>1, <1>2, EndOfSequence DEF Unread

LEMMA SendRefines ==
    ASSUME StreamKept, NEW p \in Messages, AgentSend(p)
    PROVE  Delivery!Send
<1>1. StreamKept' /\ NotHandled' = NotHandled + 1
  BY SendKeeps
<1>2. /\ NotHandled \in Nat
      /\ Unread \in Seq(Messages) /\ Len(Unread) = NotHandled
      /\ \A k \in 1..NotHandled : Unread[k] = agent_log[Position(k)]
  BY UnreadIs
<1>3. /\ Unread' \in Seq(Messages) /\ Len(Unread') = NotHandled'
      /\ \A k \in 1..NotHandled' :
            Unread'[k] = agent_log'[Len(agent_log') - NotHandled' + k]
  BY <1>1, UnreadBecomes
<1>4. AgentTypeOK /\ Order /\ Len(agent_log) \in Nat
  BY Positions DEF StreamKept
<1>5. PICK cut \in {0, 1} :
         /\ cut <= Len(agent_log) - NotHandled
         /\ Len(agent_log') = Len(agent_log) + 1 - cut
         /\ \A k \in 1..Len(agent_log) - cut : agent_log'[k] = agent_log[k + cut]
         /\ agent_log'[Len(agent_log')] = p
  BY <1>4, LogWhenSent
<1> DEFINE longer == Append(Unread, p)
<1>6. /\ longer \in Seq(Messages) /\ Len(longer) = NotHandled + 1
      /\ \A i \in 1..NotHandled : longer[i] = Unread[i]
      /\ longer[NotHandled + 1] = p
  BY <1>2, AppendProperties
<1> HIDE DEF longer
<1>7. ASSUME NEW i \in 1..Len(Unread') PROVE Unread'[i] = longer[i]
  <2>1. i \in 1..NotHandled + 1 /\ Unread'[i] = agent_log'[Len(agent_log') - NotHandled' + i]
    BY <1>1, <1>3
  <2>2. CASE i = NotHandled + 1
    <3>1. Len(agent_log') - NotHandled' + i = Len(agent_log')
      BY <1>1, <1>2, <1>4, <1>5, <2>2
    <3> QED BY <1>5, <1>6, <2>1, <2>2, <3>1
  <2>3. CASE i # NotHandled + 1
    <3> DEFINE k == Len(agent_log') - NotHandled' + i
    <3>1. /\ i \in 1..NotHandled /\ k \in 1..Len(agent_log) - cut
          /\ k + cut = Position(i)
      BY <1>1, <1>2, <1>4, <1>5, <2>1, <2>3 DEF Position
    <3>2. agent_log'[k] = agent_log[k + cut]
      BY <1>5, <3>1
    <3> QED BY <1>2, <1>6, <2>1, <3>1, <3>2
  <2> QED BY <2>2, <2>3
<1>8. Unread' = longer
  BY <1>1, <1>3, <1>6, <1>7, SeqEqual
<1>9. UNCHANGED <<delivered, round>>
  BY DEF AgentSend, vars
<1> QED BY <1>8, <1>9 DEF Delivery!Send, longer

LEMMA NothingRefines ==
    ASSUME StreamKept, StreamKept', DeliversNothing, agent_log' = agent_log
    PROVE  UNCHANGED <<Unread, delivered, round>>
  BY DEF DeliversNothing, Unread

LEMMA FrontRefines ==
    ASSUME StreamKept, StreamKept', DeliversFront, agent_log' = agent_log
    PROVE  Delivery!Deliver
<1>1. /\ NotHandled \in Nat
      /\ Unread \in Seq(Messages) /\ Len(Unread) = NotHandled
      /\ \A k \in 1..NotHandled : Unread[k] = agent_log[Position(k)]
  BY UnreadIs
<1>2. /\ Unread' \in Seq(Messages) /\ Len(Unread') = NotHandled'
      /\ \A k \in 1..NotHandled' :
            Unread'[k] = agent_log'[Len(agent_log') - NotHandled' + k]
  BY UnreadBecomes
<1>3. PICK c \in 1..NotHandled :
         /\ NotHandled' = NotHandled - c
         /\ agent_log[Position(c)].last
         /\ delivered' \in Seq(Messages) /\ Len(delivered') = c
         /\ \A i \in 1..c : delivered'[i] = agent_log[Position(i)]
         /\ round' = 1 - round
  BY DEF DeliversFront
<1>4. Len(agent_log) \in Nat /\ c \in Nat /\ \A i \in 1..NotHandled : Unread[i] \in Messages
  BY <1>1, <1>3, Positions, ElementOfSeq DEF StreamKept
<1> DEFINE front == SubSeq(Unread, 1, c)
           rest == SubSeq(Unread, c + 1, NotHandled)
<1>5. /\ front \in Seq(Messages) /\ Len(front) = c
      /\ \A i \in 1..c : front[i] = Unread[i]
  <2>1. /\ 1 \in Int /\ c \in Int /\ 1 <= c /\ c - 1 + 1 = c
        /\ \A i \in 1..c : Unread[i] \in Messages /\ 1 + i - 1 = i
    BY <1>1, <1>3, <1>4
  <2>2. /\ front \in Seq(Messages) /\ Len(front) = IF 1 <= c THEN c - 1 + 1 ELSE 0
        /\ \A i \in 1..c - 1 + 1 : front[i] = Unread[1 + i - 1]
    BY <2>1, SubSeqProperties
  <2> QED BY <2>1, <2>2
<1>6. /\ rest \in Seq(Messages) /\ Len(rest) = NotHandled - c
      /\ \A i \in 1..NotHandled - c : rest[i] = Unread[c + i]
  <2> DEFINE a == c + 1
  <2>1. /\ a \in Int /\ NotHandled \in Int /\ (a <= NotHandled \/ NotHandled - c = 0)
        /\ NotHandled - a + 1 = NotHandled - c
        /\ \A i \in a..NotHandled : Unread[i] \in Messages
        /\ \A i \in 1..NotHandled - c : a + i - 1 = c + i
    BY <1>1, <1>3, <1>4
  <2> HIDE DEF a
  <2>2. /\ SubSeq(Unread, a, NotHandled) \in Seq(Messages)
        /\ Len(SubSeq(Unread, a, NotHandled))
              = IF a <= NotHandled THEN NotHandled - a + 1 ELSE 0
        /\ \A i \in 1..NotHandled - a + 1 :
              SubSeq(Unread, a, NotHandled)[i] = Unread[a + i - 1]
    BY <2>1, SubSeqProperties
  <2>3. Len(SubSeq(Unread, a, NotHandled)) = NotHandled - c
    BY <1>3, <1>4, <2>1, <2>2
  <2> QED BY <2>1, <2>2, <2>3 DEF a
<1> HIDE DEF front, rest
<1>7. delivered' = front
  <2>1. \A i \in 1..Len(delivered') : delivered'[i] = front[i]
    BY <1>1, <1>3, <1>4, <1>5
  <2> QED BY <1>3, <1>5, <2>1, SeqEqual
<1>8. Unread' = rest
  <2>1. ASSUME NEW i \in 1..Len(Unread') PROVE Unread'[i] = rest[i]
    <3>1. i \in 1..NotHandled - c /\ c + i \in 1..NotHandled
      BY <1>1, <1>2, <1>3, <1>4
    <3>2. Len(agent_log') - NotHandled' + i = Position(c + i)
      BY <1>1, <1>3, <1>4 DEF Position
    <3> QED BY <1>1, <1>2, <1>6, <3>1, <3>2
  <2>2. Len(Unread') = Len(rest)
    BY <1>2, <1>3, <1>6
  <2> QED BY <1>2, <1>6, <2>1, <2>2, SeqEqual
<1>9. c \in 1..Len(Unread) /\ Unread[c].last
  BY <1>1, <1>3
<1> QED BY <1>1, <1>3, <1>7, <1>8, <1>9 DEF Delivery!Deliver, front, rest

(* Whatever the transport loses, repeats or reorders, the application reads  *)
(* what the Agent sent, once, in order, and whole.                           *)
THEOREM DeliversInOrder == AgentSpec => ImplementsInOrderDelivery
<1>1. AgentInit => Delivery!Init
  <2> SUFFICES ASSUME AgentInit PROVE Delivery!Init
    OBVIOUS
  <2>1. StreamKept
    BY KeptInitially
  <2>2. Unread \in Seq(Messages) /\ Len(Unread) = 0
    BY <2>1, UnreadIs, InitialDistances
  <2>3. Unread = <<>>
    BY <2>2, EmptySeq
  <2> QED BY <2>3 DEF AgentInit, Init, Delivery!Init
<1>2. StreamKept /\ StreamKept' /\ [AgentNext]_agentVars
        => [Delivery!Next]_<<Unread, delivered, round>>
  <2> SUFFICES ASSUME StreamKept, StreamKept', [AgentNext]_agentVars
               PROVE  Delivery!Next \/ UNCHANGED <<Unread, delivered, round>>
    OBVIOUS
  <2>1. ASSUME NEW p \in Messages, AgentSend(p) PROVE Delivery!Next
    BY <2>1, SendRefines DEF Delivery!Next
  <2>2. ASSUME NEW n \in 1..Len(agent_log), DataArrives(n)
        PROVE  Delivery!Next \/ UNCHANGED <<Unread, delivered, round>>
    <3>1. agent_log' = agent_log
      BY <2>2 DEF DataArrives, agent
    <3>2. DeliversFront \/ DeliversNothing
      BY <2>2, DataKeeps
    <3> QED BY <3>1, <3>2, FrontRefines, NothingRefines DEF Delivery!Next
  <2>3. ASSUME NEW n \in 1..Len(agent_log), HeartbeatArrives(n)
        PROVE  UNCHANGED <<Unread, delivered, round>>
    <3>1. agent_log' = agent_log
      BY <2>3 DEF HeartbeatArrives, agent
    <3> QED BY <2>3, <3>1, HeartbeatKeeps, NothingRefines
  <2>4. CASE AgentHandlesAcknack
    <3>1. agent_log' = agent_log
      BY <2>4 DEF AgentHandlesAcknack
    <3> QED BY <2>4, <3>1, AcknackKeeps, NothingRefines
  <2>5. CASE UNCHANGED agentVars
    BY <2>5 DEF agentVars, agent, vars, Unread, NotHandled
  <2> QED BY <2>1, <2>2, <2>3, <2>4, <2>5 DEF AgentNext
<1> QED BY <1>1, <1>2, StreamInvariant, PTL DEF AgentSpec, ImplementsInOrderDelivery, Delivery!Spec
=============================================================================

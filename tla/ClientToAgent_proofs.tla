------------------------- MODULE ClientToAgent_proofs -------------------------
(* What the Client frees and sends again, seen from the Agent's end: for     *)
(* every history, buffer, set of submessages and lifetime of datagrams.      *)
EXTENDS ClientToAgent, OutputReliableStream_proofs

(***************************************************************************)
(* The inductive invariant.                                                *)
(***************************************************************************)
(* The two forms of a datagram.                                              *)
Beat(seq_num) == [last_unacked |-> seq_num]
Letter(seq_num, chunks) == [seq_num |-> seq_num, data |-> chunks]

(* What is on its way announces the k-th number from what the Agent took:    *)
(* not beyond what was sent, not older than a lifetime and a window; and     *)
(* what the Agent has not taken yet is as the buffer holds it.               *)
Oldest == 1 - (Lifetime + History)
Carries(d, k) ==
    \/ d = Beat(SeqNumAdd(agent_taken, k))
    \/ /\ d = Letter(SeqNumAdd(agent_taken, k), d.data)
       /\ k > 0 => d.data = data[Slot(SeqNumAdd(agent_taken, k))]
UnderWay == \A d \in network : \E k \in Oldest..InFlight - Taken : Carries(d, k)

(* The acknacks on their way confirm ever more, and no more than was taken.  *)
Confirms(acknack) == SeqNumSub(acknack.first_unacked, SeqNumAdd(last_acknown, 1))
AcknacksInOrder ==
    /\ acknacks \in Seq([first_unacked : SeqNums, nack : BOOLEAN])
    /\ \A i \in 1..Len(acknacks) : Confirms(acknacks[i]) <= Taken
    /\ \A i, j \in 1..Len(acknacks) : i <= j => Confirms(acknacks[i]) <= Confirms(acknacks[j])

Parties == /\ call \in {"idle", "flash", "run", "wait"} /\ confirmed \in BOOLEAN
           /\ agent_taken \in SeqNums /\ agent_announced \in SeqNums

ChannelKept == Window /\ Parties /\ FreedIsTaken /\ UnderWay /\ AcknacksInOrder

(***************************************************************************)
(* Sizes, and the datagrams as records.                                    *)
(***************************************************************************)
LEMMA ChannelSizes ==
    /\ Lifetime \in Nat \ {0}
    /\ Lifetime + History < SeqNumMidsize
    /\ Oldest \in Int /\ Oldest = 1 - (Lifetime + History)
    /\ Oldest <= 1 - History
<1>1. Lifetime \in Nat \ {0} /\ 2 * (Lifetime + History) < SeqNumSize
  BY ChannelAssumption
<1> QED BY <1>1, Sizes DEF Oldest

LEMMA Datagrams ==
    ASSUME NEW s, NEW chunks
    PROVE  /\ IsData(Letter(s, chunks)) /\ ~IsData(Beat(s))
           /\ Announces(Letter(s, chunks)) = s /\ Announces(Beat(s)) = s
           /\ Letter(s, chunks).seq_num = s /\ Letter(s, chunks).data = chunks
<1>1. IsData(Letter(s, chunks)) /\ ~IsData(Beat(s))
  BY DEF IsData, Letter, Beat
<1>2. /\ Letter(s, chunks).seq_num = s /\ Letter(s, chunks).data = chunks
      /\ Beat(s).last_unacked = s
  BY DEF Letter, Beat
<1> QED BY <1>1, <1>2 DEF Announces

LEMMA Announced ==
    ASSUME NEW d, NEW k, Carries(d, k)
    PROVE  /\ Announces(d) = SeqNumAdd(agent_taken, k)
           /\ IsData(d) => d.seq_num = SeqNumAdd(agent_taken, k)
<1>1. CASE d = Beat(SeqNumAdd(agent_taken, k))
  BY <1>1, Datagrams
<1>2. CASE d = Letter(SeqNumAdd(agent_taken, k), d.data)
  BY <1>2, Datagrams
<1> QED BY <1>1, <1>2 DEF Carries

(* The numbers of the Client, seen from what the Agent took.                 *)
LEMMA Positions ==
    ASSUME Window, Parties, FreedIsTaken
    PROVE  /\ last_acknown \in SeqNums /\ agent_taken \in SeqNums
           /\ InFlight \in 0..History /\ InFlight \in Nat /\ History \in Nat
           /\ Taken \in 0..InFlight /\ Taken \in Nat
           /\ agent_taken = SeqNumAdd(last_acknown, Taken)
           /\ last_sent = SeqNumAdd(last_acknown, InFlight)
           /\ \A k \in Int : SeqNumAdd(agent_taken, k) = SeqNumAdd(last_acknown, Taken + k)
<1>1. last_acknown \in SeqNums /\ agent_taken \in SeqNums
  BY DEF Window, TypeOK, Parties
<1>2. InFlight \in 0..History /\ last_sent = SeqNumAdd(last_acknown, InFlight)
  BY Cursors DEF Window
<1>3. Taken \in SeqNums /\ agent_taken = SeqNumAdd(last_acknown, Taken)
  BY <1>1, SeqNumSubType, AddOfSub DEF Taken
<1>4. Taken <= InFlight
  BY DEF FreedIsTaken, Taken, InFlight
<1>5. Taken \in Int
  BY <1>3, Sizes
<1>6. ASSUME NEW k \in Int
      PROVE  SeqNumAdd(agent_taken, k) = SeqNumAdd(last_acknown, Taken + k)
  <2>1. SeqNumAdd(SeqNumAdd(last_acknown, Taken), k) = SeqNumAdd(last_acknown, Taken + k)
    BY <1>1, <1>5, AddTwice
  <2> QED BY <2>1, <1>3
<1> QED BY <1>1, <1>2, <1>3, <1>4, <1>6, Sizes

(***************************************************************************)
(* The Client's steps that free nothing: they add at most what was sent    *)
(* last, or its heartbeat.                                                 *)
(***************************************************************************)
GoesOn(sends) ==
    /\ Parties'
    /\ last_acknown' = last_acknown
    /\ last_sent' = SeqNumAdd(last_acknown, InFlight + sends) /\ InFlight + sends <= History
    /\ \A n \in 1..InFlight : data'[At(n)] = data[At(n)]
    /\ network' \subseteq network \cup {Beat(last_sent'), Letter(last_sent', data'[Slot(last_sent')])}
    /\ acknacks' = acknacks
    /\ agent_taken' = agent_taken

LEMMA StillCarried ==
    ASSUME Window, Parties, FreedIsTaken, agent_taken' = agent_taken,
           \A n \in Taken + 1..InFlight : data'[At(n)] = data[At(n)],
           NEW d, NEW k \in Oldest..InFlight - Taken, Carries(d, k)
    PROVE  Carries(d, k)'
<1>1. /\ InFlight \in Nat /\ Taken \in Nat /\ k \in Int /\ k <= InFlight - Taken
      /\ SeqNumAdd(agent_taken, k) = SeqNumAdd(last_acknown, Taken + k)
  BY Positions, ChannelSizes
<1>2. ASSUME k > 0
      PROVE  data'[Slot(SeqNumAdd(agent_taken, k))] = data[Slot(SeqNumAdd(agent_taken, k))]
  <2>1. Taken + k \in Taken + 1..InFlight
    BY <1>1, <1>2
  <2>2. At(Taken + k) = Slot(SeqNumAdd(agent_taken, k))
    BY <1>1 DEF At
  <2> QED BY <2>1, <2>2
<1> QED BY <1>2 DEF Carries

LEMMA GoingOnKeeps ==
    ASSUME ChannelKept, Window', NEW sends \in 0..1, GoesOn(sends)
    PROVE  ChannelKept'
<1>1. /\ last_acknown \in SeqNums
      /\ InFlight \in Nat /\ Taken \in Nat /\ Taken <= InFlight /\ History \in Nat
      /\ \A k \in Int : SeqNumAdd(agent_taken, k) = SeqNumAdd(last_acknown, Taken + k)
  BY Positions DEF ChannelKept
<1> PICK f \in Nat : f = InFlight + sends
  BY <1>1
<1> PICK last \in Int : last = f - Taken
  BY <1>1
<1>2. f <= History /\ Taken + last = f /\ f < SeqNumSize
  <2>1. InFlight + sends <= History
    BY DEF GoesOn
  <2> QED BY <1>1, <2>1, Sizes
<1>3. last_sent' = SeqNumAdd(last_acknown, f) /\ last_acknown' = last_acknown
  BY DEF GoesOn
<1>4. last_sent' = SeqNumAdd(agent_taken, last)
  BY <1>1, <1>2, <1>3
<1>5. InFlight' = f
  <2>1. SeqNumSub(SeqNumAdd(last_acknown, f), last_acknown) = f
    BY <1>1, <1>2, SubOfAdd
  <2> QED BY <2>1, <1>3 DEF InFlight
<1>6. Taken' = Taken
  BY DEF GoesOn, Taken
<1>7. Taken' <= InFlight' /\ FreedIsTaken'
  <2>1. Taken' <= InFlight'
    BY <1>1, <1>5, <1>6
  <2> QED BY <2>1 DEF FreedIsTaken, Taken, InFlight
<1>8. AcknacksInOrder'
  <2>1. AcknacksInOrder
    BY DEF ChannelKept
  <2>2. acknacks' = acknacks /\ last_acknown' = last_acknown
    BY DEF GoesOn
  <2> QED BY <2>1, <2>2, <1>6 DEF AcknacksInOrder, Confirms
<1>9. ASSUME NEW d \in network'
      PROVE  \E k \in Oldest..InFlight' - Taken' : Carries(d, k)'
  <2>1. last \in Oldest..InFlight' - Taken' /\ last >= 0
    BY <1>1, <1>2, <1>5, <1>6, ChannelSizes
  <2>2. CASE d = Beat(last_sent')
    <3>1. Carries(d, last)'
      BY <2>2, <1>4 DEF Carries, GoesOn
    <3> QED BY <2>1, <3>1
  <2>3. CASE d = Letter(last_sent', data'[Slot(last_sent')])
    <3>1. d.data = data'[Slot(last_sent')]
      BY <2>3, Datagrams
    <3>2. Carries(d, last)'
      BY <2>3, <3>1, <1>4 DEF Carries, GoesOn
    <3> QED BY <2>1, <3>2
  <2>4. CASE d \in network
    <3>1. PICK k \in Oldest..InFlight - Taken : Carries(d, k)
      BY <2>4 DEF ChannelKept, UnderWay
    <3>2. k \in Oldest..InFlight' - Taken'
      BY <1>1, <1>2, <1>5, <1>6, ChannelSizes
    <3>3. \A n \in Taken + 1..InFlight : data'[At(n)] = data[At(n)]
      BY <1>1 DEF GoesOn
    <3>4. Carries(d, k)'
      BY <3>1, <3>3, StillCarried DEF ChannelKept, GoesOn
    <3> QED BY <3>2, <3>4
  <2> QED BY <2>2, <2>3, <2>4 DEF GoesOn
<1> QED BY <1>7, <1>8, <1>9 DEF ChannelKept, UnderWay, GoesOn

LEMMA GoesOnKeeps ==
    ASSUME ChannelKept, [Next]_vars, NEW sends \in 0..1, GoesOn(sends)
    PROVE  ChannelKept'
<1>1. Window'
  BY NextKeepsWindow DEF ChannelKept
<1> QED BY <1>1, GoingOnKeeps

(* A step that leaves cursors and buffers alone.                             *)
LEMMA RestGoesOn ==
    ASSUME ChannelKept, Parties', UNCHANGED <<last_acknown, last_sent, data, acknacks, agent>>,
           network' \subseteq network \cup {Beat(last_sent)}
    PROVE  GoesOn(0)
<1>1. last_sent' = SeqNumAdd(last_acknown, InFlight + 0) /\ InFlight + 0 <= History
  <2>1. InFlight \in 0..History /\ last_sent = SeqNumAdd(last_acknown, InFlight)
    BY Positions DEF ChannelKept
  <2>2. InFlight + 0 = InFlight /\ InFlight <= History
    BY <2>1
  <2> QED BY <2>1, <2>2
<1> QED BY <1>1 DEF GoesOn, agent

LEMMA AppWritesGoesOn ==
    ASSUME ChannelKept, NEW m \in Messages, AppWrites(m)
    PROVE  GoesOn(0)
<1>1. Window /\ Write(m)
  BY DEF ChannelKept, AppWrites
<1>2. PICK lo, hi \in Nat : Wrote(lo, hi)
  BY <1>1, WriteWrote
<1>3. /\ InFlight \in 0..History /\ Ahead \in 1..History + 1 /\ InFlight < Ahead
      /\ last_sent = SeqNumAdd(last_acknown, InFlight)
  BY <1>1, Cursors DEF Window
<1>4. /\ lo \in Ahead..Ahead + 1 /\ UNCHANGED <<last_sent, last_acknown>>
      /\ \A n \in 1..History : n \notin lo..hi => data'[At(n)] = data[At(n)]
  BY <1>2 DEF Wrote
<1>5. \A n \in 1..InFlight : data'[At(n)] = data[At(n)]
  <2> TAKE n \in 1..InFlight
  <2>1. n \in 1..History /\ n \notin lo..hi
    BY <1>3, <1>4, Sizes
  <2> QED BY <2>1, <1>4
<1>6. InFlight + 0 = InFlight /\ InFlight <= History
  BY <1>3, Sizes
<1>7. Parties'
  BY DEF ChannelKept, Parties, AppWrites, agent
<1>8. network' = network /\ acknacks' = acknacks /\ agent_taken' = agent_taken
  BY DEF AppWrites, agent
<1>9. last_acknown' = last_acknown /\ last_sent' = SeqNumAdd(last_acknown, InFlight + 0)
  BY <1>3, <1>4, <1>6
<1> QED BY <1>5, <1>6, <1>7, <1>8, <1>9 DEF GoesOn

LEMMA RunSendsGoesOn ==
    ASSUME ChannelKept, RunSends
    PROVE  GoesOn(1)
<1>1. /\ Window /\ CanSend /\ last_sent' = NextToSend
      /\ UNCHANGED <<last_acknown, data>>
  BY DEF ChannelKept, RunSends, FlashSend, buffers
<1>2. NextToSend = SeqNumAdd(last_acknown, InFlight + 1) /\ InFlight < History
  BY <1>1, Cursors, CanSendMeans DEF Window
<1>3. InFlight + 1 <= History
  BY <1>1, <1>2, Cursors, Sizes DEF Window
<1>4. /\ Parties' /\ acknacks' = acknacks /\ agent_taken' = agent_taken
      /\ network' = network \cup {Data(NextToSend)}
  BY DEF ChannelKept, Parties, RunSends, session, agent
<1>5. Data(NextToSend) = Letter(last_sent', data'[Slot(last_sent')])
  BY <1>1 DEF Data, Letter
<1> QED BY <1>1, <1>2, <1>3, <1>4, <1>5 DEF GoesOn

LEMMA RunSendFailsGoesOn ==
    ASSUME ChannelKept, RunSendFails
    PROVE  GoesOn(0)
<1>1. /\ Window /\ CanSend /\ last_sent' = SeqNumSub(NextToSend, 1)
      /\ UNCHANGED <<last_acknown, data>>
  BY DEF ChannelKept, RunSendFails, FlashSendFails, buffers
<1>2. /\ NextToSend = SeqNumAdd(last_acknown, InFlight + 1) /\ last_acknown \in SeqNums
      /\ InFlight \in 0..History /\ last_sent = SeqNumAdd(last_acknown, InFlight)
  BY <1>1, Cursors DEF Window, TypeOK
<1>3. InFlight + 1 \in Nat \ {0} /\ InFlight + 1 < SeqNumSize /\ (InFlight + 1) - 1 = InFlight
  BY <1>2, Sizes
<1>4. SeqNumSub(NextToSend, 1) = SeqNumAdd(last_acknown, InFlight)
  BY <1>2, <1>3, SubOne
<1>5. Parties'
  BY DEF ChannelKept, Parties, RunSendFails, agent
<1>6. UNCHANGED <<network, acknacks, agent>>
  BY DEF RunSendFails
<1> QED BY <1>1, <1>2, <1>4, <1>5, <1>6, RestGoesOn

(* The steps of the Client that free nothing.                                *)
GoingOn ==
    \/ \E m \in Messages : AppWrites(m)
    \/ CallRun \/ RunSends \/ RunSentAll \/ RunSendFails \/ RunListens
    \/ RunWaited \/ RunConfirms \/ RunTimesOut \/ TimePasses

LEMMA ClientGoesOn ==
    ASSUME ChannelKept, GoingOn
    PROVE  ChannelKept'
<1>1. CASE \E m \in Messages : AppWrites(m)
  <2>1. PICK m \in Messages : AppWrites(m)
    BY <1>1
  <2>2. [Next]_vars
    BY <2>1 DEF AppWrites, Next
  <2> QED BY <2>1, <2>2, AppWritesGoesOn, GoesOnKeeps
<1>2. CASE RunSends
  <2>1. [Next]_vars
    BY <1>2 DEF RunSends, Next
  <2> QED BY <1>2, <2>1, RunSendsGoesOn, GoesOnKeeps
<1>3. CASE RunSendFails
  <2>1. [Next]_vars
    BY <1>3 DEF RunSendFails, Next
  <2> QED BY <1>3, <2>1, RunSendFailsGoesOn, GoesOnKeeps
<1>4. CASE RunListens
  <2>1. [Next]_vars
    BY <1>4 DEF RunListens, Next
  <2>2. network' \subseteq network \cup {Beat(last_sent)}
    BY <1>4 DEF RunListens, Heartbeat, Beat
  <2>3. UNCHANGED <<last_acknown, last_sent, data, acknacks, agent>>
    BY <1>4 DEF RunListens, UpdateHeartbeat, cursors, buffers
  <2>4. Parties'
    BY <1>4 DEF ChannelKept, Parties, RunListens, agent
  <2> QED BY <2>1, <2>2, <2>3, <2>4, RestGoesOn, GoesOnKeeps
<1>5. CASE CallRun \/ RunSentAll \/ RunWaited \/ RunConfirms \/ RunTimesOut \/ TimePasses
  <2>1. [Next]_vars
    BY <1>5 DEF CallRun, RunSentAll, RunWaited, RunConfirms, RunTimesOut, TimePasses, Next
  <2>2. UNCHANGED <<last_acknown, last_sent, data, network, acknacks, agent>>
    BY <1>5 DEF CallRun, RunSentAll, RunWaited, RunConfirms, RunTimesOut, TimePasses,
       FlashBegin, FlashEnd, Tick, cursors, buffers, vars
  <2>3. Parties'
    <3>1. agent_taken' = agent_taken /\ agent_announced' = agent_announced
      BY <2>2 DEF agent
    <3>2. call' \in {"idle", "flash", "run", "wait"} /\ confirmed' \in BOOLEAN
      BY <1>5 DEF CallRun, RunSentAll, RunWaited, RunConfirms, RunTimesOut, TimePasses,
         session, ChannelKept, Parties
    <3> QED BY <3>1, <3>2 DEF ChannelKept, Parties
  <2> QED BY <2>1, <2>2, <2>3, RestGoesOn, GoesOnKeeps
<1> QED BY <1>1, <1>2, <1>3, <1>4, <1>5 DEF GoingOn

(***************************************************************************)
(* An acknack frees what it confirms, which the Agent took, and what is    *)
(* still held is sent again as it was.                                     *)
(***************************************************************************)
LEMMA OneByOne ==
    ASSUME NEW S, NEW q \in Seq(S), q # <<>>
    PROVE  /\ Len(q) \in Nat /\ 1 \in 1..Len(q) /\ q[1] = Head(q) /\ Head(q) \in S
           /\ Tail(q) \in Seq(S) /\ Len(Tail(q)) = Len(q) - 1
           /\ \A i \in 1..Len(Tail(q)) : i + 1 \in 1..Len(q) /\ Tail(q)[i] = q[i + 1]
<1>1. Len(q) \in Nat /\ Len(q) # 0
  BY EmptySeq, LenProperties
<1>2. /\ Head(q) \in S /\ Tail(q) \in Seq(S) /\ Len(Tail(q)) = Len(q) - 1
      /\ \A i \in 1..Len(Tail(q)) : Tail(q)[i] = q[i + 1]
  BY HeadTailProperties
<1> QED BY <1>1, <1>2

(* What the first acknack on its way does to the window.                     *)
LEMMA HeadAcknack ==
    ASSUME Window, Parties, FreedIsTaken, AcknacksInOrder, acknacks # <<>>,
           ProcessAcknack(Head(acknacks).first_unacked)
    PROVE  /\ Confirms(Head(acknacks)) \in 0..Taken
           /\ Acked(Confirms(Head(acknacks)))
           /\ [Next]_vars
<1> DEFINE first == Head(acknacks).first_unacked
           c == Confirms(Head(acknacks))
<1>1. /\ last_acknown \in SeqNums /\ InFlight \in 0..History
      /\ Taken \in 0..InFlight /\ SeqNumAdd(last_acknown, 1) \in SeqNums
  BY Positions, AddType
<1>2. /\ acknacks[1] = Head(acknacks) /\ 1 \in 1..Len(acknacks)
      /\ Head(acknacks) \in [first_unacked : SeqNums, nack : BOOLEAN]
  BY OneByOne DEF AcknacksInOrder
<1>3. first \in SeqNums
  BY <1>2
<1>4. c \in SeqNums /\ c <= Taken
  <2>1. c \in SeqNums
    BY <1>1, <1>3, SeqNumSubType DEF Confirms
  <2>2. Confirms(acknacks[1]) <= Taken
    BY <1>2 DEF AcknacksInOrder
  <2> QED BY <2>1, <2>2, <1>2
<1>5. c \in 0..Taken /\ c \in Nat /\ c \in 0..InFlight /\ c + 1 < SeqNumSize
  BY <1>1, <1>4, Sizes
<1>6. first = SeqNumAdd(last_acknown, c + 1)
  <2>1. first = SeqNumAdd(SeqNumAdd(last_acknown, 1), c)
    BY <1>1, <1>3, AddOfSub DEF Confirms
  <2>2. c \in Int /\ 1 \in Int /\ 1 + c = c + 1
    BY <1>5
  <2> HIDE DEF c
  <2>3. SeqNumAdd(SeqNumAdd(last_acknown, 1), c) = SeqNumAdd(last_acknown, c + 1)
    BY <1>1, <2>2, AddTwice
  <2> QED BY <2>1, <2>3
<1>7. first \in InOrderAcks
  BY <1>5, <1>6 DEF InOrderAcks, InFlight
<1>8. PICK b \in 0..InFlight : Acked(b)
  BY <1>7, ProcessAcknackAcked
<1>9. b = c
  <2>1. Cleaned(first) = c
    <3>1. SeqNumSub(SeqNumAdd(last_acknown, c + 1), 1) = SeqNumAdd(last_acknown, (c + 1) - 1)
      <4>1. c + 1 \in Nat \ {0} /\ c + 1 < SeqNumSize
        BY <1>5
      <4> HIDE DEF c
      <4> QED BY <4>1, <1>1, SubOne
    <3>2. (c + 1) - 1 = c /\ c < SeqNumSize
      <4> HIDE DEF c
      <4> QED BY <1>5, Sizes
    <3>3. SeqNumSub(SeqNumAdd(last_acknown, c), last_acknown) = c
      <4> HIDE DEF c
      <4> QED BY <1>1, <1>5, <3>2, SubOfAdd
    <3> QED BY <1>6, <3>1, <3>2, <3>3 DEF Cleaned
  <2>2. last_acknown' = SeqNumAdd(last_acknown, c)
    BY <2>1 DEF ProcessAcknack
  <2>3. last_acknown' = SeqNumAdd(last_acknown, b)
    BY <1>8 DEF Acked
  <2>4. b \in Int /\ c \in Int /\ b - c < SeqNumMidsize /\ c - b < SeqNumMidsize
    BY <1>1, <1>5, <1>8, Sizes
  <2> HIDE DEF c
  <2>5. SeqNumAdd(last_acknown, b) = SeqNumAdd(last_acknown, c) <=> b = c
    BY <1>1, <2>4, CmpCompares
  <2> QED BY <2>2, <2>3, <2>5
<1>10. [Next]_vars
  BY <1>7 DEF Next
<1> QED BY <1>5, <1>8, <1>9, <1>10

(* The distances after the window has moved by c.                            *)
LEMMA MovedBy ==
    ASSUME Window, Parties, FreedIsTaken, NEW c \in 0..Taken,
           last_acknown' = SeqNumAdd(last_acknown, c),
           last_sent' = last_sent, agent_taken' = agent_taken
    PROVE  InFlight' = InFlight - c /\ Taken' = Taken - c
<1>1. /\ last_acknown \in SeqNums /\ InFlight \in Nat /\ Taken \in Nat
      /\ c \in Int /\ c <= InFlight /\ c <= Taken
      /\ InFlight - c < SeqNumSize /\ Taken - c < SeqNumSize
      /\ last_sent = SeqNumAdd(last_acknown, InFlight)
      /\ agent_taken = SeqNumAdd(last_acknown, Taken)
  <2>1. /\ InFlight \in 0..History /\ Taken \in 0..InFlight /\ c \in 0..Taken
        /\ History \in Nat /\ SeqNumSize \in Nat /\ History < SeqNumSize
    BY Positions, Sizes
  <2>2. /\ last_acknown \in SeqNums /\ last_sent = SeqNumAdd(last_acknown, InFlight)
        /\ agent_taken = SeqNumAdd(last_acknown, Taken)
    BY Positions
  <2> QED BY <2>1, <2>2
<1>2. /\ SeqNumSub(SeqNumAdd(last_acknown, InFlight), SeqNumAdd(last_acknown, c)) = InFlight - c
      /\ SeqNumSub(SeqNumAdd(last_acknown, Taken), SeqNumAdd(last_acknown, c)) = Taken - c
  BY <1>1, SubMeasures
<1> QED BY <1>1, <1>2 DEF InFlight, Taken

LEMMA TailInOrder ==
    ASSUME Window, Parties, FreedIsTaken, AcknacksInOrder, acknacks # <<>>,
           NEW c \in 0..Taken, c = Confirms(Head(acknacks)),
           last_acknown' = SeqNumAdd(last_acknown, c),
           acknacks' = Tail(acknacks), Taken' = Taken - c
    PROVE  AcknacksInOrder'
<1>1. /\ last_acknown \in SeqNums /\ Taken \in 0..History /\ c \in Int
      /\ SeqNumAdd(last_acknown, 1) \in SeqNums
  <2>1. /\ last_acknown \in SeqNums /\ InFlight \in 0..History /\ Taken \in 0..InFlight
        /\ History \in Nat /\ c \in 0..Taken
    BY Positions
  <2>2. SeqNumAdd(last_acknown, 1) \in SeqNums
    BY <2>1, AddType
  <2> QED BY <2>1, <2>2
<1>2. /\ acknacks \in Seq([first_unacked : SeqNums, nack : BOOLEAN])
      /\ \A i \in 1..Len(acknacks) : Confirms(acknacks[i]) <= Taken
      /\ \A i, j \in 1..Len(acknacks) :
            i <= j => Confirms(acknacks[i]) <= Confirms(acknacks[j])
  BY DEF AcknacksInOrder
<1>3. /\ acknacks' \in Seq([first_unacked : SeqNums, nack : BOOLEAN])
      /\ Len(acknacks') = Len(acknacks) - 1 /\ Len(acknacks) \in Nat
      /\ \A i \in 1..Len(acknacks') : i + 1 \in 1..Len(acknacks) /\ acknacks'[i] = acknacks[i + 1]
      /\ 1 \in 1..Len(acknacks) /\ acknacks[1] = Head(acknacks)
  BY <1>2, OneByOne
<1>4. ASSUME NEW i \in 1..Len(acknacks')
      PROVE  LET v == Confirms(acknacks[i + 1])
                 w == SeqNumSub(acknacks'[i].first_unacked, SeqNumAdd(last_acknown', 1))
             IN  v \in c..Taken /\ w = v - c
  <2> DEFINE a == acknacks[i + 1].first_unacked
  <2>1. i + 1 \in 1..Len(acknacks) /\ acknacks'[i] = acknacks[i + 1] /\ 1 <= i + 1
    BY <1>3
  <2>2. acknacks[i + 1] \in [first_unacked : SeqNums, nack : BOOLEAN]
    BY <1>2, <2>1, ElementOfSeq
  <2>3. Confirms(acknacks[i + 1]) \in SeqNums
    BY <1>1, <2>2, SeqNumSubType DEF Confirms
  <2>4. Confirms(acknacks[i + 1]) <= Taken /\ c <= Confirms(acknacks[i + 1])
    <3>1. Confirms(acknacks[1]) <= Confirms(acknacks[i + 1])
      BY <1>2, <1>3, <2>1
    <3> QED BY <1>2, <1>3, <2>1, <3>1
  <2> PICK v \in SeqNums : v = Confirms(acknacks[i + 1])
    BY <2>3
  <2>5. v \in c..Taken /\ v \in Int /\ v - c < SeqNumSize
    BY <2>4, <1>1, Sizes
  <2>6. a = SeqNumAdd(SeqNumAdd(last_acknown, 1), v)
    BY <1>1, <2>2, AddOfSub DEF Confirms
  <2>7. /\ SeqNumAdd(SeqNumAdd(last_acknown, 1), v) = SeqNumAdd(last_acknown, 1 + v)
        /\ SeqNumAdd(SeqNumAdd(last_acknown, c), 1) = SeqNumAdd(last_acknown, c + 1)
    <3>1. 1 \in Int /\ v \in Int /\ c \in Int
      BY <1>1, <2>5
    <3> QED BY <1>1, <3>1, AddTwice
  <2>8. SeqNumSub(SeqNumAdd(last_acknown, 1 + v), SeqNumAdd(last_acknown, c + 1))
            = (1 + v) - (c + 1)
    <3>1. /\ 1 + v \in Int /\ c + 1 \in Int /\ c + 1 <= 1 + v
          /\ (1 + v) - (c + 1) < SeqNumSize
      BY <1>1, <2>5, SMTT(40)
    <3> QED BY <1>1, <3>1, SubMeasures
  <2>9. (1 + v) - (c + 1) = v - c
    BY <1>1, <2>5
  <2> HIDE DEF a
  <2>10. SeqNumSub(a, SeqNumAdd(last_acknown', 1)) = v - c
    BY <2>6, <2>7, <2>8, <2>9
  <2> QED BY <2>1, <2>5, <2>10 DEF a
<1>5. ASSUME NEW i \in 1..Len(acknacks')
      PROVE  /\ Confirms(acknacks[i + 1]) \in c..Taken
             /\ Confirms(acknacks[i])' = Confirms(acknacks[i + 1]) - c
  BY <1>4 DEF Confirms
<1>6. \A i \in 1..Len(acknacks') : Confirms(acknacks[i])' <= Taken'
  BY <1>1, <1>5
<1>7. ASSUME NEW i \in 1..Len(acknacks'), NEW j \in 1..Len(acknacks'), i <= j
      PROVE  Confirms(acknacks[i])' <= Confirms(acknacks[j])'
  <2>1. i + 1 \in 1..Len(acknacks) /\ j + 1 \in 1..Len(acknacks) /\ i + 1 <= j + 1
    BY <1>3, <1>7
  <2>2. Confirms(acknacks[i + 1]) <= Confirms(acknacks[j + 1])
    BY <1>2, <2>1
  <2> QED BY <1>1, <1>5, <2>2
<1> QED BY <1>3, <1>6, <1>7 DEF AcknacksInOrder

LEMMA AcknackKeeps ==
    ASSUME ChannelKept, RunHandlesAcknack
    PROVE  ChannelKept'
<1> DEFINE first == Head(acknacks)
<1>1. /\ Window /\ Parties /\ FreedIsTaken /\ AcknacksInOrder /\ UnderWay
      /\ acknacks # <<>> /\ ProcessAcknack(first.first_unacked)
      /\ acknacks' = Tail(acknacks) /\ UNCHANGED agent
      /\ network' \subseteq network \cup {Data(s) : s \in SentAndHeld}'
  BY DEF ChannelKept, RunHandlesAcknack
<1>2. Confirms(first) \in 0..Taken /\ Acked(Confirms(first)) /\ [Next]_vars
  BY <1>1, HeadAcknack
<1> PICK c \in 0..Taken : c = Confirms(first) /\ Acked(c)
  BY <1>2
<1>3. /\ last_acknown' = SeqNumAdd(last_acknown, c) /\ last_sent' = last_sent
      /\ agent_taken' = agent_taken /\ agent_announced' = agent_announced
      /\ \A n \in c + 1..History : data'[At(n)] = data[At(n)]
  BY <1>1 DEF Acked, agent
<1>4. InFlight' = InFlight - c /\ Taken' = Taken - c
  BY <1>1, <1>3, MovedBy
<1>5. /\ last_acknown \in SeqNums /\ InFlight \in Nat /\ Taken \in Nat /\ Taken <= InFlight
      /\ InFlight <= History /\ History \in Nat /\ c \in Int /\ 0 <= c /\ c <= Taken
      /\ \A k \in Int : SeqNumAdd(agent_taken, k) = SeqNumAdd(last_acknown, Taken + k)
  <2>1. /\ last_acknown \in SeqNums /\ InFlight \in 0..History /\ Taken \in 0..InFlight
        /\ History \in Nat /\ c \in 0..Taken
        /\ \A k \in Int : SeqNumAdd(agent_taken, k) = SeqNumAdd(last_acknown, Taken + k)
    BY <1>1, Positions
  <2> QED BY <2>1
<1>6. Window'
  BY <1>1, <1>2, NextKeepsWindow
<1>7. Parties'
  BY <1>1, <1>3 DEF RunHandlesAcknack, Parties
<1>8. FreedIsTaken'
  <2>1. Taken' <= InFlight'
    BY <1>4, <1>5
  <2> QED BY <2>1 DEF FreedIsTaken, Taken, InFlight
<1>9. AcknacksInOrder'
  BY <1>1, <1>3, <1>4, TailInOrder
<1>10. ASSUME NEW d \in network'
       PROVE  \E k \in Oldest..InFlight' - Taken' : Carries(d, k)'
  <2>1. InFlight' - Taken' = InFlight - Taken
    BY <1>4, <1>5
  <2>2. CASE d \in network
    <3>1. PICK k \in Oldest..InFlight - Taken : Carries(d, k)
      BY <1>1, <2>2 DEF UnderWay
    <3>2. \A n \in Taken + 1..InFlight : data'[At(n)] = data[At(n)]
      <4> TAKE n \in Taken + 1..InFlight
      <4>1. n \in c + 1..History
        BY <1>5
      <4> QED BY <4>1, <1>3
    <3>3. Carries(d, k)'
      BY <1>1, <1>3, <3>1, <3>2, StillCarried
    <3> QED BY <2>1, <3>1, <3>3
  <2>3. CASE d \notin network
    <3>1. PICK s \in SentAndHeld' : d = Letter(s, data'[Slot(s)])
      BY <1>1, <2>3 DEF Data, Letter
    <3>2. PICK n \in 1..InFlight' : s = SeqNumAdd(last_acknown', n)
      BY <3>1 DEF SentAndHeld, InFlight
    <3>3. n \in Int /\ 1 <= n /\ n <= InFlight - c
      BY <3>2, <1>4, <1>5
    <3>4. s = SeqNumAdd(last_acknown, c + n)
      BY <3>2, <3>3, <1>3, <1>5, AddTwice
    <3> PICK k \in Int : k = c + n - Taken
      BY <3>3, <1>5
    <3>5. k \in Oldest..InFlight' - Taken' /\ Taken + k = c + n
      BY <2>1, <3>3, <1>5, ChannelSizes
    <3>6. s = SeqNumAdd(agent_taken', k)
      BY <3>4, <3>5, <1>3, <1>5
    <3>7. d.data = data'[Slot(s)]
      BY <3>1, Datagrams
    <3>8. Carries(d, k)'
      BY <3>1, <3>6, <3>7 DEF Carries
    <3> QED BY <3>5, <3>8
  <2> QED BY <2>2, <2>3
<1> QED BY <1>6, <1>7, <1>8, <1>9, <1>10 DEF ChannelKept, UnderWay

(***************************************************************************)
(* The Agent answers with what it took, which is never less than before;   *)
(* what it takes is the next number that was sent, and moves the rest of   *)
(* what is on its way one position back.                                   *)
(***************************************************************************)
LEMMA AnswersInOrder ==
    ASSUME Window, Parties, FreedIsTaken, AcknacksInOrder,
           NEW t \in Taken..InFlight, NEW d, Announces(d) \in SeqNums,
           AgentAnswers(d, SeqNumAdd(last_acknown, t)),
           last_acknown' = last_acknown, Taken' = t
    PROVE  AcknacksInOrder' /\ agent_announced' \in SeqNums
<1> DEFINE taken == SeqNumAdd(last_acknown, t)
           Acknacks == [first_unacked : SeqNums, nack : BOOLEAN]
<1>1. /\ last_acknown \in SeqNums /\ t \in Nat /\ t + 1 < SeqNumSize /\ 1 <= t + 1
      /\ Taken <= t /\ Taken \in Nat
  <2>1. /\ last_acknown \in SeqNums /\ InFlight \in 0..History /\ Taken \in 0..InFlight
        /\ t \in Taken..InFlight
        /\ History \in Nat /\ SeqNumSize \in Nat /\ History + 1 < SeqNumSize
    BY Positions, Sizes
  <2> QED BY <2>1
<1>2. agent_announced' \in SeqNums
  BY DEF AgentAnswers, Parties
<1>3. PICK acknack \in Acknacks :
         /\ acknack.first_unacked = SeqNumAdd(taken, 1)
         /\ acknacks' = Append(acknacks, acknack) \/ acknacks' = acknacks
  <2>1. SeqNumAdd(taken, 1) \in SeqNums
    <3>1. taken \in SeqNums /\ 1 \in Int
      BY <1>1, AddType
    <3> HIDE DEF taken
    <3> QED BY <3>1, AddType
  <2> DEFINE acknack == [first_unacked |-> SeqNumAdd(taken, 1),
                         nack |-> agent_announced' # taken]
  <2>2. acknack \in Acknacks /\ acknack.first_unacked = SeqNumAdd(taken, 1)
    BY <2>1
  <2>3. acknacks' = Append(acknacks, acknack) \/ acknacks' = acknacks
    BY DEF AgentAnswers, AcknackLost
  <2> QED BY <2>2, <2>3
<1>4. Confirms(acknack) = t
  <2>1. SeqNumAdd(taken, 1) = SeqNumAdd(last_acknown, t + 1)
    BY <1>1, AddTwice
  <2>2. SeqNumSub(SeqNumAdd(last_acknown, t + 1), SeqNumAdd(last_acknown, 1)) = (t + 1) - 1
    <3>1. t + 1 \in Nat /\ 1 \in Nat
      BY <1>1
    <3> QED BY <1>1, <3>1, SubOfAdds
  <2> QED BY <1>1, <1>3, <2>1, <2>2 DEF Confirms
<1>5. /\ acknacks \in Seq(Acknacks) /\ Len(acknacks) \in Nat
      /\ \A i \in 1..Len(acknacks) : Confirms(acknacks[i]) <= Taken
      /\ \A i, j \in 1..Len(acknacks) :
            i <= j => Confirms(acknacks[i]) <= Confirms(acknacks[j])
  BY LenProperties DEF AcknacksInOrder
<1>6. \A i : Confirms(acknacks[i])' = Confirms(acknacks'[i])
  BY DEF Confirms
<1>7. \A i \in 1..Len(acknacks) : Confirms(acknacks[i]) \in Int
  <2> TAKE i \in 1..Len(acknacks)
  <2>1. acknacks[i] \in Acknacks
    BY <1>5, ElementOfSeq
  <2>2. SeqNumAdd(last_acknown, 1) \in SeqNums
    BY <1>1, AddType
  <2>3. Confirms(acknacks[i]) \in SeqNums
    BY <2>1, <2>2, SeqNumSubType DEF Confirms
  <2> QED BY <2>3, Sizes
<1>8. CASE acknacks' = acknacks
  <2>1. \A i \in 1..Len(acknacks) : Confirms(acknacks[i]) <= t
    BY <1>1, <1>5, <1>7
  <2> QED BY <1>2, <1>5, <1>6, <1>8, <2>1 DEF AcknacksInOrder
<1>9. CASE acknacks' = Append(acknacks, acknack)
  <2>1. /\ acknacks' \in Seq(Acknacks) /\ Len(acknacks') = Len(acknacks) + 1
        /\ \A i \in 1..Len(acknacks) : acknacks'[i] = acknacks[i]
        /\ acknacks'[Len(acknacks) + 1] = acknack
    BY <1>5, <1>9, AppendProperties
  <2>2. ASSUME NEW i \in 1..Len(acknacks')
        PROVE  i \in 1..Len(acknacks) \/ (acknacks'[i] = acknack /\ i = Len(acknacks) + 1)
    BY <1>5, <2>1
  <2>3. \A i \in 1..Len(acknacks') :
           /\ Confirms(acknacks'[i]) \in Int /\ Confirms(acknacks'[i]) <= t
           /\ i = Len(acknacks) + 1 => Confirms(acknacks'[i]) = t
    BY <1>1, <1>4, <1>5, <1>7, <2>1, <2>2
  <2>4. \A i, j \in 1..Len(acknacks') :
           i <= j => Confirms(acknacks'[i]) <= Confirms(acknacks'[j])
    <3> SUFFICES ASSUME NEW i \in 1..Len(acknacks'), NEW j \in 1..Len(acknacks'), i <= j
                 PROVE  Confirms(acknacks'[i]) <= Confirms(acknacks'[j])
      OBVIOUS
    <3>1. CASE j \in 1..Len(acknacks)
      <4>1. i \in 1..Len(acknacks)
        BY <1>5, <2>1, <3>1
      <4> QED BY <1>5, <2>1, <3>1, <4>1
    <3>2. CASE j = Len(acknacks) + 1
      BY <2>3, <3>2
    <3> QED BY <2>2, <3>1, <3>2
  <2>5. \A i \in 1..Len(acknacks') : Confirms(acknacks[i])' <= Taken'
    BY <1>6, <2>3
  <2>6. \A i, j \in 1..Len(acknacks') :
           i <= j => Confirms(acknacks[i])' <= Confirms(acknacks[j])'
    BY <1>6, <2>4
  <2> QED BY <1>2, <2>1, <2>5, <2>6 DEF AcknacksInOrder
<1> QED BY <1>3, <1>8, <1>9

LEMMA Near ==
    ASSUME Window, Parties, FreedIsTaken, UnderWay, NEW e \in network
    PROVE  \E k \in Oldest..InFlight - Taken :
                /\ Carries(e, k) /\ k \in Int
                /\ k < SeqNumMidsize - 1 /\ 1 - k < SeqNumMidsize
<1>1. InFlight \in 0..History /\ Taken \in 0..InFlight /\ History \in Nat
  BY Positions
<1>2. PICK k \in Oldest..InFlight - Taken : Carries(e, k)
  BY DEF UnderWay
<1>3. k \in Int /\ Oldest <= k /\ k <= History
  BY <1>1, <1>2, ChannelSizes
<1>4. k < SeqNumMidsize - 1 /\ 1 - k < SeqNumMidsize
  BY <1>1, <1>3, ChannelSizes, Sizes
<1> QED BY <1>2, <1>3, <1>4

(* The message taken is the next one after those the Agent took: it was sent,*)
(* and is as its buffer holds it.                                            *)
LEMMA TakesNext ==
    ASSUME Window, Parties, FreedIsTaken, UnderWay, NEW d \in network, IsNext(d)
    PROVE  Taken + 1 <= InFlight /\ d.data = data[Slot(d.seq_num)]
<1>1. /\ agent_taken \in SeqNums /\ InFlight \in 0..History /\ Taken \in 0..InFlight
      /\ History \in Nat
  BY Positions
<1>2. PICK k \in Oldest..InFlight - Taken :
            /\ Carries(d, k) /\ k \in Int
            /\ k < SeqNumMidsize - 1 /\ 1 - k < SeqNumMidsize
  BY Near
<1>3. SeqNumAdd(agent_taken, k) = SeqNumAdd(agent_taken, 1)
  BY <1>2, Announced DEF IsNext
<1>4. k - 1 < SeqNumMidsize /\ 1 \in Int
  BY <1>2, Sizes
<1>5. k = 1
  BY <1>1, <1>2, <1>3, <1>4, CmpCompares
<1>6. d.data = data[Slot(d.seq_num)]
  <2>1. ~IsData(Beat(SeqNumAdd(agent_taken, k)))
    BY Datagrams
  <2>2. k > 0
    BY <1>5
  <2>3. d.data = data[Slot(SeqNumAdd(agent_taken, k))]
    BY <1>2, <2>1, <2>2 DEF Carries, IsNext
  <2> QED BY <1>5, <2>3 DEF IsNext
<1> QED BY <1>1, <1>2, <1>5, <1>6

LEMMA TakingKeeps ==
    ASSUME ChannelKept, NEW d \in network, AgentTakes(d)
    PROVE  ChannelKept'
<1>1. /\ Window /\ Parties /\ FreedIsTaken /\ AcknacksInOrder /\ UnderWay
      /\ IsData(d) /\ d.seq_num = SeqNumAdd(agent_taken, 1)
      /\ AgentAnswers(d, d.seq_num) /\ agent_taken' = d.seq_num
      /\ UNCHANGED vars /\ UNCHANGED session
      /\ network' \subseteq Pruned(network, d.seq_num)
  <2>1. network' \subseteq Pruned(network, d.seq_num)
    BY DEF AgentTakes, Pruned
  <2> QED BY <2>1 DEF ChannelKept, AgentTakes, IsNext
<1>2. /\ last_acknown' = last_acknown /\ last_sent' = last_sent /\ data' = data
      /\ [Next]_vars /\ call' = call /\ confirmed' = confirmed
  BY <1>1 DEF vars, cursors, buffers, session
<1>3. /\ last_acknown \in SeqNums /\ agent_taken \in SeqNums
      /\ InFlight \in 0..History /\ Taken \in 0..InFlight /\ History \in Nat
      /\ agent_taken = SeqNumAdd(last_acknown, Taken)
      /\ \A k \in Int : SeqNumAdd(agent_taken, k) = SeqNumAdd(last_acknown, Taken + k)
  BY <1>1, Positions
<1> PICK t \in Int : t = Taken + 1
  BY <1>3
<1>4. ASSUME NEW e \in network
      PROVE  \E k \in Oldest..InFlight - Taken :
                /\ Carries(e, k) /\ k \in Int
                /\ k < SeqNumMidsize - 1 /\ 1 - k < SeqNumMidsize
  BY <1>1, Near
<1>5. t <= InFlight
  BY <1>1, TakesNext DEF IsNext
<1>6. d.seq_num = SeqNumAdd(last_acknown, t) /\ d.seq_num \in SeqNums
  BY <1>1, <1>3, AddType
<1>7. Taken' = t /\ t \in Taken..InFlight
  <2>1. t \in Nat /\ t < SeqNumSize
    BY <1>3, <1>5, Sizes
  <2>2. SeqNumSub(SeqNumAdd(last_acknown, t), last_acknown) = t
    BY <1>3, <2>1, SubOfAdd
  <2>3. t \in Taken..InFlight
    BY <1>3, <1>5
  <2> QED BY <1>1, <1>2, <1>6, <2>2, <2>3 DEF Taken
<1>8. InFlight' = InFlight
  BY <1>2 DEF InFlight
<1>9. AcknacksInOrder' /\ agent_announced' \in SeqNums
  <2>1. Announces(d) \in SeqNums
    BY <1>1, <1>6 DEF Announces
  <2>2. AgentAnswers(d, SeqNumAdd(last_acknown, t))
    BY <1>1, <1>6
  <2> QED BY <1>1, <1>2, <1>7, <2>1, <2>2, AnswersInOrder
<1>10. Parties'
  BY <1>1, <1>2, <1>6, <1>9 DEF Parties
<1>11. FreedIsTaken'
  <2>1. Taken' <= InFlight'
    BY <1>5, <1>7, <1>8
  <2> QED BY <2>1 DEF FreedIsTaken, Taken, InFlight
<1>12. Window'
  BY <1>1, <1>2, NextKeepsWindow
<1>13. ASSUME NEW e \in network'
       PROVE  \E k \in Oldest..InFlight' - Taken' : Carries(e, k)'
  <2>1. e \in network /\ SeqNumSub(d.seq_num, Announces(e)) \notin Lifetime..SeqNumMidsize - 1
    BY <1>1 DEF Pruned
  <2>2. PICK k \in Oldest..InFlight - Taken :
            /\ Carries(e, k) /\ k \in Int
            /\ k < SeqNumMidsize - 1 /\ 1 - k < SeqNumMidsize
    BY <1>4, <2>1
  <2>3. k # Oldest
    <3> SUFFICES ASSUME k = Oldest PROVE FALSE
      OBVIOUS
    <3>1. 1 - k = Lifetime + History /\ k <= 1 /\ 1 \in Int /\ 1 - k < SeqNumSize
      BY ChannelSizes, Sizes
    <3>2. SeqNumSub(SeqNumAdd(agent_taken, 1), SeqNumAdd(agent_taken, k)) = 1 - k
      BY <1>3, <2>2, <3>1, SubMeasures
    <3>3. SeqNumSub(d.seq_num, Announces(e)) = Lifetime + History
      BY <1>1, <2>2, <3>1, <3>2, Announced
    <3>4. Lifetime + History \in Lifetime..SeqNumMidsize - 1
      BY ChannelSizes, Sizes
    <3> QED BY <2>1, <3>3, <3>4
  <2> PICK j \in Int : j = k - 1
    BY <2>2
  <2>4. j \in Oldest..InFlight' - Taken'
    BY <2>2, <2>3, <1>3, <1>7, <1>8, ChannelSizes
  <2>5. SeqNumAdd(agent_taken', j) = SeqNumAdd(agent_taken, k)
    <3>1. SeqNumAdd(SeqNumAdd(agent_taken, 1), j) = SeqNumAdd(agent_taken, 1 + j)
      BY <1>3, AddTwice
    <3>2. 1 + j = k
      BY <2>2
    <3> QED BY <1>1, <3>1, <3>2
  <2>6. j > 0 => k > 0
    BY <2>2
  <2>7. Carries(e, j)'
    <3>1. \/ e = Beat(SeqNumAdd(agent_taken', j))
          \/ /\ e = Letter(SeqNumAdd(agent_taken', j), e.data)
             /\ j > 0 => e.data = data'[Slot(SeqNumAdd(agent_taken', j))]
      BY <2>2, <2>5, <2>6, <1>2 DEF Carries
    <3> QED BY <3>1 DEF Carries
  <2> QED BY <2>4, <2>7
<1> QED BY <1>9, <1>10, <1>11, <1>12, <1>13 DEF ChannelKept, UnderWay

LEMMA NothingTaken ==
    ASSUME ChannelKept, UNCHANGED <<vars, session, agent_taken>>,
           network' \subseteq network, AcknacksInOrder', agent_announced' \in SeqNums
    PROVE  ChannelKept'
<1>1. /\ last_acknown' = last_acknown /\ last_sent' = last_sent /\ data' = data
      /\ agent_taken' = agent_taken /\ [Next]_vars /\ UNCHANGED session
  BY DEF vars, cursors, buffers
<1>2. InFlight' = InFlight /\ Taken' = Taken
  BY <1>1 DEF InFlight, Taken
<1>3. Window'
  BY <1>1, NextKeepsWindow DEF ChannelKept
<1>4. Parties' /\ FreedIsTaken'
  BY <1>1 DEF ChannelKept, Parties, FreedIsTaken, session
<1>5. UnderWay'
  <2>1. ASSUME NEW d \in network'
        PROVE  \E k \in Oldest..InFlight' - Taken' : Carries(d, k)'
    <3>1. PICK k \in Oldest..InFlight - Taken : Carries(d, k)
      BY DEF ChannelKept, UnderWay
    <3>2. Carries(d, k)'
      BY <1>1, <3>1 DEF Carries
    <3> QED BY <1>2, <3>1, <3>2
  <2> QED BY <2>1 DEF UnderWay
<1> QED BY <1>3, <1>4, <1>5 DEF ChannelKept

LEMMA ReplyingKeeps ==
    ASSUME ChannelKept, NEW d \in network, AgentReplies(d)
    PROVE  ChannelKept'
<1>1. /\ Window /\ Parties /\ FreedIsTaken /\ AcknacksInOrder /\ UnderWay
      /\ UNCHANGED <<vars, session, agent_taken>> /\ AgentAnswers(d, agent_taken)
      /\ network' \subseteq network
  BY DEF ChannelKept, AgentReplies
<1>2. last_acknown' = last_acknown
  BY <1>1 DEF vars, cursors
<1>3. /\ agent_taken \in SeqNums /\ Taken \in 0..InFlight /\ InFlight \in 0..History
      /\ agent_taken = SeqNumAdd(last_acknown, Taken)
  BY <1>1, Positions
<1> PICK t \in Int : t = Taken
  BY <1>3
<1>4. t \in Taken..InFlight
  BY <1>3
<1>5. Taken' = t
  BY <1>1, <1>2 DEF Taken
<1>6. Announces(d) \in SeqNums
  <2>1. PICK k \in Oldest..InFlight - Taken : Carries(d, k)
    BY <1>1 DEF UnderWay
  <2>2. k \in Int
    BY <1>3, ChannelSizes
  <2> QED BY <1>3, <2>1, <2>2, Announced, AddType
<1>7. AgentAnswers(d, SeqNumAdd(last_acknown, t))
  BY <1>1, <1>3
<1>8. AcknacksInOrder' /\ agent_announced' \in SeqNums
  BY <1>1, <1>2, <1>4, <1>5, <1>6, <1>7, AnswersInOrder
<1> QED BY <1>1, <1>8, NothingTaken

LEMMA LosingKeeps ==
    ASSUME ChannelKept, UNCHANGED <<vars, session, acknacks, agent>>,
           network' \subseteq network
    PROVE  ChannelKept'
<1>1. UNCHANGED <<vars, session, agent_taken>> /\ agent_announced' \in SeqNums
  BY DEF ChannelKept, Parties, agent
<1>2. last_acknown' = last_acknown /\ acknacks' = acknacks /\ Taken' = Taken
  BY DEF vars, cursors, agent, Taken
<1>3. AcknacksInOrder'
  BY <1>2 DEF ChannelKept, AcknacksInOrder, Confirms
<1> QED BY <1>1, <1>3, NothingTaken

LEMMA ChannelStarts ==
    ASSUME ChannelInit
    PROVE  ChannelKept
<1>1. Window
  BY InitWindow DEF ChannelInit
<1>2. /\ call = "idle" /\ confirmed = FALSE /\ network = {} /\ acknacks = <<>>
      /\ agent_taken = SeqNumMax /\ agent_announced = SeqNumMax
      /\ last_acknown = SeqNumMax /\ last_sent = SeqNumMax
  BY DEF ChannelInit, Init
<1>3. Parties
  <2>1. SeqNumMax \in SeqNums
    BY Sizes
  <2> QED BY <1>2, <2>1 DEF Parties
<1>4. Taken = 0 /\ InFlight = 0
  BY <1>2, Sizes DEF Taken, InFlight, SeqNumSub
<1>5. FreedIsTaken
  BY <1>4 DEF FreedIsTaken, Taken, InFlight
<1>6. AcknacksInOrder
  <2>1. acknacks \in Seq([first_unacked : SeqNums, nack : BOOLEAN]) /\ Len(acknacks) = 0
    BY <1>2, EmptySeq
  <2> QED BY <2>1 DEF AcknacksInOrder
<1> QED BY <1>1, <1>2, <1>3, <1>5, <1>6 DEF ChannelKept, UnderWay

LEMMA ChannelGoesOn ==
    ASSUME ChannelKept, [ChannelNext]_channelVars
    PROVE  ChannelKept'
<1>1. CASE GoingOn
  BY <1>1, ClientGoesOn
<1>2. CASE RunHandlesAcknack
  BY <1>2, AcknackKeeps
<1>3. CASE \E d \in network : AgentTakes(d)
  BY <1>3, TakingKeeps
<1>4. CASE \E d \in network : AgentReplies(d)
  BY <1>4, ReplyingKeeps
<1>5. CASE \E d \in network : NetworkLoses(d)
  <2>1. UNCHANGED <<vars, session, acknacks, agent>> /\ network' \subseteq network
    BY <1>5 DEF NetworkLoses
  <2> QED BY <2>1, LosingKeeps
<1>6. CASE UNCHANGED channelVars
  BY <1>6, LosingKeeps DEF channelVars
<1> QED BY <1>1, <1>2, <1>3, <1>4, <1>5, <1>6 DEF ChannelNext, Client, GoingOn

(***************************************************************************)
(* What the Agent has not taken yet, buffer by buffer.                     *)
(***************************************************************************)
LEMMA UnreadBuffers ==
    /\ Unread = FlattenSeq(Buffers(agent_taken, Taken, data))
    /\ Unread' = FlattenSeq(Buffers(agent_taken', Taken', data'))
BY DEF Unread, Buffers

(***************************************************************************)
(* Every step is one of EndToEnd or none of its.                           *)
(***************************************************************************)
ChannelHolds == ChannelKept /\ SizesTell

LEMMA WritesAccepted ==
    ASSUME ChannelHolds, NEW m \in Messages, AppWrites(m)
    PROVE  Stream!Accept
<1>1. ChannelKept /\ SizesTell /\ Window /\ Write(m)
  BY DEF ChannelHolds, ChannelKept, AppWrites
<1>2. agent_taken' = agent_taken /\ delivered' = delivered /\ round' = round
  BY DEF AppWrites, agent
<1>3. PICK lo, hi \in Nat : Wrote(lo, hi) /\ Adds(m, lo, hi)
  BY <1>1, WriteAdds
<1>4. /\ Taken \in Nat /\ Taken \in 0..History /\ Taken < Ahead /\ Ahead \in Nat
      /\ agent_taken = SeqNumAdd(last_acknown, Taken)
  <2>1. /\ Taken \in Nat /\ Taken \in 0..InFlight /\ InFlight \in 0..History /\ History \in Nat
        /\ agent_taken = SeqNumAdd(last_acknown, Taken)
    BY <1>1, Positions DEF ChannelKept
  <2>2. InFlight < Ahead /\ Ahead \in 1..History + 1
    BY <1>1, Cursors DEF Window
  <2> QED BY <2>1, <2>2
<1>5. /\ lo \in Ahead..Ahead + 1 /\ hi \in lo..History /\ last_acknown' = last_acknown
      /\ data' \in [Slots -> Seq(Chunks)]
      /\ \A n \in 1..History : n \notin lo..hi => data'[At(n)] = data[At(n)]
  BY <1>3 DEF Wrote
<1> PICK a \in Int : a = lo - Taken
  BY <1>4
<1> PICK k \in 1..History : k = hi - lo + 1
  <2>1. lo \in Nat /\ lo # 0
    BY <1>4, <1>5
  <2>2. hi - lo + 1 \in 1..History
    BY <1>5, <2>1, Sizes
  <2> QED BY <2>2
<1> PICK pieces : pieces = [j \in 1..k |-> Piece(m, j, k)]
  OBVIOUS
<1>9. /\ pieces \in Seq(Chunks) /\ Len(pieces) = k /\ k \in Int
      /\ \A j \in 1..k : pieces[j] = Piece(m, j, k)
  BY PiecesWritten
<1>10. \A n \in lo..hi : data'[At(n)] = Append(data[At(n)], pieces[n - lo + 1])
  <2> TAKE n \in lo..hi
  <2>1. n - lo + 1 \in 1..k
    BY <1>5
  <2>2. data'[At(n)] = Append(data[At(n)], Piece(m, n - lo + 1, k))
    BY <1>3 DEF Adds
  <2> QED BY <1>9, <2>1, <2>2
<1>11. Enlarged(Chunks, Buffers(agent_taken, Taken, data), Buffers(agent_taken, Taken, data'),
                a, pieces)
  <2> HIDE DEF Adds
  <2> QED BY <1>1, <1>4, <1>5, <1>9, <1>10, EnlargesBehind, ZenonT(60)
<1>6. FlattenSeq(Buffers(agent_taken, Taken, data'))
            = Cat(FlattenSeq(Buffers(agent_taken, Taken, data)), pieces)
  BY <1>11, FlattenAdded
<1>7. Unread' = Unread \o pieces
  <2>1. Taken' = Taken
    BY <1>2, <1>5 DEF Taken
  <2>2. Buffers(agent_taken', Taken', data') = Buffers(agent_taken, Taken, data')
    BY <1>2, <2>1
  <2> QED BY <1>6, <2>2, UnreadBuffers DEF Cat
<1>8. pieces \in Stream!Pieces(m)
  BY PiecesWritten DEF Stream!Pieces, WrittenPieces
<1> QED BY <1>2, <1>7, <1>8 DEF Stream!Accept

(* Taking the next message delivers the pieces its buffer holds.             *)
LEMMA TakesDelivered ==
    ASSUME ChannelHolds, NEW d \in network, AgentTakes(d)
    PROVE  Stream!Deliver
<1>1. /\ Window /\ Parties /\ FreedIsTaken /\ UnderWay /\ SizesTell
      /\ IsNext(d) /\ d.seq_num = SeqNumAdd(agent_taken, 1) /\ agent_taken' = d.seq_num
      /\ UNCHANGED vars /\ delivered' = d.data /\ round' = 1 - round
  BY DEF ChannelHolds, ChannelKept, AgentTakes, IsNext
<1>2. /\ last_acknown \in SeqNums /\ InFlight \in 0..History /\ Taken \in 0..InFlight
      /\ Taken \in Nat /\ History \in Nat
      /\ \A k \in Int : SeqNumAdd(agent_taken, k) = SeqNumAdd(last_acknown, Taken + k)
  BY <1>1, Positions
<1>3. Taken + 1 <= InFlight /\ d.data = data[Slot(d.seq_num)]
  BY <1>1, TakesNext
<1> PICK t \in Nat : t = Taken + 1
  BY <1>2
<1>4. /\ t \in 0..History /\ t \in 1..History /\ History - Taken = (History - t) + 1
      /\ History - t \in Nat /\ 1 \in 1..History - Taken /\ 1 \in Int
  BY <1>2, <1>3
<1>5. last_acknown' = last_acknown /\ data' = data
  BY <1>1 DEF vars, cursors, buffers
<1>6. agent_taken' = SeqNumAdd(last_acknown, t)
  BY <1>1, <1>2, <1>4
<1>7. Taken' = t
  <2>1. t < SeqNumSize
    BY <1>4, Sizes
  <2>2. SeqNumSub(SeqNumAdd(last_acknown, t), last_acknown) = t
    BY <1>2, <2>1, SubOfAdd
  <2> QED BY <1>5, <1>6, <2>2 DEF Taken
<1>8. data[At(t)] = d.data /\ d.data # <<>>
  <2>1. data[At(t)] = d.data
    BY <1>1, <1>3, <1>6 DEF At
  <2>2. t < Ahead
    BY <1>1, <1>2, <1>3, Cursors DEF Window
  <2> QED BY <1>1, <1>4, <2>1, <2>2, HeldBefore
<1>9. Leaves(FlattenSeq(Buffers(agent_taken, Taken, data)), d.data,
             FlattenSeq(Buffers(agent_taken', t, data)))
  <2>1. agent_taken = SeqNumAdd(last_acknown, Taken) /\ Taken \in Int
    BY <1>1, Positions
  <2> PICK next : next = agent_taken'
    OBVIOUS
  <2>2. next = SeqNumAdd(last_acknown, t)
    BY <1>6
  <2>3. Leaves(FlattenSeq(Buffers(agent_taken, Taken, data)), data[At(t)],
               FlattenSeq(Buffers(next, t, data)))
    BY <1>1, <1>4, <1>8, <2>1, <2>2, TakenFirst
  <2> QED BY <1>8, <2>3
<1>10. /\ Unread = FlattenSeq(Buffers(agent_taken, Taken, data))
       /\ Unread' = FlattenSeq(Buffers(agent_taken', t, data))
  BY <1>5, <1>7, UnreadBuffers
<1> QED BY <1>1, <1>8, <1>9, <1>10 DEF Leaves, Stream!Deliver

(* What an acknack frees was taken, and comes round behind the others.       *)
LEMMA FreedPads ==
    ASSUME Window, Parties, FreedIsTaken, NEW c \in 0..Taken, Acked(c),
           agent_taken' = agent_taken
    PROVE  Unread' = Unread
<1>1. /\ Taken \in 0..History /\ Taken - c \in Int /\ c \in 0..Taken
      /\ agent_taken = SeqNumAdd(last_acknown, Taken)
  <2>1. /\ InFlight \in 0..History /\ Taken \in 0..InFlight /\ History \in Nat
        /\ agent_taken = SeqNumAdd(last_acknown, Taken)
    BY Positions
  <2> QED BY <2>1
<1>2. Taken' = Taken - c
  <2>1. last_acknown' = SeqNumAdd(last_acknown, c) /\ last_sent' = last_sent
    BY DEF Acked
  <2> QED BY <2>1, MovedBy
<1>3. FlattenSeq(Buffers(agent_taken, Taken - c, data'))
          = FlattenSeq(Buffers(agent_taken, Taken, data))
  <2> HIDE DEF Taken
  <2> QED BY <1>1, FreedBehind
<1> QED BY <1>2, <1>3, UnreadBuffers

LEMMA AcknackPads ==
    ASSUME ChannelHolds, RunHandlesAcknack
    PROVE  UNCHANGED Stream!vars /\ [Next]_vars
<1>1. /\ Window /\ Parties /\ FreedIsTaken /\ AcknacksInOrder
      /\ acknacks # <<>> /\ ProcessAcknack(Head(acknacks).first_unacked) /\ UNCHANGED agent
  BY DEF ChannelHolds, ChannelKept, RunHandlesAcknack
<1>2. /\ Confirms(Head(acknacks)) \in 0..Taken /\ Acked(Confirms(Head(acknacks)))
      /\ [Next]_vars
  BY <1>1, HeadAcknack
<1>3. agent_taken' = agent_taken /\ delivered' = delivered /\ round' = round
  BY <1>1 DEF agent
<1>4. Unread' = Unread
  BY <1>1, <1>2, <1>3, FreedPads
<1> QED BY <1>2, <1>3, <1>4 DEF Stream!vars

LEMMA RestStutters ==
    ASSUME UNCHANGED <<last_acknown, data, agent_taken, delivered, round>>
    PROVE  UNCHANGED Stream!vars
<1>1. Taken' = Taken
  BY DEF Taken
<1>2. Unread' = Unread
  BY <1>1, UnreadBuffers
<1> QED BY <1>2 DEF Stream!vars

LEMMA StepsAreOfStream ==
    ASSUME ChannelHolds, [ChannelNext]_channelVars
    PROVE  [Stream!Next]_(Stream!vars) /\ SizesTell'
<1>0. Window /\ SizesTell
  BY DEF ChannelHolds, ChannelKept
<1>1. CASE \E m \in Messages : AppWrites(m)
  <2>1. PICK m \in Messages : AppWrites(m)
    BY <1>1
  <2>2. [Next]_vars
    BY <2>1 DEF AppWrites, Next
  <2> QED BY <1>0, <2>1, <2>2, WritesAccepted, NextKeepsSizesTell DEF Stream!Next
<1>2. CASE RunHandlesAcknack
  BY <1>0, <1>2, AcknackPads, NextKeepsSizesTell
<1>3. CASE \E d \in network : AgentTakes(d)
  <2>1. PICK d \in network : AgentTakes(d)
    BY <1>3
  <2>2. [Next]_vars
    BY <2>1 DEF AgentTakes
  <2> QED BY <1>0, <2>1, <2>2, TakesDelivered, NextKeepsSizesTell DEF Stream!Next
<1>4. CASE CallRun \/ RunSends \/ RunSentAll \/ RunSendFails \/ RunListens
           \/ RunWaited \/ RunConfirms \/ RunTimesOut \/ TimePasses
  <2>1. [Next]_vars
    BY <1>4 DEF CallRun, RunSends, RunSentAll, RunSendFails, RunListens, RunWaited,
       RunConfirms, RunTimesOut, TimePasses, Next
  <2>2. UNCHANGED <<last_acknown, data>>
    BY <1>4 DEF CallRun, RunSends, RunSentAll, RunSendFails, RunListens, RunWaited,
       RunConfirms, RunTimesOut, TimePasses, FlashBegin, FlashSend, FlashSendFails,
       FlashEnd, UpdateHeartbeat, Tick, cursors, buffers, vars
  <2>3. UNCHANGED agent
    BY <1>4 DEF CallRun, RunSends, RunSentAll, RunSendFails, RunListens, RunWaited,
       RunConfirms, RunTimesOut, TimePasses
  <2> QED BY <1>0, <2>1, <2>2, <2>3, RestStutters, NextKeepsSizesTell DEF agent
<1>5. CASE \/ \E d \in network : AgentReplies(d) \/ NetworkLoses(d)
           \/ UNCHANGED channelVars
  <2>1. UNCHANGED <<vars, agent_taken, delivered, round>>
    BY <1>5 DEF AgentReplies, NetworkLoses, channelVars, agent
  <2>2. UNCHANGED <<last_acknown, data, agent_taken, delivered, round>> /\ [Next]_vars
    BY <2>1 DEF vars, cursors, buffers
  <2> QED BY <1>0, <2>2, RestStutters, NextKeepsSizesTell
<1> QED BY <1>1, <1>2, <1>3, <1>4, <1>5 DEF ChannelNext, Client

LEMMA StreamStarts ==
    ASSUME ChannelInit
    PROVE  ChannelHolds /\ Stream!Init
<1>1. ChannelKept /\ Window /\ Parties /\ FreedIsTaken
  BY ChannelStarts DEF ChannelKept
<1>2. /\ size = [i \in Slots |-> Offset] /\ data = [i \in Slots |-> <<>>]
      /\ delivered = <<>> /\ round = 0
  BY DEF ChannelInit, Init
<1>3. SizesTell
  BY <1>2 DEF SizesTell
<1>4. Taken \in 0..History /\ agent_taken = SeqNumAdd(last_acknown, Taken)
  <2>1. /\ InFlight \in 0..History /\ Taken \in 0..InFlight /\ History \in Nat
        /\ agent_taken = SeqNumAdd(last_acknown, Taken)
    BY <1>1, Positions
  <2> QED BY <2>1
<1>5. \A i \in Slots : data[i] = <<>>
  BY <1>2
<1>6. FlattenSeq(Buffers(agent_taken, Taken, data)) = <<>>
  BY <1>1, <1>4, <1>5, NothingHeld DEF Window, TypeOK
<1>7. Unread = <<>>
  BY <1>6, UnreadBuffers
<1> QED BY <1>1, <1>2, <1>3, <1>7 DEF ChannelHolds, Stream!Init

(***************************************************************************)
(* The theorems.                                                           *)
(***************************************************************************)
(* Whatever is lost, repeated, reordered or delayed by less than a lifetime, *)
(* what is on its way is what the Client's buffers hold, and the acknacks on *)
(* their way confirm only what the Agent took.                               *)
THEOREM ChannelInvariant == ChannelSpec => []ChannelKept
<1>1. ChannelInit => ChannelKept
  BY ChannelStarts
<1>2. ChannelKept /\ [ChannelNext]_channelVars => ChannelKept'
  BY ChannelGoesOn
<1> QED BY <1>1, <1>2, PTL DEF ChannelSpec

THEOREM ChannelTypeCorrect == ChannelSpec => []ChannelTypeOK
<1>1. ChannelKept => ChannelTypeOK
  BY DEF ChannelKept, Window, Parties, ChannelTypeOK
<1> QED BY <1>1, ChannelInvariant, PTL

(* uxr_process_acknack frees only buffers whose message the Agent took.      *)
THEOREM FreesTaken == ChannelSpec => []FreedIsTaken
<1>1. ChannelKept => FreedIsTaken
  BY DEF ChannelKept
<1> QED BY <1>1, ChannelInvariant, PTL

(* A sequence number the Agent may still take stands for one message: the    *)
(* one the Client's buffer of that number holds.                             *)
THEOREM NeverTwoMessages == ChannelSpec => []OneMessagePerSeqNum
<1>1. ASSUME ChannelKept, NEW d \in network, IsData(d), SeqNumBehind(agent_taken, d.seq_num)
      PROVE  d = Data(d.seq_num)
  <2>1. /\ agent_taken \in SeqNums /\ InFlight \in 0..History /\ Taken \in 0..InFlight
        /\ History \in Nat
    BY <1>1, Positions DEF ChannelKept
  <2>2. PICK k \in Oldest..InFlight - Taken : Carries(d, k)
    BY <1>1 DEF ChannelKept, UnderWay
  <2>3. k \in Int /\ k < SeqNumMidsize /\ -k < SeqNumMidsize
    BY <2>1, <2>2, ChannelSizes, Sizes
  <2>4. d.seq_num = SeqNumAdd(agent_taken, k)
    BY <1>1, <2>2, Announced
  <2>5. SeqNumCmp(agent_taken, d.seq_num) < 0
    <3>1. agent_taken # d.seq_num
      BY <1>1, <2>1, <2>3, <2>4, AddType, Sizes DEF SeqNumBehind
    <3> QED BY <1>1, <3>1 DEF SeqNumCmp
  <2>6. 0 - k < SeqNumMidsize /\ k - 0 < SeqNumMidsize /\ 0 \in Int
    BY <2>3
  <2>7. SeqNumCmp(SeqNumAdd(agent_taken, 0), SeqNumAdd(agent_taken, k)) < 0 <=> 0 < k
    BY <2>1, <2>3, <2>6, CmpCompares
  <2>8. 0 < k
    BY <2>1, <2>4, <2>5, <2>7, AddNothing
  <2>9. d = Letter(d.seq_num, d.data) /\ d.data = data[Slot(d.seq_num)]
    <3>1. ~IsData(Beat(SeqNumAdd(agent_taken, k)))
      BY Datagrams
    <3> QED BY <1>1, <2>2, <2>3, <2>4, <2>8, <3>1 DEF Carries
  <2> QED BY <2>9 DEF Letter, Data
<1>2. ChannelKept => OneMessagePerSeqNum
  BY <1>1 DEF OneMessagePerSeqNum
<1> QED BY <1>2, ChannelInvariant, PTL

(* The Agent takes what the application wrote, once and in order, whatever   *)
(* the network does to the datagrams and the transport to the Client: write, *)
(* flash, uxr_process_acknack and the retransmissions implement EndToEnd.    *)
THEOREM ReadsWhatIsWritten == ChannelSpec => ImplementsEndToEnd
<1>1. ChannelInit => ChannelHolds /\ Stream!Init
  BY StreamStarts
<1>2. ChannelHolds /\ [ChannelNext]_channelVars
         => ChannelHolds' /\ [Stream!Next]_(Stream!vars)
  BY ChannelGoesOn, StepsAreOfStream DEF ChannelHolds
<1> QED BY <1>1, <1>2, PTL DEF ChannelSpec, ImplementsEndToEnd, Stream!Spec
=============================================================================

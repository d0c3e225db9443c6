--------------------- MODULE OutputReliableStream_proofs ---------------------
(* The window of an output reliable stream, for every number of buffers,     *)
(* every size of them and every set of submessages.                          *)
(*                                                                           *)
(* The inductive invariant is the conjunction of the three the runs check:   *)
(* the bound of the window needs the counting of free slots, which needs to  *)
(* know which slots of the window are in use.                                *)
EXTENDS OutputReliableStream, SequencesExt, SeqNum_proofs, FiniteSetTheorems,
        SequenceTheorems, WellFoundedInduction

Window == TypeOK /\ WindowBounded /\ WindowFilled

LEMMA Sizes ==
    /\ History \in Nat \ {0}
    /\ SeqNumSize \in Nat \ {0}
    /\ SeqNumMidsize \in Nat
    /\ History + 1 < SeqNumMidsize
    /\ SeqNumSize = 2 * SeqNumMidsize
    /\ SeqNums = 0..SeqNumSize - 1
    /\ SeqNumMax = SeqNumSize - 1
<1>1. /\ SeqNumSize \in Nat \ {0} /\ SeqNumMidsize \in Nat
      /\ SeqNumSize = 2 * SeqNumMidsize /\ SeqNumMax = SeqNumSize - 1
  BY SeqNumSizes
<1>2. History \in Nat \ {0} /\ 2 * (History + 1) < SeqNumSize
  BY HistoryAssumption
<1> QED BY <1>1, <1>2 DEF SeqNums

LEMMA BufferSizes ==
    /\ Offset \in Nat /\ Offset % 4 = 0
    /\ SubheaderSize \in Nat \ {0}
    /\ Capacity \in Nat /\ Offset + SubheaderSize < Capacity
    /\ \A m \in Messages : Length[m] \in Nat \ {0}
    /\ Block \in Nat \ {0} /\ Offset + SubheaderSize + Block = Capacity
<1>1. /\ Offset \in Nat /\ Offset % 4 = 0 /\ SubheaderSize \in Nat \ {0}
      /\ Capacity \in Nat /\ Offset + SubheaderSize < Capacity
      /\ Length \in [Messages -> Nat \ {0}]
  BY BufferAssumption
<1> QED BY <1>1 DEF Block

(***************************************************************************)
(* The ring: the buffers of the numbers that follow s.                     *)
(***************************************************************************)
LEMMA SlotOfAdd ==
    ASSUME NEW s \in SeqNums, NEW n \in 0..SeqNumSize
    PROVE  Slot(SeqNumAdd(s, n)) = (s + n) % History
<1>1. PICK laps \in 1..SeqNumSize : SeqNumSize = History * laps
  BY HistoryAssumption
<1>2. SeqNumAdd(s, n) = IF s + n < SeqNumSize THEN s + n ELSE s + n - SeqNumSize
  BY SeqNumAddForm
<1>3. s + n \in Int
  BY Sizes
<1>4. CASE s + n < SeqNumSize
  BY <1>2, <1>4 DEF Slot
<1>5. CASE ~(s + n < SeqNumSize)
  <2> DEFINE q == -laps
             t == s + n
  <2>1. SeqNumAdd(s, n) = t + History * q
    BY <1>1, <1>2, <1>5, Sizes
  <2>2. q \in Int /\ t \in Int
    BY <1>1, <1>3
  <2> HIDE DEF q, t
  <2>3. (t + History * q) % History = t % History
    BY <2>2, RestOfSum, Sizes
  <2> QED BY <2>1, <2>3 DEF t, Slot
<1> QED BY <1>4, <1>5

LEMMA SlotType ==
    ASSUME NEW s \in SeqNums
    PROVE  Slot(s) \in Slots
  BY Sizes DEF Slot, Slots

LEMMA SlotsDiffer ==
    ASSUME NEW s \in SeqNums, NEW m \in 0..SeqNumSize, NEW n \in 0..SeqNumSize,
           m # n, m - n < History, n - m < History
    PROVE  Slot(SeqNumAdd(s, m)) # Slot(SeqNumAdd(s, n))
<1> DEFINE i == s + m
           j == s + n
<1>1. i \in Int /\ j \in Int /\ i # j /\ i - j < History /\ j - i < History
  BY Sizes
<1>2. Slot(SeqNumAdd(s, m)) = i % History /\ Slot(SeqNumAdd(s, n)) = j % History
  BY SlotOfAdd
<1> HIDE DEF i, j
<1>3. i % History # j % History
  BY <1>1, RestsDiffer, Sizes
<1> QED BY <1>2, <1>3

LEMMA SlotComesRound ==
    ASSUME NEW s \in SeqNums, NEW n \in 0..SeqNumSize, n + History <= SeqNumSize
    PROVE  Slot(SeqNumAdd(s, n + History)) = Slot(SeqNumAdd(s, n))
<1> DEFINE t == s + n
<1>1. Slot(SeqNumAdd(s, n)) = t % History
  BY SlotOfAdd
<1>2. n + History \in 0..SeqNumSize
  BY Sizes
<1>3. Slot(SeqNumAdd(s, n + History)) = (s + (n + History)) % History
  BY <1>2, SlotOfAdd
<1> DEFINE q == 1
<1>4. t \in Int /\ q \in Int /\ s + (n + History) = t + History * q
  BY Sizes
<1> HIDE DEF t, q
<1>5. (t + History * q) % History = t % History
  BY <1>4, RestOfSum, Sizes
<1> QED BY <1>1, <1>3, <1>4, <1>5

LEMMA SlotOfSome ==
    ASSUME NEW s \in SeqNums, NEW i \in Slots
    PROVE  \E n \in 1..History : Slot(SeqNumAdd(s, n)) = i
<1>1. s \in Int /\ i \in 0..History - 1
  BY Sizes DEF Slots
<1>2. PICK n \in 1..History : (s + n) % History = i
  BY <1>1, SomeRest, Sizes
<1>3. n \in 0..SeqNumSize
  BY Sizes
<1> QED BY <1>2, <1>3, SlotOfAdd

(* If the k buffers after last_acknown are in use, at most History - k are   *)
(* free.                                                                     *)
LEMMA FreeSlots ==
    ASSUME last_acknown \in SeqNums, NEW k \in 0..History,
           \A n \in 1..k : ~IsEmpty(SeqNumAdd(last_acknown, n))
    PROVE  get_available_free_slots \in 0..History - k
<1> DEFINE Free == {i \in Slots : size[i] = Offset}
           At(n) == Slot(SeqNumAdd(last_acknown, n))
           rank == [i \in Free |-> CHOOSE n \in 1..History : At(n) = i]
<1>1. \A i \in Free : rank[i] \in k + 1..History /\ At(rank[i]) = i
  <2> TAKE i \in Free
  <2>1. \E n \in 1..History : At(n) = i
    BY SlotOfSome
  <2>2. rank[i] \in 1..History /\ At(rank[i]) = i
    BY <2>1
  <2>3. rank[i] \notin 1..k
    BY <2>2 DEF IsEmpty
  <2> QED BY <2>2, <2>3, Sizes
<1>2. rank \in Injection(Free, k + 1..History)
  BY <1>1, ZenonT(60) DEF Injection, IsInjective
<1>3. /\ IsFiniteSet(k + 1..History)
      /\ Cardinality(k + 1..History)
            = IF k + 1 > History THEN 0 ELSE History - (k + 1) + 1
  <2>1. k + 1 \in Int /\ History \in Int
    BY Sizes
  <2> QED BY <2>1, FS_Interval
<1>4. IsFiniteSet(Free) /\ Cardinality(Free) <= Cardinality(k + 1..History)
  BY <1>2, <1>3, FS_Injection
<1>5. Cardinality(Free) \in Nat
  BY <1>4, FS_CardinalityType
<1> QED BY <1>3, <1>4, <1>5, Sizes DEF get_available_free_slots

(***************************************************************************)
(* The cursors as distances from last_acknown.                             *)
(***************************************************************************)
LEMMA Cursors ==
    ASSUME TypeOK, WindowBounded
    PROVE  /\ InFlight \in 0..History
           /\ Ahead \in 1..History + 1
           /\ InFlight < Ahead
           /\ last_sent = SeqNumAdd(last_acknown, InFlight)
           /\ last_written = SeqNumAdd(last_acknown, Ahead)
           /\ NextToSend = SeqNumAdd(last_acknown, InFlight + 1)
           /\ SeqNumAdd(last_written, 1) = SeqNumAdd(last_acknown, Ahead + 1)
<1>1. last_acknown \in SeqNums /\ last_sent \in SeqNums /\ last_written \in SeqNums
  BY DEF TypeOK
<1>2. InFlight \in SeqNums /\ Ahead \in SeqNums
  BY <1>1, SeqNumSubType DEF InFlight, Ahead
<1>3. InFlight \in 0..History /\ Ahead \in 1..History + 1 /\ InFlight < Ahead
  BY <1>2, Sizes DEF WindowBounded
<1>4. /\ last_sent = SeqNumAdd(last_acknown, InFlight)
      /\ last_written = SeqNumAdd(last_acknown, Ahead)
  BY <1>1, AddOfSub DEF InFlight, Ahead
<1>5. /\ InFlight \in Nat /\ InFlight + 1 < SeqNumSize
      /\ Ahead \in Nat /\ Ahead + 1 < SeqNumSize
  BY <1>3, Sizes
<1>6. /\ SeqNumAdd(SeqNumAdd(last_acknown, InFlight), 1)
            = SeqNumAdd(last_acknown, InFlight + 1)
      /\ SeqNumAdd(SeqNumAdd(last_acknown, Ahead), 1)
            = SeqNumAdd(last_acknown, Ahead + 1)
  BY <1>1, <1>5, AddOfAdd
<1> QED BY <1>3, <1>4, <1>6 DEF NextToSend

(* uxr_seq_num_cmp against the end of the window.                            *)
LEMMA InWindowMeans ==
    ASSUME TypeOK, NEW n \in 0..History + 2
    PROVE  InWindow(SeqNumAdd(last_acknown, n)) <=> n <= History
<1>1. /\ last_acknown \in SeqNums /\ n \in Nat /\ History \in Nat
      /\ n < SeqNumSize /\ History < SeqNumSize
      /\ n - History < SeqNumMidsize /\ History - n < SeqNumMidsize
  BY Sizes DEF TypeOK
<1> QED BY <1>1, CmpOfAdds DEF InWindow

LEMMA CanSendMeans ==
    ASSUME TypeOK, WindowBounded, CanSend
    PROVE  /\ InFlight + 1 <= Ahead
           /\ InFlight < History
           /\ ~IsEmpty(SeqNumAdd(last_acknown, InFlight + 1))
<1>1. /\ InFlight \in 0..History /\ Ahead \in 1..History + 1 /\ InFlight < Ahead
      /\ last_written = SeqNumAdd(last_acknown, Ahead)
      /\ NextToSend = SeqNumAdd(last_acknown, InFlight + 1)
  BY Cursors
<1>2. InFlight # History
  BY DEF CanSend, InFlight
<1>3. size[Slot(NextToSend)] > Offset
  BY DEF CanSend
<1>4. size[Slot(NextToSend)] # Offset
  BY <1>3, BufferSizes
<1> QED BY <1>1, <1>2, <1>4, Sizes DEF IsEmpty

(***************************************************************************)
(* Writing. A fragmented submessage goes into the buffers first ..         *)
(* first + full of the window, none of which is beyond its end: a buffer   *)
(* that it shares with earlier submessages is not counted as free.         *)
(***************************************************************************)
LEMMA AlignedBytes ==
    ASSUME NEW bytes \in Nat
    PROVE  /\ Align(bytes) \in Nat /\ Align(bytes) >= bytes
           /\ bytes % 4 = 0 => Align(bytes) = bytes
  BY DEF Align

LEMMA BufferType ==
    ASSUME TypeOK, NEW s \in SeqNums
    PROVE  /\ Slot(s) \in Slots
           /\ size[Slot(s)] \in Offset..Capacity
  BY SlotType DEF TypeOK

LEMMA CurrentBuffer ==
    ASSUME TypeOK
    PROVE  /\ AlignedSize \in Nat /\ AlignedSize >= size[Slot(last_written)]
           /\ AlignedSize >= Offset
           /\ IsEmpty(last_written) => AlignedSize = Offset
<1>1. size[Slot(last_written)] \in Offset..Capacity
  BY BufferType DEF TypeOK
<1>2. size[Slot(last_written)] \in Nat /\ size[Slot(last_written)] >= Offset
  BY <1>1, BufferSizes
<1>3. /\ AlignedSize \in Nat /\ AlignedSize >= size[Slot(last_written)]
      /\ size[Slot(last_written)] % 4 = 0 => AlignedSize = size[Slot(last_written)]
  BY <1>2, AlignedBytes DEF AlignedSize
<1> QED BY <1>2, <1>3, BufferSizes DEF IsEmpty

LEMMA Fragments ==
    ASSUME Window, NEW m \in Messages, WriteFragmented(m)
    PROVE  \E first \in {Ahead, Ahead + 1} :
              /\ FullFragments(Length[m]) \in Nat \ {0}
              /\ LastFragmentSize(Length[m]) \in 1..Block
              /\ FirstSeqNum = SeqNumAdd(last_acknown, first)
              /\ first + FullFragments(Length[m]) <= History
              /\ first > Ahead => ~IsEmpty(last_written)
<1> DEFINE len == Length[m]
           full == FullFragments(len)
           free == get_available_free_slots
<1>1. len \in Nat \ {0}
  BY BufferSizes
<1>2. /\ Ahead \in 1..History + 1 /\ last_written = SeqNumAdd(last_acknown, Ahead)
      /\ SeqNumAdd(last_written, 1) = SeqNumAdd(last_acknown, Ahead + 1)
      /\ last_acknown \in SeqNums /\ last_written \in SeqNums
  BY Cursors DEF Window, TypeOK
<1>3. \A n \in 1..History : n < Ahead => ~IsEmpty(SeqNumAdd(last_acknown, n))
  BY DEF Window, WindowFilled
<1>4. free \in 0..History - (Ahead - 1)
  <2>1. Ahead - 1 \in 0..History
    BY <1>2, Sizes
  <2>2. \A n \in 1..Ahead - 1 : ~IsEmpty(SeqNumAdd(last_acknown, n))
    BY <1>2, <1>3, Sizes
  <2> QED BY <1>2, <2>1, <2>2, FreeSlots
<1>5. len <= Block * free /\ full <= free
  BY DEF WriteFragmented
<1>6. free >= 1 /\ Ahead <= History
  <2>1. free # 0
    BY <1>1, <1>5, BufferSizes
  <2> QED BY <1>2, <1>4, <2>1, Sizes
<1>7. ~IsEmpty(last_written) => free <= History - Ahead
  <2> SUFFICES ASSUME ~IsEmpty(last_written) PROVE free <= History - Ahead
    OBVIOUS
  <2>1. Ahead \in 0..History
    BY <1>2, <1>6, Sizes
  <2>2. \A n \in 1..Ahead : ~IsEmpty(SeqNumAdd(last_acknown, n))
    BY <1>2, <1>3, <1>6, Sizes
  <2>3. free \in 0..History - Ahead
    BY <1>2, <2>1, <2>2, FreeSlots
  <2> QED BY <2>3, <2>1, Sizes
<1>8. /\ AlignedSize \in Nat /\ AlignedSize >= Offset
      /\ IsEmpty(last_written) => AlignedSize = Offset
  BY CurrentBuffer DEF Window
<1>9. AlignedSize + len > Capacity /\ Offset + len > Capacity
  <2>1. ~FitsInCurrent(len) /\ ~FitsInNext(len)
    BY DEF WriteFragmented
  <2> QED BY <2>1, <1>1, <1>8, BufferSizes DEF FitsInCurrent, FitsInNext
(* The size of the first fragment decides how many follow.                   *)
<1>10. ASSUME FirstFragmentSize \in Int, FirstFragmentSize < len
       PROVE  full \in Nat \ {0} /\ LastFragmentSize(len) \in 1..Block
  <2> DEFINE x == len - FirstFragmentSize + Block - 1
             y == len - FirstFragmentSize
  <2>1. x \in Nat /\ y \in Int /\ Block <= x
    BY <1>1, <1>10, BufferSizes
  <2> HIDE DEF x, y
  <2>2. Block \in Nat \ {0}
    BY BufferSizes
  <2>3. x \div Block \in Nat \ {0}
    <3>1. x \div Block \in Nat
      BY <2>1, <2>2, QuotientType
    <3>2. x \div Block # 0
      BY <2>1, <2>2, <3>1, QuotientAndRest
    <3> QED BY <3>1, <3>2
  <2>4. y % Block \in 0..Block - 1
    BY <2>1, <2>2, QuotientAndRest
  <2>5. full = x \div Block
    BY DEF FullFragments, x
  <2>6. LastFragmentSize(len) = IF y % Block = 0 THEN Block ELSE y % Block
    BY DEF LastFragmentSize, y
  <2> QED BY <2>2, <2>3, <2>4, <2>5, <2>6
(* A first fragment of a whole block leaves less than free blocks.           *)
<1>11. ASSUME FirstFragmentSize = Block
       PROVE  full <= free - 1
  <2> DEFINE x == len - 1
  <2>1. len - FirstFragmentSize + Block - 1 = x
    BY <1>1, <1>11, BufferSizes
  <2>2. x \in Nat /\ x < Block * free /\ free \in Int /\ Block \in Nat \ {0}
    BY <1>1, <1>4, <1>5, BufferSizes, Sizes
  <2> HIDE DEF x
  <2>3. x \div Block \in 0..free - 1
    BY <2>2, QuotientBelow
  <2>4. full = x \div Block
    BY <2>1 DEF FullFragments
  <2> QED BY <2>2, <2>3, <2>4
<1>12. CASE StartsInCurrent
  <2>1. FirstSeqNum = SeqNumAdd(last_acknown, Ahead)
    BY <1>12, <1>2 DEF FirstSeqNum
  <2>2. FirstFragmentSize = Capacity - SubheaderSize - AlignedSize
    BY <1>12 DEF FirstFragmentSize
  <2>3. FirstFragmentSize \in Int /\ FirstFragmentSize < len
    BY <2>2, <1>1, <1>8, <1>9, BufferSizes
  <2>4. full \in Nat \ {0} /\ LastFragmentSize(len) \in 1..Block
    BY <2>3, <1>10
  <2>5. Ahead + full <= History
    <3>1. CASE IsEmpty(last_written)
      <4>1. FirstFragmentSize = Block
        BY <2>2, <3>1, <1>8, BufferSizes
      <4>2. full <= free - 1
        BY <4>1, <1>11
      <4> QED BY <4>2, <2>4, <1>4, <1>2, Sizes
    <3>2. CASE ~IsEmpty(last_written)
      BY <3>2, <1>7, <1>5, <2>4, <1>4, <1>2, Sizes
    <3> QED BY <3>1, <3>2
  <2> QED BY <2>1, <2>4, <2>5, <1>2
<1>13. CASE ~StartsInCurrent
  <2>1. FirstSeqNum = SeqNumAdd(last_acknown, Ahead + 1)
    BY <1>13, <1>2 DEF FirstSeqNum
  <2>2. ~IsEmpty(last_written)
    BY <1>13, <1>8, BufferSizes DEF StartsInCurrent
  <2>3. Ahead + 1 \in 1..History
    BY <2>2, <1>7, <1>6, <1>4, <1>2, Sizes
  <2>4. IsEmpty(SeqNumAdd(last_acknown, Ahead + 1))
    BY <2>3, <1>2, Sizes DEF Window, WindowFilled
  <2>5. FirstFragmentSize = Block
    <3>1. FirstFragmentSize = Capacity - SubheaderSize - size[Slot(FirstSeqNum)]
      BY <1>13 DEF FirstFragmentSize
    <3>2. size[Slot(FirstSeqNum)] = Offset
      BY <2>1, <2>4 DEF IsEmpty
    <3> QED BY <3>1, <3>2, BufferSizes
  <2>6. full <= free - 1
    BY <2>5, <1>11
  <2>7. FirstFragmentSize \in Int /\ FirstFragmentSize < len
    BY <2>5, <1>9, <1>1, BufferSizes
  <2>8. full \in Nat \ {0} /\ LastFragmentSize(len) \in 1..Block
    BY <2>7, <1>10
  <2>9. Ahead + 1 + full <= History
    BY <2>2, <2>6, <2>8, <1>7, <1>4, <1>2, Sizes
  <2> QED BY <2>1, <2>2, <2>8, <2>9, <1>2
<1> QED BY <1>12, <1>13

(* What the three ways of writing have in common: the buffers lo..hi of the  *)
(* window take something, and no other one changes.                          *)
At(n) == Slot(SeqNumAdd(last_acknown, n))

Wrote(lo, hi) ==
    /\ lo \in Ahead..Ahead + 1 /\ hi \in lo..History
    /\ lo > Ahead => ~IsEmpty(last_written)
    /\ last_written' = SeqNumAdd(last_acknown, hi)
    /\ UNCHANGED <<last_sent, last_acknown, flashing, heartbeat>>
    /\ size' \in [Slots -> Offset..Capacity]
    /\ data' \in [Slots -> Seq(Chunks)]
    /\ \A n \in lo..hi : size'[At(n)] # Offset
    /\ \A n \in 1..History : n \notin lo..hi =>
          size'[At(n)] = size[At(n)] /\ data'[At(n)] = data[At(n)]

(* What they take: the submessage, or each one fragment of it.               *)
Piece(m, n, pieces) == IF pieces = 1 THEN Whole(m) ELSE Fragment(m, n, pieces)
Adds(m, lo, hi) ==
    \A n \in lo..hi : data'[At(n)] = Append(data[At(n)], Piece(m, n - lo + 1, hi - lo + 1))

LEMMA AtsDiffer ==
    ASSUME TypeOK, NEW m \in 1..History, NEW n \in 1..History, m # n
    PROVE  At(m) # At(n)
<1>1. /\ last_acknown \in SeqNums /\ m \in 0..SeqNumSize /\ n \in 0..SeqNumSize
      /\ m - n < History /\ n - m < History
  BY Sizes DEF TypeOK
<1> QED BY <1>1, SlotsDiffer DEF At

LEMMA AtType ==
    ASSUME TypeOK, NEW n \in 0..SeqNumSize
    PROVE  At(n) \in Slots
<1>1. SeqNumAdd(last_acknown, n) \in SeqNums
  BY SeqNumAddType DEF TypeOK
<1> QED BY <1>1, SlotType DEF At

LEMMA ChunkTypes ==
    ASSUME NEW m \in Messages
    PROVE  /\ Whole(m) \in Chunks
           /\ \A n, k \in Nat : Fragment(m, n, k) \in Chunks
  BY DEF Whole, Fragment, Chunks

LEMMA WriteInCurrentWrote ==
    ASSUME Window, NEW m \in Messages, WriteInCurrent(m)
    PROVE  Wrote(Ahead, Ahead)
<1>1. /\ Ahead \in 1..History + 1 /\ last_written = SeqNumAdd(last_acknown, Ahead)
      /\ last_written \in SeqNums
  BY Cursors DEF Window, TypeOK
<1>2. Ahead \in 1..History
  <2>1. Ahead \in 0..History + 2 /\ InWindow(SeqNumAdd(last_acknown, Ahead))
    BY <1>1, Sizes DEF WriteInCurrent
  <2>2. Ahead <= History
    BY <2>1, InWindowMeans DEF Window
  <2> QED BY <1>1, <2>2, Sizes
<1>3. Slot(last_written) = At(Ahead) /\ At(Ahead) \in Slots
  BY <1>1, SlotType DEF At
<1>4. /\ AlignedSize + Length[m] \in Offset..Capacity
      /\ AlignedSize + Length[m] # Offset
  <2>1. AlignedSize \in Nat /\ AlignedSize >= Offset /\ Length[m] \in Nat \ {0}
    BY CurrentBuffer, BufferSizes DEF Window
  <2>2. AlignedSize + Length[m] <= Capacity
    BY DEF WriteInCurrent, FitsInCurrent
  <2> QED BY <2>1, <2>2, BufferSizes
<1>5. /\ size' = [size EXCEPT ![At(Ahead)] = AlignedSize + Length[m]]
      /\ data' = [data EXCEPT ![At(Ahead)] = Append(@, Whole(m))]
      /\ UNCHANGED <<cursors, flashing, heartbeat>>
  BY <1>3 DEF WriteInCurrent
<1>6. size \in [Slots -> Offset..Capacity] /\ data \in [Slots -> Seq(Chunks)]
  BY DEF Window, TypeOK
<1>7. /\ size' \in [Slots -> Offset..Capacity]
      /\ size'[At(Ahead)] = AlignedSize + Length[m]
      /\ \A i \in Slots : i # At(Ahead) => size'[i] = size[i]
  BY <1>3, <1>4, <1>5, <1>6
<1>8. /\ data' \in [Slots -> Seq(Chunks)]
      /\ \A i \in Slots : i # At(Ahead) => data'[i] = data[i]
  <2>1. Append(data[At(Ahead)], Whole(m)) \in Seq(Chunks)
    BY <1>3, <1>6, ChunkTypes
  <2> QED BY <1>3, <1>5, <1>6, <2>1
<1>9. \A n \in 1..History : n # Ahead => At(n) \in Slots /\ At(n) # At(Ahead)
  <2> TAKE n \in 1..History
  <2> HAVE n # Ahead
  <2>1. n \in 0..SeqNumSize
    BY Sizes
  <2> QED BY <1>2, <2>1, AtsDiffer, AtType DEF Window
<1> QED BY <1>1, <1>2, <1>4, <1>5, <1>7, <1>8, <1>9, Sizes DEF Wrote, cursors

LEMMA WriteInNextWrote ==
    ASSUME Window, NEW m \in Messages, WriteInNext(m)
    PROVE  Wrote(Ahead + 1, Ahead + 1)
<1>1. /\ Ahead \in 1..History + 1
      /\ SeqNumAdd(last_written, 1) = SeqNumAdd(last_acknown, Ahead + 1)
      /\ last_acknown \in SeqNums
  BY Cursors DEF Window, TypeOK
<1>2. Ahead + 1 \in 1..History
  <2>1. Ahead + 1 \in 0..History + 2 /\ InWindow(SeqNumAdd(last_acknown, Ahead + 1))
    BY <1>1, Sizes DEF WriteInNext
  <2>2. Ahead + 1 <= History
    BY <2>1, InWindowMeans DEF Window
  <2> QED BY <1>1, <2>2, Sizes
<1>3. Slot(SeqNumAdd(last_written, 1)) = At(Ahead + 1) /\ At(Ahead + 1) \in Slots
  <2>1. Ahead + 1 \in 0..SeqNumSize
    BY <1>2, Sizes
  <2> QED BY <1>1, <2>1, AtType DEF At, Window
<1>4. /\ Offset + Length[m] \in Offset..Capacity
      /\ Offset + Length[m] # Offset
  <2>1. Length[m] \in Nat \ {0} /\ Offset + Length[m] <= Capacity
    BY BufferSizes DEF WriteInNext, FitsInNext
  <2> QED BY <2>1, BufferSizes
(* It would have fitted into an empty buffer.                                *)
<1>5. ~IsEmpty(last_written)
  <2>1. ~FitsInCurrent(Length[m]) /\ Offset + Length[m] <= Capacity
    BY DEF WriteInNext, FitsInNext
  <2> QED BY <2>1, CurrentBuffer DEF FitsInCurrent, Window
<1>6. /\ size' = [size EXCEPT ![At(Ahead + 1)] = Offset + Length[m]]
      /\ data' = [data EXCEPT ![At(Ahead + 1)] = <<Whole(m)>>]
      /\ last_written' = SeqNumAdd(last_acknown, Ahead + 1)
      /\ UNCHANGED <<last_sent, last_acknown, flashing, heartbeat>>
  BY <1>1, <1>3 DEF WriteInNext
<1>7. size \in [Slots -> Offset..Capacity] /\ data \in [Slots -> Seq(Chunks)]
  BY DEF Window, TypeOK
<1>8. /\ size' \in [Slots -> Offset..Capacity]
      /\ size'[At(Ahead + 1)] = Offset + Length[m]
      /\ \A i \in Slots : i # At(Ahead + 1) => size'[i] = size[i]
  BY <1>3, <1>4, <1>6, <1>7
<1>9. /\ data' \in [Slots -> Seq(Chunks)]
      /\ \A i \in Slots : i # At(Ahead + 1) => data'[i] = data[i]
  <2>1. <<Whole(m)>> \in Seq(Chunks)
    BY ChunkTypes
  <2> QED BY <1>3, <1>6, <1>7, <2>1
<1>10. \A n \in 1..History : n # Ahead + 1 => At(n) \in Slots /\ At(n) # At(Ahead + 1)
  <2> TAKE n \in 1..History
  <2> HAVE n # Ahead + 1
  <2>1. n \in 0..SeqNumSize
    BY Sizes
  <2> QED BY <1>2, <2>1, AtsDiffer, AtType DEF Window
<1> QED BY <1>1, <1>2, <1>4, <1>5, <1>6, <1>8, <1>9, <1>10, Sizes DEF Wrote

LEMMA WriteFragmentedWrote ==
    ASSUME Window, NEW m \in Messages, WriteFragmented(m)
    PROVE  \E lo, hi \in Nat : Wrote(lo, hi) /\ Adds(m, lo, hi)
<1> DEFINE len == Length[m]
           full == FullFragments(len)
           rest == LastFragmentSize(len)
           last == SeqNumAdd(FirstSeqNum, full)
           Holds(n, i) == i = Slot(SeqNumAdd(FirstSeqNum, n))
           part(i) == CHOOSE n \in 0..full : Holds(n, i)
<1>1. PICK first \in {Ahead, Ahead + 1} :
              /\ full \in Nat \ {0}
              /\ rest \in 1..Block
              /\ FirstSeqNum = SeqNumAdd(last_acknown, first)
              /\ first + full <= History
              /\ first > Ahead => ~IsEmpty(last_written)
  BY Fragments
<1>2. Ahead \in 1..History + 1 /\ last_acknown \in SeqNums
  BY Cursors DEF Window, TypeOK
<1>3. first \in 1..History /\ first + full \in first..History
  BY <1>1, <1>2, Sizes
<1>4. /\ last_written' = last
      /\ size' = [i \in Slots |->
                    IF i = Slot(last) THEN Offset + SubheaderSize + rest
                    ELSE IF \E n \in 0..full - 1 : Holds(n, i) THEN Capacity
                    ELSE size[i]]
      /\ data' = [i \in Slots |->
                    IF \E n \in 0..full : Holds(n, i)
                    THEN Append(data[i], Fragment(m, part(i) + 1, full + 1))
                    ELSE data[i]]
      /\ UNCHANGED <<last_sent, last_acknown, flashing, heartbeat>>
  BY DEF WriteFragmented
<1> HIDE DEF full, rest, len
<1>5. \A n \in 0..full : SeqNumAdd(FirstSeqNum, n) = SeqNumAdd(last_acknown, first + n)
  <2> TAKE n \in 0..full
  <2>1. first \in Nat /\ n \in Nat /\ first + n < SeqNumSize
    BY <1>1, <1>3, Sizes
  <2> QED BY <1>1, <1>2, <2>1, AddOfAdd
<1>6. \A n \in 0..full : Slot(SeqNumAdd(FirstSeqNum, n)) = At(first + n)
  BY <1>5 DEF At
<1>7. last = SeqNumAdd(last_acknown, first + full) /\ Slot(last) = At(first + full)
  BY <1>1, <1>5, <1>6
<1>8. size \in [Slots -> Offset..Capacity] /\ data \in [Slots -> Seq(Chunks)]
  BY DEF Window, TypeOK
<1>9. \A n \in 1..History : At(n) \in Slots
  <2> TAKE n \in 1..History
  <2>1. n \in 0..SeqNumSize
    BY Sizes
  <2> QED BY <2>1, AtType DEF Window
<1>10. size' \in [Slots -> Offset..Capacity]
  BY <1>1, <1>4, <1>8, BufferSizes
<1>11. data' \in [Slots -> Seq(Chunks)]
  <2>1. ASSUME NEW i \in Slots PROVE data'[i] \in Seq(Chunks)
    <3>1. CASE \E n \in 0..full : Holds(n, i)
      <4>1. part(i) + 1 \in Nat /\ full + 1 \in Nat
        BY <1>1, <3>1
      <4>2. Fragment(m, part(i) + 1, full + 1) \in Chunks
        BY <4>1, ChunkTypes
      <4>3. data'[i] = Append(data[i], Fragment(m, part(i) + 1, full + 1))
        BY <1>4, <3>1
      <4>4. data[i] \in Seq(Chunks)
        BY <1>8
      <4> QED BY <4>2, <4>3, <4>4
    <3>2. CASE ~\E n \in 0..full : Holds(n, i)
      BY <1>4, <1>8, <3>2
    <3> QED BY <3>1, <3>2
  <2> QED BY <1>4, <2>1
<1>12. \A n \in first..first + full : size'[At(n)] # Offset
  <2> TAKE n \in first..first + full
  <2>1. n \in 1..History /\ n - first \in 0..full /\ first + (n - first) = n
    BY <1>1, <1>3, Sizes
  <2>2. At(n) \in Slots /\ Slot(SeqNumAdd(FirstSeqNum, n - first)) = At(n)
    BY <1>6, <1>9, <2>1
  <2>3. CASE n = first + full
    BY <1>1, <1>4, <1>7, <2>2, <2>3, BufferSizes
  <2>4. CASE n # first + full
    <3>1. n - first \in 0..full - 1
      BY <1>1, <2>1, <2>4
    <3>2. \E k \in 0..full - 1 : Holds(k, At(n))
      BY <2>2, <3>1
    <3>3. size'[At(n)] \in {Capacity, Offset + SubheaderSize + rest}
      BY <1>4, <2>2, <3>2
    <3> QED BY <1>1, <3>3, BufferSizes
  <2> QED BY <2>3, <2>4
<1>13. \A n \in 1..History : n \notin first..first + full =>
          size'[At(n)] = size[At(n)] /\ data'[At(n)] = data[At(n)]
  <2> TAKE n \in 1..History
  <2> HAVE n \notin first..first + full
  <2>1. ASSUME NEW k \in 0..full PROVE ~Holds(k, At(n))
    <3>1. first + k \in 1..History /\ first + k # n
      BY <1>1, <1>3, Sizes
    <3> QED BY <1>6, <3>1, AtsDiffer DEF Window
  <2>2. At(n) # Slot(last)
    <3>1. full \in 0..full
      BY <1>1
    <3> QED BY <2>1, <3>1
  <2>3. ~\E k \in 0..full - 1 : Holds(k, At(n))
    BY <1>1, <2>1
  <2> QED BY <1>4, <1>9, <2>1, <2>2, <2>3
<1>14. first \in Ahead..Ahead + 1
  BY <1>1, <1>2, Sizes
<1>15. Wrote(first, first + full)
  BY <1>1, <1>3, <1>4, <1>7, <1>10, <1>11, <1>12, <1>13, <1>14 DEF Wrote
<1> PICK hi \in Nat : hi = first + full
  <2>1. first + full \in Nat
    BY <1>1, <1>3, Sizes
  <2> QED BY <2>1
<1>16. ASSUME NEW n \in first..hi
       PROVE  data'[At(n)] = Append(data[At(n)], Piece(m, n - first + 1, hi - first + 1))
  <2> PICK k \in Nat : k = n - first
    BY <1>3
  <2>1. /\ k \in 0..full /\ n \in 1..History /\ first + k = n /\ n - first + 1 = k + 1
        /\ hi - first + 1 = full + 1 /\ full + 1 # 1
    BY <1>1, <1>3, Sizes
  <2>2. At(n) \in Slots /\ Slot(SeqNumAdd(FirstSeqNum, k)) = At(n)
    BY <1>6, <1>9, <2>1
  <2>3. ASSUME NEW j \in 0..full, Holds(j, At(n)) PROVE j = k
    <3>1. At(first + j) = At(n)
      BY <1>6, <2>3
    <3>2. first + j \in 1..History
      BY <1>1, <1>3, Sizes
    <3>3. first + j = n
      BY <2>1, <3>1, <3>2, AtsDiffer DEF Window
    <3> QED BY <1>3, <2>1, <3>3
  <2>4. part(At(n)) = k
    BY <2>1, <2>2, <2>3
  <2>5. data'[At(n)] = Append(data[At(n)], Fragment(m, k + 1, full + 1))
    BY <1>4, <2>1, <2>2, <2>4
  <2> QED BY <2>1, <2>5 DEF Piece
<1>17. Adds(m, first, hi)
  BY <1>16 DEF Adds
<1>18. first \in Nat /\ Wrote(first, hi)
  BY <1>3, <1>15
<1> QED BY <1>17, <1>18

LEMMA WriteWrote ==
    ASSUME Window, NEW m \in Messages, Write(m)
    PROVE  \E lo, hi \in Nat : Wrote(lo, hi)
<1>1. Ahead \in Nat
  BY Cursors, Sizes DEF Window
<1>2. CASE WriteInCurrent(m)
  BY <1>1, <1>2, WriteInCurrentWrote
<1>3. CASE WriteInNext(m)
  <2>1. Ahead + 1 \in Nat
    BY <1>1
  <2> QED BY <1>3, <2>1, WriteInNextWrote
<1>4. CASE WriteFragmented(m)
  BY <1>4, WriteFragmentedWrote
<1> QED BY <1>2, <1>3, <1>4 DEF Write

(* The parts of the window, by its slots.                                    *)
LEMMA Filled ==
    ASSUME Window
    PROVE  \A n \in 1..History :
              /\ n < Ahead => size[At(n)] # Offset
              /\ n > Ahead => size[At(n)] = Offset
  BY DEF Window, WindowFilled, IsEmpty, At

(* A step that moves no acknowledgement, seen from the primed side.          *)
LEMMA WindowAfter ==
    ASSUME Window, last_acknown' = last_acknown,
           NEW f \in 0..History, NEW b \in 1..History + 1, f < b,
           last_sent' = SeqNumAdd(last_acknown, f),
           last_written' = SeqNumAdd(last_acknown, b),
           \A n \in 1..History : /\ n < b => size'[At(n)] # Offset
                                 /\ n > b => size'[At(n)] = Offset
    PROVE  WindowBounded' /\ WindowFilled'
<1>1. last_acknown \in SeqNums
  BY DEF Window, TypeOK
<1>2. f \in Nat /\ b \in Nat /\ f < SeqNumSize /\ b < SeqNumSize
  BY Sizes
<1>3. InFlight' = f /\ Ahead' = b
  BY <1>1, <1>2, SubOfAdd DEF InFlight, Ahead
<1>4. WindowBounded'
  BY <1>3, Sizes DEF WindowBounded
<1>5. WindowFilled'
  BY <1>3 DEF WindowFilled, IsEmpty, At
<1> QED BY <1>4, <1>5

LEMMA WroteKeepsWindow ==
    ASSUME Window, NEW lo \in Nat, NEW hi \in Nat, Wrote(lo, hi)
    PROVE  Window'
<1>1. /\ Ahead \in 1..History + 1 /\ InFlight \in 0..History /\ InFlight < Ahead
      /\ last_sent = SeqNumAdd(last_acknown, InFlight)
      /\ last_written = SeqNumAdd(last_acknown, Ahead)
      /\ last_acknown \in SeqNums
  BY Cursors DEF Window, TypeOK
<1>2. /\ lo \in Ahead..Ahead + 1 /\ hi \in lo..History
      /\ lo > Ahead => ~IsEmpty(last_written)
      /\ last_written' = SeqNumAdd(last_acknown, hi)
      /\ UNCHANGED <<last_sent, last_acknown, flashing, heartbeat>>
      /\ size' \in [Slots -> Offset..Capacity]
      /\ data' \in [Slots -> Seq(Chunks)]
      /\ \A n \in lo..hi : size'[At(n)] # Offset
      /\ \A n \in 1..History : n \notin lo..hi => size'[At(n)] = size[At(n)]
  BY DEF Wrote
<1>3. hi \in 1..History + 1 /\ InFlight < hi /\ hi \in 0..SeqNumSize
  BY <1>1, <1>2, Sizes
<1>4. TypeOK'
  <2>1. last_written' \in SeqNums
    BY <1>1, <1>2, <1>3, SeqNumAddType
  <2> QED BY <1>2, <2>1 DEF TypeOK, Window, heartbeat
<1>5. ASSUME NEW n \in 1..History
      PROVE  /\ n < hi => size'[At(n)] # Offset
             /\ n > hi => size'[At(n)] = Offset
  <2>1. CASE n \in lo..hi
    BY <1>2, <2>1
  <2>2. CASE n < Ahead
    BY <1>1, <1>2, <2>2, Filled, Sizes
  <2>3. CASE n = Ahead /\ lo > Ahead
    <3>1. size[At(n)] # Offset
      BY <1>1, <1>2, <2>3 DEF IsEmpty, At
    <3> QED BY <3>1, <1>1, <1>2, <2>3, Sizes
  <2>4. CASE n > hi
    BY <1>1, <1>2, <2>4, Filled, Sizes
  <2> QED BY <2>1, <2>2, <2>3, <2>4, <1>1, <1>2, Sizes
<1>6. WindowBounded' /\ WindowFilled'
  BY <1>1, <1>2, <1>3, <1>5, WindowAfter
<1> QED BY <1>4, <1>6 DEF Window

(***************************************************************************)
(* Sending, acknowledging, resetting.                                      *)
(***************************************************************************)
(* Preparing a buffer closes it if it is the current one.                    *)
LEMMA OncePrepared ==
    ASSUME Window, CanSend
    PROVE  /\ WrittenOncePrepared
                 = SeqNumAdd(last_acknown, IF InFlight + 1 = Ahead THEN Ahead + 1 ELSE Ahead)
           /\ InFlight + 1 = Ahead => Ahead <= History
<1>1. /\ InFlight \in 0..History /\ Ahead \in 1..History + 1 /\ last_acknown \in SeqNums
      /\ last_written = SeqNumAdd(last_acknown, Ahead)
      /\ NextToSend = SeqNumAdd(last_acknown, InFlight + 1)
      /\ SeqNumAdd(last_written, 1) = SeqNumAdd(last_acknown, Ahead + 1)
  BY Cursors DEF Window, TypeOK
<1>2. InFlight + 1 <= Ahead /\ InFlight < History
  BY CanSendMeans DEF Window
<1>3. NextToSend = last_written <=> InFlight + 1 = Ahead
  <2>1. /\ InFlight + 1 \in Nat /\ InFlight + 1 < SeqNumSize
        /\ Ahead \in Nat /\ Ahead < SeqNumSize
    BY <1>1, <1>2, Sizes
  <2>2. /\ SeqNumSub(SeqNumAdd(last_acknown, InFlight + 1), last_acknown) = InFlight + 1
        /\ SeqNumSub(SeqNumAdd(last_acknown, Ahead), last_acknown) = Ahead
    BY <1>1, <2>1, SubOfAdd
  <2> QED BY <1>1, <2>2
<1> QED BY <1>1, <1>2, <1>3, Sizes DEF WrittenOncePrepared

LEMMA FlashSendKeepsWindow ==
    ASSUME Window, FlashSend
    PROVE  Window'
<1> DEFINE b == IF InFlight + 1 = Ahead THEN Ahead + 1 ELSE Ahead
<1>1. /\ InFlight \in 0..History /\ Ahead \in 1..History + 1 /\ last_acknown \in SeqNums
      /\ NextToSend = SeqNumAdd(last_acknown, InFlight + 1)
  BY Cursors DEF Window, TypeOK
<1>2. /\ CanSend /\ last_sent' = NextToSend /\ last_written' = WrittenOncePrepared
      /\ UNCHANGED <<last_acknown, buffers, flashing, heartbeat>>
  BY DEF FlashSend
<1>3. /\ InFlight + 1 <= Ahead /\ InFlight < History
      /\ ~IsEmpty(SeqNumAdd(last_acknown, InFlight + 1))
  BY <1>2, CanSendMeans DEF Window
<1>4. /\ last_written' = SeqNumAdd(last_acknown, b)
      /\ InFlight + 1 = Ahead => Ahead <= History
  BY <1>2, OncePrepared
<1>5. /\ InFlight + 1 \in 0..History /\ b \in 1..History + 1 /\ InFlight + 1 < b
      /\ InFlight + 1 \in 0..SeqNumSize /\ b \in 0..SeqNumSize
  BY <1>1, <1>3, <1>4, Sizes
<1>6. TypeOK'
  <2>1. last_sent' \in SeqNums /\ last_written' \in SeqNums
    BY <1>1, <1>2, <1>4, <1>5, SeqNumAddType
  <2> QED BY <1>2, <2>1 DEF TypeOK, Window, heartbeat, buffers
<1>7. ASSUME NEW n \in 1..History
      PROVE  /\ n < b => size'[At(n)] # Offset
             /\ n > b => size'[At(n)] = Offset
  <2>1. size' = size
    BY <1>2 DEF buffers
  <2>2. InFlight + 1 = Ahead => size[At(Ahead)] # Offset
    BY <1>3 DEF IsEmpty, At
  <2> QED BY <1>1, <1>3, <2>1, <2>2, Filled, Sizes
<1> HIDE DEF b
<1>8. WindowBounded' /\ WindowFilled'
  BY <1>1, <1>2, <1>4, <1>5, <1>7, WindowAfter
<1> QED BY <1>6, <1>8 DEF Window

(* Cancelling reopens the buffer that preparing closed, or one that was open *)
(* and empty before.                                                         *)
LEMMA FlashSendFailsKeepsWindow ==
    ASSUME Window, FlashSendFails
    PROVE  Window'
<1> DEFINE c == IF InFlight + 1 = Ahead THEN Ahead + 1 ELSE Ahead
           next == SeqNumAdd(NextToSend, 1)
           reopened == WrittenOncePrepared = next /\ IsEmpty(next)
           b == IF reopened THEN InFlight + 1 ELSE c
<1>1. /\ InFlight \in 0..History /\ Ahead \in 1..History + 1 /\ last_acknown \in SeqNums
      /\ NextToSend = SeqNumAdd(last_acknown, InFlight + 1)
      /\ last_sent = SeqNumAdd(last_acknown, InFlight)
  BY Cursors DEF Window, TypeOK
<1>2. /\ CanSend /\ last_sent' = SeqNumSub(NextToSend, 1)
      /\ last_written' = IF reopened THEN NextToSend ELSE WrittenOncePrepared
      /\ flashing' = FALSE
      /\ UNCHANGED <<last_acknown, buffers, heartbeat>>
  BY DEF FlashSendFails
<1>3. /\ InFlight + 1 <= Ahead /\ InFlight < History
      /\ ~IsEmpty(SeqNumAdd(last_acknown, InFlight + 1))
  BY <1>2, CanSendMeans DEF Window
<1>4. /\ WrittenOncePrepared = SeqNumAdd(last_acknown, c)
      /\ InFlight + 1 = Ahead => Ahead <= History
  BY <1>2, OncePrepared
<1>5. /\ InFlight + 1 \in Nat \ {0} /\ InFlight + 2 \in Nat
      /\ InFlight + 2 < SeqNumSize /\ c \in Nat /\ c < SeqNumSize
  BY <1>1, <1>3, <1>4, Sizes
<1>6. last_sent' = SeqNumAdd(last_acknown, InFlight)
  <2>1. /\ InFlight + 1 < SeqNumSize /\ (InFlight + 1) - 1 = InFlight
    BY <1>1, <1>5, Sizes
  <2> QED BY <1>1, <1>2, <1>5, <2>1, SubOne
<1>7. next = SeqNumAdd(last_acknown, InFlight + 2)
  <2>1. InFlight + 1 \in Nat /\ 1 \in Nat /\ (InFlight + 1) + 1 < SeqNumSize
        /\ (InFlight + 1) + 1 = InFlight + 2
    BY <1>1, <1>5, Sizes
  <2> QED BY <1>1, <2>1, AddOfAdd
<1>8. reopened => c = InFlight + 2 /\ size[At(InFlight + 2)] = Offset
  <2>1. /\ SeqNumSub(SeqNumAdd(last_acknown, c), last_acknown) = c
        /\ SeqNumSub(SeqNumAdd(last_acknown, InFlight + 2), last_acknown) = InFlight + 2
    BY <1>1, <1>5, SubOfAdd
  <2> QED BY <1>4, <1>7, <2>1 DEF IsEmpty, At
<1> HIDE DEF next, reopened
<1>9. /\ last_written' = SeqNumAdd(last_acknown, b)
      /\ b \in 1..History + 1 /\ InFlight < b /\ b \in 0..SeqNumSize
  BY <1>1, <1>2, <1>3, <1>4, Sizes
<1>10. TypeOK'
  <2>1. last_sent' \in SeqNums /\ last_written' \in SeqNums
    BY <1>1, <1>6, <1>9, SeqNumAddType DEF Window, TypeOK
  <2> QED BY <1>2, <2>1 DEF TypeOK, Window, heartbeat, buffers
<1>11. ASSUME NEW n \in 1..History
       PROVE  /\ n < b => size'[At(n)] # Offset
              /\ n > b => size'[At(n)] = Offset
  <2>1. size' = size
    BY <1>2 DEF buffers
  <2>2. InFlight + 1 = Ahead => size[At(Ahead)] # Offset
    BY <1>3 DEF IsEmpty, At
  <2>3. CASE reopened
    BY <1>1, <1>3, <1>8, <2>1, <2>2, <2>3, Filled, Sizes
  <2>4. CASE ~reopened
    BY <1>1, <1>3, <2>1, <2>2, <2>4, Filled, Sizes
  <2> QED BY <2>3, <2>4
<1> HIDE DEF b
<1>12. WindowBounded' /\ WindowFilled'
  BY <1>1, <1>2, <1>6, <1>9, <1>11, WindowAfter
<1> QED BY <1>10, <1>12 DEF Window

(* What an acknack says, as a distance, and the buffers it frees.            *)
Acked(c) ==
    /\ last_acknown' = SeqNumAdd(last_acknown, c)
    /\ size' \in [Slots -> Offset..Capacity]
    /\ data' \in [Slots -> Seq(Chunks)]
    /\ \A n \in 1..c : size'[At(n)] = Offset /\ data'[At(n)] = <<>>
    /\ \A n \in c + 1..History :
          size'[At(n)] = size[At(n)] /\ data'[At(n)] = data[At(n)]
    /\ next_heartbeat_tries' = 0
    /\ UNCHANGED <<last_written, last_sent, flashing, next_heartbeat_timestamp>>

LEMMA ProcessAcknackAcked ==
    ASSUME Window, NEW first_unacked \in InOrderAcks, ProcessAcknack(first_unacked)
    PROVE  \E c \in 0..InFlight : Acked(c)
<1>1. InFlight \in 0..History /\ last_acknown \in SeqNums
  BY Cursors DEF Window, TypeOK
<1>2. PICK c \in 0..InFlight : first_unacked = SeqNumAdd(last_acknown, c + 1)
  BY DEF InOrderAcks, InFlight
<1>3. c \in Nat /\ c + 1 \in Nat \ {0} /\ c + 1 < SeqNumSize /\ c \in 0..History
  BY <1>1, Sizes
<1>4. Cleaned(first_unacked) = c
  <2>1. SeqNumSub(first_unacked, 1) = SeqNumAdd(last_acknown, (c + 1) - 1)
    BY <1>1, <1>2, <1>3, SubOne
  <2>2. (c + 1) - 1 = c /\ c < SeqNumSize
    BY <1>3, Sizes
  <2> QED BY <1>1, <1>3, <2>1, <2>2, SubOfAdd DEF Cleaned
<1> DEFINE Freed(i) == \E n \in 1..c : i = At(n)
<1>5. /\ last_acknown' = SeqNumAdd(last_acknown, c)
      /\ size' = [i \in Slots |-> IF Freed(i) THEN Offset ELSE size[i]]
      /\ data' = [i \in Slots |-> IF Freed(i) THEN <<>> ELSE data[i]]
      /\ next_heartbeat_tries' = 0
      /\ UNCHANGED <<last_written, last_sent, flashing, next_heartbeat_timestamp>>
  BY <1>4 DEF ProcessAcknack, At
<1>6. size \in [Slots -> Offset..Capacity] /\ data \in [Slots -> Seq(Chunks)]
  BY DEF Window, TypeOK
<1>7. \A n \in 1..History : At(n) \in Slots
  <2> TAKE n \in 1..History
  <2>1. n \in 0..SeqNumSize
    BY Sizes
  <2> QED BY <2>1, AtType DEF Window
<1>8. size' \in [Slots -> Offset..Capacity] /\ data' \in [Slots -> Seq(Chunks)]
  <2>1. Offset \in Offset..Capacity /\ <<>> \in Seq(Chunks)
    BY BufferSizes
  <2> QED BY <1>5, <1>6, <2>1
<1>9. \A n \in 1..c : size'[At(n)] = Offset /\ data'[At(n)] = <<>>
  <2> TAKE n \in 1..c
  <2>1. n \in 1..History
    BY <1>3, Sizes
  <2> QED BY <1>5, <1>7, <2>1
<1>10. \A n \in c + 1..History :
          size'[At(n)] = size[At(n)] /\ data'[At(n)] = data[At(n)]
  <2> TAKE n \in c + 1..History
  <2>1. n \in 1..History /\ \A k \in 1..c : k \in 1..History /\ k # n
    BY <1>3, Sizes
  <2>2. ~Freed(At(n))
    BY <2>1, AtsDiffer DEF Window
  <2> QED BY <1>5, <1>7, <2>1, <2>2
<1> QED BY <1>5, <1>8, <1>9, <1>10 DEF Acked

LEMMA AckedKeepsWindow ==
    ASSUME Window, NEW c \in 0..InFlight, Acked(c)
    PROVE  Window'
<1>1. /\ InFlight \in 0..History /\ Ahead \in 1..History + 1 /\ InFlight < Ahead
      /\ last_acknown \in SeqNums
      /\ last_sent = SeqNumAdd(last_acknown, InFlight)
      /\ last_written = SeqNumAdd(last_acknown, Ahead)
  BY Cursors DEF Window, TypeOK
<1>2. /\ last_acknown' = SeqNumAdd(last_acknown, c)
      /\ size' \in [Slots -> Offset..Capacity] /\ data' \in [Slots -> Seq(Chunks)]
      /\ \A n \in 1..c : size'[At(n)] = Offset
      /\ \A n \in c + 1..History : size'[At(n)] = size[At(n)]
      /\ next_heartbeat_tries' = 0
      /\ UNCHANGED <<last_written, last_sent, flashing, next_heartbeat_timestamp>>
  BY DEF Acked
<1>3. /\ c \in Nat /\ InFlight \in Nat /\ Ahead \in Nat /\ c \in 0..SeqNumSize
      /\ c <= InFlight /\ c <= Ahead /\ c < Ahead /\ c <= History
      /\ InFlight < SeqNumSize /\ Ahead < SeqNumSize
  BY <1>1, Sizes
<1>4. InFlight' = InFlight - c /\ Ahead' = Ahead - c
  <2>1. /\ SeqNumSub(SeqNumAdd(last_acknown, InFlight), SeqNumAdd(last_acknown, c))
              = InFlight - c
        /\ SeqNumSub(SeqNumAdd(last_acknown, Ahead), SeqNumAdd(last_acknown, c))
              = Ahead - c
    BY <1>1, <1>3, SubOfAdds
  <2> QED BY <1>1, <1>2, <2>1 DEF InFlight, Ahead
<1>5. TypeOK'
  <2>1. last_acknown' \in SeqNums
    BY <1>1, <1>2, <1>3, SeqNumAddType
  <2>2. 0 \in 0..HeartbeatTriesSize - 1
    BY HeartbeatAssumption
  <2> QED BY <1>2, <2>1, <2>2 DEF TypeOK, Window
<1>6. WindowBounded'
  BY <1>1, <1>3, <1>4, Sizes DEF WindowBounded
<1>7. ASSUME NEW n \in 1..History
      PROVE  LET i == Slot(SeqNumAdd(last_acknown', n)) IN
             /\ n < Ahead - c => size'[i] # Offset
             /\ n > Ahead - c => size'[i] = Offset
  <2> DEFINE i == Slot(SeqNumAdd(last_acknown', n))
  <2>1. i = At(c + n)
    <3>1. n \in Nat /\ c + n < SeqNumSize
      BY <1>3, Sizes
    <3> QED BY <1>1, <1>2, <1>3, <3>1, AddOfAdd DEF At
  <2> HIDE DEF i
  <2>2. CASE c + n <= History
    <3>1. c + n \in c + 1..History /\ c + n \in 1..History
      BY <1>3, <2>2, Sizes
    <3>2. size'[i] = size[At(c + n)]
      BY <1>2, <2>1, <3>1
    <3> QED BY <1>1, <1>3, <3>1, <3>2, Filled DEF i
  <2>3. CASE c + n > History
    <3>1. c + n - History \in 1..c /\ c + n - History \in 0..SeqNumSize
          /\ (c + n - History) + History = c + n
          /\ c + n <= SeqNumSize
      BY <1>3, <2>3, Sizes
    <3>2. At(c + n) = At(c + n - History)
      BY <1>1, <3>1, SlotComesRound DEF At
    <3>3. size'[i] = Offset
      BY <1>2, <2>1, <3>1, <3>2
    <3>4. ~(n < Ahead - c)
      BY <1>1, <1>3, <2>3, Sizes
    <3> QED BY <3>3, <3>4 DEF i
  <2> QED BY <2>2, <2>3, <1>3, Sizes
<1>8. WindowFilled'
  BY <1>4, <1>7 DEF WindowFilled, IsEmpty
<1> QED BY <1>5, <1>6, <1>8 DEF Window

LEMMA InitWindow ==
    ASSUME Init
    PROVE  Window
<1>1. /\ last_written = 0 /\ last_sent = SeqNumMax /\ last_acknown = SeqNumMax
      /\ size = [i \in Slots |-> Offset] /\ data = [i \in Slots |-> <<>>]
      /\ flashing = FALSE
      /\ next_heartbeat_timestamp = Never /\ next_heartbeat_tries = 0
  BY DEF Init
<1>2. InFlight = 0 /\ Ahead = 1
  BY <1>1, Sizes DEF InFlight, Ahead, SeqNumSub
<1>3. TypeOK
  <2>1. last_written \in SeqNums /\ last_sent \in SeqNums /\ last_acknown \in SeqNums
    BY <1>1, Sizes
  <2>2. Offset \in Offset..Capacity /\ <<>> \in Seq(Chunks)
    BY BufferSizes
  <2>3. /\ next_heartbeat_timestamp \in 0..Never
        /\ next_heartbeat_tries \in 0..HeartbeatTriesSize - 1
    BY <1>1, HeartbeatAssumption DEF Never
  <2> QED BY <1>1, <2>1, <2>2, <2>3 DEF TypeOK
<1>4. WindowBounded
  BY <1>2, Sizes DEF WindowBounded
<1>5. WindowFilled
  <2>1. ASSUME NEW n \in 1..History
        PROVE  IsEmpty(SeqNumAdd(last_acknown, n))
    <3>1. n \in 0..SeqNumSize
      BY Sizes
    <3>2. At(n) \in Slots
      BY <1>3, <3>1, AtType
    <3> QED BY <1>1, <3>2 DEF IsEmpty, At
  <2>2. \A n \in 1..History : ~(n < Ahead)
    BY <1>2
  <2> QED BY <2>1, <2>2 DEF WindowFilled
<1> QED BY <1>3, <1>4, <1>5 DEF Window

LEMMA ResetKeepsWindow ==
    ASSUME Window, Reset
    PROVE  Window'
<1>1. /\ last_written' = 0 /\ last_sent' = SeqNumMax /\ last_acknown' = SeqNumMax
      /\ size' = [i \in Slots |-> Offset] /\ data' = [i \in Slots |-> <<>>]
      /\ flashing' = flashing
      /\ next_heartbeat_timestamp' = Never /\ next_heartbeat_tries' = 0
  BY DEF Reset
<1>2. InFlight' = 0 /\ Ahead' = 1
  BY <1>1, Sizes DEF InFlight, Ahead, SeqNumSub
<1>3. TypeOK'
  BY <1>1, Sizes, BufferSizes, HeartbeatAssumption DEF Window, TypeOK, Never
<1>4. WindowBounded'
  BY <1>2, Sizes DEF WindowBounded
<1>5. WindowFilled'
  <2>1. ASSUME NEW n \in 1..History
        PROVE  size'[Slot(SeqNumAdd(last_acknown', n))] = Offset
    <3>1. n \in 0..SeqNumSize /\ SeqNumMax \in SeqNums
      BY Sizes
    <3>2. Slot(SeqNumAdd(SeqNumMax, n)) \in Slots
      BY <3>1, SeqNumAddType, SlotType
    <3> QED BY <1>1, <3>2
  <2>2. \A n \in 1..History : ~(n < Ahead')
    BY <1>2
  <2> QED BY <2>1, <2>2 DEF WindowFilled, IsEmpty
<1> QED BY <1>3, <1>4, <1>5 DEF Window

(* The steps that touch neither cursor nor buffer.                           *)
LEMMA OthersKeepWindow ==
    ASSUME Window, FlashBegin \/ FlashEnd \/ UpdateHeartbeat \/ Tick \/ UNCHANGED vars
    PROVE  Window'
<1>1. UNCHANGED <<cursors, buffers>>
  BY DEF FlashBegin, FlashEnd, UpdateHeartbeat, Tick, vars
<1>2. WindowBounded' /\ WindowFilled'
  BY <1>1 DEF Window, WindowBounded, WindowFilled, InFlight, Ahead, IsEmpty, cursors, buffers
<1>3. flashing' \in BOOLEAN
  BY DEF Window, TypeOK, FlashBegin, FlashEnd, UpdateHeartbeat, Tick, vars
<1>4. next_heartbeat_timestamp' \in 0..Never
  BY HeartbeatAssumption DEF Window, TypeOK, FlashBegin, FlashEnd, UpdateHeartbeat, Tick,
     vars, heartbeat, Never
<1>5. next_heartbeat_tries' \in 0..HeartbeatTriesSize - 1
  BY HeartbeatAssumption DEF Window, TypeOK, FlashBegin, FlashEnd, UpdateHeartbeat, Tick,
     vars, heartbeat
<1>6. TypeOK'
  BY <1>1, <1>3, <1>4, <1>5 DEF Window, TypeOK, cursors, buffers
<1> QED BY <1>2, <1>6 DEF Window

LEMMA NextKeepsWindow ==
    ASSUME Window, [Next]_vars
    PROVE  Window'
<1>1. CASE \E m \in Messages : Write(m)
  <2>1. PICK lo, hi \in Nat : Wrote(lo, hi)
    BY <1>1, WriteWrote
  <2> QED BY <2>1, WroteKeepsWindow
<1>2. CASE FlashSend
  BY <1>2, FlashSendKeepsWindow
<1>3. CASE FlashSendFails
  BY <1>3, FlashSendFailsKeepsWindow
<1>4. CASE \E first_unacked \in InOrderAcks : ProcessAcknack(first_unacked)
  <2>1. PICK c \in 0..InFlight : Acked(c)
    BY <1>4, ProcessAcknackAcked
  <2> QED BY <2>1, AckedKeepsWindow
<1>5. CASE Reset
  BY <1>5, ResetKeepsWindow
<1>6. CASE FlashBegin \/ FlashEnd \/ UpdateHeartbeat \/ Tick \/ UNCHANGED vars
  BY <1>6, OthersKeepWindow
<1> QED BY <1>1, <1>2, <1>3, <1>4, <1>5, <1>6 DEF Next

(***************************************************************************)
(* A buffer is empty by its size when nothing is in it, and a write puts   *)
(* its pieces behind what the buffers of the window hold.                  *)
(***************************************************************************)
SizesTell == \A i \in Slots : size[i] = Offset <=> data[i] = <<>>

LEMMA WriteAdds ==
    ASSUME Window, SizesTell, NEW m \in Messages, Write(m)
    PROVE  \E lo, hi \in Nat : Wrote(lo, hi) /\ Adds(m, lo, hi)
<1>1. /\ Ahead \in Nat /\ Ahead + 1 \in Nat /\ Ahead \in 1..History + 1
      /\ last_acknown \in SeqNums /\ last_written \in SeqNums
      /\ last_written = SeqNumAdd(last_acknown, Ahead)
      /\ SeqNumAdd(last_written, 1) = SeqNumAdd(last_acknown, Ahead + 1)
  BY Cursors, Sizes DEF Window, TypeOK
<1>2. \A n \in Nat : n - n + 1 = 1
  OBVIOUS
<1>3. data \in [Slots -> Seq(Chunks)]
  BY DEF Window, TypeOK
<1>4. CASE WriteInCurrent(m)
  <2>1. Wrote(Ahead, Ahead)
    BY <1>4, WriteInCurrentWrote
  <2>2. Slot(last_written) = At(Ahead) /\ At(Ahead) \in Slots
    BY <1>1, SlotType DEF At
  <2>3. data'[At(Ahead)] = Append(data[At(Ahead)], Whole(m))
    BY <1>3, <1>4, <2>2 DEF WriteInCurrent
  <2>4. Adds(m, Ahead, Ahead)
    BY <1>1, <1>2, <2>3 DEF Adds, Piece
  <2> QED BY <1>1, <2>1, <2>4
<1>5. CASE WriteInNext(m)
  <2> PICK n \in Nat : n = Ahead + 1
    BY <1>1
  <2>1. Wrote(n, n)
    BY <1>5, WriteInNextWrote
  <2>2. n \in 1..History
    BY <1>1, <2>1 DEF Wrote
  <2>3. Slot(SeqNumAdd(last_written, 1)) = At(n) /\ At(n) \in Slots
    <3>1. n \in 0..SeqNumSize
      BY <2>2, Sizes
    <3> QED BY <1>1, <3>1, AtType DEF At, Window
  <2>4. data[At(n)] = <<>>
    <3>1. n > Ahead
      BY <1>1
    <3> QED BY <2>2, <2>3, <3>1, Filled DEF SizesTell
  <2>5. data'[At(n)] = <<Whole(m)>>
    BY <1>3, <1>5, <2>3 DEF WriteInNext
  <2>6. data'[At(n)] = Append(data[At(n)], Whole(m))
    BY <2>4, <2>5
  <2>7. Adds(m, n, n)
    BY <1>2, <2>6 DEF Adds, Piece
  <2> QED BY <2>1, <2>7
<1>6. CASE WriteFragmented(m)
  BY <1>6, WriteFragmentedWrote
<1> QED BY <1>4, <1>5, <1>6 DEF Write

(* Every slot is in the window.                                              *)
LEMMA SizesTellAfter ==
    ASSUME Window, \A n \in 1..History : size'[At(n)] = Offset <=> data'[At(n)] = <<>>
    PROVE  SizesTell'
<1>1. ASSUME NEW i \in Slots PROVE size'[i] = Offset <=> data'[i] = <<>>
  <2>1. PICK n \in 1..History : At(n) = i
    BY SlotOfSome DEF At, Window, TypeOK
  <2> QED BY <2>1
<1> QED BY <1>1 DEF SizesTell, Slots

LEMMA NextKeepsSizesTell ==
    ASSUME Window, SizesTell, [Next]_vars
    PROVE  SizesTell'
<1>1. ASSUME NEW n \in 1..History
      PROVE  At(n) \in Slots /\ (size[At(n)] = Offset <=> data[At(n)] = <<>>)
  <2>1. n \in 0..SeqNumSize
    BY Sizes
  <2> QED BY <2>1, AtType DEF Window, SizesTell
<1>2. CASE \E m \in Messages : Write(m)
  <2>1. PICK m \in Messages, lo \in Nat, hi \in Nat : Wrote(lo, hi) /\ Adds(m, lo, hi)
    BY <1>2, WriteAdds
  <2>2. ASSUME NEW n \in 1..History
        PROVE  size'[At(n)] = Offset <=> data'[At(n)] = <<>>
    <3>1. CASE n \in lo..hi
      <4>1. size'[At(n)] # Offset
        BY <2>1, <3>1 DEF Wrote
      <4>2. data[At(n)] \in Seq(Chunks)
        BY <1>1 DEF Window, TypeOK
      <4>3. data'[At(n)] = Append(data[At(n)], Piece(m, n - lo + 1, hi - lo + 1))
        BY <2>1, <3>1 DEF Adds
      <4>4. data'[At(n)] # <<>>
        BY <4>2, <4>3
      <4> QED BY <4>1, <4>4
    <3>2. CASE n \notin lo..hi
      BY <1>1, <2>1, <3>2 DEF Wrote
    <3> QED BY <3>1, <3>2
  <2> QED BY <2>2, SizesTellAfter
<1>3. CASE \E first_unacked \in InOrderAcks : ProcessAcknack(first_unacked)
  <2>1. PICK c \in 0..InFlight : Acked(c)
    BY <1>3, ProcessAcknackAcked
  <2>2. ASSUME NEW n \in 1..History
        PROVE  size'[At(n)] = Offset <=> data'[At(n)] = <<>>
    <3>1. n \in 1..c \/ n \in c + 1..History
      <4>1. InFlight \in 0..History
        BY Cursors DEF Window
      <4> QED BY <2>1, <4>1, Sizes
    <3> QED BY <1>1, <2>1, <3>1 DEF Acked
  <2> QED BY <2>2, SizesTellAfter
<1>4. CASE Reset
  <2>1. size' = [i \in Slots |-> Offset] /\ data' = [i \in Slots |-> <<>>]
    BY <1>4 DEF Reset
  <2> QED BY <2>1 DEF SizesTell, Slots
<1>5. CASE \/ FlashBegin \/ FlashSend \/ FlashSendFails \/ FlashEnd \/ UpdateHeartbeat
           \/ Tick \/ UNCHANGED vars
  <2>1. size' = size /\ data' = data
    BY <1>5 DEF FlashBegin, FlashSend, FlashSendFails, FlashEnd, UpdateHeartbeat, Tick,
       vars, buffers
  <2> QED BY <2>1 DEF SizesTell, Slots
<1> QED BY <1>2, <1>3, <1>4, <1>5 DEF Next

(***************************************************************************)
(* What was sent and is not acknowledged keeps its buffers.                *)
(***************************************************************************)
UnackedKept ==
    \/ Reset
    \/ \A n \in SeqNumSub(last_acknown', last_acknown) + 1..InFlight :
          LET i == Slot(SeqNumAdd(last_acknown, n))
          IN  size'[i] = size[i] /\ data'[i] = data[i]

LEMMA NextKeepsUnacked ==
    ASSUME Window, [Next]_vars
    PROVE  [UnackedKept]_vars
<1> DEFINE Kept(n) == LET i == Slot(SeqNumAdd(last_acknown, n))
                      IN  size'[i] = size[i] /\ data'[i] = data[i]
           Step == \/ Reset
                   \/ \A n \in SeqNumSub(last_acknown', last_acknown) + 1..InFlight : Kept(n)
<1>8. Step <=> UnackedKept
  BY DEF UnackedKept
<1> SUFFICES [Step]_vars
  BY <1>8
<1>1. /\ InFlight \in 0..History /\ Ahead \in 1..History + 1 /\ InFlight < Ahead
      /\ last_acknown \in SeqNums
  BY Cursors DEF Window, TypeOK
<1>2. SeqNumSub(last_acknown, last_acknown) = 0
  BY <1>1, Sizes DEF SeqNumSub
<1>3. CASE \E m \in Messages : Write(m)
  <2>1. PICK lo, hi \in Nat : Wrote(lo, hi)
    BY <1>3, WriteWrote
  <2>2. \A n \in 1..InFlight : n \in 1..History /\ n \notin lo..hi
    BY <1>1, <2>1, Sizes DEF Wrote
  <2> QED BY <1>2, <2>1, <2>2 DEF Wrote, At
<1>4. CASE UNCHANGED buffers /\ UNCHANGED last_acknown
  BY <1>4 DEF buffers
<1>5. CASE \E first_unacked \in InOrderAcks : ProcessAcknack(first_unacked)
  <2>1. PICK c \in 0..InFlight : Acked(c)
    BY <1>5, ProcessAcknackAcked
  <2>2. SeqNumSub(last_acknown', last_acknown) = c
    <3>1. c \in Nat /\ c < SeqNumSize
      BY <1>1, Sizes
    <3> QED BY <1>1, <2>1, <3>1, SubOfAdd DEF Acked
  <2>3. \A n \in c + 1..InFlight : n \in c + 1..History
    BY <1>1, <2>1, Sizes
  <2> QED BY <2>1, <2>2, <2>3 DEF Acked, At
<1>6. CASE Reset
  BY <1>6
<1>7. FlashSend \/ FlashSendFails \/ FlashBegin \/ FlashEnd \/ UpdateHeartbeat \/ Tick
          \/ UNCHANGED vars => UNCHANGED buffers /\ UNCHANGED last_acknown
  BY DEF FlashSend, FlashSendFails, FlashBegin, FlashEnd, UpdateHeartbeat, Tick, vars,
     cursors
<1> QED BY <1>3, <1>4, <1>5, <1>6, <1>7 DEF Next

(***************************************************************************)
(* Induction on the natural numbers, with a set for the property.          *)
(***************************************************************************)
LEMMA CountUp ==
    ASSUME NEW S, 0 \in S, \A n \in Nat : n \in S => n + 1 \in S
    PROVE  Nat \subseteq S
<1> SUFFICES ASSUME NEW bad \in Nat, bad \notin S PROVE FALSE
  OBVIOUS
<1> DEFINE R == StrictSubsetOrdering(Nat)
           F == FiniteSubsetsOf(Nat)
           B == {n \in Nat : n \notin S}
           T == {0..n : n \in B}
<1>1. IsWellFoundedOn(R, F)
  BY FS_StrictSubsetOrderingWellFounded
<1>2. T \subseteq F /\ T # {}
  <2>1. ASSUME NEW n \in B PROVE 0..n \in F
    <3>1. n \in Int /\ 0 \in Int /\ 0..n \in SUBSET Nat
      OBVIOUS
    <3>2. IsFiniteSet(0..n)
      BY <3>1, FS_Interval
    <3> QED BY <3>1, <3>2 DEF FiniteSubsetsOf
  <2> QED BY <2>1
<1>3. PICK s \in T : \A t \in T : ~(<<t, s>> \in R)
  <2> HIDE DEF R, F, T
  <2> QED BY <1>1, <1>2, WFMin
<1>4. PICK n \in B : s = 0..n
  BY <1>3
<1>5. n # 0 /\ n - 1 \in Nat /\ n - 1 \in B
  <2>1. n - 1 \in Nat => (n - 1) + 1 = n
    OBVIOUS
  <2> QED BY <1>4, <2>1
<1>6. /\ 0..n - 1 \in SUBSET Nat /\ 0..n \in SUBSET Nat
      /\ 0..n - 1 \subseteq 0..n /\ n \in 0..n /\ n \notin 0..n - 1
  BY <1>5
<1>7. <<0..n - 1, 0..n>> \in R
  BY <1>6 DEF StrictSubsetOrdering
<1> QED BY <1>3, <1>4, <1>5, <1>7

(***************************************************************************)
(* Sequences of sequences, read one behind the other.                      *)
(***************************************************************************)
Cat(x, y) == x \o y

LEMMA CatType ==
    ASSUME NEW S, NEW x \in Seq(S), NEW y \in Seq(S)
    PROVE  Cat(x, y) \in Seq(S)
BY ConcatProperties DEF Cat

LEMMA CatEmpty ==
    ASSUME NEW S, NEW x \in Seq(S)
    PROVE  Cat(x, <<>>) = x /\ Cat(<<>>, x) = x
BY ConcatEmptySeq DEF Cat

LEMMA CatTwice ==
    ASSUME NEW S, NEW x \in Seq(S), NEW y \in Seq(S), NEW z \in Seq(S)
    PROVE  Cat(Cat(x, y), z) = Cat(x, Cat(y, z))
BY ConcatAssociative DEF Cat

One(e) == <<e>>

LEMMA CatOne ==
    ASSUME NEW S, NEW x \in Seq(S), NEW e \in S
    PROVE  Append(x, e) = Cat(x, One(e)) /\ One(e) \in Seq(S)
<1>1. Append(x, e) = x \o <<e>>
  BY AppendIsConcat
<1>2. <<e>> \in Seq(S)
  OBVIOUS
<1> QED BY <1>1, <1>2 DEF Cat, One

(* What has been read after each of them.                                    *)
Reading(S, W, r) ==
    /\ W \in Seq(Seq(S)) /\ r \in [0..Len(W) -> Seq(S)]
    /\ r[0] = <<>>
    /\ \A i \in 1..Len(W) : r[i] = Cat(r[i - 1], W[i])

SameUpTo(W, V, k) == \A i \in 1..k : W[i] = V[i]
NothingBehind(W, k) == \A i \in k + 1..Len(W) : W[i] = <<>>
Longer(W, V, a, pieces) ==
    \A j \in 1..Len(pieces) : V[a + j - 1] = Append(W[a + j - 1], pieces[j])

Unfolds(W, n, f) == f = [i \in 1..n |-> IF i = 1 THEN W[i] ELSE Cat(f[i - 1], W[i])]

LEMMA UnfoldsExist ==
    ASSUME NEW W
    PROVE  \A n \in Nat : \E f : Unfolds(W, n, f)
<1> DEFINE S == {n \in Nat : \E f : Unfolds(W, n, f)}
<1>1. 0 \in S
  <2>1. Unfolds(W, 0, <<>>)
    BY DEF Unfolds
  <2> QED BY <2>1
<1>2. ASSUME NEW n \in Nat, n \in S PROVE n + 1 \in S
  <2>1. PICK f : Unfolds(W, n, f)
    BY <1>2
  <2> DEFINE g == [i \in 1..n + 1 |-> IF i = 1 THEN W[i] ELSE Cat(f[i - 1], W[i])]
  <2>2. ASSUME NEW i \in 1..n PROVE g[i] = f[i]
    <3>1. f[i] = IF i = 1 THEN W[i] ELSE Cat(f[i - 1], W[i])
      BY <2>1 DEF Unfolds
    <3>2. i \in 1..n + 1
      OBVIOUS
    <3>3. g[i] = IF i = 1 THEN W[i] ELSE Cat(f[i - 1], W[i])
      BY <3>2
    <3> QED BY <3>1, <3>3
  <2>3. ASSUME NEW i \in 1..n + 1 PROVE g[i] = IF i = 1 THEN W[i] ELSE Cat(g[i - 1], W[i])
    <3>1. CASE i = 1
      BY <3>1
    <3>2. CASE i # 1
      <4>1. i - 1 \in 1..n
        BY <3>2
      <4>2. g[i - 1] = f[i - 1]
        BY <2>2, <4>1
      <4> QED BY <3>2, <4>2
    <3> QED BY <3>1, <3>2
  <2>4. g = [i \in 1..n + 1 |-> IF i = 1 THEN W[i] ELSE Cat(g[i - 1], W[i])]
    <3>1. g = [i \in 1..n + 1 |-> g[i]]
      OBVIOUS
    <3> HIDE DEF g
    <3> QED BY <2>3, <3>1
  <2>5. Unfolds(W, n + 1, g)
    <3> HIDE DEF g
    <3> QED BY <2>4 DEF Unfolds
  <2> QED BY <2>5
<1>3. Nat \subseteq S
  <2> HIDE DEF S
  <2> QED BY <1>1, <1>2, CountUp
<1> QED BY <1>3

LEMMA FlattenReads ==
    ASSUME NEW S, NEW W \in Seq(Seq(S))
    PROVE  \E r : Reading(S, W, r) /\ FlattenSeq(W) = r[Len(W)]
<1> DEFINE f == CHOOSE f : Unfolds(W, Len(W), f)
           r == [i \in 0..Len(W) |-> IF i = 0 THEN <<>> ELSE f[i]]
<1>1. Len(W) \in Nat /\ \A i \in 1..Len(W) : W[i] \in Seq(S)
  BY LenProperties, ElementOfSeq
<1>2. Unfolds(W, Len(W), f)
  BY <1>1, UnfoldsExist
<1>3. FlattenSeq(W) = IF Len(W) = 0 THEN W ELSE f[Len(W)]
  BY DEF FlattenSeq, Unfolds, Cat
<1> HIDE DEF f
<1>4. \A i \in 1..Len(W) : f[i] = IF i = 1 THEN W[i] ELSE Cat(f[i - 1], W[i])
  BY <1>2 DEF Unfolds
<1>5. \A i \in 1..Len(W) : r[i] = Cat(r[i - 1], W[i])
  <2> TAKE i \in 1..Len(W)
  <2>1. i \in 0..Len(W) /\ i - 1 \in 0..Len(W) /\ i # 0
    BY <1>1
  <2>2. CASE i = 1
    <3>1. r[i] = W[i] /\ r[i - 1] = <<>>
      BY <1>4, <2>1, <2>2
    <3> QED BY <1>1, <3>1, CatEmpty
  <2>3. CASE i # 1
    <3>1. f[i] = Cat(f[i - 1], W[i])
      BY <1>4, <2>3
    <3>2. i - 1 # 0
      BY <1>1, <2>3
    <3>3. r[i] = f[i] /\ r[i - 1] = f[i - 1]
      BY <2>1, <3>2
    <3> QED BY <3>1, <3>3
  <2> QED BY <2>2, <2>3
<1>6. r[0] = <<>>
  BY <1>1
<1>7. \A i \in Nat : i \in 0..Len(W) => r[i] \in Seq(S)
  <2> DEFINE T == {i \in Nat : i \in 0..Len(W) => r[i] \in Seq(S)}
  <2> HIDE DEF r
  <2>1. 0 \in T
    BY <1>6, EmptySeq
  <2>2. ASSUME NEW i \in Nat, i \in T PROVE i + 1 \in T
    <3> SUFFICES ASSUME i + 1 \in 0..Len(W) PROVE r[i + 1] \in Seq(S)
      OBVIOUS
    <3>1. i \in 0..Len(W) /\ i + 1 \in 1..Len(W) /\ (i + 1) - 1 = i
      BY <1>1
    <3>2. r[i] \in Seq(S) /\ W[i + 1] \in Seq(S) /\ r[i + 1] = Cat(r[i], W[i + 1])
      BY <1>1, <1>5, <2>2, <3>1
    <3> QED BY <3>2, CatType
  <2>3. Nat \subseteq T
    <3> HIDE DEF T
    <3> QED BY <2>1, <2>2, CountUp
  <2> QED BY <2>3
<1>8. r \in [0..Len(W) -> Seq(S)]
  <2>1. \A i \in 0..Len(W) : r[i] \in Seq(S)
    BY <1>1, <1>7
  <2> QED BY <2>1
<1>9. FlattenSeq(W) = r[Len(W)]
  <2>1. CASE Len(W) = 0
    <3>1. W = <<>>
      BY <2>1, EmptySeq
    <3> QED BY <1>3, <1>6, <2>1, <3>1
  <2>2. CASE Len(W) # 0
    BY <1>1, <1>3, <2>2
  <2> QED BY <2>1, <2>2
<1> HIDE DEF r
<1> QED BY <1>5, <1>6, <1>8, <1>9 DEF Reading

LEMMA ReadStep ==
    ASSUME NEW S, NEW W, NEW r, Reading(S, W, r)
    PROVE  \A i \in 1..Len(W) :
              /\ r[i] = Cat(r[i - 1], W[i]) /\ r[i] \in Seq(S) /\ r[i - 1] \in Seq(S)
              /\ W[i] \in Seq(S)
<1>1. W \in Seq(Seq(S)) /\ Len(W) \in Nat
  BY LenProperties DEF Reading
<1>2. ASSUME NEW i \in 1..Len(W)
      PROVE  i \in 0..Len(W) /\ i - 1 \in 0..Len(W) /\ W[i] \in Seq(S)
  BY <1>1, ElementOfSeq
<1> QED BY <1>2 DEF Reading

LEMMA ReadType ==
    ASSUME NEW S, NEW W, NEW r, Reading(S, W, r)
    PROVE  Len(W) \in Nat /\ r[0] = <<>> /\ \A i \in 0..Len(W) : r[i] \in Seq(S)
BY LenProperties DEF Reading

(* As long as two are the same, so is what has been read.                    *)
LEMMA ReadsAgree ==
    ASSUME NEW S, NEW W, NEW V, NEW r, NEW q, Reading(S, W, r), Reading(S, V, q),
           NEW k \in Nat, k <= Len(W), k <= Len(V), SameUpTo(W, V, k)
    PROVE  r[k] = q[k]
<1> DEFINE T == {i \in Nat : i <= k => r[i] = q[i]}
<1>1. Len(W) \in Nat /\ Len(V) \in Nat
  BY ReadType
<1>2. 0 \in T
  BY ReadType
<1>5. /\ \A i \in 1..Len(W) : r[i] = Cat(r[i - 1], W[i])
      /\ \A i \in 1..Len(V) : q[i] = Cat(q[i - 1], V[i])
  BY ReadStep
<1>3. ASSUME NEW i \in Nat, i \in T PROVE i + 1 \in T
  <2> SUFFICES ASSUME i + 1 <= k PROVE r[i + 1] = q[i + 1]
    OBVIOUS
  <2> PICK n \in Nat : n = i + 1
    OBVIOUS
  <2>1. n \in 1..Len(W) /\ n \in 1..Len(V) /\ n \in 1..k /\ n - 1 = i /\ i <= k
    BY <1>1
  <2>2. r[n - 1] = q[n - 1]
    BY <1>3, <2>1
  <2>3. W[n] = V[n]
    BY <2>1 DEF SameUpTo
  <2>4. r[n] = Cat(r[n - 1], W[n])
    BY <1>5, <2>1
  <2>5. q[n] = Cat(q[n - 1], V[n])
    BY <1>5, <2>1
  <2> QED BY <2>2, <2>3, <2>4, <2>5
<1>4. Nat \subseteq T
  <2> HIDE DEF T
  <2> QED BY <1>2, <1>3, CountUp
<1> QED BY <1>4

(* Nothing is read where there is nothing.                                   *)
LEMMA ReadsNothing ==
    ASSUME NEW S, NEW W, NEW r, Reading(S, W, r),
           NEW k \in 0..Len(W), NothingBehind(W, k)
    PROVE  r[Len(W)] = r[k]
<1> DEFINE T == {i \in Nat : k + i <= Len(W) => r[k + i] = r[k]}
<1>1. Len(W) \in Nat /\ k \in Nat
  BY ReadType
<1>2. 0 \in T
  BY <1>1
<1>7. \A i \in 1..Len(W) : r[i] = Cat(r[i - 1], W[i]) /\ r[i - 1] \in Seq(S)
  BY ReadStep
<1>3. ASSUME NEW i \in Nat, i \in T PROVE i + 1 \in T
  <2> SUFFICES ASSUME k + (i + 1) <= Len(W) PROVE r[k + (i + 1)] = r[k]
    OBVIOUS
  <2> PICK n \in Nat : n = k + (i + 1)
    BY <1>1
  <2>1. n \in 1..Len(W) /\ n \in k + 1..Len(W) /\ n - 1 = k + i /\ k + i <= Len(W)
    BY <1>1
  <2>2. r[n - 1] = r[k]
    BY <1>3, <2>1
  <2>3. W[n] = <<>>
    BY <2>1 DEF NothingBehind
  <2>4. r[n] = Cat(r[n - 1], W[n]) /\ r[n - 1] \in Seq(S)
    BY <1>7, <2>1
  <2>5. Cat(r[n - 1], <<>>) = r[n - 1]
    BY <2>4, CatEmpty
  <2> QED BY <2>2, <2>3, <2>4, <2>5
<1>4. Nat \subseteq T
  <2> HIDE DEF T
  <2> QED BY <1>2, <1>3, CountUp
<1> PICK j \in Nat : k + j = Len(W)
  <2>1. Len(W) - k \in Nat /\ k + (Len(W) - k) = Len(W)
    BY <1>1
  <2> QED BY <2>1
<1>5. j \in T
  <2> HIDE DEF T
  <2> QED BY <1>4
<1>6. k + j <= Len(W)
  BY <1>1
<1> QED BY <1>5, <1>6

LEMMA FlattenType ==
    ASSUME NEW S, NEW W \in Seq(Seq(S))
    PROVE  FlattenSeq(W) \in Seq(S)
<1>1. PICK r : Reading(S, W, r) /\ FlattenSeq(W) = r[Len(W)]
  BY FlattenReads
<1>2. Len(W) \in Nat /\ \A i \in 0..Len(W) : r[i] \in Seq(S)
  BY <1>1, ReadType
<1> QED BY <1>1, <1>2

(* What holds nothing may be added behind.                                   *)
LEMMA FlattenPadded ==
    ASSUME NEW S, NEW W \in Seq(Seq(S)), NEW V \in Seq(Seq(S)), Len(W) <= Len(V),
           SameUpTo(W, V, Len(W)), NothingBehind(V, Len(W))
    PROVE  FlattenSeq(V) = FlattenSeq(W)
<1>1. Len(W) \in Nat /\ Len(V) \in Nat /\ Len(W) \in 0..Len(V)
  BY LenProperties
<1>2. PICK r : Reading(S, W, r) /\ FlattenSeq(W) = r[Len(W)]
  BY FlattenReads
<1>3. PICK q : Reading(S, V, q) /\ FlattenSeq(V) = q[Len(V)]
  BY FlattenReads
<1>4. q[Len(V)] = q[Len(W)]
  BY <1>1, <1>3, ReadsNothing
<1>5. r[Len(W)] = q[Len(W)]
  <2>1. Len(W) <= Len(W)
    BY <1>1
  <2> QED BY <1>1, <1>2, <1>3, <2>1, ReadsAgree
<1> QED BY <1>2, <1>3, <1>4, <1>5

(* The first is read first.                                                  *)
LEMMA FlattenFirst ==
    ASSUME NEW S, NEW W \in Seq(Seq(S)), NEW V \in Seq(Seq(S)), Len(V) = Len(W) + 1,
           \A i \in 1..Len(W) : V[i + 1] = W[i]
    PROVE  V[1] \in Seq(S) /\ FlattenSeq(V) = Cat(V[1], FlattenSeq(W))
<1>1. Len(W) \in Nat /\ Len(V) \in Nat /\ V[1] \in Seq(S) /\ 1 \in 1..Len(V)
  BY LenProperties, ElementOfSeq
<1>2. PICK r : Reading(S, W, r) /\ FlattenSeq(W) = r[Len(W)]
  BY FlattenReads
<1>3. PICK q : Reading(S, V, q) /\ FlattenSeq(V) = q[Len(V)]
  BY FlattenReads
<1>9. /\ \A i \in 1..Len(V) : q[i] = Cat(q[i - 1], V[i])
      /\ \A i \in 1..Len(W) : /\ r[i] = Cat(r[i - 1], W[i])
                               /\ r[i - 1] \in Seq(S) /\ W[i] \in Seq(S)
  BY <1>2, <1>3, ReadStep
<1> DEFINE T == {i \in Nat : i <= Len(W) => q[i + 1] = Cat(V[1], r[i])}
<1>4. 0 \in T
  <2>1. q[1] = Cat(q[1 - 1], V[1])
    BY <1>1, <1>9
  <2>2. q[1 - 1] = <<>>
    BY <1>3, ReadType
  <2>3. r[0] = <<>>
    BY <1>2, ReadType
  <2>4. Cat(<<>>, V[1]) = V[1] /\ Cat(V[1], <<>>) = V[1]
    BY <1>1, CatEmpty
  <2> QED BY <2>1, <2>2, <2>3, <2>4
<1>5. ASSUME NEW i \in Nat, i \in T PROVE i + 1 \in T
  <2>0. i + 1 \in Nat
    OBVIOUS
  <2> SUFFICES ASSUME i + 1 <= Len(W) PROVE q[(i + 1) + 1] = Cat(V[1], r[i + 1])
    BY <2>0
  <2> PICK n \in Nat : n = i + 1
    OBVIOUS
  <2>1. n \in 1..Len(W) /\ n + 1 \in 1..Len(V) /\ n - 1 = i /\ (n + 1) - 1 = n /\ i <= Len(W)
    BY <1>1
  <2>2. q[n] = Cat(V[1], r[i])
    BY <1>5, <2>1
  <2>3. q[n + 1] = Cat(q[(n + 1) - 1], V[n + 1])
    BY <1>9, <2>1
  <2>4. r[n] = Cat(r[n - 1], W[n]) /\ r[n - 1] \in Seq(S) /\ W[n] \in Seq(S)
    BY <1>9, <2>1
  <2>5. V[n + 1] = W[n]
    BY <2>1
  <2>6. Cat(Cat(V[1], r[i]), W[n]) = Cat(V[1], Cat(r[i], W[n]))
    <3>1. r[i] \in Seq(S) /\ W[n] \in Seq(S)
      BY <2>1, <2>4
    <3> QED BY <1>1, <3>1, CatTwice
  <2>7. q[n + 1] = Cat(V[1], r[n])
    BY <2>1, <2>2, <2>3, <2>4, <2>5, <2>6
  <2> QED BY <2>7
<1>6. Nat \subseteq T
  <2> HIDE DEF T
  <2> QED BY <1>4, <1>5, CountUp
<1>7. Len(W) \in T
  <2> HIDE DEF T
  <2> QED BY <1>1, <1>6
<1>8. q[Len(W) + 1] = Cat(V[1], r[Len(W)])
  BY <1>1, <1>7
<1> QED BY <1>1, <1>2, <1>3, <1>8

LEMMA OneMore ==
    ASSUME NEW S, NEW x \in Seq(S), NEW y \in Seq(S), NEW e \in S
    PROVE  /\ Cat(x, Cat(y, One(e))) = Cat(Cat(x, y), One(e))
           /\ Cat(x, Append(y, e)) = Cat(Cat(x, y), One(e))
           /\ One(e) \in Seq(S)
<1>1. Append(y, e) = Cat(y, One(e)) /\ One(e) \in Seq(S)
  BY CatOne
<1>2. Cat(Cat(x, y), One(e)) = Cat(x, Cat(y, One(e)))
  BY <1>1, CatTwice
<1> QED BY <1>1, <1>2

Begin(pieces, j) == SubSeq(pieces, 1, j)

LEMMA Begins ==
    ASSUME NEW S, NEW pieces \in Seq(S)
    PROVE  /\ Len(pieces) \in Nat
           /\ \A j \in 1..Len(pieces) :
                 /\ pieces[j] \in S
                 /\ Begin(pieces, j) = Cat(Begin(pieces, j - 1), One(pieces[j]))
           /\ \A j \in 0..Len(pieces) : Begin(pieces, j) \in Seq(S)
           /\ Begin(pieces, 0) = <<>> /\ Begin(pieces, Len(pieces)) = pieces
<1>1. Len(pieces) \in Nat
  BY LenProperties
<1>2. ASSUME NEW j \in 1..Len(pieces)
      PROVE  /\ pieces[j] \in S
             /\ Begin(pieces, j) = Cat(Begin(pieces, j - 1), One(pieces[j]))
  <2>1. pieces[j] \in S
    BY ElementOfSeq
  <2>2. 1 \in 1..Len(pieces) /\ j \in 1..Len(pieces)
    BY <1>1
  <2>3. SubSeq(pieces, 1, j) = SubSeq(pieces, 1, j - 1) \o <<pieces[j]>>
    BY <2>2, SubSeqRecursiveSecond
  <2> QED BY <2>1, <2>3 DEF Cat, One, Begin
<1>3. ASSUME NEW j \in 0..Len(pieces) PROVE Begin(pieces, j) \in Seq(S)
  <2>1. j \in Int /\ 1 \in Int /\ \A i \in 1..j : pieces[i] \in S
    BY <1>1, <1>2
  <2> QED BY <2>1, SubSeqProperties DEF Begin
<1>4. Begin(pieces, 0) = <<>>
  BY SubSeqEmpty DEF Begin
<1>5. Begin(pieces, Len(pieces)) = pieces
  BY SubSeqFull DEF Begin
<1> QED BY <1>1, <1>2, <1>3, <1>4, <1>5

(* Pieces are added, one to each from the a-th on; behind it is nothing yet. *)
LEMMA ReadsAdded ==
    ASSUME NEW S, NEW W, NEW V, NEW r, NEW q, Reading(S, W, r), Reading(S, V, q),
           Len(V) = Len(W), NEW pieces \in Seq(S), NEW a \in Nat, a # 0,
           NEW k \in Nat, k = Len(pieces), k # 0,
           a + k - 1 <= Len(W), q[a - 1] = r[a - 1],
           Longer(W, V, a, pieces), NothingBehind(W, a)
    PROVE  q[a + k - 1] = Cat(r[a], pieces)
<1>11. /\ \A i \in 1..Len(V) : q[i] = Cat(q[i - 1], V[i])
       /\ \A i \in 1..Len(W) : /\ r[i] = Cat(r[i - 1], W[i]) /\ r[i] \in Seq(S)
                                /\ r[i - 1] \in Seq(S) /\ W[i] \in Seq(S)
  BY ReadStep
<1> DEFINE T == {j \in Nat : j + 1 <= k => q[a + j] = Cat(r[a], Begin(pieces, j + 1))}
<1>1. Len(W) \in Nat
  BY ReadType
<1>2. a \in 1..Len(W) /\ a \in 1..Len(V) /\ 1 \in 1..k
  BY <1>1
<1>3. /\ \A j \in 1..k : pieces[j] \in S
      /\ \A j \in 0..k : Begin(pieces, j) \in Seq(S)
      /\ \A j \in 1..k : Begin(pieces, j) = Cat(Begin(pieces, j - 1), One(pieces[j]))
      /\ Begin(pieces, 0) = <<>> /\ Begin(pieces, k) = pieces
  BY Begins
<1>4. q[a] = Cat(r[a], Begin(pieces, 1)) /\ r[a] \in Seq(S)
  <2>1. q[a] = Cat(q[a - 1], V[a])
    BY <1>2, <1>11
  <2>2. r[a] = Cat(r[a - 1], W[a]) /\ r[a] \in Seq(S) /\ r[a - 1] \in Seq(S) /\ W[a] \in Seq(S)
    BY <1>2, <1>11
  <2>3. V[a] = Append(W[a], pieces[1])
    <3>1. a + 1 - 1 = a
      OBVIOUS
    <3>2. V[a + 1 - 1] = Append(W[a + 1 - 1], pieces[1])
      BY <1>2 DEF Longer
    <3> QED BY <3>1, <3>2
  <2>4. pieces[1] \in S
    BY <1>2, <1>3
  <2>5. /\ Cat(r[a - 1], Append(W[a], pieces[1])) = Cat(Cat(r[a - 1], W[a]), One(pieces[1]))
        /\ One(pieces[1]) \in Seq(S)
    BY <2>2, <2>4, OneMore
  <2>6. Begin(pieces, 1) = One(pieces[1])
    <3>1. Begin(pieces, 1) = Cat(Begin(pieces, 1 - 1), One(pieces[1]))
      BY <1>2, <1>3
    <3>2. Begin(pieces, 1 - 1) = <<>>
      BY <1>3
    <3>3. Cat(<<>>, One(pieces[1])) = One(pieces[1])
      BY <2>5, CatEmpty
    <3> QED BY <3>1, <3>2, <3>3
  <2> QED BY <2>1, <2>2, <2>3, <2>5, <2>6
<1>5. 0 \in T
  <2>1. a + 0 = a /\ 0 + 1 = 1
    OBVIOUS
  <2> QED BY <1>4, <2>1
<1>6. ASSUME NEW j \in Nat, j \in T PROVE j + 1 \in T
  <2>0. j + 1 \in Nat
    OBVIOUS
  <2> SUFFICES ASSUME (j + 1) + 1 <= k PROVE q[a + (j + 1)] = Cat(r[a], Begin(pieces, (j + 1) + 1))
    BY <2>0
  <2> PICK n \in Nat : n = j + 1
    OBVIOUS
  <2> PICK i \in Nat : i = a + n
    OBVIOUS
  <2>1. /\ i \in 1..Len(W) /\ i \in 1..Len(V) /\ i \in a + 1..Len(W)
        /\ i - 1 = a + j /\ a + (n + 1) - 1 = i
        /\ n + 1 \in 1..k /\ n \in 0..k /\ (n + 1) - 1 = n /\ n <= k
    BY <1>1
  <2>2. q[i - 1] = Cat(r[a], Begin(pieces, n))
    <3>1. q[a + j] = Cat(r[a], Begin(pieces, j + 1))
      BY <1>6, <2>1
    <3> QED BY <2>1, <3>1
  <2>3. V[i] = Append(W[i], pieces[n + 1]) /\ W[i] = <<>>
    <3>1. V[a + (n + 1) - 1] = Append(W[a + (n + 1) - 1], pieces[n + 1])
      BY <2>1 DEF Longer
    <3>2. W[i] = <<>>
      BY <2>1 DEF NothingBehind
    <3> QED BY <2>1, <3>1, <3>2
  <2>4. Begin(pieces, n) \in Seq(S) /\ pieces[n + 1] \in S
    BY <1>3, <2>1
  <2>5. q[i] = Cat(q[i - 1], V[i])
    BY <1>11, <2>1
  <2>6. V[i] = One(pieces[n + 1])
    BY <2>3 DEF One
  <2>7. Cat(Cat(r[a], Begin(pieces, n)), One(pieces[n + 1])) = Cat(r[a], Cat(Begin(pieces, n), One(pieces[n + 1])))
    BY <1>4, <2>4, OneMore
  <2>8. Begin(pieces, n + 1) = Cat(Begin(pieces, n), One(pieces[n + 1]))
    <3>1. Begin(pieces, n + 1) = Cat(Begin(pieces, (n + 1) - 1), One(pieces[n + 1]))
      BY <1>3, <2>1
    <3> QED BY <2>1, <3>1
  <2>9. q[i] = Cat(r[a], Begin(pieces, n + 1))
    BY <2>2, <2>5, <2>6, <2>7, <2>8
  <2> QED BY <2>9
<1>7. Nat \subseteq T
  <2> HIDE DEF T
  <2> QED BY <1>5, <1>6, CountUp
<1> PICK l \in Nat : l = k - 1
  OBVIOUS
<1>8. l + 1 = k /\ l + 1 <= k /\ a + l = a + k - 1
  OBVIOUS
<1>9. l \in T
  <2> HIDE DEF T
  <2> QED BY <1>7
<1>10. q[a + l] = Cat(r[a], Begin(pieces, l + 1))
  BY <1>8, <1>9
<1> QED BY <1>3, <1>8, <1>10

Enlarged(S, W, V, a, pieces) ==
    /\ W \in Seq(Seq(S)) /\ V \in Seq(Seq(S)) /\ Len(V) = Len(W)
    /\ pieces \in Seq(S) /\ Len(pieces) # 0
    /\ a \in Nat \ {0} /\ a + Len(pieces) - 1 <= Len(W)
    /\ SameUpTo(W, V, a - 1) /\ Longer(W, V, a, pieces)
    /\ NothingBehind(W, a) /\ NothingBehind(V, a + Len(pieces) - 1)

LEMMA FlattenAdded ==
    ASSUME NEW S, NEW W, NEW V, NEW a, NEW pieces, Enlarged(S, W, V, a, pieces)
    PROVE  FlattenSeq(V) = Cat(FlattenSeq(W), pieces)
<1>1. W \in Seq(Seq(S)) /\ V \in Seq(Seq(S)) /\ pieces \in Seq(S) /\ Len(V) = Len(W)
  BY DEF Enlarged
<1>2. PICK r : Reading(S, W, r) /\ FlattenSeq(W) = r[Len(W)]
  BY <1>1, FlattenReads
<1>3. PICK q : Reading(S, V, q) /\ FlattenSeq(V) = q[Len(V)]
  BY <1>1, FlattenReads
<1>4. /\ a \in Nat /\ a # 0 /\ a - 1 \in Nat /\ Len(pieces) \in Nat /\ Len(pieces) # 0
      /\ a - 1 <= Len(W) /\ a - 1 <= Len(V) /\ a \in 0..Len(W)
      /\ a + Len(pieces) - 1 \in 0..Len(V) /\ a + Len(pieces) - 1 <= Len(W)
  <2>1. Len(W) \in Nat /\ Len(pieces) \in Nat
    BY <1>1, LenProperties
  <2> QED BY <2>1 DEF Enlarged
<1>5. r[Len(W)] = r[a]
  <2>1. NothingBehind(W, a)
    BY DEF Enlarged
  <2> QED BY <1>2, <1>4, <2>1, ReadsNothing
<1>6. q[a - 1] = r[a - 1]
  <2>1. SameUpTo(W, V, a - 1)
    BY DEF Enlarged
  <2> PICK b \in Nat : b = a - 1
    BY <1>4
  <2>2. b <= Len(W) /\ b <= Len(V) /\ SameUpTo(W, V, b)
    BY <1>4, <2>1
  <2>3. r[b] = q[b]
    BY <1>2, <1>3, <2>2, ReadsAgree
  <2> QED BY <2>3
<1>7. q[a + Len(pieces) - 1] = Cat(r[a], pieces)
  <2>1. Longer(W, V, a, pieces) /\ NothingBehind(W, a)
    BY DEF Enlarged
  <2> QED BY <1>1, <1>2, <1>3, <1>4, <1>6, <2>1, ReadsAdded
<1>8. q[Len(V)] = q[a + Len(pieces) - 1]
  <2>1. NothingBehind(V, a + Len(pieces) - 1)
    BY DEF Enlarged
  <2> PICK c \in 0..Len(V) : c = a + Len(pieces) - 1
    BY <1>4
  <2>2. NothingBehind(V, c)
    BY <2>1
  <2> QED BY <1>3, <2>2, ReadsNothing
<1> QED BY <1>2, <1>3, <1>5, <1>7, <1>8

LEMMA FlattenNothing == FlattenSeq(<<>>) = <<>>
<1>1. <<>> \in Seq(Seq(Chunks)) /\ Len(<<>>) = 0
  BY EmptySeq
<1>2. PICK r : Reading(Chunks, <<>>, r) /\ FlattenSeq(<<>>) = r[Len(<<>>)]
  BY <1>1, FlattenReads
<1>3. r[0] = <<>>
  BY <1>2, ReadType
<1> QED BY <1>1, <1>2, <1>3

(* A delivery of x leaves y.                                                 *)
Leaves(all, x, y) ==
    /\ Len(x) \in 1..Len(all)
    /\ SubSeq(all, 1, Len(x)) = x
    /\ SubSeq(all, Len(x) + 1, Len(all)) = y

LEMMA TakeFirst ==
    ASSUME NEW S, NEW x \in Seq(S), NEW y \in Seq(S), x # <<>>
    PROVE  Leaves(Cat(x, y), x, y)
<1>1. Len(x) \in Nat /\ Len(x) # 0 /\ Len(y) \in Nat
  BY EmptySeq, LenProperties
<1>2. Cat(x, y) \in Seq(S) /\ Len(Cat(x, y)) = Len(x) + Len(y)
  BY ConcatProperties DEF Cat
<1>3. SubSeq(Cat(x, y), 1, Len(x)) = x
  <2>1. 1 \in 1..Len(x) /\ Len(x) \in 1..Len(x)
    BY <1>1
  <2>2. SubSeq(x \o y, 1, Len(x)) = SubSeq(x, 1, Len(x))
    BY <2>1, SubSeqOfConcat1
  <2>3. SubSeq(x, 1, Len(x)) = x
    BY SubSeqFull
  <2> QED BY <2>2, <2>3 DEF Cat
<1>4. SubSeq(Cat(x, y), Len(x) + 1, Len(x) + Len(y)) = y
  <2>1. CASE Len(y) = 0
    <3>1. y = <<>>
      BY <2>1, EmptySeq
    <3>2. Len(x) + 1 \in Int /\ Len(x) + Len(y) \in Int /\ Len(x) + Len(y) < Len(x) + 1
      BY <1>1, <2>1
    <3>3. SubSeq(Cat(x, y), Len(x) + 1, Len(x) + Len(y)) = <<>>
      BY <3>2, SubSeqEmpty
    <3> QED BY <3>1, <3>3
  <2>2. CASE Len(y) # 0
    <3>1. /\ Len(x) + 1 \in Len(x) + 1..Len(x) + Len(y)
          /\ Len(x) + Len(y) \in Len(x) + 1..Len(x) + Len(y)
          /\ Len(x) + 1 - Len(x) = 1 /\ Len(x) + Len(y) - Len(x) = Len(y)
      BY <1>1, <2>2
    <3>2. SubSeq(x \o y, Len(x) + 1, Len(x) + Len(y)) = SubSeq(y, 1, Len(y))
      BY <3>1, SubSeqOfConcat2
    <3>3. SubSeq(y, 1, Len(y)) = y
      BY SubSeqFull
    <3> QED BY <3>2, <3>3 DEF Cat
  <2> QED BY <2>1, <2>2
<1> QED BY <1>1, <1>2, <1>3, <1>4 DEF Leaves

(***************************************************************************)
(* What the ring holds behind the number taken, buffer by buffer.          *)
(***************************************************************************)
Buffers(taken, distance, held) ==
    [n \in 1..History - distance |-> held[Slot(SeqNumAdd(taken, n))]]

LEMMA BuffersInOrder ==
    ASSUME NEW acked \in SeqNums, NEW t \in 0..History, NEW held \in [Slots -> Seq(Chunks)],
           NEW taken, taken = SeqNumAdd(acked, t)
    PROVE  /\ Buffers(taken, t, held) \in Seq(Seq(Chunks))
           /\ Len(Buffers(taken, t, held)) = History - t /\ History - t \in Nat
           /\ \A n \in 1..History - t :
                 /\ t + n \in 1..History /\ SeqNumAdd(taken, n) = SeqNumAdd(acked, t + n)
                 /\ Buffers(taken, t, held)[n] = held[Slot(SeqNumAdd(acked, t + n))]
<1>1. t \in Int /\ History - t \in Nat
  BY Sizes
<1>2. ASSUME NEW n \in 1..History - t
      PROVE  /\ t + n \in 1..History /\ SeqNumAdd(taken, n) = SeqNumAdd(acked, t + n)
             /\ held[Slot(SeqNumAdd(taken, n))] \in Seq(Chunks)
  <2>1. t + n \in 1..History /\ n \in Int
    BY <1>1, Sizes
  <2>2. SeqNumAdd(taken, n) = SeqNumAdd(acked, t + n)
    BY <1>1, <2>1, AddTwice
  <2>3. SeqNumAdd(taken, n) \in SeqNums
    BY <1>1, <2>1, AddType
  <2> QED BY <2>1, <2>2, <2>3, SlotType
<1> DEFINE b == Buffers(taken, t, held)
<1>3. b = [n \in 1..History - t |-> held[Slot(SeqNumAdd(taken, n))]]
  BY DEF Buffers
<1> HIDE DEF b
<1>4. b \in Seq(Seq(Chunks)) /\ Len(b) = History - t
  <2> PICK N \in Nat : N = History - t
    BY <1>1
  <2>1. b \in [1..N -> Seq(Seq(Chunks))] \/ b \in [1..N -> Seq(Chunks)]
    BY <1>2, <1>3
  <2>2. b = [n \in 1..N |-> b[n]] /\ \A n \in 1..N : b[n] \in Seq(Chunks)
    BY <1>2, <1>3
  <2> QED BY <2>1, <2>2
<1>5. \A n \in 1..History - t : b[n] = held[Slot(SeqNumAdd(acked, t + n))]
  BY <1>2, <1>3
<1> QED BY <1>1, <1>2, <1>4, <1>5 DEF b

(* What a submessage written whole or in fragments is accepted as.           *)
WrittenPieces(m) ==
    {<<[msg |-> m, part |-> 0, last |-> TRUE]>>}
      \cup {[n \in 1..k |-> [msg |-> m, part |-> n, last |-> n = k]] : k \in 2..History}

(* Behind the last buffer written nothing is held, before it something is.   *)
LEMMA HeldBefore ==
    ASSUME Window, SizesTell
    PROVE  \A n \in 1..History : /\ n < Ahead => data[At(n)] # <<>>
                                 /\ n > Ahead => data[At(n)] = <<>>
<1> TAKE n \in 1..History
<1>1. At(n) \in Slots
  <2>1. n \in 0..SeqNumSize
    BY Sizes
  <2> QED BY <2>1, AtType DEF Window
<1> QED BY <1>1, Filled DEF SizesTell

LEMMA HeldFrom ==
    ASSUME Window, NEW t \in 0..History, NEW taken, taken = SeqNumAdd(last_acknown, t)
    PROVE  /\ Buffers(taken, t, data) \in Seq(Seq(Chunks))
           /\ Len(Buffers(taken, t, data)) = History - t /\ History - t \in Nat
           /\ \A n \in 1..History - t :
                 t + n \in 1..History /\ Buffers(taken, t, data)[n] = data[At(t + n)]
<1>1. last_acknown \in SeqNums /\ data \in [Slots -> Seq(Chunks)]
  BY DEF Window, TypeOK
<1> QED BY <1>1, BuffersInOrder DEF At

LEMMA HeldAfter ==
    ASSUME last_acknown' \in SeqNums, data' \in [Slots -> Seq(Chunks)],
           NEW t \in 0..History, NEW taken, taken = SeqNumAdd(last_acknown', t)
    PROVE  /\ Buffers(taken, t, data') \in Seq(Seq(Chunks))
           /\ Len(Buffers(taken, t, data')) = History - t /\ History - t \in Nat
           /\ \A n \in 1..History - t :
                 Buffers(taken, t, data')[n] = data'[Slot(SeqNumAdd(last_acknown', t + n))]
BY BuffersInOrder

(* Pieces put one by one behind what consecutive buffers hold.               *)
LEMMA EnlargesBehind ==
    ASSUME Window, SizesTell, last_acknown' = last_acknown,
           data' \in [Slots -> Seq(Chunks)],
           NEW t \in 0..History, t < Ahead, NEW taken, taken = SeqNumAdd(last_acknown, t),
           NEW lo \in Nat, NEW hi \in Nat, lo \in Ahead..Ahead + 1, hi \in lo..History,
           NEW k \in Int, k = hi - lo + 1, NEW a \in Int, a = lo - t,
           NEW pieces \in Seq(Chunks), Len(pieces) = k,
           \A n \in lo..hi : data'[At(n)] = Append(data[At(n)], pieces[n - lo + 1]),
           \A n \in 1..History : n \notin lo..hi => data'[At(n)] = data[At(n)]
    PROVE  Enlarged(Chunks, Buffers(taken, t, data), Buffers(taken, t, data'), a, pieces)
<1> DEFINE W == Buffers(taken, t, data)
           V == Buffers(taken, t, data')
<1>1. /\ last_acknown \in SeqNums /\ Ahead \in 1..History + 1 /\ History \in Nat /\ t \in Nat
      /\ Ahead \in Nat
  BY Cursors, Sizes DEF Window, TypeOK
<1>2. /\ k \in 1..History /\ a \in Nat \ {0} /\ t + a = lo
      /\ t + (a + k - 1) = hi /\ a + k - 1 <= History - t /\ History - t \in Nat
  BY <1>1
<1>3. /\ W \in Seq(Seq(Chunks)) /\ Len(W) = History - t
      /\ \A n \in 1..History - t : t + n \in 1..History /\ W[n] = data[At(t + n)]
  BY HeldFrom
<1>4. /\ V \in Seq(Seq(Chunks)) /\ Len(V) = History - t
      /\ \A n \in 1..History - t : V[n] = data'[At(t + n)]
  <2>1. last_acknown' \in SeqNums /\ taken = SeqNumAdd(last_acknown', t)
    BY <1>1
  <2> QED BY <1>1, <2>1, HeldAfter DEF At
<1> HIDE DEF W, V
<1>5. SameUpTo(W, V, a - 1)
  <2>1. ASSUME NEW i \in 1..a - 1 PROVE W[i] = V[i]
    <3>1. i \in 1..History - t /\ t + i \notin lo..hi
      BY <1>1, <1>2
    <3> QED BY <3>1, <1>3, <1>4
  <2> QED BY <2>1 DEF SameUpTo
<1>6. Longer(W, V, a, pieces)
  <2>1. ASSUME NEW j \in 1..k PROVE V[a + j - 1] = Append(W[a + j - 1], pieces[j])
    <3> PICK i \in Int : i = a + j - 1
      BY <1>2
    <3> PICK n \in Int : n = t + i
      BY <1>1
    <3>1. i \in 1..History - t /\ n \in lo..hi /\ n - lo + 1 = j
      BY <1>1, <1>2
    <3>2. V[i] = data'[At(n)] /\ W[i] = data[At(n)]
      BY <3>1, <1>3, <1>4
    <3> QED BY <3>1, <3>2
  <2> QED BY <2>1 DEF Longer
<1>7. NothingBehind(W, a)
  <2>1. ASSUME NEW i \in a + 1..Len(W) PROVE W[i] = <<>>
    <3>1. i \in 1..History - t /\ t + i > Ahead
      BY <1>1, <1>2, <1>3
    <3>2. t + i \in 1..History /\ W[i] = data[At(t + i)]
      BY <3>1, <1>3
    <3> QED BY <3>1, <3>2, HeldBefore
  <2> QED BY <2>1 DEF NothingBehind
<1>8. NothingBehind(V, a + k - 1)
  <2>1. ASSUME NEW i \in (a + k - 1) + 1..Len(V) PROVE V[i] = <<>>
    <3>1. i \in 1..History - t /\ t + i > Ahead /\ t + i \notin lo..hi
      <4> PICK c \in Nat : c = a + k - 1
        BY <1>2
      <4>1. i \in c + 1..History - t /\ t + c = hi /\ Ahead <= hi
        BY <1>1, <1>2, <1>4
      <4> QED BY <1>1, <1>2, <4>1
    <3>2. t + i \in 1..History /\ V[i] = data'[At(t + i)]
      BY <3>1, <1>3, <1>4
    <3> QED BY <3>1, <3>2, HeldBefore
  <2> QED BY <2>1 DEF NothingBehind
<1>9. Len(pieces) # 0 /\ a + Len(pieces) - 1 <= Len(W)
  BY <1>2, <1>3
<1> QED BY <1>2, <1>3, <1>4, <1>5, <1>6, <1>7, <1>8, <1>9 DEF Enlarged, W, V

(* What an acknack frees comes round behind the others, empty.               *)
LEMMA FreedBehind ==
    ASSUME Window, NEW t \in 0..History, NEW taken, taken = SeqNumAdd(last_acknown, t),
           NEW c \in 0..t, Acked(c), NEW d \in Int, d = t - c
    PROVE  FlattenSeq(Buffers(taken, d, data')) = FlattenSeq(Buffers(taken, t, data))
<1> DEFINE W == Buffers(taken, t, data)
           V == Buffers(taken, d, data')
<1>1. /\ last_acknown \in SeqNums /\ t \in Nat /\ History \in Nat
      /\ c \in Nat /\ c <= t /\ t <= History /\ d \in 0..History /\ c + d = t /\ d <= t
  BY Sizes DEF Window, TypeOK
<1>2. /\ last_acknown' = SeqNumAdd(last_acknown, c)
      /\ data' \in [Slots -> Seq(Chunks)]
      /\ \A n \in 1..c : data'[At(n)] = <<>>
      /\ \A n \in c + 1..History : data'[At(n)] = data[At(n)]
  BY DEF Acked
<1>5. last_acknown' \in SeqNums
  BY <1>1, <1>2, AddType
<1>6. \A n \in Int : SeqNumAdd(last_acknown', d + n) = SeqNumAdd(last_acknown, t + n)
  <2> TAKE n \in Int
  <2>1. d + n \in Int /\ c + (d + n) = t + n /\ c \in Int
    BY <1>1
  <2>2. SeqNumAdd(SeqNumAdd(last_acknown, c), d + n) = SeqNumAdd(last_acknown, c + (d + n))
    BY <1>1, <2>1, AddTwice
  <2> QED BY <1>2, <2>1, <2>2
<1>7. taken = SeqNumAdd(last_acknown', d)
  <2>1. c \in Int /\ SeqNumAdd(SeqNumAdd(last_acknown, c), d) = SeqNumAdd(last_acknown, c + d)
    BY <1>1, AddTwice
  <2> QED BY <1>1, <1>2, <2>1
<1>8. /\ W \in Seq(Seq(Chunks)) /\ Len(W) = History - t
      /\ \A n \in 1..History - t : t + n \in 1..History /\ W[n] = data[At(t + n)]
  BY HeldFrom
<1>9. /\ V \in Seq(Seq(Chunks)) /\ Len(V) = History - d
      /\ \A n \in 1..History - d : V[n] = data'[Slot(SeqNumAdd(last_acknown', d + n))]
  BY <1>1, <1>2, <1>5, <1>7, HeldAfter
<1> HIDE DEF V, W
<1>10. \A n \in 1..History - d : V[n] = data'[At(t + n)]
  <2> TAKE n \in 1..History - d
  <2>1. n \in Int
    OBVIOUS
  <2> QED BY <2>1, <1>6, <1>9 DEF At
<1>11. Len(W) <= Len(V)
  BY <1>1, <1>8, <1>9
<1>12. SameUpTo(W, V, Len(W))
  <2>1. ASSUME NEW n \in 1..Len(W) PROVE W[n] = V[n]
    <3>1. n \in 1..History - t /\ n \in 1..History - d /\ t + n \in c + 1..History
      BY <1>1, <1>8
    <3> QED BY <3>1, <1>2, <1>8, <1>10
  <2> QED BY <2>1 DEF SameUpTo
<1>13. NothingBehind(V, Len(W))
  <2>1. ASSUME NEW n \in Len(W) + 1..Len(V) PROVE V[n] = <<>>
    <3>1. n \in 1..History - d
      BY <1>1, <1>8, <1>9, SMTT(40)
    <3> PICK e \in Int : e = t + n - History
      BY <1>1
    <3>2. e \in 1..c /\ t + n = e + History /\ e \in 0..SeqNumSize /\ e + History <= SeqNumSize
      <4>1. n \in History - t + 1..History - d
        BY <1>1, <1>8, <1>9
      <4>2. e \in 1..c /\ t + n = e + History
        BY <1>1, <4>1
      <4>3. c <= History
        BY <1>1
      <4>4. e \in 0..SeqNumSize /\ e + History <= SeqNumSize
        BY <1>1, <4>2, <4>3, Sizes
      <4> QED BY <4>2, <4>4
    <3>3. At(t + n) = At(e)
      BY <1>1, <3>2, SlotComesRound DEF At
    <3> QED BY <3>1, <3>2, <3>3, <1>2, <1>10
  <2> QED BY <2>1 DEF NothingBehind
<1>14. FlattenSeq(V) = FlattenSeq(W)
  BY <1>8, <1>9, <1>11, <1>12, <1>13, FlattenPadded
<1> QED BY <1>14 DEF V, W

(* One more is taken.                                                        *)
LEMMA TakenFirst ==
    ASSUME Window, NEW t \in 1..History, NEW s \in Int, t = s + 1, NEW taken, NEW next,
           taken = SeqNumAdd(last_acknown, s), next = SeqNumAdd(last_acknown, t),
           data[At(t)] # <<>>
    PROVE  Leaves(FlattenSeq(Buffers(taken, s, data)), data[At(t)],
                  FlattenSeq(Buffers(next, t, data)))
<1> DEFINE V == Buffers(taken, s, data)
           W == Buffers(next, t, data)
<1>1. /\ s \in 0..History /\ t \in 0..History /\ History \in Nat /\ s \in Nat /\ t \in Nat
  BY Sizes
<1>2. /\ V \in Seq(Seq(Chunks)) /\ Len(V) = History - s
      /\ \A n \in 1..History - s : V[n] = data[At(s + n)]
  BY <1>1, HeldFrom
<1>3. /\ W \in Seq(Seq(Chunks)) /\ Len(W) = History - t
      /\ \A n \in 1..History - t : W[n] = data[At(t + n)]
  BY <1>1, HeldFrom
<1> HIDE DEF V, W
<1>4. Len(V) = Len(W) + 1 /\ V[1] = data[At(t)]
  BY <1>1, <1>2, <1>3
<1>5. \A i \in 1..Len(W) : V[i + 1] = W[i]
  <2> TAKE i \in 1..Len(W)
  <2>1. i + 1 \in 1..History - s /\ s + (i + 1) = t + i /\ i \in 1..History - t
    BY <1>1, <1>3
  <2> QED BY <2>1, <1>2, <1>3
<1>6. V[1] \in Seq(Chunks) /\ FlattenSeq(V) = Cat(V[1], FlattenSeq(W))
  BY <1>2, <1>3, <1>4, <1>5, FlattenFirst
<1>7. FlattenSeq(W) \in Seq(Chunks)
  BY <1>3, FlattenType
<1> QED BY <1>4, <1>6, <1>7, TakeFirst DEF V, W

(* At the beginning all are empty.                                           *)
LEMMA NothingHeld ==
    ASSUME NEW acked \in SeqNums, NEW t \in 0..History, NEW taken, taken = SeqNumAdd(acked, t),
           NEW held \in [Slots -> Seq(Chunks)], \A i \in Slots : held[i] = <<>>
    PROVE  FlattenSeq(Buffers(taken, t, held)) = <<>>
<1> DEFINE V == Buffers(taken, t, held)
<1>1. /\ V \in Seq(Seq(Chunks)) /\ Len(V) \in Nat
      /\ \A n \in 1..Len(V) : t + n \in 1..History /\ V[n] = held[Slot(SeqNumAdd(acked, t + n))]
  BY BuffersInOrder
<1> HIDE DEF V
<1>2. \A n \in 1..Len(V) : V[n] = <<>>
  <2> TAKE n \in 1..Len(V)
  <2>1. t + n \in 1..History /\ V[n] = held[Slot(SeqNumAdd(acked, t + n))]
    BY <1>1
  <2>2. SeqNumAdd(acked, t + n) \in SeqNums
    BY <2>1, AddType
  <2> QED BY <2>1, <2>2, SlotType
<1>3. <<>> \in Seq(Seq(Chunks)) /\ Len(<<>>) = 0
  BY EmptySeq
<1>4. Len(<<>>) <= Len(V) /\ SameUpTo(<<>>, V, Len(<<>>)) /\ NothingBehind(V, Len(<<>>))
  BY <1>1, <1>2, <1>3 DEF SameUpTo, NothingBehind
<1>5. FlattenSeq(V) = FlattenSeq(<<>>)
  BY <1>1, <1>3, <1>4, FlattenPadded
<1> QED BY <1>5, FlattenNothing DEF V

LEMMA OneLong ==
    ASSUME NEW S, NEW pieces \in Seq(S), Len(pieces) = 1
    PROVE  pieces = <<pieces[1]>>
<1>1. <<pieces[1]>> \in Seq(S)
  <2>1. 1 \in 1..Len(pieces)
    OBVIOUS
  <2>2. pieces[1] \in S
    BY <2>1, ElementOfSeq
  <2> QED BY <2>1
<1>2. Len(<<pieces[1]>>) = 1 /\ <<pieces[1]>>[1] = pieces[1]
  OBVIOUS
<1>3. \A i \in 1..1 : i = 1
  OBVIOUS
<1> QED BY <1>1, <1>2, <1>3, SeqEqual

LEMMA PiecesWritten ==
    ASSUME NEW m \in Messages, NEW k \in 1..History, NEW pieces,
           pieces = [j \in 1..k |-> Piece(m, j, k)]
    PROVE  /\ pieces \in WrittenPieces(m) /\ pieces \in Seq(Chunks)
           /\ Len(pieces) = k /\ k # 0
           /\ \A j \in 1..k : pieces[j] = Piece(m, j, k)
<1>1. k \in Nat \ {0} /\ \A j \in 1..k : Piece(m, j, k) \in Chunks
  BY ChunkTypes, Sizes DEF Piece
<1>2. pieces \in Seq(Chunks) /\ Len(pieces) = k
  BY <1>1
<1>3. CASE k = 1
  <2>1. pieces[1] = Whole(m) /\ Whole(m) \in Chunks
    BY <1>3, ChunkTypes DEF Piece
  <2>2. pieces = <<Whole(m)>>
    <3>1. Len(pieces) = 1
      BY <1>2, <1>3
    <3> QED BY <1>2, <2>1, <3>1, OneLong
  <2> QED BY <1>1, <1>2, <2>2 DEF WrittenPieces, Whole
<1>4. CASE k # 1
  <2>1. k \in 2..History
    BY <1>4, Sizes
  <2>2. pieces = [j \in 1..k |-> Fragment(m, j, k)]
    BY <1>4 DEF Piece
  <2>3. pieces = [j \in 1..k |-> [msg |-> m, part |-> j, last |-> j = k]]
    BY <2>2 DEF Fragment
  <2>4. pieces \in WrittenPieces(m)
    BY <2>1, <2>3 DEF WrittenPieces
  <2> QED BY <1>1, <1>2, <2>4
<1> QED BY <1>3, <1>4

(***************************************************************************)
(* The theorems.                                                           *)
(***************************************************************************)
(* The inductive invariant holds.                                            *)
THEOREM WindowInvariant == Spec => []Window
<1>1. Init => Window
  BY InitWindow
<1>2. Window /\ [Next]_vars => Window'
  BY NextKeepsWindow
<1> QED BY <1>1, <1>2, PTL DEF Spec

(* Every cursor stays a sequence number and no buffer overflows, whatever    *)
(* the sizes of the submessages written.                                     *)
THEOREM TypeCorrect == Spec => []TypeOK
<1>1. Window => TypeOK
  BY DEF Window
<1> QED BY <1>1, WindowInvariant, PTL

(* The cursors keep their order around the circle and the window its bound.  *)
THEOREM CursorsInOrder == Spec => []WindowBounded
<1>1. Window => WindowBounded
  BY DEF Window
<1> QED BY <1>1, WindowInvariant, PTL

(* No empty buffer stops the sender and no free one is lost.                 *)
THEOREM NoHoles == Spec => []WindowFilled
<1>1. Window => WindowFilled
  BY DEF Window
<1> QED BY <1>1, WindowInvariant, PTL

(* What was sent is kept as it was sent until it is acknowledged.            *)
THEOREM RetransmissionsRepeat == Spec => UnackedUnchanged
<1>1. Window /\ [Next]_vars => [UnackedKept]_vars
  BY NextKeepsUnacked
<1> QED BY <1>1, WindowInvariant, PTL DEF Spec, UnackedUnchanged, UnackedKept
=============================================================================

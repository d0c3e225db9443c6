--------------------- MODULE ContinuousFragments_proofs ---------------------
(* A stream with writes in the continuous fragment mode: the window, and     *)
(* what it promises, for every number of buffers, every size of them and     *)
(* every set of submessages.                                                 *)
EXTENDS ContinuousFragments, OutputReliableStream_proofs

(***************************************************************************)
(* The inductive invariant.                                                *)
(***************************************************************************)
Writings ==
    {NotWriting} \cup [by : {"prepare"}, msg : Continued]
        \cup [by : {"fill", "flush"}, msg : Continued, part : Nat \ {0}, data_size : Nat \ {0}]

(* While a buffer is filled nobody flashes, so that the next one is empty    *)
(* unless it is in use; who waits for it has more to write.                  *)
Filling ==
    /\ writing \in Writings
    /\ writing.by = "fill" => ~flashing
    /\ writing.by = "fill" /\ Ahead <= History => IsEmpty(last_written)
    /\ writing.by = "flush" => writing.data_size > Block

ContinuousKept == Window /\ SizesTell /\ Filling

LEMMA ContinuousSizes ==
    /\ Offset = 4
    /\ \A m \in Continued : m \in Messages /\ Length[m] \in Nat \ {0}
    /\ \A m \in Continued : Length[m] <= Block \/ Length[m] >= Capacity
<1>1. /\ Offset = 4 /\ Continued \subseteq Messages
      /\ \A m \in Continued : Length[m] <= Block \/ Length[m] >= Capacity
  BY ContinuedAssumption DEF WRITE_DATA_PAYLOAD_SIZE
<1> QED BY <1>1, BufferSizes

(***************************************************************************)
(* A fragment takes the n-th buffer of the window, which was empty, and    *)
(* the one behind it becomes the current one.                              *)
(***************************************************************************)
Puts(n, chunk) ==
    /\ n \in Ahead..Ahead + 1 /\ n <= History
    /\ n > Ahead => ~IsEmpty(last_written)
    /\ last_written' = SeqNumAdd(last_acknown, n + 1)
    /\ UNCHANGED <<last_sent, last_acknown, flashing, heartbeat>>
    /\ size' \in [Slots -> Offset..Capacity]
    /\ data' \in [Slots -> Seq(Chunks)]
    /\ chunk \in Chunks
    /\ size'[At(n)] # Offset
    /\ data'[At(n)] = Append(data[At(n)], chunk)
    /\ \A k \in 1..History : k # n => size'[At(k)] = size[At(k)] /\ data'[At(k)] = data[At(k)]

(* A buffer is free, if one is, behind the last one that holds anything.     *)
LEMMA FreeIsBehind ==
    ASSUME Window, get_available_free_slots > 0
    PROVE  /\ Ahead <= History
           /\ ~IsEmpty(last_written) => Ahead < History
<1>1. /\ Ahead \in 1..History + 1 /\ last_written = SeqNumAdd(last_acknown, Ahead)
      /\ last_acknown \in SeqNums /\ History \in Nat
  BY Cursors, Sizes DEF Window, TypeOK
<1>2. \A n \in 1..History : n < Ahead => ~IsEmpty(SeqNumAdd(last_acknown, n))
  BY DEF Window, WindowFilled
<1>3. ASSUME \A n \in 1..History : ~IsEmpty(SeqNumAdd(last_acknown, n)) PROVE FALSE
  <2>1. get_available_free_slots \in 0..History - History
    BY <1>1, <1>3, FreeSlots
  <2> QED BY <1>1, <2>1
<1>4. Ahead <= History
  BY <1>1, <1>2, <1>3
<1>5. ASSUME ~IsEmpty(last_written), Ahead = History PROVE FALSE
  <2>1. \A n \in 1..History : n < Ahead \/ n = Ahead
    BY <1>1, <1>5
  <2> QED BY <1>1, <1>2, <1>3, <1>5, <2>1
<1> QED BY <1>1, <1>4, <1>5

LEMMA FragmentPuts ==
    ASSUME Window, NEW n \in 1..History, n \in Ahead..Ahead + 1,
           n > Ahead => ~IsEmpty(last_written),
           NEW seq_num, seq_num = SeqNumAdd(last_acknown, n),
           NEW m \in Messages, NEW part \in Nat, NEW isLast \in BOOLEAN,
           NEW bytes \in Offset..Capacity, bytes # Offset,
           PutFragment(seq_num, m, part, isLast, bytes)
    PROVE  Puts(n, [msg |-> m, part |-> part, last |-> isLast])
<1> DEFINE chunk == [msg |-> m, part |-> part, last |-> isLast]
<1>1. chunk \in Chunks
  BY DEF Chunks
<1>2. last_acknown \in SeqNums /\ Slot(seq_num) = At(n) /\ n + 1 < SeqNumSize /\ n \in Nat
  BY Sizes DEF Window, TypeOK, At
<1>3. At(n) \in Slots
  <2>1. n \in 0..SeqNumSize
    BY Sizes
  <2> QED BY <2>1, AtType DEF Window
<1>4. size \in [Slots -> Offset..Capacity] /\ data \in [Slots -> Seq(Chunks)]
  BY DEF Window, TypeOK
<1>5. /\ size' = [size EXCEPT ![At(n)] = bytes]
      /\ data' = [data EXCEPT ![At(n)] = Append(@, chunk)]
      /\ last_written' = SeqNumAdd(seq_num, 1)
      /\ UNCHANGED <<last_sent, last_acknown, flashing, heartbeat>>
  BY <1>2 DEF PutFragment
<1>6. last_written' = SeqNumAdd(last_acknown, n + 1)
  BY <1>2, <1>5, AddOfAdd
<1> HIDE DEF chunk
<1>7. Append(data[At(n)], chunk) \in Seq(Chunks)
  BY <1>1, <1>3, <1>4
<1>8. /\ size' \in [Slots -> Offset..Capacity] /\ data' \in [Slots -> Seq(Chunks)]
      /\ size'[At(n)] # Offset /\ data'[At(n)] = Append(data[At(n)], chunk)
  BY <1>3, <1>4, <1>5, <1>7
<1>9. \A k \in 1..History : k # n => size'[At(k)] = size[At(k)] /\ data'[At(k)] = data[At(k)]
  <2> TAKE k \in 1..History
  <2> HAVE k # n
  <2>1. k \in 0..SeqNumSize
    BY Sizes
  <2>2. At(k) \in Slots /\ At(k) # At(n)
    BY <2>1, AtsDiffer, AtType DEF Window
  <2> QED BY <1>3, <1>4, <1>5, <2>2
<1>10. Puts(n, chunk)
  BY <1>1, <1>5, <1>6, <1>8, <1>9 DEF Puts
<1> QED BY <1>10 DEF chunk

(* The first fragment takes a fresh buffer.                                  *)
LEMMA BeginPuts ==
    ASSUME Window, NEW m \in Continued, BeginContinuous(m)
    PROVE  \E n \in 1..History :
              Puts(n, [msg |-> m, part |-> 1, last |-> Length[m] < Capacity])
<1>1. /\ Ahead \in 1..History + 1 /\ last_written = SeqNumAdd(last_acknown, Ahead)
      /\ SeqNumAdd(last_written, 1) = SeqNumAdd(last_acknown, Ahead + 1)
      /\ last_written \in SeqNums /\ History \in Nat
  BY Cursors, Sizes DEF Window, TypeOK
<1>2. Ahead <= History /\ (~IsEmpty(last_written) => Ahead < History)
  BY FreeIsBehind DEF BeginContinuous
<1>3. size[Slot(last_written)] > Offset <=> ~IsEmpty(last_written)
  <2>1. size[Slot(last_written)] \in Offset..Capacity
    BY <1>1, BufferType DEF Window
  <2> QED BY <2>1, BufferSizes DEF IsEmpty
<1> DEFINE n == IF IsEmpty(last_written) THEN Ahead ELSE Ahead + 1
<1>4. /\ n \in 1..History /\ n \in Ahead..Ahead + 1 /\ (n > Ahead => ~IsEmpty(last_written))
      /\ FreshSeqNum = SeqNumAdd(last_acknown, n)
  BY <1>1, <1>2, <1>3 DEF FreshSeqNum
<1>5. Capacity \in Offset..Capacity /\ Capacity # Offset
  BY BufferSizes
<1>6. m \in Messages /\ (Length[m] < Capacity) \in BOOLEAN /\ 1 \in Nat
  BY ContinuousSizes
<1>7. PutFragment(FreshSeqNum, m, 1, Length[m] < Capacity, Capacity)
  BY DEF BeginContinuous
<1> HIDE DEF n
<1>8. Puts(n, [msg |-> m, part |-> 1, last |-> Length[m] < Capacity])
  BY <1>4, <1>5, <1>6, <1>7, FragmentPuts
<1> QED BY <1>4, <1>8

(* What is left of a submessage that does not fit in a buffer.               *)
LEMMA Left ==
    ASSUME Filling, writing.by \in {"fill", "flush"}, writing.data_size > Block,
           NEW rest, rest = writing.data_size - Block
    PROVE  /\ writing.msg \in Continued /\ writing.msg \in Messages
           /\ writing.part \in Nat \ {0} /\ writing.part + 1 \in Nat \ {0}
           /\ rest \in Nat \ {0}
           /\ Ends(rest) <=> rest <= Block
           /\ Ends(rest) \in BOOLEAN
           /\ Ends(rest) => rest + SubheaderSize + WRITE_DATA_PAYLOAD_SIZE \in Offset..Capacity
           /\ rest + SubheaderSize + WRITE_DATA_PAYLOAD_SIZE # Offset
<1>1. /\ writing.msg \in Continued /\ writing.part \in Nat \ {0}
      /\ writing.data_size \in Nat \ {0}
  BY DEF Filling, Writings, NotWriting
<1>2. rest \in Nat \ {0}
  BY <1>1, BufferSizes
<1> QED BY <1>1, <1>2, BufferSizes, ContinuousSizes DEF Ends, WRITE_DATA_PAYLOAD_SIZE

LEMMA NextPuts ==
    ASSUME Window, Filling, writing.by \in {"fill", "flush"}, writing.data_size > Block,
           IsEmpty(last_written), NextFragment
    PROVE  \E n \in 1..History :
              Puts(n, [msg |-> writing.msg, part |-> writing.part + 1,
                       last |-> Ends(writing.data_size - Block)])
<1> PICK rest : rest = writing.data_size - Block
  OBVIOUS
<1>1. /\ Ahead \in 1..History + 1 /\ last_written = SeqNumAdd(last_acknown, Ahead)
      /\ Ahead \in Ahead..Ahead + 1 /\ ~(Ahead > Ahead)
  BY Cursors, Sizes DEF Window
<1>2. Ahead \in 1..History
  <2>1. Ahead <= History
    BY FreeIsBehind DEF NextFragment
  <2> QED BY <1>1, <2>1, Sizes
<1>3. /\ writing.msg \in Messages /\ writing.part + 1 \in Nat /\ Ends(rest) \in BOOLEAN
      /\ Ends(rest) => rest + SubheaderSize + WRITE_DATA_PAYLOAD_SIZE \in Offset..Capacity
      /\ rest + SubheaderSize + WRITE_DATA_PAYLOAD_SIZE # Offset
  BY Left
<1> DEFINE bytes == IF Ends(rest) THEN rest + SubheaderSize + WRITE_DATA_PAYLOAD_SIZE
                    ELSE Capacity
<1>4. bytes \in Offset..Capacity /\ bytes # Offset
  BY <1>3, BufferSizes
<1>5. PutFragment(last_written, writing.msg, writing.part + 1, Ends(rest), bytes)
  BY DEF NextFragment
<1> HIDE DEF bytes
<1>6. Puts(Ahead, [msg |-> writing.msg, part |-> writing.part + 1, last |-> Ends(rest)])
  <2> PICK m \in Messages : m = writing.msg
    BY <1>3
  <2> PICK part \in Nat : part = writing.part + 1
    BY <1>3
  <2> PICK isLast \in BOOLEAN : isLast = Ends(rest)
    BY <1>3
  <2>1. PutFragment(last_written, m, part, isLast, bytes)
    BY <1>5
  <2> QED BY <1>1, <1>2, <1>4, <2>1, FragmentPuts
<1> QED BY <1>2, <1>6

LEMMA PutsKeeps ==
    ASSUME Window, SizesTell, NEW n \in 1..History, NEW chunk, Puts(n, chunk)
    PROVE  /\ Window' /\ SizesTell'
           /\ last_written' = SeqNumAdd(last_acknown', n + 1)
           /\ Ahead' = n + 1 /\ InFlight < n
           /\ n + 1 <= History => IsEmpty(last_written)'
<1>1. /\ InFlight \in 0..History /\ Ahead \in 1..History + 1 /\ InFlight < Ahead
      /\ last_sent = SeqNumAdd(last_acknown, InFlight)
      /\ last_written = SeqNumAdd(last_acknown, Ahead)
      /\ last_acknown \in SeqNums /\ data \in [Slots -> Seq(Chunks)]
  BY Cursors DEF Window, TypeOK
<1>2. /\ n \in Ahead..Ahead + 1 /\ n <= History
      /\ n > Ahead => ~IsEmpty(last_written)
      /\ last_written' = SeqNumAdd(last_acknown, n + 1)
      /\ UNCHANGED <<last_sent, last_acknown, flashing, heartbeat>>
      /\ size' \in [Slots -> Offset..Capacity]
      /\ data' \in [Slots -> Seq(Chunks)]
      /\ size'[At(n)] # Offset
      /\ data'[At(n)] = Append(data[At(n)], chunk)
      /\ \A k \in 1..History : k # n => size'[At(k)] = size[At(k)] /\ data'[At(k)] = data[At(k)]
  BY DEF Puts
<1>3. /\ n + 1 \in 1..History + 1 /\ InFlight < n + 1 /\ InFlight < n
      /\ n + 1 \in 0..SeqNumSize /\ n + 1 \in Nat /\ n + 1 < SeqNumSize
  BY <1>1, <1>2, Sizes
<1>4. TypeOK'
  <2>1. last_written' \in SeqNums
    BY <1>1, <1>2, <1>3, SeqNumAddType
  <2> QED BY <1>2, <2>1 DEF TypeOK, Window, heartbeat
<1>5. ASSUME NEW k \in 1..History
      PROVE  /\ k < n + 1 => size'[At(k)] # Offset
             /\ k > n + 1 => size'[At(k)] = Offset
  <2>1. CASE k = n
    BY <1>2, <1>3, <2>1
  <2>2. ASSUME k # n PROVE size'[At(k)] = size[At(k)]
    BY <1>2, <2>2
  <2>3. k < Ahead => k # n /\ k < n + 1 /\ size[At(k)] # Offset
    BY <1>1, <1>2, Filled, Sizes
  <2>4. k = Ahead /\ n > Ahead => k # n /\ size[At(k)] # Offset
    BY <1>1, <1>2 DEF IsEmpty, At
  <2>5. k > n + 1 => k # n /\ size[At(k)] = Offset
    BY <1>1, <1>2, Filled, Sizes
  <2>6. k < n + 1 => k = n \/ k < Ahead \/ (k = Ahead /\ n > Ahead)
    BY <1>1, <1>2, Sizes
  <2> QED BY <2>1, <2>2, <2>3, <2>4, <2>5, <2>6
<1>6. WindowBounded' /\ WindowFilled'
  <2> PICK b \in 1..History + 1 : b = n + 1
    BY <1>3
  <2> QED BY <1>1, <1>2, <1>3, <1>5, WindowAfter
<1>7. Ahead' = n + 1
  BY <1>1, <1>2, <1>3, SubOfAdd DEF Ahead
<1>8. ASSUME NEW k \in 1..History PROVE size'[At(k)] = Offset <=> data'[At(k)] = <<>>
  <2>1. k \in 0..SeqNumSize
    BY Sizes
  <2>2. At(k) \in Slots
    BY <2>1, AtType DEF Window
  <2>3. CASE k = n
    <3>1. data[At(n)] \in Seq(Chunks)
      BY <1>1, <2>2, <2>3
    <3>2. Append(data[At(n)], chunk) # <<>>
      BY <3>1
    <3> QED BY <1>2, <2>3, <3>2
  <2>4. CASE k # n
    BY <1>2, <2>2, <2>4 DEF SizesTell
  <2> QED BY <2>3, <2>4
<1>9. SizesTell'
  BY <1>8, SizesTellAfter
<1>10. n + 1 <= History => IsEmpty(last_written)'
  <2> SUFFICES ASSUME n + 1 <= History PROVE size'[Slot(last_written')] = Offset
    BY DEF IsEmpty
  <2> PICK k \in 1..History : k = n + 1
    BY <1>3
  <2>1. k # n /\ k > Ahead
    BY <1>1, <1>2
  <2>2. size'[At(k)] = Offset
    BY <1>2, <2>1, Filled
  <2> QED BY <1>2, <2>2 DEF At
<1> QED BY <1>2, <1>3, <1>4, <1>6, <1>7, <1>9, <1>10 DEF Window

(***************************************************************************)
(* The steps: a fragment is put, the user or the callback goes on without  *)
(* one, or the stream does what it does without this mode.                 *)
(***************************************************************************)
Opens(m) ==
    /\ writing.by \in {"none", "prepare"} /\ ~flashing
    /\ BeginContinuous(m)

Continues ==
    /\ writing.by \in {"fill", "flush"} /\ ~flashing
    /\ writing.data_size > Block
    /\ IsEmpty(last_written)
    /\ NextFragment

Waits ==
    /\ UNCHANGED vars
    /\ \/ \E m \in Continued : writing.by = "none" /\ writing' = [by |-> "prepare", msg |-> m]
       \/ FillsBuffer /\ writing' = [writing EXCEPT !.by = "flush"]
       \/ writing' = NotWriting
       \/ UNCHANGED writing

StreamSteps ==
    /\ UNCHANGED writing
    /\ \/ writing.by \in {"none", "prepare"} /\ \E m \in Messages : Write(m)
       \/ writing.by # "fill" /\ (FlashBegin \/ FlashSend \/ FlashSendFails)
       \/ FlashEnd \/ UpdateHeartbeat \/ Tick
       \/ \E first_unacked \in InOrderAcks : ProcessAcknack(first_unacked)
       \/ writing.by = "none" /\ Reset

LEMMA ContinuousCases ==
    ASSUME ContinuousKept, [ContinuousNext]_continuousVars
    PROVE  (\E m \in Continued : Opens(m)) \/ Continues \/ Waits \/ StreamSteps
<1>1. writing \in Writings /\ (writing.by = "fill" => ~flashing) /\ Window
  BY DEF ContinuousKept, Filling
<1>2. CASE \E m \in Continued : PrepareContinuous(m) \/ PrepareCalls(m)
  BY <1>2 DEF PrepareContinuous, PrepareCalls, Opens, Waits
<1>3. CASE OnFull
  <2>1. IsEmpty(last_written)
    <3>1. Ahead <= History
      BY <1>1, <1>3, FreeIsBehind DEF OnFull, NextFragment
    <3> QED BY <1>3, <3>1 DEF ContinuousKept, Filling, OnFull, FillsBuffer
  <2> QED BY <1>1, <1>3, <2>1 DEF OnFull, FillsBuffer, Continues
<1>4. CASE OnFullCalls
  BY <1>4 DEF OnFullCalls, Waits
<1>5. CASE CallbackReturns
  <2>1. CASE writing.by = "prepare" /\ BeginContinuous(writing.msg)
    <3>1. writing.msg \in Continued
      BY <1>1, <2>1 DEF Writings, NotWriting
    <3> QED BY <1>5, <2>1, <3>1 DEF CallbackReturns, Opens
  <2>2. CASE writing.by = "flush" /\ IsEmpty(last_written) /\ NextFragment
    <3>1. writing.data_size > Block
      BY <2>2 DEF ContinuousKept, Filling
    <3> QED BY <1>5, <2>2, <3>1 DEF CallbackReturns, Continues
  <2>3. CASE writing' = NotWriting /\ UNCHANGED vars
    BY <2>3 DEF Waits
  <2> QED BY <1>5, <2>1, <2>2, <2>3 DEF CallbackReturns
<1>6. CASE FillsLast
  BY <1>6 DEF FillsLast, Waits
<1>7. CASE /\ writing.by \in {"none", "prepare"}
           /\ \E m \in Messages \ Continued : Write(m)
           /\ UNCHANGED writing
  BY <1>7 DEF StreamSteps
<1>8. CASE MayLock /\ (FlashBegin \/ UpdateHeartbeat) /\ UNCHANGED writing
  BY <1>8 DEF StreamSteps, MayLock
<1>9. CASE /\ \/ FlashSend \/ FlashSendFails \/ FlashEnd \/ Tick
              \/ \E first_unacked \in InOrderAcks : ProcessAcknack(first_unacked)
           /\ UNCHANGED writing
  <2>1. FlashSend \/ FlashSendFails => writing.by # "fill"
    BY <1>1 DEF FlashSend, FlashSendFails
  <2> QED BY <1>9, <2>1 DEF StreamSteps
<1>10. CASE writing.by = "none" /\ Reset /\ UNCHANGED writing
  BY <1>10 DEF StreamSteps
<1>11. CASE UNCHANGED continuousVars
  BY <1>11 DEF continuousVars, Waits
<1> QED BY <1>2, <1>3, <1>4, <1>5, <1>6, <1>7, <1>8, <1>9, <1>10, <1>11 DEF ContinuousNext

LEMMA StreamStepIsNext ==
    ASSUME StreamSteps
    PROVE  [Next]_vars
BY DEF StreamSteps, Next

(* Where the writing is once a fragment was put.                             *)
LEMMA BeginsFilling ==
    ASSUME ContinuousKept, NEW m \in Continued, Opens(m)
    PROVE  ContinuousKept'
<1>1. PICK n \in 1..History :
         Puts(n, [msg |-> m, part |-> 1, last |-> Length[m] < Capacity])
  BY BeginPuts DEF ContinuousKept, Opens
<1>2. /\ Window' /\ SizesTell' /\ Ahead' = n + 1
      /\ n + 1 <= History => IsEmpty(last_written)'
  BY <1>1, PutsKeeps DEF ContinuousKept
<1>3. flashing' = FALSE
  BY <1>1 DEF Puts, Opens, ContinuousKept, Window, TypeOK
<1>4. writing' = [by |-> "fill", msg |-> m, part |-> 1, data_size |-> Length[m]]
  BY DEF Opens, BeginContinuous
<1>5. Length[m] \in Nat \ {0}
  BY ContinuousSizes
<1>6. writing' \in Writings
  BY <1>4, <1>5 DEF Writings
<1>7. writing'.by = "fill"
  BY <1>4
<1>8. Filling'
  BY <1>2, <1>3, <1>6, <1>7 DEF Filling
<1> QED BY <1>2, <1>8 DEF ContinuousKept

LEMMA ContinuesFilling ==
    ASSUME ContinuousKept, Continues
    PROVE  ContinuousKept'
<1>1. PICK n \in 1..History :
         Puts(n, [msg |-> writing.msg, part |-> writing.part + 1,
                  last |-> Ends(writing.data_size - Block)])
  BY NextPuts DEF ContinuousKept, Continues
<1>2. /\ Window' /\ SizesTell' /\ Ahead' = n + 1
      /\ n + 1 <= History => IsEmpty(last_written)'
  BY <1>1, PutsKeeps DEF ContinuousKept
<1>3. flashing' = FALSE
  BY <1>1 DEF Puts, Continues, ContinuousKept, Window, TypeOK
<1> PICK rest : rest = writing.data_size - Block
  OBVIOUS
<1>4. /\ writing.msg \in Continued /\ writing.part + 1 \in Nat \ {0} /\ rest \in Nat \ {0}
  BY Left DEF ContinuousKept, Continues
<1>5. writing' = [by |-> "fill", msg |-> writing.msg, part |-> writing.part + 1,
                  data_size |-> rest]
  <2>1. writing' = [writing EXCEPT !.by = "fill", !.part = @ + 1, !.data_size = rest]
    BY DEF Continues, NextFragment
  <2>2. writing \in [by : {"fill", "flush"}, msg : Continued, part : Nat \ {0},
                     data_size : Nat \ {0}]
    BY DEF ContinuousKept, Filling, Writings, Continues, NotWriting
  <2> QED BY <2>1, <2>2
<1>6. writing' \in Writings
  BY <1>4, <1>5 DEF Writings
<1>7. writing'.by = "fill"
  BY <1>5
<1>8. Filling'
  BY <1>2, <1>3, <1>6, <1>7 DEF Filling
<1> QED BY <1>2, <1>8 DEF ContinuousKept

LEMMA WaitsFilling ==
    ASSUME ContinuousKept, Waits
    PROVE  ContinuousKept'
<1>1. UNCHANGED vars
  BY DEF Waits
<1>2. Window' /\ SizesTell'
  BY <1>1, NextKeepsWindow, NextKeepsSizesTell DEF ContinuousKept
<1>3. /\ Ahead' = Ahead /\ flashing' = flashing
      /\ IsEmpty(last_written)' <=> IsEmpty(last_written)
  BY <1>1 DEF vars, cursors, buffers, Ahead, IsEmpty
<1>4. ASSUME UNCHANGED writing PROVE Filling'
  BY <1>3, <1>4 DEF ContinuousKept, Filling
<1>5. ASSUME writing' = NotWriting PROVE Filling'
  BY <1>5 DEF Filling, Writings, NotWriting
<1>6. ASSUME NEW m \in Continued, writing' = [by |-> "prepare", msg |-> m] PROVE Filling'
  BY <1>6 DEF Filling, Writings
<1>7. ASSUME FillsBuffer, writing' = [writing EXCEPT !.by = "flush"] PROVE Filling'
  <2>1. writing \in [by : {"fill", "flush"}, msg : Continued, part : Nat \ {0},
                     data_size : Nat \ {0}]
    BY <1>7 DEF ContinuousKept, Filling, Writings, FillsBuffer, NotWriting
  <2>2. writing' = [by |-> "flush", msg |-> writing.msg, part |-> writing.part,
                    data_size |-> writing.data_size]
    BY <1>7, <2>1
  <2>3. writing' \in Writings /\ writing'.by = "flush" /\ writing'.data_size > Block
    BY <1>7, <2>1, <2>2 DEF Writings, FillsBuffer
  <2> QED BY <2>3 DEF Filling
<1>8. Filling'
  BY <1>4, <1>5, <1>6, <1>7 DEF Waits
<1> QED BY <1>2, <1>8 DEF ContinuousKept

LEMMA StreamStepsFilling ==
    ASSUME ContinuousKept, StreamSteps
    PROVE  ContinuousKept'
<1>1. Window' /\ SizesTell'
  BY StreamStepIsNext, NextKeepsWindow, NextKeepsSizesTell DEF ContinuousKept
<1>2. writing' = writing /\ writing \in Writings
      /\ (writing.by = "flush" => writing.data_size > Block)
  BY DEF StreamSteps, ContinuousKept, Filling
<1>3. CASE writing.by # "fill"
  BY <1>1, <1>2, <1>3 DEF ContinuousKept, Filling
<1>4. CASE writing.by = "fill"
  <2>1. ~flashing /\ (Ahead <= History => IsEmpty(last_written)) /\ Window
    BY <1>4 DEF ContinuousKept, Filling
  <2>2. CASE FlashEnd \/ UpdateHeartbeat \/ Tick
    <3>1. UNCHANGED <<cursors, buffers>> /\ flashing' = FALSE
      BY <2>1, <2>2 DEF FlashEnd, UpdateHeartbeat, Tick, Window, TypeOK
    <3>2. Ahead' = Ahead /\ (IsEmpty(last_written)' <=> IsEmpty(last_written))
      BY <3>1 DEF cursors, buffers, Ahead, IsEmpty
    <3>3. Filling'
      BY <1>2, <1>4, <2>1, <3>1, <3>2 DEF Filling
    <3> QED BY <1>1, <3>3 DEF ContinuousKept
  <2>3. CASE \E first_unacked \in InOrderAcks : ProcessAcknack(first_unacked)
    <3>1. PICK c \in 0..InFlight : Acked(c)
      BY <2>1, <2>3, ProcessAcknackAcked
    <3>2. /\ last_acknown' = SeqNumAdd(last_acknown, c)
          /\ size' \in [Slots -> Offset..Capacity] /\ data' \in [Slots -> Seq(Chunks)]
          /\ \A n \in 1..c : size'[At(n)] = Offset
          /\ \A n \in c + 1..History : size'[At(n)] = size[At(n)]
          /\ UNCHANGED <<last_written, flashing>>
      BY <3>1 DEF Acked
    <3>3. /\ Ahead \in 1..History + 1 /\ InFlight \in 0..History /\ InFlight < Ahead
          /\ last_written = SeqNumAdd(last_acknown, Ahead) /\ last_acknown \in SeqNums
      BY <2>1, Cursors DEF Window, TypeOK
    <3>6. Ahead' = Ahead - c
      <4>1. /\ c \in Nat /\ Ahead \in Nat /\ c <= Ahead /\ Ahead < SeqNumSize
        BY <3>1, <3>3, Sizes
      <4> QED BY <3>2, <3>3, <4>1, SubOfAdds DEF Ahead
    <3>4. Ahead' <= History => IsEmpty(last_written)'
      <4> SUFFICES ASSUME Ahead - c <= History PROVE IsEmpty(last_written)'
        BY <3>6
      <4>0. IsEmpty(last_written)' <=> size'[At(Ahead)] = Offset
        BY <3>2, <3>3 DEF IsEmpty, At
      <4>1. CASE Ahead <= History
        <5>1. Ahead \in c + 1..History
          BY <3>1, <3>3, <4>1, Sizes
        <5>2. size[At(Ahead)] = Offset
          BY <2>1, <3>3, <4>1 DEF IsEmpty, At
        <5> QED BY <3>2, <4>0, <5>1, <5>2
      <4>2. CASE Ahead = History + 1
        <5>1. At(Ahead) = At(1)
          <6>1. 1 \in 0..SeqNumSize /\ 1 + History <= SeqNumSize /\ 1 + History = Ahead
            BY <4>2, Sizes
          <6> QED BY <3>3, <6>1, SlotComesRound DEF At
        <5>2. 1 \in 1..c
          BY <3>1, <3>3, <4>2, Sizes
        <5> QED BY <3>2, <4>0, <5>1, <5>2
      <4> QED BY <3>3, <4>1, <4>2, Sizes
    <3>5. Filling'
      BY <1>2, <1>4, <2>1, <3>2, <3>4 DEF Filling
    <3> QED BY <1>1, <3>5 DEF ContinuousKept
  <2> QED BY <1>4, <2>2, <2>3 DEF StreamSteps
<1> QED BY <1>3, <1>4

LEMMA ContinuousGoesOn ==
    ASSUME ContinuousKept, [ContinuousNext]_continuousVars
    PROVE  ContinuousKept'
BY ContinuousCases, BeginsFilling, ContinuesFilling, WaitsFilling, StreamStepsFilling

LEMMA ContinuousStarts ==
    ASSUME ContinuousInit
    PROVE  ContinuousKept
<1>1. Window
  BY InitWindow DEF ContinuousInit
<1>2. SizesTell
  BY DEF ContinuousInit, Init, SizesTell
<1>3. Filling
  BY DEF ContinuousInit, Filling, Writings, NotWriting
<1> QED BY <1>1, <1>2, <1>3 DEF ContinuousKept

(***************************************************************************)
(* What is not transmitted, and what is not confirmed, buffer by buffer.   *)
(***************************************************************************)
LEMMA UnsentBuffers ==
    /\ Unsent = FlattenSeq(Buffers(last_sent, InFlight, data))
    /\ Unsent' = FlattenSeq(Buffers(last_sent', InFlight', data'))
BY DEF Unsent, Buffers

LEMMA UnsentType ==
    ASSUME Window
    PROVE  Unsent \in Seq(Chunks)
<1>1. InFlight \in 0..History /\ last_sent = SeqNumAdd(last_acknown, InFlight)
  BY Cursors DEF Window
<1>2. Buffers(last_sent, InFlight, data) \in Seq(Seq(Chunks))
  BY <1>1, HeldFrom
<1> QED BY <1>2, UnsentBuffers, FlattenType

InOrder(acked, f, held) == [n \in 1..f |-> held[Slot(SeqNumAdd(acked, n))]]

LEMMA SentBuffers ==
    ASSUME NEW acked \in SeqNums, NEW f \in 0..History, NEW held \in [Slots -> Seq(Chunks)],
           NEW u, u = [n \in 1..f |-> held[Slot(SeqNumAdd(acked, n))]]
    PROVE  /\ u \in Seq(Seq(Chunks)) /\ Len(u) = f /\ f \in Nat
           /\ \A n \in 1..f : u[n] = held[Slot(SeqNumAdd(acked, n))]
<1>1. ASSUME NEW n \in 1..f PROVE held[Slot(SeqNumAdd(acked, n))] \in Seq(Chunks)
  <2>1. SeqNumAdd(acked, n) \in SeqNums
    BY AddType
  <2> QED BY <2>1, SlotType
<1>2. f \in Nat
  BY Sizes
<1>3. u \in [1..f -> Seq(Chunks)]
  BY <1>1
<1> QED BY <1>2, <1>3

LEMMA UnackedBuffers ==
    ASSUME Window
    PROVE  /\ Unacked \in Seq(Seq(Chunks)) /\ Len(Unacked) = InFlight /\ InFlight \in Nat
           /\ InFlight \in 0..History
           /\ \A n \in 1..InFlight : Unacked[n] = data[At(n)]
<1>1. InFlight \in 0..History /\ last_acknown \in SeqNums /\ data \in [Slots -> Seq(Chunks)]
  BY Cursors DEF Window, TypeOK
<1>2. Unacked = [n \in 1..InFlight |-> data[Slot(SeqNumAdd(last_acknown, n))]]
  BY DEF Unacked
<1> QED BY <1>1, <1>2, SentBuffers DEF At

LEMMA UnackedBuffersAfter ==
    ASSUME last_acknown' \in SeqNums, data' \in [Slots -> Seq(Chunks)], InFlight' \in 0..History
    PROVE  /\ Unacked' \in Seq(Seq(Chunks)) /\ Len(Unacked') = InFlight' /\ InFlight' \in Nat
           /\ \A n \in 1..InFlight' : Unacked'[n] = data'[Slot(SeqNumAdd(last_acknown', n))]
<1>1. Unacked' = [n \in 1..InFlight' |-> data'[Slot(SeqNumAdd(last_acknown', n))]]
  BY DEF Unacked
<1> QED BY <1>1, SentBuffers

(***************************************************************************)
(* Every step is one of ReliableSender or none of its.                     *)
(***************************************************************************)
LEMMA NothingMoves ==
    ASSUME UNCHANGED <<last_sent, last_acknown, data>>
    PROVE  UNCHANGED <<Unsent, Unacked>>
<1>1. InFlight' = InFlight
  BY DEF InFlight
<1>2. Unsent' = Unsent
  BY <1>1, UnsentBuffers
<1>3. Unacked' = Unacked
  BY <1>1 DEF Unacked
<1> QED BY <1>2, <1>3

(* A sequence without its first c elements.                                  *)
LEMMA RestOf ==
    ASSUME NEW S, NEW u \in Seq(S), NEW c \in 0..Len(u)
    PROVE  /\ SubSeq(u, c + 1, Len(u)) \in Seq(S)
           /\ Len(SubSeq(u, c + 1, Len(u))) = Len(u) - c
           /\ \A n \in 1..Len(u) - c : SubSeq(u, c + 1, Len(u))[n] = u[c + n]
<1>1. Len(u) \in Nat
  OBVIOUS
<1>2. SubSeq(u, c + 1, Len(u)) \in Seq(S)
  BY <1>1
<1>3. Len(SubSeq(u, c + 1, Len(u))) = Len(u) - c
  BY <1>1
<1>4. \A n \in 1..Len(u) - c : SubSeq(u, c + 1, Len(u))[n] = u[c + n]
  BY <1>1
<1> QED BY <1>2, <1>3, <1>4

(* Pieces put behind the last one written are accepted.                      *)
LEMMA PiecesAccepted ==
    ASSUME Window, SizesTell, UNCHANGED <<last_sent, last_acknown>>,
           data' \in [Slots -> Seq(Chunks)],
           NEW lo \in Nat, NEW hi \in Nat, lo \in Ahead..Ahead + 1, hi \in lo..History,
           NEW k \in Int, k = hi - lo + 1,
           NEW pieces \in Seq(Chunks), Len(pieces) = k,
           \A n \in lo..hi : data'[At(n)] = Append(data[At(n)], pieces[n - lo + 1]),
           \A n \in 1..History : n \notin lo..hi => data'[At(n)] = data[At(n)]
    PROVE  /\ Unsent' = Unsent \o pieces /\ Unacked' = Unacked
           /\ Len(Unsent') > Len(Unsent)
<1>1. /\ InFlight \in 0..History /\ InFlight < Ahead /\ Ahead \in 1..History + 1
      /\ last_sent = SeqNumAdd(last_acknown, InFlight) /\ last_acknown \in SeqNums
      /\ History \in Nat
  BY Cursors, Sizes DEF Window, TypeOK
<1>2. InFlight' = InFlight
  BY DEF InFlight
<1> PICK a \in Int : a = lo - InFlight
  BY <1>1
<1>3. Enlarged(Chunks, Buffers(last_sent, InFlight, data), Buffers(last_sent, InFlight, data'),
               a, pieces)
  <2> HIDE DEF InFlight, Ahead
  <2> QED BY <1>1, EnlargesBehind
<1>4. Unsent' = Unsent \o pieces
  <2>1. Buffers(last_sent', InFlight', data') = Buffers(last_sent, InFlight, data')
    BY <1>2
  <2>2. FlattenSeq(Buffers(last_sent, InFlight, data'))
            = Cat(FlattenSeq(Buffers(last_sent, InFlight, data)), pieces)
    BY <1>3, FlattenAdded
  <2> QED BY <2>1, <2>2, UnsentBuffers DEF Cat
<1>5. Unacked' = Unacked
  <2>1. ASSUME NEW n \in 1..InFlight
        PROVE  data'[Slot(SeqNumAdd(last_acknown', n))] = data[Slot(SeqNumAdd(last_acknown, n))]
    <3>1. n \in 1..History /\ n \notin lo..hi
      BY <1>1
    <3> QED BY <3>1 DEF At
  <2> QED BY <1>2, <2>1 DEF Unacked
<1>6. Len(Unsent') > Len(Unsent)
  <2>1. Unsent \in Seq(Chunks) /\ k \in Nat /\ k # 0
    BY <1>1, UnsentType
  <2>2. Len(Unsent \o pieces) = Len(Unsent) + Len(pieces) /\ Len(Unsent) \in Nat
    BY <2>1, ConcatProperties
  <2> QED BY <1>4, <2>1, <2>2
<1> QED BY <1>4, <1>5, <1>6

LEMMA WriteIsAccepted ==
    ASSUME ContinuousKept, NEW m \in Messages, Write(m), UNCHANGED writing,
           writing.by \in {"none", "prepare"}
    PROVE  Sender!Next
<1>1. Window /\ SizesTell
  BY DEF ContinuousKept
<1>2. PICK lo, hi \in Nat : Wrote(lo, hi) /\ Adds(m, lo, hi)
  BY <1>1, WriteAdds
<1>3. /\ lo \in Ahead..Ahead + 1 /\ hi \in lo..History
      /\ UNCHANGED <<last_sent, last_acknown>>
      /\ data' \in [Slots -> Seq(Chunks)]
      /\ \A n \in 1..History : n \notin lo..hi => data'[At(n)] = data[At(n)]
  BY <1>2 DEF Wrote
<1> PICK k \in 1..History : k = hi - lo + 1
  <2>1. Ahead \in 1..History + 1 /\ History \in Nat
    BY <1>1, Cursors, Sizes DEF Window
  <2>2. hi - lo + 1 \in 1..History
    BY <1>3, <2>1
  <2> QED BY <2>2
<1> PICK pieces : pieces = [j \in 1..k |-> Piece(m, j, k)]
  OBVIOUS
<1>4. /\ pieces \in WrittenPieces(m) /\ pieces \in Seq(Chunks) /\ Len(pieces) = k /\ k \in Int
      /\ \A j \in 1..k : pieces[j] = Piece(m, j, k)
  BY PiecesWritten
<1>5. \A n \in lo..hi : data'[At(n)] = Append(data[At(n)], pieces[n - lo + 1])
  <2> TAKE n \in lo..hi
  <2>1. n - lo + 1 \in 1..k
    BY <1>3
  <2>2. data'[At(n)] = Append(data[At(n)], Piece(m, n - lo + 1, k))
    BY <1>2 DEF Adds
  <2> QED BY <1>4, <2>1, <2>2
<1>6. Unsent' = Unsent \o pieces /\ Unacked' = Unacked /\ Len(Unsent') > Len(Unsent)
  BY <1>1, <1>3, <1>4, <1>5, PiecesAccepted
<1>7. Open = <<>> /\ Open' = Open
  BY DEF Open
<1>8. pieces \in Sender!Pieces(m)
  BY <1>4 DEF Sender!Pieces, WrittenPieces
<1>9. Sender!Accept(m)
  BY <1>6, <1>7, <1>8 DEF Sender!Accept, Sender!Complete
<1> QED BY <1>6, <1>9 DEF Sender!Next

LEMMA PutIsAccepted ==
    ASSUME Window, SizesTell, NEW n \in 1..History, NEW chunk, Puts(n, chunk)
    PROVE  /\ Unsent' = Append(Unsent, chunk) /\ Unacked' = Unacked
           /\ Len(Unsent') > Len(Unsent)
<1>1. /\ n \in Ahead..Ahead + 1 /\ n <= History /\ chunk \in Chunks
      /\ UNCHANGED <<last_sent, last_acknown>>
      /\ data' \in [Slots -> Seq(Chunks)]
      /\ data'[At(n)] = Append(data[At(n)], chunk)
      /\ \A k \in 1..History : k # n => data'[At(k)] = data[At(k)]
  BY DEF Puts
<1> PICK pieces : pieces = <<chunk>>
  OBVIOUS
<1>2. pieces \in Seq(Chunks) /\ Len(pieces) = 1 /\ pieces[1] = chunk
  BY <1>1
<1>3. n \in Nat /\ n \in n..History /\ n - n + 1 = 1
  BY <1>1, Sizes
<1>4. \A k \in n..n : data'[At(k)] = Append(data[At(k)], pieces[k - n + 1])
  <2> TAKE k \in n..n
  <2>1. k = n /\ k - n + 1 = 1
    BY <1>3
  <2> QED BY <1>1, <1>2, <2>1
<1>5. \A k \in 1..History : k \notin n..n => data'[At(k)] = data[At(k)]
  BY <1>1, <1>3
<1>6. Unsent' = Unsent \o pieces /\ Unacked' = Unacked /\ Len(Unsent') > Len(Unsent)
  <2> PICK one \in Int : one = n - n + 1
    BY <1>3
  <2>1. Len(pieces) = one
    BY <1>2, <1>3
  <2> QED BY <1>1, <1>2, <1>3, <1>4, <1>5, <2>1, PiecesAccepted
<1>7. Unsent \in Seq(Chunks)
  BY UnsentType
<1> QED BY <1>1, <1>6, <1>7

LEMMA BeginIsAccepted ==
    ASSUME ContinuousKept, NEW m \in Continued, Opens(m)
    PROVE  Sender!Next
<1>1. PICK n \in 1..History :
         Puts(n, [msg |-> m, part |-> 1, last |-> Length[m] < Capacity])
  BY BeginPuts DEF ContinuousKept, Opens
<1>7. (Length[m] < Capacity <=> Length[m] <= Block) /\ (Length[m] < Capacity) \in BOOLEAN
  BY ContinuousSizes, BufferSizes
<1> PICK last \in BOOLEAN : last = (Length[m] < Capacity)
  BY <1>7
<1>2. /\ Unsent' = Append(Unsent, [msg |-> m, part |-> 1, last |-> last])
      /\ Unacked' = Unacked /\ Len(Unsent') > Len(Unsent)
  BY <1>1, PutIsAccepted DEF ContinuousKept
<1>3. Open = <<>>
  BY DEF Opens, Open
<1>4. Open' = IF last THEN <<>> ELSE <<m, 1>>
  <2>1. writing' = [by |-> "fill", msg |-> m, part |-> 1, data_size |-> Length[m]]
    BY DEF Opens, BeginContinuous
  <2>2. last <=> Length[m] <= Block
    BY <1>7
  <2> QED BY <2>1, <2>2 DEF Open
<1>5. Sender!AcceptFragment(m)
  BY <1>2, <1>3, <1>4 DEF Sender!AcceptFragment, Sender!Complete
<1>6. m \in Messages
  BY ContinuousSizes
<1> QED BY <1>2, <1>5, <1>6 DEF Sender!Next

LEMMA ContinuingIsAccepted ==
    ASSUME ContinuousKept, Continues
    PROVE  Sender!Next
<1> PICK rest : rest = writing.data_size - Block
  OBVIOUS
<1>1. PICK n \in 1..History :
         Puts(n, [msg |-> writing.msg, part |-> writing.part + 1, last |-> Ends(rest)])
  BY NextPuts DEF ContinuousKept, Continues
<1>2. /\ writing.msg \in Messages /\ writing.part \in Nat /\ Ends(rest) \in BOOLEAN
      /\ Ends(rest) <=> rest <= Block
  BY Left DEF ContinuousKept, Continues
<1> PICK last \in BOOLEAN : last = Ends(rest)
  BY <1>2
<1> PICK m \in Messages : m = writing.msg
  BY <1>2
<1> PICK part \in Nat : part = writing.part
  BY <1>2
<1>3. /\ Unsent' = Append(Unsent, [msg |-> m, part |-> part + 1, last |-> last])
      /\ Unacked' = Unacked /\ Len(Unsent') > Len(Unsent)
  BY <1>1, PutIsAccepted DEF ContinuousKept
<1>4. Open = <<m, part>>
  <2>1. writing.data_size \in Nat
    BY DEF ContinuousKept, Filling, Writings, Continues, NotWriting
  <2>2. ~(writing.data_size <= Block)
    BY <2>1, BufferSizes DEF Continues
  <2> QED BY <2>2 DEF Continues, Open
<1>5. Open' = IF last THEN <<>> ELSE <<m, part + 1>>
  <2>1. writing' = [writing EXCEPT !.by = "fill", !.part = @ + 1, !.data_size = rest]
    BY DEF Continues, NextFragment
  <2>2. writing \in [by : {"fill", "flush"}, msg : Continued, part : Nat \ {0},
                     data_size : Nat \ {0}]
    BY DEF ContinuousKept, Filling, Writings, Continues, NotWriting
  <2>3. /\ writing'.by = "fill" /\ writing'.msg = m /\ writing'.part = part + 1
        /\ writing'.data_size = rest
    BY <2>1, <2>2
  <2> QED BY <1>2, <2>3 DEF Open
<1>6. Open # <<>> /\ Open[1] = m /\ Open[2] = part
  <2>1. Len(Open) = 2
    BY <1>4
  <2> QED BY <1>4, <2>1
<1>7. Sender!AcceptFragment(m)
  BY <1>3, <1>5, <1>6 DEF Sender!AcceptFragment, Sender!Complete
<1> QED BY <1>3, <1>7 DEF Sender!Next

LEMMA WaitIsGivingUp ==
    ASSUME ContinuousKept, Waits
    PROVE  [Sender!Next]_<<Unsent, Unacked, Open>>
<1>1. Unsent' = Unsent /\ Unacked' = Unacked
  BY NothingMoves DEF Waits, vars, cursors, buffers
<1>2. CASE UNCHANGED writing
  BY <1>1, <1>2 DEF Open
<1>3. CASE writing' = NotWriting
  <2>1. Open' = <<>>
    BY <1>3 DEF Open, NotWriting
  <2>2. CASE Open = <<>>
    BY <1>1, <2>1, <2>2
  <2>3. CASE Open # <<>>
    BY <1>1, <2>1, <2>3 DEF Sender!Next, Sender!GiveUp, Sender!Complete
  <2> QED BY <2>2, <2>3
<1>4. CASE \E m \in Continued : writing.by = "none" /\ writing' = [by |-> "prepare", msg |-> m]
  <2>1. Open = <<>> /\ Open' = <<>>
    BY <1>4 DEF Open
  <2> QED BY <1>1, <2>1
<1>5. CASE FillsBuffer /\ writing' = [writing EXCEPT !.by = "flush"]
  <2>1. writing \in [by : {"fill", "flush"}, msg : Continued, part : Nat \ {0},
                     data_size : Nat \ {0}]
    BY <1>5 DEF ContinuousKept, Filling, Writings, FillsBuffer, NotWriting
  <2>2. /\ writing.by = "fill" /\ writing'.by = "flush" /\ writing'.msg = writing.msg
        /\ writing'.part = writing.part /\ writing'.data_size = writing.data_size
    BY <1>5, <2>1 DEF FillsBuffer
  <2>3. Open' = Open
    BY <2>2 DEF Open
  <2> QED BY <1>1, <2>3
<1> QED BY <1>2, <1>3, <1>4, <1>5 DEF Waits

LEMMA SendIsTransmitted ==
    ASSUME ContinuousKept, FlashSend, UNCHANGED writing
    PROVE  Sender!Next
<1>1. Window /\ SizesTell /\ CanSend /\ last_sent' = NextToSend
      /\ last_acknown' = last_acknown /\ data' = data
  BY DEF ContinuousKept, FlashSend, buffers
<1>2. /\ InFlight \in 0..History /\ last_acknown \in SeqNums /\ History \in Nat
      /\ last_sent = SeqNumAdd(last_acknown, InFlight)
      /\ NextToSend = SeqNumAdd(last_acknown, InFlight + 1)
      /\ data \in [Slots -> Seq(Chunks)]
  BY <1>1, Cursors, Sizes DEF Window, TypeOK
<1>3. InFlight < History /\ ~IsEmpty(SeqNumAdd(last_acknown, InFlight + 1))
  BY <1>1, CanSendMeans DEF Window
<1> PICK s \in Nat : s = InFlight
  BY <1>2
<1> PICK t \in 1..History : t = s + 1
  BY <1>2, <1>3
<1> PICK next : next = last_sent'
  OBVIOUS
<1>4. next = SeqNumAdd(last_acknown, t) /\ s \in Int
  BY <1>1, <1>2
<1>5. InFlight' = t
  <2>1. t \in Nat /\ t < SeqNumSize
    BY Sizes
  <2> QED BY <1>1, <1>2, <1>4, <2>1, SubOfAdd DEF InFlight
<1>6. data[At(t)] # <<>> /\ data[At(t)] \in Seq(Chunks)
  <2>1. t \in 0..SeqNumSize
    BY Sizes
  <2>2. At(t) \in Slots
    BY <1>1, <2>1, AtType DEF Window
  <2> QED BY <1>1, <1>2, <1>3, <2>2 DEF SizesTell, IsEmpty, At
<1>7. Leaves(Unsent, data[At(t)], Unsent')
  <2>1. Leaves(FlattenSeq(Buffers(last_sent, s, data)), data[At(t)],
               FlattenSeq(Buffers(next, t, data)))
    BY <1>1, <1>2, <1>4, <1>6, TakenFirst
  <2> QED BY <1>1, <1>5, <2>1, UnsentBuffers
<1>8. Unacked' = Append(Unacked, data[At(t)])
  <2>1. /\ Unacked \in Seq(Seq(Chunks)) /\ Len(Unacked) = s
        /\ \A n \in 1..s : Unacked[n] = data[At(n)]
    BY <1>1, UnackedBuffers
  <2>2. /\ Unacked' \in Seq(Seq(Chunks)) /\ Len(Unacked') = t
        /\ \A n \in 1..t : Unacked'[n] = data[At(n)]
    <3>1. /\ last_acknown' \in SeqNums /\ data' \in [Slots -> Seq(Chunks)]
          /\ InFlight' \in 0..History
      BY <1>1, <1>2, <1>5
    <3> QED BY <1>1, <1>5, <3>1, UnackedBuffersAfter DEF At
  <2>3. /\ Append(Unacked, data[At(t)]) \in Seq(Seq(Chunks))
        /\ Len(Append(Unacked, data[At(t)])) = t
        /\ \A n \in 1..s : Append(Unacked, data[At(t)])[n] = Unacked[n]
        /\ Append(Unacked, data[At(t)])[t] = data[At(t)]
    BY <1>6, <2>1, AppendProperties
  <2>4. \A n \in 1..t : n \in 1..s \/ n = t
    OBVIOUS
  <2> QED BY <2>1, <2>2, <2>3, <2>4, SeqEqual
<1>9. Len(Unacked) < History
  BY <1>1, <1>3, UnackedBuffers
<1>10. Open' = Open
  BY DEF Open
<1>11. Sender!Transmit
  BY <1>7, <1>8, <1>9, <1>10 DEF Sender!Transmit, Leaves
<1> QED BY <1>11 DEF Sender!Next

LEMMA RefusalStutters ==
    ASSUME Window, FlashSendFails
    PROVE  UNCHANGED <<last_sent, last_acknown, data>>
<1>1. CanSend /\ last_sent' = SeqNumSub(NextToSend, 1)
      /\ last_acknown' = last_acknown /\ data' = data
  BY DEF FlashSendFails, buffers
<1>2. /\ InFlight \in 0..History /\ last_acknown \in SeqNums
      /\ last_sent = SeqNumAdd(last_acknown, InFlight)
      /\ NextToSend = SeqNumAdd(last_acknown, InFlight + 1)
  BY Cursors DEF Window, TypeOK
<1>3. InFlight + 1 \in Nat \ {0} /\ InFlight + 1 < SeqNumSize /\ (InFlight + 1) - 1 = InFlight
  BY <1>2, Sizes
<1>4. last_sent' = last_sent
  BY <1>1, <1>2, <1>3, SubOne
<1> QED BY <1>1, <1>4

LEMMA AcknackIsConfirmed ==
    ASSUME ContinuousKept, NEW first_unacked \in InOrderAcks, ProcessAcknack(first_unacked),
           UNCHANGED writing
    PROVE  [Sender!Next]_<<Unsent, Unacked, Open>>
<1>1. Window
  BY DEF ContinuousKept
<1>2. PICK c \in 0..InFlight : Acked(c)
  BY <1>1, ProcessAcknackAcked
<1>3. /\ InFlight \in 0..History /\ last_acknown \in SeqNums /\ History \in Nat
      /\ last_sent = SeqNumAdd(last_acknown, InFlight)
  BY <1>1, Cursors, Sizes DEF Window, TypeOK
<1>4. /\ last_acknown' = SeqNumAdd(last_acknown, c) /\ last_sent' = last_sent
      /\ data' \in [Slots -> Seq(Chunks)]
      /\ \A n \in c + 1..History : data'[At(n)] = data[At(n)]
  BY <1>2 DEF Acked
<1> PICK f \in 0..History : f = InFlight
  BY <1>3
<1> PICK d \in Nat : d = f - c
  BY <1>3
<1>5. /\ c \in Nat /\ c <= f /\ f <= History /\ f \in Nat /\ f < SeqNumSize /\ c \in 0..SeqNumSize
      /\ d \in 0..History
  BY <1>3, Sizes
<1>6. InFlight' = d
  BY <1>3, <1>4, <1>5, SubOfAdds DEF InFlight
<1>7. Unsent' = Unsent
  <2>1. FlattenSeq(Buffers(last_sent, d, data')) = FlattenSeq(Buffers(last_sent, f, data))
    BY <1>1, <1>2, <1>3, FreedBehind
  <2> QED BY <1>4, <1>6, <2>1, UnsentBuffers
<1>8. /\ Unacked \in Seq(Seq(Chunks)) /\ Len(Unacked) = f
      /\ \A n \in 1..f : Unacked[n] = data[At(n)]
  BY <1>1, UnackedBuffers
<1>9. /\ Unacked' \in Seq(Seq(Chunks)) /\ Len(Unacked') = d
      /\ \A n \in 1..d : Unacked'[n] = Unacked[c + n]
  <2>1. last_acknown' \in SeqNums
    BY <1>3, <1>4, <1>5, AddType
  <2>2. /\ Unacked' \in Seq(Seq(Chunks)) /\ Len(Unacked') = d
        /\ \A n \in 1..d : Unacked'[n] = data'[Slot(SeqNumAdd(last_acknown', n))]
    BY <1>4, <1>5, <1>6, <2>1, UnackedBuffersAfter
  <2>3. ASSUME NEW n \in 1..d PROVE Unacked'[n] = Unacked[c + n]
    <3>1. c + n \in 1..f /\ c + n \in c + 1..History /\ n \in Int
      BY <1>3, <1>5
    <3>2. SeqNumAdd(last_acknown', n) = SeqNumAdd(last_acknown, c + n)
      BY <1>3, <1>4, <1>5, <3>1, AddTwice
    <3> QED BY <1>4, <1>8, <2>2, <3>1, <3>2 DEF At
  <2> QED BY <2>2, <2>3
<1>10. Open' = Open
  BY DEF Open
<1>11. CASE c = 0
  <2>1. d = f /\ \A n \in 1..d : c + n = n
    BY <1>5, <1>11
  <2>2. \A n \in 1..d : Unacked'[n] = Unacked[n]
    BY <1>9, <2>1
  <2>3. Unacked' = Unacked
    BY <1>8, <1>9, <2>1, <2>2, SeqEqual
  <2> QED BY <1>7, <1>10, <2>3
<1>12. CASE c # 0
  <2>1. c \in 1..Len(Unacked)
    BY <1>5, <1>8, <1>12
  <2>2. Unacked' = SubSeq(Unacked, c + 1, Len(Unacked))
    <3>1. f = Len(Unacked) /\ d = f - c
      BY <1>5, <1>8
    <3>2. /\ SubSeq(Unacked, c + 1, f) \in Seq(Seq(Chunks))
          /\ Len(SubSeq(Unacked, c + 1, f)) = d
          /\ \A n \in 1..d : SubSeq(Unacked, c + 1, f)[n] = Unacked[c + n]
      BY <1>8, <3>1, RestOf
    <3> QED BY <1>8, <1>9, <3>1, <3>2, SeqEqual
  <2>3. Sender!Confirm
    BY <1>7, <1>10, <2>1, <2>2 DEF Sender!Confirm
  <2> QED BY <2>3 DEF Sender!Next
<1> QED BY <1>11, <1>12

(* A stream that was just created holds nothing.                             *)
LEMMA NothingAtFirst ==
    ASSUME NEW acked \in SeqNums, NEW sent \in SeqNums, sent = acked,
           NEW f \in 0..History, f = 0,
           NEW held \in [Slots -> Seq(Chunks)], \A i \in Slots : held[i] = <<>>
    PROVE  FlattenSeq(Buffers(sent, f, held)) = <<>> /\ InOrder(acked, f, held) = <<>>
<1>1. sent = SeqNumAdd(acked, f)
  BY AddNothing
<1>2. FlattenSeq(Buffers(sent, f, held)) = <<>>
  BY <1>1, NothingHeld
<1>3. InOrder(acked, f, held) \in Seq(Seq(Chunks)) /\ Len(InOrder(acked, f, held)) = 0
  BY SentBuffers DEF InOrder
<1>4. InOrder(acked, f, held) = <<>>
  BY <1>3, EmptySeq
<1> QED BY <1>2, <1>4

LEMMA SenderStarts ==
    ASSUME ContinuousInit
    PROVE  Sender!Init
<1>1. /\ last_acknown = SeqNumMax /\ last_sent = SeqNumMax
      /\ data = [i \in Slots |-> <<>>] /\ writing = NotWriting
  BY DEF ContinuousInit, Init
<1>2. FlattenSeq(Buffers(last_sent, InFlight, data)) = <<>> /\ Unacked = <<>>
  <2> PICK acked : acked = last_acknown
    OBVIOUS
  <2> PICK sent : sent = last_sent
    OBVIOUS
  <2> PICK held : held = data
    OBVIOUS
  <2> PICK f : f = InFlight
    OBVIOUS
  <2> PICK u : u = Unacked
    OBVIOUS
  <2>1. f = SeqNumSub(sent, acked)
    BY DEF InFlight
  <2>2. u = InOrder(acked, f, held)
    BY DEF Unacked, InOrder
  <2>3. FlattenSeq(Buffers(sent, f, held)) = <<>> /\ u = <<>>
    <3>1. acked = SeqNumMax /\ sent = SeqNumMax /\ held = [i \in Slots |-> <<>>]
      BY <1>1
    <3>2. acked \in SeqNums /\ sent = acked /\ f = 0 /\ f \in 0..History
      BY <2>1, <3>1, Sizes DEF SeqNumSub
    <3>3. held \in [Slots -> Seq(Chunks)] /\ \A i \in Slots : held[i] = <<>>
      BY <3>1, EmptySeq
    <3> QED BY <2>2, <3>2, <3>3, NothingAtFirst
  <2> QED BY <2>3
<1>3. Open = <<>>
  BY <1>1 DEF Open, NotWriting
<1> QED BY <1>2, <1>3, UnsentBuffers DEF Sender!Init, Sender!Complete

LEMMA ResetForgets ==
    ASSUME Reset, UNCHANGED writing, writing.by = "none"
    PROVE  Sender!Next
<1>1. /\ last_acknown' = SeqNumMax /\ last_sent' = SeqNumMax
      /\ data' = [i \in Slots |-> <<>>]
  BY DEF Reset
<1>2. FlattenSeq(Buffers(last_sent', InFlight', data')) = <<>> /\ Unacked' = <<>>
  <2> PICK acked : acked = last_acknown'
    OBVIOUS
  <2> PICK sent : sent = last_sent'
    OBVIOUS
  <2> PICK held : held = data'
    OBVIOUS
  <2> PICK f : f = InFlight'
    OBVIOUS
  <2> PICK u : u = Unacked'
    OBVIOUS
  <2>1. f = SeqNumSub(sent, acked)
    BY DEF InFlight
  <2>2. u = InOrder(acked, f, held)
    BY DEF Unacked, InOrder
  <2>3. FlattenSeq(Buffers(sent, f, held)) = <<>> /\ u = <<>>
    <3>1. acked = SeqNumMax /\ sent = SeqNumMax /\ held = [i \in Slots |-> <<>>]
      BY <1>1
    <3>2. acked \in SeqNums /\ sent = acked /\ f = 0 /\ f \in 0..History
      BY <2>1, <3>1, Sizes DEF SeqNumSub
    <3>3. held \in [Slots -> Seq(Chunks)] /\ \A i \in Slots : held[i] = <<>>
      BY <3>1, EmptySeq
    <3> QED BY <2>2, <3>2, <3>3, NothingAtFirst
  <2> QED BY <2>3
<1>3. Open' = <<>>
  BY DEF Open
<1>4. Sender!Reset
  BY <1>2, <1>3, UnsentBuffers DEF Sender!Reset, Sender!Complete
<1> QED BY <1>4 DEF Sender!Next

LEMMA StreamStepsRefine ==
    ASSUME ContinuousKept, StreamSteps
    PROVE  [Sender!Next]_<<Unsent, Unacked, Open>>
<1>0. UNCHANGED writing /\ Window
  BY DEF StreamSteps, ContinuousKept
<1>1. CASE writing.by \in {"none", "prepare"} /\ \E m \in Messages : Write(m)
  BY <1>0, <1>1, WriteIsAccepted
<1>2. CASE FlashSend
  BY <1>0, <1>2, SendIsTransmitted
<1>3. CASE FlashBegin \/ FlashSendFails \/ FlashEnd \/ UpdateHeartbeat \/ Tick
  <2>1. UNCHANGED <<last_sent, last_acknown, data>>
    BY <1>0, <1>3, RefusalStutters DEF FlashBegin, FlashEnd, UpdateHeartbeat, Tick, cursors,
       buffers
  <2>2. UNCHANGED <<Unsent, Unacked>>
    BY <2>1, NothingMoves
  <2>3. Open' = Open
    BY <1>0 DEF Open
  <2> QED BY <2>2, <2>3
<1>4. CASE \E first_unacked \in InOrderAcks : ProcessAcknack(first_unacked)
  BY <1>0, <1>4, AcknackIsConfirmed
<1>5. CASE writing.by = "none" /\ Reset
  BY <1>0, <1>5, ResetForgets
<1> QED BY <1>1, <1>2, <1>3, <1>4, <1>5 DEF StreamSteps

LEMMA ContinuousRefines ==
    ASSUME ContinuousKept, [ContinuousNext]_continuousVars
    PROVE  [Sender!Next]_<<Unsent, Unacked, Open>>
BY ContinuousCases, BeginIsAccepted, ContinuingIsAccepted, WaitIsGivingUp, StreamStepsRefine

(* A fragment goes behind what was sent.                                     *)
LEMMA PutsKeepUnacked ==
    ASSUME Window, SizesTell, NEW n \in 1..History, NEW chunk, Puts(n, chunk)
    PROVE  UnackedKept
<1>1. /\ InFlight < n /\ InFlight \in 0..History /\ last_acknown \in SeqNums /\ History \in Nat
  BY PutsKeeps, Cursors, Sizes DEF Window, TypeOK
<1>2. SeqNumSub(last_acknown', last_acknown) = 0
  BY <1>1, Sizes DEF Puts, SeqNumSub
<1>3. ASSUME NEW k \in 0 + 1..InFlight
      PROVE  size'[At(k)] = size[At(k)] /\ data'[At(k)] = data[At(k)]
  <2>1. k \in 1..History /\ k # n
    BY <1>1
  <2> QED BY <2>1 DEF Puts
<1> QED BY <1>2, <1>3 DEF UnackedKept, At

LEMMA ContinuousKeepsUnacked ==
    ASSUME ContinuousKept, [ContinuousNext]_continuousVars
    PROVE  [UnackedKept]_vars
<1>1. Window /\ SizesTell
  BY DEF ContinuousKept
<1>2. CASE \E m \in Continued : Opens(m)
  <2>1. \E n \in 1..History : \E chunk : Puts(n, chunk)
    BY <1>1, <1>2, BeginPuts DEF Opens
  <2> QED BY <1>1, <2>1, PutsKeepUnacked
<1>3. CASE Continues
  <2>1. \E n \in 1..History : \E chunk : Puts(n, chunk)
    BY <1>3, NextPuts DEF Continues, ContinuousKept
  <2> QED BY <1>1, <2>1, PutsKeepUnacked
<1>4. CASE Waits
  BY <1>4 DEF Waits
<1>5. CASE StreamSteps
  BY <1>1, <1>5, StreamStepIsNext, NextKeepsUnacked
<1> QED BY <1>2, <1>3, <1>4, <1>5, ContinuousCases

(***************************************************************************)
(* The theorems.                                                           *)
(***************************************************************************)
(* The inductive invariant holds.                                            *)
THEOREM ContinuousInvariant == ContinuousSpec => []ContinuousKept
<1>1. ContinuousInit => ContinuousKept
  BY ContinuousStarts
<1>2. ContinuousKept /\ [ContinuousNext]_continuousVars => ContinuousKept'
  BY ContinuousGoesOn
<1> QED BY <1>1, <1>2, PTL DEF ContinuousSpec

(* A write in several calls leaves every cursor a sequence number and every  *)
(* buffer within its capacity.                                               *)
THEOREM ContinuousTypeCorrect == ContinuousSpec => []TypeOK
<1>1. ContinuousKept => TypeOK
  BY DEF ContinuousKept, Window
<1> QED BY <1>1, ContinuousInvariant, PTL

(* Fragments sent and acknowledged while the rest of the submessage is still *)
(* written leave the cursors in order and the window its bound.              *)
THEOREM ContinuousCursorsInOrder == ContinuousSpec => []WindowBounded
<1>1. ContinuousKept => WindowBounded
  BY DEF ContinuousKept, Window
<1> QED BY <1>1, ContinuousInvariant, PTL

(* The buffer that waits for the next fragment is behind all that hold data, *)
(* and no free one is lost, also when the write is given up.                 *)
THEOREM ContinuousNoHoles == ContinuousSpec => []WindowFilled
<1>1. ContinuousKept => WindowFilled
  BY DEF ContinuousKept, Window
<1> QED BY <1>1, ContinuousInvariant, PTL

(* on_full_output_buffer_fragmented writes into no buffer that was sent.     *)
THEOREM ContinuousRepeats == ContinuousSpec => UnackedUnchanged
<1>1. ContinuousKept /\ [ContinuousNext]_continuousVars => [UnackedKept]_vars
  BY ContinuousKeepsUnacked
<1> QED BY <1>1, ContinuousInvariant, PTL DEF ContinuousSpec, UnackedUnchanged, UnackedKept

(* What is written leaves once and in order, whole submessages and the       *)
(* fragments of those written in several calls: write, the callbacks, flash, *)
(* uxr_cancel_reliable_buffer_to_send and uxr_process_acknack implement      *)
(* ReliableSender.                                                           *)
THEOREM SendsWhatIsWritten == ContinuousSpec => ImplementsReliableSender
<1>1. ContinuousInit => ContinuousKept /\ Sender!Init
  BY ContinuousStarts, SenderStarts
<1>2. ContinuousKept /\ [ContinuousNext]_continuousVars
         => ContinuousKept' /\ [Sender!Next]_<<Unsent, Unacked, Open>>
  BY ContinuousGoesOn, ContinuousRefines
<1> QED BY <1>1, <1>2, PTL DEF ContinuousSpec, ImplementsReliableSender, Sender!Spec
=============================================================================

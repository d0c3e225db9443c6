------------------------- MODULE ContinuousFragments -------------------------
(* The continuous fragment mode of an output reliable stream:                *)
(* uxr_prepare_output_stream_fragmented of                                   *)
(* src/src/c/core/session/write_access.c. A topic longer than the stream is  *)
(* serialized by the user into one buffer after the other; when none is      *)
(* free, a callback of the user runs the session to make room, in the middle *)
(* of the write.                                                             *)
(*                                                                           *)
(* Length of such a submessage is its user_required_space. One is written at *)
(* a time, and the callback does not write to the stream while a buffer is   *)
(* being filled.                                                             *)
EXTENDS OutputReliableStream, SequencesExt

CONSTANT Continued     \* the submessages written in this mode

WRITE_DATA_PAYLOAD_SIZE == 4

(* The code takes the size of the payload's base for the room of the message *)
(* header; both are four, as uxr_init_session leaves the client key out of   *)
(* the header. A submessage shorter than a buffer and longer than a block    *)
(* gets two last fragments, and is left out.                                 *)
ASSUME ContinuedAssumption ==
    /\ Continued \subseteq Messages
    /\ Offset = WRITE_DATA_PAYLOAD_SIZE
    /\ \A m \in Continued : Length[m] <= Block \/ Length[m] >= Capacity

(* Who holds the stream: nobody ("none"); the callback that makes room for   *)
(* the first fragment, without the mutex ("prepare"); the user who fills a   *)
(* buffer ("fill"); the callback that makes room for the next one, within    *)
(* the write ("flush").                                                      *)
VARIABLE writing

continuousVars == <<vars, writing>>

NotWriting == [by |-> "none"]

ContinuousInit == Init /\ writing = NotWriting

(* A fresh buffer is always begun.                                           *)
FreshSeqNum ==
    IF size[Slot(last_written)] > Offset THEN SeqNumAdd(last_written, 1) ELSE last_written

(* The buffer of seq_num becomes a fragment; the next one is written next.   *)
PutFragment(seq_num, m, part, isLast, bytes) ==
    /\ size' = [size EXCEPT ![Slot(seq_num)] = bytes]
    /\ data' = [data EXCEPT ![Slot(seq_num)] =
                   Append(@, [msg |-> m, part |-> part, last |-> isLast])]
    /\ last_written' = SeqNumAdd(seq_num, 1)
    /\ UNCHANGED <<last_sent, last_acknown, flashing, heartbeat>>

(* The first fragment takes a whole buffer, however long it is.              *)
BeginContinuous(m) ==
    /\ get_available_free_slots > 0
    /\ PutFragment(FreshSeqNum, m, 1, Length[m] < Capacity, Capacity)
    /\ writing' = [by |-> "fill", msg |-> m, part |-> 1, data_size |-> Length[m]]

PrepareContinuous(m) ==
    /\ writing.by = "none" /\ ~flashing
    /\ BeginContinuous(m)

(* No buffer is free: the callback is called without the mutex.              *)
PrepareCalls(m) ==
    /\ writing.by = "none" /\ ~flashing
    /\ get_available_free_slots = 0
    /\ writing' = [by |-> "prepare", msg |-> m]
    /\ UNCHANGED vars

(* Mutant of Ends: what comes before the data in a buffer is forgotten.      *)
EndsWithoutHeaders(rest) == rest <= Capacity

(* What is left of the submessage fits in one more fragment.                 *)
Ends(rest) == rest + SubheaderSize + WRITE_DATA_PAYLOAD_SIZE <= Capacity

(* on_full_output_buffer_fragmented, once a buffer is free. The fragment     *)
(* that was filled held a block.                                             *)
NextFragment ==
    LET rest == writing.data_size - Block IN
    /\ get_available_free_slots > 0
    /\ PutFragment(last_written, writing.msg, writing.part + 1, Ends(rest),
                   IF Ends(rest) THEN rest + SubheaderSize + WRITE_DATA_PAYLOAD_SIZE
                   ELSE Capacity)
    /\ writing' = [writing EXCEPT !.by = "fill", !.part = @ + 1, !.data_size = rest]

(* The user has more to serialize than the buffer takes.                     *)
FillsBuffer == writing.by = "fill" /\ writing.data_size > Block

OnFull == FillsBuffer /\ NextFragment

OnFullCalls ==
    /\ FillsBuffer
    /\ get_available_free_slots = 0
    /\ writing' = [writing EXCEPT !.by = "flush"]
    /\ UNCHANGED vars

(* The callback succeeds and made room, or the write is given up: what was   *)
(* written of it stays in the stream. A refused send within the callback may *)
(* have handed back a fragment that is full: the code writes the next one    *)
(* behind its end, into no room. Such a write only ends here by being given  *)
(* up.                                                                       *)
CallbackReturns ==
    /\ writing.by \in {"prepare", "flush"} /\ ~flashing
    /\ \/ writing.by = "prepare" /\ BeginContinuous(writing.msg)
       \/ writing.by = "flush" /\ IsEmpty(last_written) /\ NextFragment
       \/ writing' = NotWriting /\ UNCHANGED vars

(* Everything is serialized (examples/ContinuousFragment); the user gives    *)
(* the mutex back.                                                           *)
FillsLast ==
    /\ writing.by = "fill" /\ writing.data_size <= Block
    /\ writing' = NotWriting
    /\ UNCHANGED vars

(* The mutex of the stream is free, or held by the one who wants it.         *)
MayLock == writing.by # "fill"

ContinuousNext ==
    \/ \E m \in Continued : PrepareContinuous(m) \/ PrepareCalls(m)
    \/ OnFull \/ OnFullCalls \/ CallbackReturns \/ FillsLast
    \/ /\ writing.by \in {"none", "prepare"}
       /\ \E m \in Messages \ Continued : Write(m)
       /\ UNCHANGED writing
    \/ /\ MayLock
       /\ FlashBegin \/ UpdateHeartbeat
       /\ UNCHANGED writing
    \/ /\ \/ FlashSend \/ FlashSendFails \/ FlashEnd \/ Tick
          \/ \E first_unacked \in InOrderAcks : ProcessAcknack(first_unacked)
       /\ UNCHANGED writing
    \/ writing.by = "none" /\ Reset /\ UNCHANGED writing

ContinuousSpec == ContinuousInit /\ [][ContinuousNext]_continuousVars

(***************************************************************************)
(* The stream implements ReliableSender: the buffers in flight are the     *)
(* unconfirmed messages; what the buffers behind them hold, read in the    *)
(* order of their sequence numbers around the ring, is what has not been   *)
(* transmitted.                                                            *)
(***************************************************************************)
Unacked == [n \in 1..InFlight |-> data[Slot(SeqNumAdd(last_acknown, n))]]
Unsent ==
    FlattenSeq([n \in 1..History - InFlight |-> data[Slot(SeqNumAdd(last_sent, n))]])

(* The submessage of which the last fragment has not been begun.             *)
Open ==
    IF writing.by \notin {"fill", "flush"} \/ writing.data_size <= Block THEN <<>>
    ELSE <<writing.msg, writing.part>>

Sender == INSTANCE ReliableSender WITH
    Window <- History, MaxFragments <- History,
    unsent <- Unsent, unacked <- Unacked, open <- Open

(* Whatever the sizes of the submessages, and whatever the transport refuses,*)
(* no submessage or fragment of one is lost, reordered, split from its       *)
(* neighbours or changed between being accepted and being confirmed, though  *)
(* buffers are packed, reused around the ring and handed back by             *)
(* uxr_cancel_reliable_buffer_to_send, and though the fragments of one are   *)
(* sent and acknowledged while the rest of it is still written.              *)
ImplementsReliableSender == Sender!Spec
=============================================================================

------------------------ MODULE OutputReliableStream ------------------------
(* The sending half of a reliable stream:                                    *)
(* src/src/c/core/session/stream/output_reliable_stream.c, and the three     *)
(* places of session.c that drive it (flash, listen, acknack).               *)
(*                                                                           *)
(* A stream is a ring of History buffers; the buffer of a sequence number is *)
(* seq_num % History. Three cursors walk the ring:                           *)
(*                                                                           *)
(*     last_acknown  <=  last_sent  <  last_written                          *)
(*                                                                           *)
(* What a buffer holds is abstracted to its size in bytes and the list of    *)
(* submessages (or fragments of one) that were written into it.              *)
EXTENDS SeqNum, Sequences, FiniteSets

CONSTANTS
    History,              \* number of buffers of the stream
    Capacity,             \* bytes of one buffer
    Offset,               \* bytes reserved for the message header
    SubheaderSize,        \* bytes of a submessage header
    Messages,             \* the submessages the user may write
    Length,               \* their sizes in bytes, header and padding included
    HeartbeatInterval,    \* MIN_HEARTBEAT_TIME_INTERVAL, in clock ticks
    HeartbeatTriesSize    \* range of next_heartbeat_tries (2^8 in the code)

(* "assert for history (must be 2^)", says the code, and does not assert it: *)
(* History divides the range of the sequence numbers, and the comparison of  *)
(* sequence numbers must tell a full window from half of the circle.         *)
ASSUME HistoryAssumption ==
    /\ History \in Nat \ {0}
    /\ \E laps \in 1..SeqNumSize : SeqNumSize = History * laps
    /\ 2 * (History + 1) < SeqNumSize

(* The message header takes four or eight bytes, the subheader four.         *)
ASSUME BufferAssumption ==
    /\ Offset \in Nat /\ Offset % 4 = 0
    /\ SubheaderSize \in Nat \ {0}
    /\ Capacity \in Nat /\ Offset + SubheaderSize < Capacity
    /\ Length \in [Messages -> Nat \ {0}]

ASSUME HeartbeatAssumption ==
    /\ HeartbeatInterval \in Nat \ {0}
    /\ HeartbeatTriesSize \in Nat /\ HeartbeatTriesSize > 1

VARIABLES
    last_written,
    last_sent,
    last_acknown,
    size,                       \* size of the buffer in each slot
    data,                       \* what was written into each slot
    flashing,                   \* a flash holds the stream's mutex
    next_heartbeat_timestamp,   \* time left until then, or Never
    next_heartbeat_tries

cursors == <<last_written, last_sent, last_acknown>>
buffers == <<size, data>>
heartbeat == <<next_heartbeat_timestamp, next_heartbeat_tries>>
vars == <<cursors, buffers, flashing, heartbeat>>

(***************************************************************************)
(* Buffers (common_reliable_stream_internal.h).                            *)
(***************************************************************************)
Slots == 0..History - 1
Slot(seq_num) == seq_num % History
IsEmpty(seq_num) == size[Slot(seq_num)] = Offset

Block == Capacity - (Offset + SubheaderSize)
Align(bytes) == bytes + ((4 - (bytes % 4)) % 4)

get_available_free_slots == Cardinality({i \in Slots : size[i] = Offset})

(* A submessage written whole, and the n-th of the fragments of one.         *)
Whole(m) == [msg |-> m, part |-> 0, last |-> TRUE]
Fragment(m, n, fragments) == [msg |-> m, part |-> n, last |-> n = fragments]

Never == HeartbeatInterval + 1    \* INT64_MAX

(* uxr_init_output_reliable_stream, uxr_reset_output_reliable_stream         *)
Init ==
    /\ size = [i \in Slots |-> Offset]
    /\ data = [i \in Slots |-> <<>>]
    /\ last_written = 0
    /\ last_sent = SeqNumMax
    /\ last_acknown = SeqNumMax
    /\ flashing = FALSE
    /\ next_heartbeat_timestamp = Never
    /\ next_heartbeat_tries = 0

(* Creating the session again resets the stream in any state.                *)
Reset ==
    /\ ~flashing
    /\ size' = [i \in Slots |-> Offset]
    /\ data' = [i \in Slots |-> <<>>]
    /\ last_written' = 0
    /\ last_sent' = SeqNumMax
    /\ last_acknown' = SeqNumMax
    /\ next_heartbeat_timestamp' = Never
    /\ next_heartbeat_tries' = 0
    /\ UNCHANGED flashing

(***************************************************************************)
(* uxr_prepare_reliable_buffer_to_write: the submessage goes behind those  *)
(* of the current buffer, or alone into the next one, or in fragments over *)
(* several; the first of the three that its size allows is taken, and the  *)
(* write is refused (no step) when the window has no room for it.          *)
(***************************************************************************)
(* Mutant of InWindow: one buffer too many.                                  *)
InWindowPlusOne(seq_num) ==
    SeqNumCmp(seq_num, SeqNumAdd(last_acknown, History + 1)) <= 0

InWindow(seq_num) == SeqNumCmp(seq_num, SeqNumAdd(last_acknown, History)) <= 0

AlignedSize == Align(size[Slot(last_written)])
FitsInCurrent(len) == AlignedSize + len <= Capacity

(* Mutant of FitsInNext: the room of the message header is forgotten.        *)
FitsInNextWithoutOffset(len) == ~FitsInCurrent(len) /\ len <= Capacity

FitsInNext(len) == ~FitsInCurrent(len) /\ Offset + len <= Capacity

WriteInCurrent(m) ==
    /\ ~flashing
    /\ FitsInCurrent(Length[m])
    /\ InWindow(last_written)
    /\ size' = [size EXCEPT ![Slot(last_written)] = AlignedSize + Length[m]]
    /\ data' = [data EXCEPT ![Slot(last_written)] = Append(@, Whole(m))]
    /\ UNCHANGED <<cursors, flashing, heartbeat>>

WriteInNext(m) ==
    LET seq_num == SeqNumAdd(last_written, 1) IN
    /\ ~flashing
    /\ FitsInNext(Length[m])
    /\ InWindow(seq_num)
    /\ last_written' = seq_num
    /\ size' = [size EXCEPT ![Slot(seq_num)] = Offset + Length[m]]
    /\ data' = [data EXCEPT ![Slot(seq_num)] = <<Whole(m)>>]
    /\ UNCHANGED <<last_sent, last_acknown, flashing, heartbeat>>

(* The first fragment uses what is left of the current buffer, if anything.  *)
StartsInCurrent == AlignedSize + SubheaderSize < Capacity
FirstSeqNum == IF StartsInCurrent THEN last_written ELSE SeqNumAdd(last_written, 1)
FirstFragmentSize ==
    Capacity - SubheaderSize
        - (IF StartsInCurrent THEN AlignedSize ELSE size[Slot(FirstSeqNum)])

(* necessary_complete_blocks: every fragment but the last one fills a block. *)
FullFragments(len) == (len - FirstFragmentSize + Block - 1) \div Block
LastFragmentSize(len) ==
    LET rest == (len - FirstFragmentSize) % Block
    IN  IF rest = 0 THEN Block ELSE rest

WriteFragmented(m) ==
    LET len == Length[m]
        full == FullFragments(len)
        last == SeqNumAdd(FirstSeqNum, full)
        Holds(n, i) == i = Slot(SeqNumAdd(FirstSeqNum, n))
    IN
    /\ ~flashing
    /\ ~FitsInCurrent(len) /\ ~FitsInNext(len)
    /\ len <= Block * get_available_free_slots
    /\ full <= get_available_free_slots
    /\ last_written' = last
    /\ size' = [i \in Slots |->
                  IF i = Slot(last) THEN Offset + SubheaderSize + LastFragmentSize(len)
                  ELSE IF \E n \in 0..full - 1 : Holds(n, i) THEN Capacity
                  ELSE size[i]]
    /\ data' = [i \in Slots |->
                  IF \E n \in 0..full : Holds(n, i)
                  THEN LET n == CHOOSE n \in 0..full : Holds(n, i)
                       IN  Append(data[i], Fragment(m, n + 1, full + 1))
                  ELSE data[i]]
    /\ UNCHANGED <<last_sent, last_acknown, flashing, heartbeat>>

Write(m) == WriteInCurrent(m) \/ WriteInNext(m) \/ WriteFragmented(m)

(***************************************************************************)
(* uxr_flash_output_streams: with the mutex held, prepare a buffer and     *)
(* send it until none is left or the transport refuses one. One step is    *)
(* one turn of that loop.                                                  *)
(***************************************************************************)
NextToSend == SeqNumAdd(last_sent, 1)

(* Mutant of CanSend: the full window is not tested.                         *)
CanSendBeyondWindow ==
    /\ SeqNumCmp(NextToSend, last_written) <= 0
    /\ size[Slot(NextToSend)] > Offset

CanSend ==
    /\ SeqNumCmp(NextToSend, last_written) <= 0
    /\ size[Slot(NextToSend)] > Offset
    /\ SeqNumSub(last_sent, last_acknown) # History

(* The buffer to be sent is closed: the next submessage opens another one.   *)
WrittenOncePrepared ==
    IF NextToSend = last_written THEN SeqNumAdd(last_written, 1) ELSE last_written

FlashBegin ==
    /\ ~flashing
    /\ flashing' = TRUE
    /\ UNCHANGED <<cursors, buffers, heartbeat>>

FlashSend ==
    /\ flashing /\ CanSend
    /\ last_sent' = NextToSend
    /\ last_written' = WrittenOncePrepared
    /\ UNCHANGED <<last_acknown, buffers, flashing, heartbeat>>

(* send_message fails: uxr_cancel_reliable_buffer_to_send, and the loop ends.*)
FlashSendFails ==
    LET seq_num == NextToSend
        next == SeqNumAdd(seq_num, 1)
    IN
    /\ flashing /\ CanSend
    /\ last_sent' = SeqNumSub(seq_num, 1)
    /\ last_written' = IF WrittenOncePrepared = next /\ IsEmpty(next)
                       THEN seq_num ELSE WrittenOncePrepared
    /\ flashing' = FALSE
    /\ UNCHANGED <<last_acknown, buffers, heartbeat>>

FlashEnd ==
    /\ flashing /\ ~CanSend
    /\ flashing' = FALSE
    /\ UNCHANGED <<cursors, buffers, heartbeat>>

(***************************************************************************)
(* uxr_update_output_stream_heartbeat_timestamp, called by every turn of   *)
(* listen_message_reliably; a heartbeat is sent when it returns true.      *)
(***************************************************************************)
HasUnacked == SeqNumCmp(last_acknown, last_sent) < 0
MustConfirm ==
    HasUnacked /\ next_heartbeat_tries # 0 /\ next_heartbeat_timestamp = 0

UpdateHeartbeat ==
    /\ ~flashing
    /\ next_heartbeat_timestamp' = IF HasUnacked THEN HeartbeatInterval ELSE Never
    /\ next_heartbeat_tries' =
          IF HasUnacked /\ next_heartbeat_tries = 0 THEN 1
          ELSE IF MustConfirm THEN (next_heartbeat_tries + 1) % HeartbeatTriesSize
          ELSE next_heartbeat_tries
    /\ UNCHANGED <<cursors, buffers, flashing>>

Tick ==
    /\ next_heartbeat_timestamp \in 1..HeartbeatInterval
    /\ next_heartbeat_timestamp' = next_heartbeat_timestamp - 1
    /\ UNCHANGED <<cursors, buffers, flashing, next_heartbeat_tries>>

(* Mutant of Cleaned: first_unacked is taken for acknowledged.               *)
CleanedPlusOne(first_unacked) == SeqNumSub(first_unacked, last_acknown)

(***************************************************************************)
(* read_submessage_acknack: uxr_process_acknack frees the buffers up to    *)
(* first_unacked - 1, then every buffer that was sent and is still held is *)
(* sent again when the bitmap asks for any (send_lost is true only within  *)
(* the handler). It takes the mutex of the INPUT stream of the same index, *)
(* so a flash in progress in another thread does not exclude it.           *)
(***************************************************************************)
Cleaned(first_unacked) ==
    SeqNumSub(SeqNumSub(first_unacked, 1), last_acknown)

ProcessAcknack(first_unacked) ==
    LET cleaned == Cleaned(first_unacked)
        Freed(i) == \E n \in 1..cleaned : i = Slot(SeqNumAdd(last_acknown, n))
    IN
    /\ last_acknown' = SeqNumAdd(last_acknown, cleaned)
    /\ size' = [i \in Slots |-> IF Freed(i) THEN Offset ELSE size[i]]
    /\ data' = [i \in Slots |-> IF Freed(i) THEN <<>> ELSE data[i]]
    /\ next_heartbeat_tries' = 0
    /\ UNCHANGED <<last_written, last_sent, flashing, next_heartbeat_timestamp>>

(* Mutant of SentAndHeld: the last one sent is not visited.                  *)
SentAndHeldButLast ==
    {s \in {SeqNumAdd(last_acknown, n) : n \in 1..SeqNumSub(last_sent, last_acknown) - 1} :
        ~IsEmpty(s)}

(* The sequence numbers the nack iterator visits once it has been processed. *)
SentAndHeld ==
    {s \in {SeqNumAdd(last_acknown, n) : n \in 1..SeqNumSub(last_sent, last_acknown)} :
        ~IsEmpty(s)}

(* What an Agent that receives acknacks in order can report: everything up   *)
(* to some sequence number that was sent and not acknowledged before.        *)
InOrderAcks ==
    {SeqNumAdd(last_acknown, n + 1) : n \in 0..SeqNumSub(last_sent, last_acknown)}

uxr_is_output_up_to_date == SeqNumCmp(last_acknown, last_sent) = 0

Next ==
    \/ \E m \in Messages : Write(m)
    \/ FlashBegin
    \/ FlashSend
    \/ FlashSendFails
    \/ FlashEnd
    \/ UpdateHeartbeat
    \/ Tick
    \/ \E first_unacked \in InOrderAcks : ProcessAcknack(first_unacked)
    \/ Reset

Spec == Init /\ [][Next]_vars

(***************************************************************************)
(* Properties.                                                             *)
(***************************************************************************)
Chunks == [msg : Messages, part : Nat, last : BOOLEAN]

(* Every cursor is a sequence number, and every buffer holds submessages     *)
(* within its capacity.                                                      *)
TypeOK ==
    /\ last_written \in SeqNums
    /\ last_sent \in SeqNums
    /\ last_acknown \in SeqNums
    /\ size \in [Slots -> Offset..Capacity]
    /\ data \in [Slots -> Seq(Chunks)]
    /\ flashing \in BOOLEAN
    /\ next_heartbeat_timestamp \in 0..Never
    /\ next_heartbeat_tries \in 0..HeartbeatTriesSize - 1

InFlight == SeqNumSub(last_sent, last_acknown)
Ahead == SeqNumSub(last_written, last_acknown)

(* The three cursors keep their order around the circle, whatever is written,*)
(* sent, refused by the transport or acknowledged: at most History buffers   *)
(* are in flight, and last_written stays ahead of last_sent by no more than  *)
(* what the window can hold.                                                 *)
WindowBounded ==
    /\ InFlight <= History
    /\ InFlight < Ahead
    /\ Ahead <= History + 1

(* Slots of the window in use: those behind last_written hold data (an empty *)
(* one would stop prepare_next_reliable_buffer_to_send for ever), those out  *)
(* of the window are free (else get_available_free_slots loses them).        *)
WindowFilled ==
    \A n \in 1..History :
        LET s == SeqNumAdd(last_acknown, n) IN
        /\ n < Ahead => ~IsEmpty(s)
        /\ n > Ahead => IsEmpty(s)

(* A buffer that was sent keeps what it held, so that a retransmission       *)
(* carries what the first transmission did, until it is acknowledged (or the *)
(* stream is reset).                                                         *)
UnackedUnchanged ==
    [][\/ Reset
       \/ \A n \in SeqNumSub(last_acknown', last_acknown) + 1..InFlight :
             LET i == Slot(SeqNumAdd(last_acknown, n))
             IN  size'[i] = size[i] /\ data'[i] = data[i]]_vars
=============================================================================

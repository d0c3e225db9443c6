------------------------- MODULE InputReliableStream -------------------------
(* The receiving half of a reliable stream:                                  *)
(* src/src/c/core/session/stream/input_reliable_stream.c, and the handlers   *)
(* of session.c that drive it (read_stream, read_submessage_heartbeat,       *)
(* write_submessage_acknack).                                                *)
(*                                                                           *)
(* Messages that come early wait in a ring of History buffers. A message is  *)
(* abstracted to what tells fragments apart: part 0 is a message that needs  *)
(* no other one; the fragments of a submessage are parts 1, 2, ..., the last *)
(* of them marked so.                                                        *)
EXTENDS SeqNum, Sequences, FiniteSets

CONSTANTS
    History,        \* number of buffers of the stream
    BitmapWidth,    \* bits of a nack bitmap (16)
    Messages        \* the messages that may arrive

ASSUME HistoryAssumption ==
    /\ History \in Nat \ {0}
    /\ \E laps \in 1..SeqNumSize : SeqNumSize = History * laps
    /\ 2 * (History + 1) < SeqNumSize

ASSUME BitmapAssumption == BitmapWidth \in Nat \ {0}

VARIABLES
    last_handled,
    last_announced,
    slots,          \* the message each buffer holds, or None
    looping,        \* check_last_fragment never returns
    delivered,      \* the messages read by the last step that read any ...
    round           \* ... and the parity of the number of such steps

vars == <<last_handled, last_announced, slots, looping, delivered, round>>

None == [msg |-> "none"]

(* A submessage that is not fragmented ends with its only message.           *)
ASSUME MessagesAssumption ==
    \A p \in Messages :
        /\ p # None
        /\ p.part \in Nat /\ p.last \in BOOLEAN
        /\ p.part = 0 => p.last

(* on_get_fragmentation_info                                                 *)
NO_FRAGMENTED(p) == p # None /\ p.part = 0
INTERMEDIATE_FRAGMENT(p) == p # None /\ p.part # 0 /\ ~p.last
LAST_FRAGMENT(p) == p # None /\ p.part # 0 /\ p.last
EndsSubmessage(p) == NO_FRAGMENTED(p) \/ LAST_FRAGMENT(p)

Slots == 0..History - 1
Slot(seq_num) == seq_num % History

(* uxr_init_input_reliable_stream, uxr_reset_input_reliable_stream           *)
Init ==
    /\ last_handled = SeqNumMax
    /\ last_announced = SeqNumMax
    /\ slots = [i \in Slots |-> None]
    /\ looping = FALSE
    /\ delivered = <<>>
    /\ round = 0

(***************************************************************************)
(* uxr_next_input_reliable_buffer_available, called until it returns false,*)
(* and the reading of what it hands out: from the buffer that follows      *)
(* `handled`, every message up to the last complete one. The buffers of a  *)
(* fragmented message are emptied by on_full_input_buffer as the read runs *)
(* through them (read_format_data clears cleanup_flag while the user's     *)
(* callback reads a copy, and advances over the message afterwards).       *)
(***************************************************************************)
Held(held, handled, n) == held[Slot(SeqNumAdd(handled, n))]

(* Mutant of Readable: the last message read need not be complete.           *)
ReadableIncomplete(held, handled, n) ==
    \A i \in 1..n : Held(held, handled, i) # None

Readable(held, handled, n) ==
    /\ \A i \in 1..n : Held(held, handled, i) # None
    /\ \A i \in 1..n - 1 :
          INTERMEDIATE_FRAGMENT(Held(held, handled, i))
             => ~NO_FRAGMENTED(Held(held, handled, i + 1))
    /\ n > 0 => EndsSubmessage(Held(held, handled, n))

AllReadable(held, handled) ==
    CHOOSE n \in 0..History :
        /\ Readable(held, handled, n)
        /\ \A m \in n + 1..History : ~Readable(held, handled, m)

(* on_full_input_buffer                                                      *)
Emptied(held, handled, n) ==
    [i \in Slots |->
        IF \E k \in 1..n : i = Slot(SeqNumAdd(handled, k)) THEN None ELSE held[i]]

(* What a step leaves when `first` were read straight from the transport.    *)
ReadAll(held, handled, first) ==
    LET n == AllReadable(held, handled)
        read == first \o [i \in 1..n |-> Held(held, handled, i)]
    IN
    /\ last_handled' = SeqNumAdd(handled, n)
    /\ slots' = Emptied(held, handled, n)
    /\ delivered' = read
    /\ round' = 1 - round

(* check_last_fragment: a run of intermediate fragments that starts at the   *)
(* next buffer and ends with a last one.                                     *)
LastFragmentFound(held) ==
    \E n \in 1..History :
        /\ LAST_FRAGMENT(Held(held, last_handled, n))
        /\ \A i \in 1..n - 1 : INTERMEDIATE_FRAGMENT(Held(held, last_handled, i))

(* Its loop has no other end than a buffer that is not an intermediate       *)
(* fragment, and the ring comes round again. (The first is a mutant, whose   *)
(* loop does not end at an empty buffer either.)                             *)
NeverEndsThroughEmpty(held) ==
    \A i \in Slots : held[i] = None \/ INTERMEDIATE_FRAGMENT(held[i])

NeverEnds(held) == \A i \in Slots : INTERMEDIATE_FRAGMENT(held[i])

(***************************************************************************)
(* read_stream: uxr_receive_reliable_message, the reading of everything    *)
(* that became readable, and an acknack in any case.                       *)
(***************************************************************************)
(* Mutant of InWindow: one buffer too many.                                  *)
InWindowPlusOne(seq_num) ==
    /\ SeqNumCmp(last_handled, seq_num) < 0
    /\ SeqNumCmp(SeqNumAdd(last_handled, History + 1), seq_num) >= 0

InWindow(seq_num) ==
    /\ SeqNumCmp(last_handled, seq_num) < 0
    /\ SeqNumCmp(SeqNumAdd(last_handled, History), seq_num) >= 0

IsNext(seq_num, p) == NO_FRAGMENTED(p) /\ seq_num = SeqNumAdd(last_handled, 1)

Announce(seq_num) ==
    last_announced' =
        IF SeqNumCmp(last_announced, seq_num) < 0 THEN seq_num ELSE last_announced

(* The expected message is read without being stored.                        *)
ReceiveNext(seq_num, p) ==
    /\ InWindow(seq_num) /\ IsNext(seq_num, p)
    /\ ReadAll(slots, seq_num, <<p>>)
    /\ Announce(seq_num)
    /\ UNCHANGED looping

(* One that is early, or a fragment, is stored unless its buffer is taken.   *)
ReceiveAndStore(seq_num, p) ==
    LET held == [slots EXCEPT ![Slot(seq_num)] = p] IN
    /\ InWindow(seq_num) /\ ~IsNext(seq_num, p)
    /\ slots[Slot(seq_num)] = None
    /\ \/ NO_FRAGMENTED(p) \/ (~NeverEnds(held) /\ ~LastFragmentFound(held))
    /\ slots' = held
    /\ Announce(seq_num)
    /\ UNCHANGED <<last_handled, looping, delivered, round>>

ReceiveAndComplete(seq_num, p) ==
    LET held == [slots EXCEPT ![Slot(seq_num)] = p] IN
    /\ InWindow(seq_num) /\ ~NO_FRAGMENTED(p)
    /\ slots[Slot(seq_num)] = None
    /\ LastFragmentFound(held)
    /\ ReadAll(held, last_handled, <<>>)
    /\ Announce(seq_num)
    /\ UNCHANGED looping

ReceiveAndLoop(seq_num, p) ==
    LET held == [slots EXCEPT ![Slot(seq_num)] = p] IN
    /\ InWindow(seq_num) /\ ~NO_FRAGMENTED(p)
    /\ slots[Slot(seq_num)] = None
    /\ NeverEnds(held)
    /\ slots' = held
    /\ looping' = TRUE
    /\ UNCHANGED <<last_handled, last_announced, delivered, round>>

(* Already handled, already stored or too far ahead: only announced.         *)
ReceiveAndIgnore(seq_num, p) ==
    /\ \/ ~InWindow(seq_num)
       \/ ~IsNext(seq_num, p) /\ slots[Slot(seq_num)] # None
    /\ Announce(seq_num)
    /\ UNCHANGED <<last_handled, slots, looping, delivered, round>>

Receive(seq_num, p) ==
    /\ ~looping
    /\ \/ ReceiveNext(seq_num, p)
       \/ ReceiveAndStore(seq_num, p)
       \/ ReceiveAndComplete(seq_num, p)
       \/ ReceiveAndLoop(seq_num, p)
       \/ ReceiveAndIgnore(seq_num, p)

(* uxr_process_heartbeat: the first sequence number is not looked at.        *)
ProcessHeartbeat(last_seq_num) ==
    /\ ~looping
    /\ Announce(last_seq_num)
    /\ UNCHANGED <<last_handled, slots, looping, delivered, round>>

(***************************************************************************)
(* uxr_compute_acknack and uxr_get_first_unacked, for the acknack that     *)
(* both handlers end with.                                                 *)
(***************************************************************************)
Gaps == {n \in 1..History : Held(slots, last_handled, n) = None}

(* Mutant of FirstUnacked: the first gap is passed over.                     *)
FirstUnackedPastGap ==
    IF Gaps = {} THEN last_handled
    ELSE SeqNumAdd(last_handled, (CHOOSE n \in Gaps : \A m \in Gaps : n <= m) + 1)

FirstUnacked ==
    IF Gaps = {} THEN last_handled
    ELSE SeqNumAdd(last_handled, CHOOSE n \in Gaps : \A m \in Gaps : n <= m)

(* Mutant of BuffersToAck: the last message announced is left out.           *)
BuffersToAckButLast == SeqNumSub(last_announced, FirstUnacked)

BuffersToAck == SeqNumSub(last_announced, SeqNumSub(FirstUnacked, 1))

(* Bit i asks for first_unacked + i; a bit beyond the bitmap is lost.        *)
NackBitmap ==
    {i \in 0..BuffersToAck - 1 :
        i < BitmapWidth /\ slots[Slot(SeqNumAdd(FirstUnacked, i))] = None}

uxr_is_input_up_to_date == last_announced = last_handled

Next ==
    \/ \E seq_num \in SeqNums, p \in Messages : Receive(seq_num, p)
    \/ \E seq_num \in SeqNums : ProcessHeartbeat(seq_num)

Spec == Init /\ [][Next]_vars

(* The cursors are sequence numbers and a buffer holds one message at most.  *)
TypeOK ==
    /\ last_handled \in SeqNums
    /\ last_announced \in SeqNums
    /\ slots \in [Slots -> Messages \cup {None}]
    /\ looping \in BOOLEAN
    /\ delivered \in Seq(Messages)
    /\ round \in {0, 1}
=============================================================================

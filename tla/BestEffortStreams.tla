-------------------------- MODULE BestEffortStreams --------------------------
(* A best-effort stream in each direction: one buffer that is written, sent  *)
(* once and forgotten, and the number of the last message that was read.     *)
(* src/src/c/core/session/stream/{output,input}_best_effort_stream.c         *)
EXTENDS SeqNum, Sequences

CONSTANTS
    BufferSize,   \* octets of the output buffer
    Offset        \* octets in front of it for the header of the message

ASSUME BufferAssumption ==
    /\ BufferSize \in Nat /\ Offset \in {4, 8} /\ Offset <= BufferSize

SUBHEADER_SIZE == 4

VARIABLES
    writer,          \* octets written, those of the header included
    last_send,       \* number of the last message sent
    buffer,          \* the octets behind the header
    last_handled     \* number of the last message read

outputVars == <<writer, last_send, buffer>>

(* uxr_submessage_padding                                                    *)
SubmessagePadding(length) == (-length) % SUBHEADER_SIZE

(* uxr_init_output_best_effort_stream, uxr_init_input_best_effort_stream     *)
StreamsInit ==
    /\ writer = Offset /\ last_send = SeqNumMax /\ buffer = <<>>
    /\ last_handled = SeqNumMax

(* What a submessage takes: its header, its payload and what aligns the next *)
(* one.                                                                      *)
SubmessageSize(length) == SUBHEADER_SIZE + length + SubmessagePadding(length)

(* The test of uxr_prepare_best_effort_buffer_to_write.                      *)
Fits(size) == writer + SubmessagePadding(writer) + size <= BufferSize

(* The octets are written within the space reserved for them: what does not  *)
(* fit is lost, what is not written stays as it was.                         *)
Confined(octets, size) ==
    [i \in 1..size |-> IF i <= Len(octets) THEN octets[i] ELSE 0]

Written == SubSeq(buffer, 1, writer - Offset)

(* uxr_prepare_best_effort_buffer_to_write for a payload of length octets,   *)
(* and what the caller writes there. The cursor moves by the size alone: a   *)
(* size is always a multiple of four, and so is the cursor.                  *)
PrepareToWrite(length, octets) ==
    LET size == SubmessageSize(length) IN
    /\ Fits(size)
    /\ buffer' = Written \o Confined(<<>>, SubmessagePadding(writer))
                         \o Confined(octets, size)
    /\ writer' = writer + size
    /\ UNCHANGED last_send

(* uxr_prepare_best_effort_buffer_to_send                                    *)
DataToSend == writer > Offset
PrepareToSend ==
    /\ DataToSend
    /\ last_send' = SeqNumAdd(last_send, 1)
    /\ writer' = Offset /\ buffer' = <<>>

(* Mutant of Receivable: any number but the last one is taken for new.       *)
ReceivableIfOther(seq_num) == seq_num # last_handled

(* uxr_receive_best_effort_message: only what is newer than the last message *)
(* is read; what was skipped is never read.                                  *)
Receivable(seq_num) == SeqNumCmp(last_handled, seq_num) < 0
Receive(seq_num) ==
    last_handled' = IF Receivable(seq_num) THEN seq_num ELSE last_handled
=============================================================================

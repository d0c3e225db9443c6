----------------------------- MODULE TcpTransport -----------------------------
(* Messages over TCP, each behind its size in two octets:                    *)
(* src/src/c/profile/transport/ip/tcp/tcp_transport.c and the calls of       *)
(* tcp_transport_posix.c. One end writes as send_tcp_msg does, the other one *)
(* reads as recv_tcp_msg and read_tcp_data do. The reader's state outlives   *)
(* a call, which may end after any turn of its loop.                         *)
EXTENDS Naturals, Sequences

CONSTANTS
    TcpMessages,                 \* what is sent
    OctetSize,                   \* values of an octet (256)
    SizeTaken,                   \* octets of a size that the line may take at once
    UXR_MAX_WRITE_TCP_ATTEMPS,
    MaxUnread                    \* messages sent and not read, at most

ASSUME TcpAssumption ==
    /\ OctetSize \in Nat \ {0, 1} /\ SizeTaken \subseteq {1, 2}
    /\ UXR_MAX_WRITE_TCP_ATTEMPS \in Nat \ {0} /\ MaxUnread \in Nat
    /\ \A m \in TcpMessages : /\ m \in Seq(0..OctetSize - 1)
                              /\ Len(m) \in 1..OctetSize * OctetSize - 1

VARIABLES
    tcp_line,                     \* octets written and not read
    tcp_sending,                  \* what send_tcp_msg is at
    sender_fd, reader_fd,         \* each end's side of the connection
    tcp_state, msg_size, input,   \* the reader's buffer
    tcp_sent,                     \* messages sent whole and not read
    tcp_received, tcp_round       \* the one read last, the parity of their number

sender == <<tcp_sending, sender_fd>>
reader == <<reader_fd, tcp_state, msg_size, input>>
tcp_outcome == <<tcp_received, tcp_round>>
tcp_vars == <<tcp_line, sender, reader, tcp_sent, tcp_outcome>>

NotSending == [pc |-> "none", msg |-> <<>>, bytes_sent |-> 0, n_attemps |-> 0]

InitTcp ==
    /\ tcp_line = <<>> /\ tcp_sending = NotSending
    /\ sender_fd = "open" /\ reader_fd = "open"
    /\ tcp_state = "empty" /\ msg_size = 0 /\ input = <<>>
    /\ tcp_sent = <<>> /\ tcp_received = <<>> /\ tcp_round = 0

(***************************************************************************)
(* send_tcp_msg: the size, then the message, each in as many writes as it  *)
(* takes.                                                                  *)
(***************************************************************************)
SizeOf(msg) == <<Len(msg) % OctetSize, Len(msg) \div OctetSize>>

Send(msg) ==
    /\ tcp_sending.pc = "none" /\ Len(tcp_sent) < MaxUnread
    /\ tcp_sending' = [NotSending EXCEPT !.pc = "size", !.msg = msg]
    /\ UNCHANGED <<tcp_line, sender_fd, reader, tcp_sent, tcp_outcome>>

(* What is written to an end that is closed goes nowhere.                    *)
Put(octets) == tcp_line' = IF reader_fd = "open" THEN tcp_line \o octets ELSE tcp_line

(* uxr_disconnect_tcp_platform, the message not sent.                        *)
Disconnects == sender_fd' = "closed" /\ tcp_sending' = NotSending

(* Another attempt, or none left.                                            *)
TriesAgain(bytes_sent) ==
    LET tried == tcp_sending.n_attemps + 1 IN
    IF tried < UXR_MAX_WRITE_TCP_ATTEMPS
    THEN /\ tcp_sending' = [tcp_sending EXCEPT !.bytes_sent = bytes_sent, !.n_attemps = tried]
         /\ UNCHANGED sender_fd
    ELSE Disconnects

(* The size is written from its start again whatever was taken of it before. *)
WriteSize ==
    /\ tcp_sending.pc = "size" /\ sender_fd = "open"
    /\ \E n \in SizeTaken :
        LET bytes_sent == tcp_sending.bytes_sent + n IN
        /\ Put(SubSeq(SizeOf(tcp_sending.msg), 1, n))
        /\ IF bytes_sent = 2
           THEN /\ tcp_sending' = [tcp_sending EXCEPT !.pc = "payload", !.bytes_sent = 0,
                                                      !.n_attemps = 0]
                /\ UNCHANGED sender_fd
           ELSE TriesAgain(bytes_sent)
    /\ UNCHANGED <<reader, tcp_sent, tcp_outcome>>

(* Mutant of Rest: every write of a message begins with its first octet.     *)
FromTheStart(msg, bytes_sent) == msg

(* What is still to be written of a message.                                 *)
Rest(msg, bytes_sent) == SubSeq(msg, bytes_sent + 1, Len(msg))

WritePayload ==
    /\ tcp_sending.pc = "payload" /\ sender_fd = "open"
    /\ LET msg == tcp_sending.msg
           left == Len(msg) - tcp_sending.bytes_sent
       IN \E n \in 1..left :
            /\ Put(SubSeq(Rest(msg, tcp_sending.bytes_sent), 1, n))
            /\ IF n = left
               THEN /\ tcp_sending' = NotSending /\ UNCHANGED sender_fd
                    /\ tcp_sent' = IF reader_fd = "open" THEN Append(tcp_sent, msg) ELSE tcp_sent
               ELSE TriesAgain(tcp_sending.bytes_sent + n) /\ UNCHANGED tcp_sent
    /\ UNCHANGED <<reader, tcp_outcome>>

(* A write that takes nothing, with or without an error; one on a connection *)
(* that is closed is an error.                                               *)
WriteTakesNothing ==
    /\ tcp_sending.pc # "none" /\ sender_fd = "open"
    /\ TriesAgain(tcp_sending.bytes_sent)
    /\ UNCHANGED <<tcp_line, reader, tcp_sent, tcp_outcome>>
WriteFails ==
    /\ tcp_sending.pc # "none"
    /\ Disconnects
    /\ UNCHANGED <<tcp_line, reader, tcp_sent, tcp_outcome>>

(***************************************************************************)
(* read_tcp_data; one action is one turn of its loop.                      *)
(***************************************************************************)
Fewer(m, n) == IF m < n THEN m ELSE n
Arrives(n, max) == reader_fd = "open" /\ n \in 1..Fewer(max, Len(tcp_line))
Removed(n) == SubSeq(tcp_line, n + 1, Len(tcp_line))

SizeReadIn(lsb, msb) == OctetSize * msb + lsb

StateOfSize(size) == IF size = 0 THEN "empty" ELSE "size_read"

ReadSize ==
    /\ tcp_state = "empty"
    /\ \E n \in 1..2 :
        /\ Arrives(n, 2)
        /\ tcp_line' = Removed(n)
        /\ msg_size' = IF n = 2 THEN SizeReadIn(tcp_line[1], tcp_line[2]) ELSE tcp_line[1]
        /\ tcp_state' = IF n = 2 THEN StateOfSize(msg_size') ELSE "size_incomplete"
    /\ input' = <<>>
    /\ UNCHANGED <<sender, reader_fd, tcp_sent, tcp_outcome>>

ReadRestOfSize ==
    /\ tcp_state = "size_incomplete" /\ Arrives(1, 1)
    /\ tcp_line' = Removed(1)
    /\ msg_size' = SizeReadIn(msg_size, tcp_line[1])
    /\ tcp_state' = StateOfSize(msg_size')
    /\ UNCHANGED <<sender, reader_fd, input, tcp_sent, tcp_outcome>>

ReadMessage ==
    /\ tcp_state \in {"size_read", "message_incomplete"}
    /\ \E n \in 1..msg_size - Len(input) :
        /\ Arrives(n, msg_size - Len(input))
        /\ tcp_line' = Removed(n)
        /\ input' = input \o SubSeq(tcp_line, 1, n)
        /\ tcp_state' = IF Len(input') = msg_size THEN "message_available"
                        ELSE "message_incomplete"
    /\ UNCHANGED <<sender, reader_fd, msg_size, tcp_sent, tcp_outcome>>

(* The message is the caller's.                                              *)
ReturnMessage ==
    /\ tcp_state = "message_available"
    /\ tcp_state' = "empty"
    /\ tcp_received' = input /\ tcp_round' = 1 - tcp_round
    /\ tcp_sent' = IF tcp_sent = <<>> THEN <<>> ELSE Tail(tcp_sent)
    /\ UNCHANGED <<tcp_line, sender, reader_fd, msg_size, input>>

(* A read that fails closes the reader's end: nothing is read any more. That *)
(* nothing arrives in time changes nothing.                                  *)
ReadFails ==
    /\ reader_fd = "open" /\ tcp_state # "message_available"
    /\ reader_fd' = "closed"
    /\ tcp_line' = <<>> /\ tcp_sent' = <<>>
    /\ UNCHANGED <<sender, tcp_state, msg_size, input, tcp_outcome>>

(* uxr_init_tcp_transport at both ends, after either closed the connection.  *)
Reconnect ==
    /\ tcp_sending.pc = "none" /\ "closed" \in {sender_fd, reader_fd}
    /\ tcp_line' = <<>> /\ sender_fd' = "open" /\ reader_fd' = "open"
    /\ tcp_state' = "empty" /\ tcp_sent' = <<>>
    /\ UNCHANGED <<tcp_sending, msg_size, input, tcp_outcome>>

TcpReads == ReadSize \/ ReadRestOfSize \/ ReadMessage \/ ReturnMessage

NextTcp ==
    \/ \E msg \in TcpMessages : Send(msg)
    \/ WriteSize \/ WritePayload \/ WriteTakesNothing \/ WriteFails
    \/ TcpReads \/ ReadFails \/ Reconnect

(* The application calls again and again; what was written arrives.          *)
TcpFairness == WF_tcp_vars(TcpReads)

TcpSpec == InitTcp /\ [][NextTcp]_tcp_vars

(***************************************************************************)
(* The connection implements FramedLine: a message is written when its     *)
(* last octet is.                                                          *)
(***************************************************************************)
SentMessages == [n \in 1..Len(tcp_sent) |-> [payload |-> tcp_sent[n], kind |-> "whole"]]

Connection == INSTANCE FramedLine WITH
    Payloads <- TcpMessages, frames <- SentMessages,
    received <- tcp_received, round <- tcp_round, MayBreak <- TRUE

(* However the messages are cut into writes and reads, what is read over TCP *)
(* is what was sent with success, whole, once and in order, and all of it,   *)
(* unless the connection is lost; then all that was under way is, and what   *)
(* was sent only in part is read by nobody.                                  *)
ImplementsConnection == Connection!Spec
=============================================================================

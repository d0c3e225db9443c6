--------------------------- MODULE StreamFraming ---------------------------
(* The framing of messages on a serial line or a custom byte stream:         *)
(* src/src/c/profile/transport/stream_framing/stream_framing_protocol.c, as  *)
(* serial_transport.c and custom_transport.c call it.                        *)
(*                                                                           *)
(* A frame is a flag, two addresses, a length, the payload and its checksum; *)
(* flags inside it are escaped. The reader keeps a ring of octets read ahead *)
(* and a state, both across calls: a call may end anywhere in a frame.       *)
EXTENDS Naturals, Sequences

CONSTANTS
    RingSize,      \* octets of the reader's ring (42)
    MaxLength,     \* octets of the reader's buffer
    Payloads,      \* the messages that are written
    CutPayloads,   \* the ones of them whose frames may be cut
    local_addr, remote_addr, other_addr,
    MaxFrames      \* frames written and not read, at most

UXR_FRAMING_BEGIN_FLAG == 126
UXR_FRAMING_ESC_FLAG == 125

ASSUME FramingAssumption ==
    /\ RingSize \in Nat /\ RingSize > 5
    /\ MaxLength \in Nat /\ MaxLength < 65536 /\ MaxFrames \in Nat
    /\ Payloads \subseteq UNION {[1..n -> 0..255] : n \in 0..MaxLength}
    /\ Payloads # {} /\ CutPayloads \subseteq Payloads
    /\ {local_addr, remote_addr, other_addr} \subseteq 0..255
    /\ other_addr \notin {local_addr, remote_addr}

VARIABLES
    wire,                \* octets written and not read
    rb, rb_tail,         \* what the ring holds, from rb_tail on
    reading,             \* a call of uxr_read_framed_msg is in progress
    state, src_addr, msg_len, buf, msg_crc, cmp_crc,
    frames,              \* the frames written since the last message was read
    received, frame_round      \* the message read last, the parity of their number

ring == <<rb, rb_tail>>
message == <<src_addr, msg_len, buf, msg_crc, cmp_crc>>
outcome == <<frames, received, frame_round>>
vars == <<wire, ring, reading, state, message, outcome>>

Init ==
    /\ wire = <<>>
    /\ rb = <<>> /\ rb_tail = 0
    /\ reading = FALSE /\ state = "uninitialized"
    /\ src_addr = 0 /\ msg_len = 0 /\ buf = <<>> /\ msg_crc = 0 /\ cmp_crc = 0
    /\ frames = <<>> /\ received = <<>> /\ frame_round = 0

(***************************************************************************)
(* Writing: uxr_write_framed_msg, of which the line takes all or, when it  *)
(* refuses octets (uxr_framing_write_transport), the first ones only.      *)
(***************************************************************************)
(* a ^ b of octets, by halves of them, which are looked up in a table.       *)
XorBit(a, b, bit) == (((a \div bit) + (b \div bit)) % 2) * bit
HalfXor ==
    [a \in 0..15 |-> [b \in 0..15 |->
        XorBit(a, b, 1) + XorBit(a, b, 2) + XorBit(a, b, 4) + XorBit(a, b, 8)]]
OctetXor(a, b) == 16 * HalfXor[a \div 16][b \div 16] + HalfXor[a % 16][b % 16]

(* The table of the polynomial 0x8005 with its bits in reverse, 0xA001: an   *)
(* octet after eight shifts.                                                 *)
Shifted(n) ==
    LET half == n \div 2 IN
    IF n % 2 = 1 THEN 256 * OctetXor(half \div 256, 160) + OctetXor(half % 256, 1) ELSE half
ShiftedFourTimes(n) == Shifted(Shifted(Shifted(Shifted(n))))
crc16_table == [octet \in 0..255 |-> ShiftedFourTimes(ShiftedFourTimes(octet))]

uxr_update_crc(crc, octet) ==
    LET entry == crc16_table[OctetXor(crc % 256, octet)]
    IN  256 * (entry \div 256) + OctetXor(crc \div 256, entry % 256)

Crc(octets) ==
    LET f[n \in 0..Len(octets)] ==
            IF n = 0 THEN 0 ELSE uxr_update_crc(f[n - 1], octets[n])
    IN  f[Len(octets)]

UXR_FRAMING_XOR_FLAG == 32

(* octet ^ UXR_FRAMING_XOR_FLAG                                              *)
Flipped(octet) ==
    IF (octet \div UXR_FRAMING_XOR_FLAG) % 2 = 1 THEN octet - UXR_FRAMING_XOR_FLAG
    ELSE octet + UXR_FRAMING_XOR_FLAG

(* uxr_add_next_octet                                                        *)
Stuffed(octet) ==
    IF octet \in {UXR_FRAMING_BEGIN_FLAG, UXR_FRAMING_ESC_FLAG}
    THEN <<UXR_FRAMING_ESC_FLAG, Flipped(octet)>> ELSE <<octet>>

StuffedAll(octets) ==
    LET f[n \in 0..Len(octets)] ==
            IF n = 0 THEN <<>> ELSE f[n - 1] \o Stuffed(octets[n])
    IN  f[Len(octets)]

Header(payload, src, dst) == <<src, dst, Len(payload) % 256, Len(payload) \div 256>>

Content(payload, src, dst) ==
    (Header(payload, src, dst) \o payload) \o <<Crc(payload) % 256, Crc(payload) \div 256>>

Frame(payload, src, dst) == <<UXR_FRAMING_BEGIN_FLAG>> \o StuffedAll(Content(payload, src, dst))

(* Whoever writes on the line, and to whom.                                  *)
Routes == {<<remote_addr, local_addr>>, <<remote_addr, other_addr>>, <<other_addr, local_addr>>}
Ours == <<remote_addr, local_addr>>

(* Every frame there is to write.                                            *)
Frames ==
    [payload \in Payloads |-> [route \in Routes |-> Frame(payload, route[1], route[2])]]

(* Cut within the payload, or before there is anything but the flag; the     *)
(* last octet of the payload must be missing in full or in part.             *)
CutInPayload(payload, header, n) ==
    n = 1 \/ n \in 1 + Len(StuffedAll(header))..Len(StuffedAll(header \o payload))

CutWhere(payload, route, n) ==
    IF n = Len(Frames[payload][route])
    THEN IF route = Ours THEN "whole" ELSE "foreign"
    ELSE IF CutInPayload(payload, Header(payload, route[1], route[2]), n)
         THEN "cut" ELSE "broken"

WriteFrame(payload, route, n) ==
    /\ Len(frames) < MaxFrames
    /\ wire' = wire \o SubSeq(Frames[payload][route], 1, n)
    /\ frames' = Append(frames, [payload |-> payload, octets |-> n,
                                  kind |-> CutWhere(payload, route, n)])
    /\ UNCHANGED <<ring, reading, state, message, received, frame_round>>

(***************************************************************************)
(* The ring: uxr_framing_read_transport and uxr_get_next_octet.            *)
(***************************************************************************)
Least(m, n) == IF m < n THEN m ELSE n

(* Mutant of Available: the octet kept free is not.                          *)
AvailableWithoutGap(rest, tail) == RingSize - Len(rest)

(* Octets that may be read into a ring of which `rest` is left, av_len[0] up *)
(* to the end of the array and av_len[1] from its start.                     *)
Available(rest, tail) ==
    LET head == (tail + Len(rest)) % RingSize IN
    IF head = tail THEN RingSize - 1
    ELSE IF head > tail
         THEN IF tail > 0 THEN (RingSize - head) + (tail - 1) ELSE RingSize - head - 1
         ELSE tail - head - 1

(* The first n octets of the ring are taken, and up to max more are read: at *)
(* least one, or none when the line has none in time.                        *)
ReadMore(n, max) ==
    LET rest == SubSeq(rb, n + 1, Len(rb))
        tail == (rb_tail + n) % RingSize
    IN
    \E k \in 1..Least(Least(max, Available(rest, tail)), Len(wire)) :
        /\ rb' = rest \o SubSeq(wire, 1, k)
        /\ rb_tail' = IF rest = <<>> THEN 0 ELSE tail
        /\ wire' = SubSeq(wire, k + 1, Len(wire))

ReadNoMore(n) ==
    /\ rb' = SubSeq(rb, n + 1, Len(rb))
    /\ rb_tail' = IF Len(rb) = n THEN 0 ELSE (rb_tail + n) % RingSize
    /\ UNCHANGED wire

Take(n) ==
    /\ rb' = SubSeq(rb, n + 1, Len(rb))
    /\ rb_tail' = (rb_tail + n) % RingSize
    /\ UNCHANGED wire

(* The next octet takes two when it is escaped. None is there yet when only  *)
(* the escape is, and none either when a flag stands in its place.           *)
Escaped == rb # <<>> /\ rb[1] = UXR_FRAMING_ESC_FLAG
Width == IF Escaped THEN 2 ELSE 1
HasFlag == Len(rb) >= Width /\ rb[Width] = UXR_FRAMING_BEGIN_FLAG
HasOctet == Len(rb) >= Width /\ ~HasFlag
Octet == IF Escaped THEN Flipped(rb[2]) ELSE rb[1]

(***************************************************************************)
(* uxr_read_framed_msg; one action is one turn of its loop, or of the      *)
(* loop over the octets inside that turn.                                  *)
(***************************************************************************)
CallRead ==
    /\ ~reading
    /\ reading' = TRUE
    /\ \/ rb # <<>> /\ UNCHANGED <<wire, ring>>
       \/ rb = <<>> /\ ReadMore(0, 5)
    /\ UNCHANGED <<state, message, outcome>>

CallReadsNothing ==
    /\ ~reading /\ rb = <<>>
    /\ ReadNoMore(0)
    /\ UNCHANGED <<reading, state, message, outcome>>

Goes(next) == state' = next /\ UNCHANGED reading
Ends == reading' = FALSE /\ UNCHANGED state

FindFlag ==
    /\ reading /\ state = "uninitialized"
    /\ \/ rb = <<>> /\ Ends /\ UNCHANGED <<wire, ring>>
       \/ /\ rb # <<>>
          /\ Take(1)
          /\ IF rb[1] = UXR_FRAMING_BEGIN_FLAG THEN Goes("src_addr")
             ELSE UNCHANGED <<state, reading>>
    /\ UNCHANGED <<message, outcome>>

(* What is asked of the line when the ring has no octet for the state.       *)
Asked ==
    CASE state = "src_addr" -> 4
      [] state = "dst_addr" -> 3
      [] state \in {"len_lsb", "crc_lsb"} -> 2
      [] state \in {"len_msb", "crc_msb"} -> 1
      [] state = "payload" -> (msg_len - Len(buf)) + 2

LacksOctet ==
    /\ reading /\ state # "uninitialized" /\ ~HasOctet
    /\ state = "payload" => Len(buf) < msg_len

(* Inside the payload a flag starts a new frame at once; elsewhere it is     *)
(* taken off the ring, and starts one only if nothing can be read then.      *)
FlagFirst == HasFlag /\ state = "payload"
FlagWidth == IF HasFlag THEN Width ELSE 0

NewFrame ==
    /\ LacksOctet /\ FlagFirst
    /\ Take(Width)
    /\ Goes("src_addr")
    /\ UNCHANGED <<message, outcome>>

LineGivesMore ==
    /\ LacksOctet /\ ~FlagFirst
    /\ ReadMore(FlagWidth, Asked)
    /\ UNCHANGED <<reading, state, message, outcome>>

LineGivesNothing ==
    /\ LacksOctet /\ ~FlagFirst
    /\ ReadNoMore(FlagWidth)
    /\ IF HasFlag THEN Goes("src_addr") ELSE Ends
    /\ UNCHANGED <<message, outcome>>

ReadSrcAddr ==
    /\ reading /\ state = "src_addr" /\ HasOctet
    /\ Take(Width)
    /\ src_addr' = Octet
    /\ Goes("dst_addr")
    /\ UNCHANGED <<msg_len, buf, msg_crc, cmp_crc, outcome>>

ReadDstAddr ==
    /\ reading /\ state = "dst_addr" /\ HasOctet
    /\ Take(Width)
    /\ Goes(IF Octet = local_addr THEN "len_lsb" ELSE "uninitialized")
    /\ UNCHANGED <<message, outcome>>

ReadLenLsb ==
    /\ reading /\ state = "len_lsb" /\ HasOctet
    /\ Take(Width)
    /\ msg_len' = Octet
    /\ Goes("len_msb")
    /\ UNCHANGED <<src_addr, buf, msg_crc, cmp_crc, outcome>>

ReadLenMsb ==
    /\ reading /\ state = "len_msb" /\ HasOctet
    /\ Take(Width)
    /\ msg_len' = msg_len + 256 * Octet
    /\ buf' = <<>> /\ cmp_crc' = 0
    /\ IF MaxLength < msg_len' THEN state' = "uninitialized" /\ reading' = FALSE
       ELSE Goes("payload")
    /\ UNCHANGED <<src_addr, msg_crc, outcome>>

ReadPayload ==
    /\ reading /\ state = "payload" /\ Len(buf) < msg_len /\ HasOctet
    /\ Take(Width)
    /\ buf' = Append(buf, Octet)
    /\ cmp_crc' = uxr_update_crc(cmp_crc, Octet)
    /\ UNCHANGED <<reading, state, src_addr, msg_len, msg_crc, outcome>>

EndPayload ==
    /\ reading /\ state = "payload" /\ Len(buf) = msg_len
    /\ Goes("crc_lsb")
    /\ UNCHANGED <<wire, ring, message, outcome>>

ReadCrcLsb ==
    /\ reading /\ state = "crc_lsb" /\ HasOctet
    /\ Take(Width)
    /\ msg_crc' = Octet
    /\ Goes("crc_msb")
    /\ UNCHANGED <<src_addr, msg_len, buf, cmp_crc, outcome>>

(* The frame that ends where the reader is now, if one does.                 *)
OctetsBehind(n) ==
    LET f[i \in n..Len(frames)] ==
            IF i = Len(frames) THEN 0 ELSE frames[i + 1].octets + f[i + 1]
    IN  f[n]

ReadFrame ==
    /\ received' = buf /\ frame_round' = 1 - frame_round
    /\ \/ \E n \in 1..Len(frames) :
             /\ OctetsBehind(n) = Len(rb') + Len(wire)
             /\ frames' = SubSeq(frames, n + 1, Len(frames))
       \/ /\ \A n \in 1..Len(frames) : OctetsBehind(n) # Len(rb') + Len(wire)
          /\ UNCHANGED frames

(* Mutant of CrcMatches: only the first octet of the checksum is compared.   *)
CrcLsbMatches == cmp_crc % 256 = msg_crc % 256

CrcMatches == cmp_crc = msg_crc

(* recv_serial_msg, recv_custom_msg: a message of another sender is dropped. *)
FromAgent == src_addr = remote_addr

ReadCrcMsb ==
    /\ reading /\ state = "crc_msb" /\ HasOctet
    /\ Take(Width)
    /\ state' = "uninitialized" /\ reading' = FALSE
    /\ msg_crc' = msg_crc + 256 * Octet
    /\ UNCHANGED <<src_addr, msg_len, buf, cmp_crc>>
    /\ IF CrcMatches' /\ msg_len > 0 /\ FromAgent THEN ReadFrame ELSE UNCHANGED outcome

Turn ==
    \/ FindFlag \/ NewFrame
    \/ ReadSrcAddr \/ ReadDstAddr \/ ReadLenLsb \/ ReadLenMsb
    \/ ReadPayload \/ EndPayload \/ ReadCrcLsb \/ ReadCrcMsb

(* Bound: a frame of another writer or for another reader is not cut, as all *)
(* of it is skipped, and it has one payload.                                 *)
ForeignPayload == CHOOSE payload \in Payloads : TRUE

WriteCut == \E payload \in CutPayloads : \E n \in 1..Len(Frames[payload][Ours]) - 1 :
                WriteFrame(payload, Ours, n)
WriteWhole == \E payload \in Payloads : WriteFrame(payload, Ours, Len(Frames[payload][Ours]))
WriteForeign == \E route \in Routes \ {Ours} :
                    WriteFrame(ForeignPayload, route, Len(Frames[ForeignPayload][route]))

Next ==
    \/ WriteCut \/ WriteWhole \/ WriteForeign
    \/ CallRead \/ CallReadsNothing
    \/ Turn \/ LineGivesMore \/ LineGivesNothing

(* The application calls again and again, and a line that holds octets gives *)
(* some in the end.                                                          *)
Fairness ==
    /\ WF_vars(CallRead \/ Turn)
    /\ SF_vars(LineGivesMore)

Spec == Init /\ [][Next]_vars
FairSpec == Spec /\ Fairness

(***************************************************************************)
(* Properties.                                                             *)
(***************************************************************************)
States == {"uninitialized", "src_addr", "dst_addr", "len_lsb", "len_msb",
           "payload", "crc_lsb", "crc_msb"}

(* The payload read never outgrows the caller's buffer nor the length in the *)
(* header, and the ring never fills up: full, it would be taken for empty    *)
(* (rb_head = rb_tail).                                                      *)
FramingTypeOK ==
    /\ reading \in BOOLEAN /\ state \in States
    /\ rb_tail \in 0..RingSize - 1 /\ Len(rb) < RingSize
    /\ state \in {"payload", "crc_lsb", "crc_msb"} =>
          msg_len <= MaxLength /\ Len(buf) <= msg_len
    /\ frame_round \in {0, 1}

(* The framing implements FramedLine.                                        *)
WrittenFrames ==
    [n \in 1..Len(frames) |-> [payload |-> frames[n].payload, kind |-> frames[n].kind]]

Framed == INSTANCE FramedLine WITH frames <- WrittenFrames, round <- frame_round,
    MayBreak <- FALSE

(* However the octets of the frames are cut into reads, wherever a call ends *)
(* for want of time and wherever the writing of a frame breaks off, what is  *)
(* read was written, whole, once and in order; a frame cut in its payload    *)
(* costs no other one, and without cuts elsewhere every message is read.     *)
ImplementsFramedLine == Framed!Spec
=============================================================================

------------------------------ MODULE OctetsMC ------------------------------
(* The octets of messages: what they hold, and how the two kinds of byte     *)
(* line keep them apart. A behaviour is of one of the three.                 *)
EXTENDS WireMC, ByteLinesMC

VARIABLE octets_of     \* "message", "frame" or "tcp"

message_vars == <<requestVars, answerVars>>
all_vars == <<octets_of, message_vars, vars, tcp_vars>>

MCInit ==
    /\ octets_of \in {"message", "frame", "tcp"} /\ WireInit /\ Init /\ InitTcp
    /\ octets_of # "message" => last_request_id = RESERVED_REQUESTS_ID

MessageStep ==
    octets_of = "message" /\ WireNext /\ UNCHANGED <<octets_of, vars, tcp_vars>>
(* The bounds of Wire: the Agent has sent its last message.                  *)
MessagesEnd ==
    octets_of = "message" /\ agent_sent = MaxAnswers - 1 /\ UNCHANGED all_vars
FrameStep == octets_of = "frame" /\ Next /\ UNCHANGED <<octets_of, message_vars, tcp_vars>>
TcpStep == octets_of = "tcp" /\ NextTcp /\ UNCHANGED <<octets_of, message_vars, vars>>

MCSpec ==
    /\ MCInit /\ [][MessageStep \/ MessagesEnd \/ FrameStep \/ TcpStep]_all_vars
    /\ Fairness /\ TcpFairness

(* Types of the messages, and of the ring and the cursors of the reader of   *)
(* frames: whatever is cut or escaped, it reads within its ring.             *)
OctetsTypeOK == WireTypeOK /\ FramingTypeOK
=============================================================================

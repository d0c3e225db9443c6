----------------------------- MODULE ByteLinesMC -----------------------------
(* The two ways of a byte line to keep messages apart, the framing protocol  *)
(* and the sizes of TCP: what is written for TLC.                            *)
EXTENDS StreamFraming, TcpTransport

(* An octet whose checksum, 0x7EC0, holds a flag; and a flag in the payload. *)
MCPayloads == {<<169>>, <<7, 126>>}
MCCutPayloads == {<<7, 126>>}

(* Sizes of one octet, of another one, and of both.                          *)
MCTcpMessages == {<<1>>, <<1, 0>>, <<0, 1, 1>>}
=============================================================================

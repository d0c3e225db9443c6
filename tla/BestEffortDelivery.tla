------------------------- MODULE BestEffortDelivery -------------------------
(* What a best-effort stream promises: what is read was sent, whole, in the  *)
(* order of sending and once; any of it may be missing.                      *)
EXTENDS Naturals, Sequences

CONSTANT Contents     \* what a message may hold

VARIABLES
    line,         \* what may still be read, oldest first
    delivered,    \* what was read last ...
    round         \* ... and the parity of the number of messages read

vars == <<line, delivered, round>>

Init == line = <<>> /\ delivered = <<>> /\ round = 0

Send ==
    /\ Len(line') = Len(line) + 1
    /\ \E m \in Contents : line' = Append(line, m)
    /\ UNCHANGED <<delivered, round>>

(* Reading a message gives up all that were sent before it.                  *)
Deliver ==
    \E i \in DOMAIN line :
        /\ delivered' = line[i] /\ round' = 1 - round
        /\ line' = SubSeq(line, i + 1, Len(line))

Lose ==
    /\ \E i \in DOMAIN line : line' = SubSeq(line, 1, i - 1) \o SubSeq(line, i + 1, Len(line))
    /\ UNCHANGED <<delivered, round>>

Next == Send \/ Deliver \/ Lose

Spec == Init /\ [][Next]_vars
=============================================================================

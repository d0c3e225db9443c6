------------------------------ MODULE EndToEnd ------------------------------
(* What a reliable stream promises from the application that writes to the   *)
(* Agent that reads: every submessage accepted for writing reaches the other *)
(* side, once, in the order of the writes.                                   *)
EXTENDS Naturals, Sequences

CONSTANTS Messages, MaxFragments

VARIABLES
    queue,        \* pieces of the submessages accepted and not yet delivered
    delivered,    \* the pieces of the last delivery ...
    round         \* ... and the parity of the number of deliveries

vars == <<queue, delivered, round>>

Pieces(m) ==
    {<<[msg |-> m, part |-> 0, last |-> TRUE]>>}
      \cup {[n \in 1..k |-> [msg |-> m, part |-> n, last |-> n = k]] : k \in 2..MaxFragments}

Init == queue = <<>> /\ delivered = <<>> /\ round = 0

Accept ==
    /\ \E m \in Messages : \E pieces \in Pieces(m) : queue' = queue \o pieces
    /\ UNCHANGED <<delivered, round>>

Deliver ==
    \E k \in 1..Len(queue) :
        /\ delivered' = SubSeq(queue, 1, k)
        /\ queue' = SubSeq(queue, k + 1, Len(queue))
        /\ round' = 1 - round

Next == Accept \/ Deliver

Spec == Init /\ [][Next]_vars

(* What was accepted is delivered in the end.                                *)
Fairness == WF_vars(Deliver)
=============================================================================

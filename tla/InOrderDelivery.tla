--------------------------- MODULE InOrderDelivery ---------------------------
(* What the receiving half of a reliable stream promises to the application: *)
(* it reads every message the Agent sent, once, in the order they were sent, *)
(* and a fragmented submessage only when all its fragments are there.        *)
EXTENDS Naturals, Sequences

CONSTANTS Messages

VARIABLES
    queue,        \* the messages sent and not yet read
    delivered,    \* those read by the last reading ...
    round         \* ... and the parity of the number of readings

Init == queue = <<>> /\ delivered = <<>> /\ round = 0

Send ==
    /\ \E p \in Messages : queue' = Append(queue, p)
    /\ UNCHANGED <<delivered, round>>

Deliver ==
    \E k \in 1..Len(queue) :
        /\ queue[k].last
        /\ delivered' = SubSeq(queue, 1, k)
        /\ queue' = SubSeq(queue, k + 1, Len(queue))
        /\ round' = 1 - round

Next == Send \/ Deliver

Spec == Init /\ [][Next]_<<queue, delivered, round>>
=============================================================================

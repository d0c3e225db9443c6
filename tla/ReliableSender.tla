--------------------------- MODULE ReliableSender ---------------------------
(* What the sending half of a reliable stream promises, without ring,        *)
(* sequence numbers or cursors: submessages leave in the order they were     *)
(* accepted, a message once transmitted is kept as it is until the receiver  *)
(* confirms it, nothing else is ever dropped, and no more than Window        *)
(* messages are kept so. The fragments of a submessage may be accepted one   *)
(* at a time, and nothing between them; if it is given up, its last fragment *)
(* is never accepted.                                                        *)
EXTENDS Naturals, Sequences

CONSTANTS Window, Messages, MaxFragments

VARIABLES
    unsent,     \* the submessages (or fragments) accepted and not transmitted
    unacked,    \* the messages transmitted and not confirmed
    open        \* the submessage accepted in part, and how many fragments of it

(* The pieces a submessage is accepted in: itself, or its fragments in order.*)
Pieces(m) ==
    {<<[msg |-> m, part |-> 0, last |-> TRUE]>>}
      \cup {[n \in 1..k |-> [msg |-> m, part |-> n, last |-> n = k]] : k \in 2..MaxFragments}

Complete == <<>>

Init == unsent = <<>> /\ unacked = <<>> /\ open = Complete

Accept(m) ==
    /\ open = Complete
    /\ \E pieces \in Pieces(m) : unsent' = unsent \o pieces
    /\ UNCHANGED <<unacked, open>>

AcceptFragment(m) ==
    \E last \in BOOLEAN :
        LET n == IF open = Complete THEN 1 ELSE open[2] + 1 IN
        /\ open = Complete \/ open[1] = m
        /\ unsent' = Append(unsent, [msg |-> m, part |-> n, last |-> last])
        /\ open' = IF last THEN Complete ELSE <<m, n>>
        /\ UNCHANGED unacked

GiveUp == open # Complete /\ open' = Complete /\ UNCHANGED <<unsent, unacked>>

Transmit ==
    /\ Len(unacked) < Window
    /\ \E k \in 1..Len(unsent) :
          /\ unacked' = Append(unacked, SubSeq(unsent, 1, k))
          /\ unsent' = SubSeq(unsent, k + 1, Len(unsent))
    /\ UNCHANGED open

Confirm ==
    /\ \E k \in 1..Len(unacked) : unacked' = SubSeq(unacked, k + 1, Len(unacked))
    /\ UNCHANGED <<unsent, open>>

(* A new session forgets the old one's messages.                             *)
Reset == unsent' = <<>> /\ unacked' = <<>> /\ open' = Complete

Next ==
    \/ Len(unsent') > Len(unsent) /\ \E m \in Messages : Accept(m) \/ AcceptFragment(m)
    \/ Transmit \/ Confirm \/ GiveUp \/ Reset

Spec == Init /\ [][Next]_<<unsent, unacked, open>>
=============================================================================

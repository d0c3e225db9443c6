----------------------------- MODULE FramedLine -----------------------------
(* What a byte line with framing promises to the one that reads it: messages *)
(* are read whole, in the order they were written; one may be missing only   *)
(* if its own frame was cut short, or an earlier one was, outside its        *)
(* payload, and nothing was read since. A message with no such excuse is     *)
(* read in the end, unless the line is lost with all that is on it.          *)
EXTENDS Naturals, Sequences

CONSTANTS
    Payloads,
    MayBreak     \* the line may be lost with all that is on it

VARIABLES
    frames,     \* the frames written behind the last one that was read
    received,   \* the message read last ...
    round       \* ... and the parity of the number of messages read

vars == <<frames, received, round>>

(* "foreign" is a whole frame of another writer or for another reader, "cut" *)
(* is one cut in its payload, "broken" one cut anywhere else.                *)
Kinds == {"whole", "foreign", "cut", "broken"}

Init == frames = <<>> /\ received = <<>> /\ round = 0

Write ==
    /\ \E p \in Payloads, kind \in Kinds :
          frames' = Append(frames, [payload |-> p, kind |-> kind])
    /\ UNCHANGED <<received, round>>

Expected(n) == frames[n].kind = "whole" /\ frames[n].payload # <<>>
Excused(n) == \E i \in 1..n - 1 : frames[i].kind = "broken"

Receive(n) ==
    /\ Expected(n)
    /\ \A i \in 1..n - 1 : Expected(i) => Excused(i)
    /\ received' = frames[n].payload
    /\ round' = 1 - round
    /\ frames' = SubSeq(frames, n + 1, Len(frames))

Break ==
    /\ MayBreak
    /\ frames' = <<>>
    /\ UNCHANGED <<received, round>>

Next == Write \/ Break \/ \E n \in 1..Len(frames) : Receive(n)

ReceiveExpected == \E n \in 1..Len(frames) : ~Excused(n) /\ Receive(n)

(* What is read; and that it is read in the end.                             *)
Safety == Init /\ [][Next]_vars
Spec == Safety /\ WF_vars(ReceiveExpected)
=============================================================================

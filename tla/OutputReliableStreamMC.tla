----------------------- MODULE OutputReliableStreamMC -----------------------
(* The sizes of the submessages for TLC.                                     *)
EXTENDS ContinuousFragments

CONSTANTS small, large, huge, endless

(* Two small ones fill a buffer; a large one needs two or three buffers, as  *)
(* the first fragment finds the current one empty, half full or full, and a  *)
(* huge one all three. An endless one, written in continuous mode, needs     *)
(* four: one more than there are.                                            *)
MCLength == small :> 8 @@ large :> 20 @@ huge :> 32 @@ endless :> 44
=============================================================================

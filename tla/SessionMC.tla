------------------------------ MODULE SessionMC ------------------------------
(* Two request identifiers, so that they come round again; lists of both, of *)
(* the same one twice, and of one with that of a write that was refused.     *)
EXTENDS Session

CONSTANT refused

MCRequestLists == {<<11, 10>>, <<10, 10>>, <<0, 11>>}
MCWrittenLists == {<<10>>, <<11, 10>>}
=============================================================================

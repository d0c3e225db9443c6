--------------------------- MODULE SessionThreadsMC ---------------------------
(* Threads are alike.                                                        *)
EXTENDS SessionThreads, TLC

CallersSymmetry == Permutations(Callers)
=============================================================================

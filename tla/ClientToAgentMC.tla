--------------------------- MODULE ClientToAgentMC ---------------------------
(* A reliable output stream, an unreliable network and an Agent.             *)
EXTENDS ClientToAgent

CONSTANTS whole, large

(* The first fills a buffer, the second takes two.                           *)
MCLength == [m \in Messages |-> IF m = whole THEN 16 ELSE 24]
=============================================================================

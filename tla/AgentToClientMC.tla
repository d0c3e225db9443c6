--------------------------- MODULE AgentToClientMC ---------------------------
(* The messages of the runs of AgentToClient: those that need no other, and  *)
(* the fragments of large submessages.                                       *)
EXTENDS AgentToClient

CONSTANTS Names, large

MCMessages ==
    [msg : Names, part : {0}, last : {TRUE}]
      \cup [msg : {large}, part : 1..MaxFragments - 1, last : {FALSE}]
      \cup [msg : {large}, part : 2..MaxFragments, last : {TRUE}]
=============================================================================

---------------------------- MODULE SessionCallsMC ----------------------------
(* The calls that wait for an answer of the Agent: those of the life of a    *)
(* session, and those with a clock in hand. A behaviour is of one of them.   *)
EXTENDS SessionMC, AgentCalls

VARIABLE told     \* which

(* The Agent's clock is ahead, by less than an answer may take: what is      *)
(* computed of the offset has either sign.                                   *)
MCSkews == {1}

MCInit == told \in {"session", "clock"} /\ Init /\ InitCalls

SessionStep == told = "session" /\ Next /\ UNCHANGED <<told, calls_vars>>
CallStep == told = "clock" /\ NextCalls /\ UNCHANGED <<told, vars>>
(* The bound of the clock.                                                   *)
ClockStops == told = "clock" /\ now = MaxTime /\ UNCHANGED <<told, vars, calls_vars>>

MCSpec == MCInit /\ [][SessionStep \/ CallStep \/ ClockStops]_<<told, vars, calls_vars>>
=============================================================================

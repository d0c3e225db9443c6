------------------------------ MODULE ThreadsMC ------------------------------
(* Threads of an application, with the profile of multithread.c: those that  *)
(* share a session, and those whose sessions share memory. A behaviour is of *)
(* one of the two.                                                           *)
EXTENDS SharedMemoryMC, SessionThreads

(* The last list creates nothing: it goes with a session that is shared.     *)
MCAllScenes == MCScenes \cup {<<>>}

(* Bound: one thread plays a scene with a replier, which only answers then;  *)
(* without answers its requests go the way of the data of the other scenes.  *)
HasReplier == \E i \in DOMAIN scene : scene[i].kind = UXR_REPLIER_ID

VARIABLE shared     \* "session" or "memory"

all_vars == <<shared, vars, threads_vars>>

MCInit ==
    /\ shared \in {"session", "memory"} /\ Init /\ ThreadsInit
    /\ shared = "session" <=> scene = <<>>
    /\ shared = "session" => users = Threads
    /\ HasReplier => Alone

MemoryStep == shared = "memory" /\ Next /\ UNCHANGED <<shared, threads_vars>>
SessionStep == shared = "session" /\ ThreadsNext /\ UNCHANGED <<shared, vars>>

MCSpec == MCInit /\ [][MemoryStep \/ SessionStep]_all_vars

MCThreadsSymmetry == {f @@ g : f \in MCSymmetry, g \in Permutations(Callers)}
=============================================================================

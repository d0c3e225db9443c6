---------------------------- MODULE SessionThreads ----------------------------
(* Threads of an application that share a session: the calls they make, the  *)
(* locks these take, and the one buffer of the transport that messages are   *)
(* read from. src/src/c/core/session/session.c, write_access.c, ping.c and   *)
(* udp_transport.c with the profile of multithread.c.                        *)
(*                                                                           *)
(* A thread is its stack of calls, each at a place between two of its locks. *)
(* What the streams hold is the subject of other modules: here a flash may   *)
(* always send or not, and a write find room or not. One lock stands for the *)
(* input streams, which are only taken together, and one for the output      *)
(* streams, which are only taken one by one; "other" is the lock of a second *)
(* one that requests are written to. Callbacks write, and run no session.    *)
EXTENDS Naturals, Sequences

CONSTANTS
    Callers,
    FlushTogether,  \* a flush within a write goes on beside calls of other threads
    TwoStreams,     \* requests are written to two streams at a time
    MaxRequestId    \* UINT16_MAX

Nobody == "nobody"

RESERVED_REQUESTS_ID == 9
UXR_REQUEST_LOGOUT == 2

ASSUME ThreadsAssumption ==
    /\ Nobody \notin Callers /\ FlushTogether \in BOOLEAN /\ TwoStreams \in BOOLEAN
    /\ MaxRequestId \in Nat /\ MaxRequestId > RESERVED_REQUESTS_ID

VARIABLES
    calls,          \* the calls of each thread, the innermost first
    owner, depth,   \* of each lock
    buffer,         \* the thread whose message is in the transport's buffer
    last_request_id,
    seen,           \* what a thread that makes a request identifier has read of it
    number          \* the identifier of the request a thread writes, 0 for none

locks == <<owner, depth>>
numbers == <<last_request_id, seen, number>>
threads_vars == <<calls, locks, buffer, numbers>>

Locks == {"session", "out", "other", "in", "transport"}
Calls ==
    {"run", "ping_session", "ping", "write", "write_other", "fragmented", "wait_status"}

ThreadsInit ==
    /\ calls = [t \in Callers |-> <<>>]
    /\ owner = [l \in Locks |-> Nobody] /\ depth = [l \in Locks |-> 0]
    /\ buffer = Nobody
    /\ last_request_id = RESERVED_REQUESTS_ID
    /\ seen = [t \in Callers |-> 0] /\ number = [t \in Callers |-> 0]

(***************************************************************************)
(* Recursive mutexes; who does not hold one unlocks nothing.               *)
(***************************************************************************)
Available(t, l) == owner[l] \in {Nobody, t}

uxr_lock(t, l) ==
    /\ Available(t, l)
    /\ owner' = [owner EXCEPT ![l] = t] /\ depth' = [depth EXCEPT ![l] = @ + 1]

(* Mutant of Owner: a mutex is free after the first unlocking.               *)
NoOwner(t, d) == Nobody

Owner(t, d) == IF d = 0 THEN Nobody ELSE t

uxr_unlock(t, l) ==
    IF owner[l] = t
    THEN /\ owner' = [owner EXCEPT ![l] = Owner(t, depth[l] - 1)]
         /\ depth' = [depth EXCEPT ![l] = @ - 1]
    ELSE UNCHANGED locks

(***************************************************************************)
(* The stack.                                                              *)
(***************************************************************************)
InCall(t) == calls[t] # <<>>
IsAt(t, call, pc) == InCall(t) /\ Head(calls[t]) = [call |-> call, pc |-> pc]
Entered(call) == [call |-> call, pc |-> "enter"]

GoTo(t, pc) == calls' = [calls EXCEPT ![t] = <<[@[1] EXCEPT !.pc = pc]>> \o Tail(@)]
Leave(t) == calls' = [calls EXCEPT ![t] = Tail(@)]

(* A call within the one at hand, which goes on from pc when it returns.     *)
Call(t, call, pc) ==
    calls' = [calls EXCEPT ![t] = <<Entered(call), [@[1] EXCEPT !.pc = pc]>> \o Tail(@)]

(* The user's callback runs the session in the middle of a write             *)
(* (examples/ContinuousFragment).                                            *)
Flushing(t) ==
    \E i \in 2..Len(calls[t]) : calls[t][i] = [call |-> "fragmented", pc |-> "writing"]

Begin(t, call) ==
    /\ ~InCall(t)
    /\ FlushTogether \/ \A u \in Callers : ~Flushing(u)
    /\ calls' = [calls EXCEPT ![t] = <<Entered(call)>>]
    /\ UNCHANGED <<locks, buffer, numbers>>

(* A step that locks, one that unlocks, one that does neither.               *)
LockThen(t, call, pc, l, next) ==
    IsAt(t, call, pc) /\ uxr_lock(t, l) /\ GoTo(t, next) /\ UNCHANGED <<buffer, numbers>>
UnlockThen(t, call, pc, l, next) ==
    IsAt(t, call, pc) /\ uxr_unlock(t, l) /\ GoTo(t, next) /\ UNCHANGED <<buffer, numbers>>
UnlockAndReturn(t, call, pc, l) ==
    IsAt(t, call, pc) /\ uxr_unlock(t, l) /\ Leave(t) /\ UNCHANGED <<buffer, numbers>>
CallThen(t, call, pc, inner, next) ==
    IsAt(t, call, pc) /\ Call(t, inner, next) /\ UNCHANGED <<locks, buffer, numbers>>
Jump(t, call, pc, next) ==
    IsAt(t, call, pc) /\ GoTo(t, next) /\ UNCHANGED <<locks, buffer, numbers>>

(***************************************************************************)
(* send_udp_msg and recv_udp_msg.                                          *)
(***************************************************************************)
SendMsg(t) ==
    \/ LockThen(t, "send", "enter", "transport", "sending")
    \/ UnlockAndReturn(t, "send", "sending", "transport")

(* A message that arrives takes the place of the one before.                 *)
Receives(t, call) ==
    /\ IsAt(t, call, "waiting")
    /\ uxr_unlock(t, "transport") /\ buffer' = t /\ GoTo(t, "reading")
    /\ UNCHANGED numbers

RecvMsg(t, call) ==
    \/ LockThen(t, call, "receiving", "transport", "waiting")
    \/ Receives(t, call)
    \/ UnlockThen(t, call, "waiting", "transport", "leaving")

(***************************************************************************)
(* listen_message: the locks of all input streams are held from before the *)
(* wait until the message is read.                                         *)
(***************************************************************************)
(* Mutant of LockInputs: the locks are not taken.                            *)
LockNothing(t) == Jump(t, "listen", "enter", "receiving")

LockInputs(t) == LockThen(t, "listen", "enter", "in", "receiving")

(* read_submessage_acknack takes the lock of an input stream once more; an   *)
(* answer to a heartbeat is sent as it is; the callbacks of the user write.  *)
HandleMessage(t) ==
    \/ LockThen(t, "listen", "reading", "in", "resending")
    \/ CallThen(t, "listen", "resending", "send", "resending")
    \/ UnlockThen(t, "listen", "resending", "in", "reading")
    \/ CallThen(t, "listen", "reading", "send", "reading")
    \/ CallThen(t, "listen", "reading", "write", "reading")

Listen(t) ==
    \/ LockInputs(t)
    \/ RecvMsg(t, "listen")
    \/ HandleMessage(t)
    \/ UnlockAndReturn(t, "listen", "reading", "in")
    \/ UnlockAndReturn(t, "listen", "leaving", "in")

(***************************************************************************)
(* uxr_run_session_*.                                                      *)
(***************************************************************************)
(* uxr_flash_output_streams                                                  *)
FlashStreams(t, call) ==
    \/ LockThen(t, call, "flash", "out", "flashing")
    \/ CallThen(t, call, "flashing", "send", "flashing")
    \/ UnlockThen(t, call, "flashing", "out", "beat")

(* listen_message_reliably: perhaps a heartbeat, then listening.             *)
ListenReliably(t, call) ==
    \/ LockThen(t, call, "beat", "out", "beating")
    \/ CallThen(t, call, "beating", "send", "beaten")
    \/ UnlockThen(t, call, "beating", "out", "listen")
    \/ UnlockThen(t, call, "beaten", "out", "listen")
    \/ CallThen(t, call, "listen", "listen", "heard")
    \/ Jump(t, call, "heard", "beat")

(* Whether the streams are confirmed is asked under their locks.             *)
RunSession(t) ==
    \/ LockThen(t, "run", "enter", "session", "flash")
    \/ FlashStreams(t, "run")
    \/ ListenReliably(t, "run")
    \/ Available(t, "out") /\ UnlockAndReturn(t, "run", "heard", "session")

(* uxr_ping_agent_session, with uxr_run_session_until_pong.                  *)
PingSession(t) ==
    \/ LockThen(t, "ping_session", "enter", "session", "asking")
    \/ CallThen(t, "ping_session", "asking", "send", "flash")
    \/ FlashStreams(t, "ping_session")
    \/ ListenReliably(t, "ping_session")
    \/ Jump(t, "ping_session", "heard", "asking")
    \/ UnlockAndReturn(t, "ping_session", "heard", "session")

(***************************************************************************)
(* Calls that do not take the session's lock.                              *)
(***************************************************************************)
(* uxr_delete_session, and what waits in uxr_create_session: the identifier  *)
(* is that of a logout or a login, after either of which numbers start again.*)
BufferDeleteSession(t) ==
    /\ IsAt(t, "wait_status", "enter")
    /\ last_request_id' = UXR_REQUEST_LOGOUT
    /\ GoTo(t, "asking") /\ UNCHANGED <<locks, buffer, seen, number>>

WaitSessionStatus(t) ==
    \/ BufferDeleteSession(t)
    \/ CallThen(t, "wait_status", "asking", "send", "listen")
    \/ CallThen(t, "wait_status", "listen", "listen", "heard")
    \/ Jump(t, "wait_status", "heard", "listen")
    \/ Jump(t, "wait_status", "heard", "asking")
    \/ IsAt(t, "wait_status", "heard") /\ Leave(t) /\ UNCHANGED <<locks, buffer, numbers>>

(* An attempt of uxr_ping_agent_attempts keeps the transport to its end. The *)
(* application is taken to make one only while no other thread listens.      *)
Listening(t) == \E i \in DOMAIN calls[t] : calls[t][i].call = "listen"

PingAgent(t) ==
    \/ /\ \A u \in Callers \ {t} : ~Listening(u)
       /\ LockThen(t, "ping", "enter", "transport", "asking")
    \/ CallThen(t, "ping", "asking", "send", "receiving")
    \/ RecvMsg(t, "ping")
    \/ Jump(t, "ping", "reading", "receiving")
    \/ Jump(t, "ping", "leaving", "receiving")
    \/ UnlockThen(t, "ping", "reading", "transport", "enter")
    \/ UnlockThen(t, "ping", "leaving", "transport", "enter")
    \/ UnlockAndReturn(t, "ping", "reading", "transport")
    \/ UnlockAndReturn(t, "ping", "leaving", "transport")

(***************************************************************************)
(* Requests.                                                               *)
(***************************************************************************)
(* generate_request_id                                                       *)
NextRequestId(id) ==
    (IF id = MaxRequestId \/ id <= RESERVED_REQUESTS_ID THEN RESERVED_REQUESTS_ID ELSE id) + 1

(* The identifier of the last request is read and written without a lock of  *)
(* its own.                                                                  *)
ReadsNumber(t, call) ==
    /\ IsAt(t, call, "numbering") /\ GoTo(t, "numbered")
    /\ seen' = [seen EXCEPT ![t] = last_request_id]
    /\ UNCHANGED <<locks, buffer, last_request_id, number>>

TakesNumber(t, call) ==
    /\ IsAt(t, call, "numbered") /\ GoTo(t, "writing")
    /\ last_request_id' = NextRequestId(seen[t])
    /\ number' = [number EXCEPT ![t] = last_request_id'] /\ seen' = [seen EXCEPT ![t] = 0]
    /\ UNCHANGED <<locks, buffer>>

(* The lock of the stream, once no other stream is written to.               *)
(* Mutant of LockStreamId: no mutex is found for the stream.                   *)
LockNoStream(t, call, pc, l, next) == Jump(t, call, pc, next)

LockStreamId(t, call, pc, l, next) ==
    /\ TwoStreams \/ \A other \in {"out", "other"} \ {l} : owner[other] = Nobody
    /\ LockThen(t, call, pc, l, next)

(* After uxr_prepare_output_stream and its like it is the user who unlocks.  *)
Written(t, call, l) ==
    /\ IsAt(t, call, "writing") /\ uxr_unlock(t, l) /\ Leave(t)
    /\ number' = [number EXCEPT ![t] = 0] /\ UNCHANGED <<buffer, last_request_id, seen>>

(* uxr_buffer_topic and every other request: an identifier if there is room. *)
WriteTo(t, call, l) ==
    \/ LockStreamId(t, call, "enter", l, "numbering")
    \/ UnlockAndReturn(t, call, "numbering", l)
    \/ ReadsNumber(t, call) \/ TakesNumber(t, call)
    \/ Written(t, call, l)

WriteRequest(t) == WriteTo(t, "write", "out") \/ WriteTo(t, "write_other", "other")

(* uxr_prepare_output_stream_fragmented. No buffer is free: the stream is    *)
(* unlocked for the callback, which runs the session.                        *)
(* Mutant of PrepareCalls: it is not.                                        *)
PrepareCallsLocked(t) == CallThen(t, "fragmented", "preparing", "run", "prepared")

PrepareCalls(t) ==
    /\ IsAt(t, "fragmented", "preparing")
    /\ uxr_unlock(t, "out") /\ Call(t, "run", "prepared") /\ UNCHANGED <<buffer, numbers>>

(* Mutant of FindsNoRoom: the way out that forgets the lock.                 *)
LeavesTheLock(t) ==
    IsAt(t, "fragmented", "checking") /\ Leave(t) /\ UNCHANGED <<locks, buffer, numbers>>

FindsNoRoom(t) == UnlockAndReturn(t, "fragmented", "checking", "out")

PrepareFragmented(t) ==
    \/ LockStreamId(t, "fragmented", "enter", "out", "preparing")
    \/ UnlockAndReturn(t, "fragmented", "preparing", "out")
    \/ PrepareCalls(t)
    \/ IsAt(t, "fragmented", "prepared") /\ Leave(t) /\ UNCHANGED <<locks, buffer, numbers>>
    \/ LockStreamId(t, "fragmented", "prepared", "out", "checking")
    \/ FindsNoRoom(t)
    \/ Jump(t, "fragmented", "preparing", "numbering")
    \/ Jump(t, "fragmented", "checking", "numbering")
    \/ ReadsNumber(t, "fragmented") \/ TakesNumber(t, "fragmented")

(* The user serializes; on_full_output_buffer_fragmented calls back with the *)
(* stream locked; the user unlocks it in the end.                            *)
Fill(t) ==
    \/ /\ FlushTogether \/ \A u \in Callers \ {t} : ~InCall(u)
       /\ CallThen(t, "fragmented", "writing", "run", "writing")
    \/ Written(t, "fragmented", "out")

Step(t) ==
    \/ SendMsg(t) \/ Listen(t) \/ RunSession(t) \/ PingSession(t) \/ PingAgent(t)
    \/ WaitSessionStatus(t) \/ WriteRequest(t) \/ PrepareFragmented(t) \/ Fill(t)

ThreadsNext == \E t \in Callers : Step(t) \/ \E call \in Calls : Begin(t, call)

ThreadsSpec == ThreadsInit /\ [][ThreadsNext]_threads_vars

(***************************************************************************)
(* Properties.                                                             *)
(***************************************************************************)
ThreadsTypeOK ==
    /\ owner \in [Locks -> Callers \cup {Nobody}]
    /\ \A l \in Locks : depth[l] \in 0..2 /\ (depth[l] = 0 <=> owner[l] = Nobody)
    /\ buffer \in Callers \cup {Nobody}
    /\ {last_request_id} \cup {seen[t] : t \in Callers} \cup {number[t] : t \in Callers}
           \subseteq 0..MaxRequestId
    /\ \A t \in Callers : Len(calls[t]) \in 0..4

(* Whatever threads call, the message one of them is reading stays in the    *)
(* buffer until it is read: nobody else receives meanwhile.                  *)
MessageIntact ==
    \A t \in Callers :
        (\E i \in DOMAIN calls[t] : calls[t][i].pc \in {"reading", "resending"})
            => buffer = t

(* A call that returns, on whatever way, leaves no lock behind.              *)
LocksGivenBack == \A t \in Callers : InCall(t) \/ \A l \in Locks : owner[l] # t

(* "A request_id that identifies the XRCE request" (write_access.h): two      *)
(* requests that are being written do not have the same one.                 *)
NumbersDiffer ==
    \A t \in Callers : \A u \in Callers \ {t} : number[t] # 0 => number[t] # number[u]

(* Where a call asks for a lock and can do nothing else.                     *)
Waits ==
    {<<"send", "enter", "transport">>, <<"ping", "enter", "transport">>,
     <<"listen", "receiving", "transport">>, <<"ping", "receiving", "transport">>,
     <<"listen", "enter", "in">>,
     <<"write", "enter", "out">>, <<"write_other", "enter", "other">>,
     <<"fragmented", "enter", "out">>,
     <<"run", "enter", "session">>, <<"ping_session", "enter", "session">>}
    \cup {"run", "ping_session"} \X {"flash", "beat"} \X {"out"}

WaitsFor(t, u) == u # t /\ \E w \in Waits : IsAt(t, w[1], w[2]) /\ owner[w[3]] = u

(* No threads wait for each other in a circle: the profile is to "Enable     *)
(* multithread support" (CMakeLists.txt), and no lock of it is given up.     *)
NoCircle ==
    \A together \in (SUBSET Callers) \ {{}} :
        \E t \in together : \A u \in together : ~WaitsFor(t, u)
=============================================================================

----------------------------- MODULE AgentCalls -----------------------------
(* The calls that ask the Agent something and listen for the answer with a   *)
(* clock in hand: uxr_ping_agent_session, uxr_ping_agent_attempts            *)
(* (src/src/c/util/ping.c), uxr_sync_session (src/src/c/core/session/        *)
(* session.c) and uxr_discovery_agents (src/src/c/profile/discovery/         *)
(* discovery.c), with the clock of src/src/c/util/time.c; and the calls that *)
(* only listen: uxr_run_session_time, _timeout, _until_data, _until_timeout. *)
(*                                                                           *)
(* Time passes only while a call listens or none is made. Discovery has a    *)
(* socket of its own; the other calls hear whatever the transport brings.    *)
(* The Agent, whose clock is not the Client's, and the network are external. *)
EXTENDS Integers, FiniteSets

CONSTANTS
    Timeout,            \* what each call is given, or each of its attempts
    MaxTries,           \* attempts asked for, at most
    Start, MaxTime,     \* where the Client's clock begins and where it stops
    Skews,              \* how far the Agent's clock may be ahead of it
    NanosPerSecond,
    MaxUnderWay,        \* questions and answers on the network, at most
    MaxCalls            \* calls, at most

ASSUME AgentCallsAssumption ==
    /\ Timeout \in Nat \ {0} /\ MaxTries \in Nat /\ MaxUnderWay \in Nat /\ MaxCalls \in Nat
    /\ Start \in Nat /\ MaxTime \in Nat /\ NanosPerSecond \in Nat \ {0}
    /\ Skews \subseteq (-Start)..MaxTime

VARIABLES
    now,                       \* the clock
    asking,                    \* the call, or none
    on_pong_flag, on_data_flag, synchronized, time_offset,
    result,                    \* of the call that ended last
    calls,                     \* how many there were
    questions, answers,        \* on the network
    skew,
    answered,                  \* the Agent answered this call's question
    trip                       \* what the answer synchronized with took, from its question

in_session == <<on_pong_flag, on_data_flag, synchronized, time_offset, trip>>
network == <<questions, answers, skew, answered>>
calls_vars == <<now, asking, in_session, result, calls, network>>

NO_PONG_STATUS == "no_pong"
PONG_IN_SESSION_STATUS == "in_session"
PONG_NO_SESSION_STATUS == "no_session"
PongStatus == {NO_PONG_STATUS, PONG_IN_SESSION_STATUS, PONG_NO_SESSION_STATUS}

None == [kind |-> "none", pc |-> "none", tries |-> 0, left |-> 0, called |-> 0,
         began |-> 0, until |-> 0, poll |-> 0, sent |-> FALSE]

Asking == {"ping_session", "ping", "sync", "discovery"}
Running == {"run_time", "run_timeout", "until_data", "until_timeout"}
Calls == Asking \cup Running
OfSession == {"ping_session", "sync"} \cup Running

(* What is asked: for information, by discovery from its own socket, or for  *)
(* the time.                                                                 *)
QuestionOf(kind) ==
    CASE kind \in {"ping_session", "ping"} -> "info"
      [] kind = "sync" -> "time"
      [] kind = "discovery" -> "agents"
      [] kind \in Running -> "none"

InitCalls ==
    /\ now = Start /\ asking = None
    /\ on_pong_flag = NO_PONG_STATUS /\ on_data_flag = FALSE /\ synchronized = FALSE /\ time_offset = 0
    /\ result = [kind |-> "none", value |-> FALSE] /\ calls = 0
    /\ questions = {} /\ answers = {} /\ skew \in Skews
    /\ answered = FALSE /\ trip = 0

(***************************************************************************)
(* The clocks. A time stamp is in seconds and nanoseconds.                 *)
(***************************************************************************)
Timestamp(nanos) ==
    [seconds |-> nanos \div NanosPerSecond, nanoseconds |-> nanos % NanosPerSecond]
uxr_convert_to_nanos(stamp) == stamp.seconds * NanosPerSecond + stamp.nanoseconds

(* Division as C has it, towards zero.                                       *)
Halved(a) == IF a < 0 THEN -((-a) \div 2) ELSE a \div 2

(* Mutant of OffsetOf: the way back is left out.                             *)
OffsetOneWay(t0, t1, t2, t3) == t0 - t1

OffsetOf(t0, t1, t2, t3) == Halved((t0 + t3) - (t1 + t2))

(* The clock of the platform, which uxr_millis tells more coarsely.          *)
uxr_nanos == now

(* The Agent's time as the session knows it.                                 *)
uxr_epoch_nanos == uxr_nanos - time_offset

(***************************************************************************)
(* A call begins and makes its attempts.                                   *)
(***************************************************************************)
NoInfoLate == \A m \in questions \cup answers : m.kind # "info"

(* Assumed of the application: a ping waits until the answers to an earlier  *)
(* one have come or are lost.                                                *)
Call(kind, n) ==
    /\ asking.kind = "none" /\ calls < MaxCalls
    /\ calls' = calls + 1
    /\ QuestionOf(kind) = "info" => NoInfoLate
    /\ kind \in {"sync"} \cup Running => n = 1
    /\ asking' = [None EXCEPT !.kind = kind, !.pc = "trying", !.tries = n, !.left = n,
                              !.called = now]
    /\ answered' = FALSE
    /\ UNCHANGED <<now, in_session, result, questions, answers, skew>>

Ends(value) ==
    /\ asking' = None
    /\ result' = [kind |-> asking.kind, value |-> value]

(* Two calls return whether the streams are confirmed, whatever they heard.  *)
NoTriesLeft ==
    /\ asking.pc = "trying" /\ asking.left = 0
    /\ \E value \in IF asking.kind \in {"run_time", "run_timeout"} THEN BOOLEAN ELSE {FALSE} :
          Ends(value)
    /\ UNCHANGED <<now, in_session, calls, network>>

(* Mutant of FlagReset: what an earlier ping heard is kept.                  *)
FlagKept(kind) == on_pong_flag

(* uxr_run_session_until_pong begins without a pong.                         *)
FlagReset(kind) == IF kind = "ping_session" THEN NO_PONG_STATUS ELSE on_pong_flag

Question(kind) ==
    [kind |-> QuestionOf(kind), t0 |-> Timestamp(IF kind = "sync" THEN uxr_nanos ELSE 0)]

StartsListening ==
    [asking EXCEPT !.pc = "listening", !.left = @ - 1, !.began = now, !.poll = Timeout,
                   !.until = now + Timeout]

(* The transport may refuse the question; only uxr_ping_agent_session heeds  *)
(* it, and listens all the same.                                             *)
Try ==
    /\ asking.pc = "trying" /\ asking.left > 0 /\ asking.kind \in Asking
    /\ Cardinality(questions \cup answers) < MaxUnderWay
    /\ \E sent \in BOOLEAN :
        /\ questions' = IF sent THEN questions \cup {Question(asking.kind)} ELSE questions
        /\ asking' = [StartsListening EXCEPT !.sent = sent]
    /\ on_pong_flag' = FlagReset(asking.kind)
    /\ synchronized' = (synchronized /\ asking.kind # "sync")
    /\ UNCHANGED <<now, on_data_flag, time_offset, trip, result, calls, answers, skew, answered>>

(* A call that asks nothing.                                                 *)
Run ==
    /\ asking.pc = "trying" /\ asking.left > 0 /\ asking.kind \in Running
    /\ asking' = StartsListening
    /\ on_data_flag' = (on_data_flag /\ asking.kind # "until_data")
    /\ UNCHANGED <<now, on_pong_flag, synchronized, time_offset, trip, result, calls, network>>

(***************************************************************************)
(* A listen ends: the call has what it wants, or listens again for what is *)
(* left of its time, or tries again.                                       *)
(***************************************************************************)
(* Mutant of NextListen: a listen gets all the time again.                   *)
ListenInFull(kind, elapsed) == IF elapsed < Timeout THEN Timeout ELSE 0

(* What the next listen is given, if there is one. The ping without a        *)
(* session counts what has passed and listens for the whole time again;      *)
(* discovery takes off what has passed since the attempt began, each time.   *)
(* uxr_run_session_time listens until nothing is heard for the whole time,   *)
(* and uxr_run_session_until_timeout once.                                   *)
NextListen(kind, elapsed) ==
    CASE kind \in OfSession \ {"run_time", "until_timeout"} -> Timeout - elapsed
      [] kind = "run_time" -> IF now < asking.until THEN Timeout ELSE 0
      [] kind = "until_timeout" -> 0
      [] kind = "ping" -> IF elapsed < Timeout THEN Timeout ELSE 0
      [] kind = "discovery" -> asking.poll - elapsed

(* Whether a call ends for good with what it heard, and what it returns.     *)
Satisfied(heard) ==
    CASE asking.kind = "ping_session" -> on_pong_flag' # NO_PONG_STATUS
      [] asking.kind = "sync" -> synchronized'
      [] asking.kind = "until_data" -> on_data_flag'
      [] asking.kind = "until_timeout" -> now < asking.until
      [] asking.kind \in {"run_time", "run_timeout"} -> FALSE
      [] OTHER -> heard
Success(heard) ==
    IF asking.kind = "ping_session"
    THEN asking.sent /\ on_pong_flag' = PONG_IN_SESSION_STATUS
    ELSE Satisfied(heard)

AfterListen(heard) ==
    LET next == NextListen(asking.kind, now - asking.began) IN
    IF Success(heard) THEN Ends(TRUE)
    ELSE /\ asking' = IF Satisfied(heard) \/ next <= 0 THEN [asking EXCEPT !.pc = "trying"]
                      ELSE [asking EXCEPT !.poll = next, !.until = now + next]
         /\ UNCHANGED result

Listening == asking.pc = "listening"

HearsNothing ==
    /\ Listening /\ now = asking.until
    /\ UNCHANGED in_session /\ AfterListen(FALSE)
    /\ UNCHANGED <<now, calls, network>>

(* Any other message of the Agent ends a listen.                             *)
HearsOther ==
    /\ Listening /\ now < asking.until
    /\ UNCHANGED in_session /\ AfterListen(FALSE)
    /\ UNCHANGED <<now, calls, network>>

(* read_format_data hands data to the application.                           *)
HearsData ==
    /\ Listening /\ now < asking.until /\ asking.kind \in OfSession
    /\ on_data_flag' = TRUE
    /\ UNCHANGED <<on_pong_flag, synchronized, time_offset, trip>>
    /\ AfterListen(FALSE)
    /\ UNCHANGED <<now, calls, network>>

(* An answer is heard once, or again.                                        *)
Taking(m) ==
    /\ Listening /\ m \in answers
    /\ answers' \in {answers \ {m}, answers}
    /\ UNCHANGED <<now, calls, questions, skew, answered>>

(* read_submessage_info within a session, uxr_acknack_pong without one.      *)
HearsInfo(m) ==
    /\ m.kind = "info" /\ asking.kind # "discovery" /\ Taking(m)
    /\ on_pong_flag' = IF asking.kind = "ping" THEN on_pong_flag ELSE m.pong
    /\ UNCHANGED <<on_data_flag, synchronized, time_offset, trip>>
    /\ AfterListen(m.pong # NO_PONG_STATUS)

(* process_timestamp_reply without a callback of the application; the ping   *)
(* without a session throws the answer away.                                 *)
HearsTime(m) ==
    /\ m.kind = "time" /\ asking.kind # "discovery" /\ Taking(m)
    /\ IF asking.kind = "ping" THEN UNCHANGED <<synchronized, time_offset, trip>>
       ELSE /\ time_offset' = OffsetOf(uxr_convert_to_nanos(m.t0), uxr_convert_to_nanos(m.t1),
                                       uxr_convert_to_nanos(m.t2), uxr_nanos)
            /\ synchronized' = TRUE
            /\ trip' = uxr_nanos - uxr_convert_to_nanos(m.t0)
    /\ UNCHANGED <<on_pong_flag, on_data_flag>>
    /\ AfterListen(FALSE)

(* read_info_message: the application is asked about every locator, and what *)
(* it says of the last one counts.                                           *)
HearsAgent(m) ==
    /\ m.kind = "agents" /\ asking.kind = "discovery" /\ Taking(m)
    /\ UNCHANGED in_session
    /\ \E found \in BOOLEAN : AfterListen(found)

(***************************************************************************)
(* Time, the Agent and the network (external).                             *)
(***************************************************************************)
Tick ==
    /\ now < MaxTime /\ asking.pc # "trying"
    /\ Listening => now < asking.until
    /\ now' = now + 1
    /\ UNCHANGED <<asking, in_session, result, calls, network>>

(* The Agent received the question some time after it was sent.              *)
Received(q) == (uxr_convert_to_nanos(q.t0) + skew)..(now + skew)
AnswersTo(q) ==
    IF q.kind = "time"
    THEN {[kind |-> "time", t0 |-> q.t0, t1 |-> Timestamp(t1), t2 |-> Timestamp(now + skew)]
            : t1 \in Received(q)}
    ELSE {[kind |-> q.kind, pong |-> pong] : pong \in PongStatus}

AgentAnswersCall ==
    /\ Cardinality(questions \cup answers) <= MaxUnderWay
    /\ \E q \in questions : \E m \in AnswersTo(q) :
        /\ answers' = answers \cup {m}
        /\ questions' \in {questions \ {q}, questions}
        /\ answered' = (answered \/ (q.kind = "info" /\ m.pong # NO_PONG_STATUS))
    /\ UNCHANGED <<now, asking, in_session, result, calls, skew>>

LosesQuestion ==
    /\ \E q \in questions : questions' = questions \ {q}
    /\ UNCHANGED <<now, asking, in_session, result, calls, answers, skew, answered>>
LosesAnswer ==
    /\ \E m \in answers : answers' = answers \ {m}
    /\ UNCHANGED <<now, asking, in_session, result, calls, questions, skew, answered>>

NextCalls ==
    \/ \E kind \in Calls, n \in 0..MaxTries : Call(kind, n)
    \/ Try \/ Run \/ NoTriesLeft
    \/ HearsNothing \/ HearsOther \/ HearsData
    \/ \E m \in answers : HearsInfo(m) \/ HearsTime(m) \/ HearsAgent(m)
    \/ Tick \/ AgentAnswersCall \/ LosesQuestion \/ LosesAnswer

CallsSpec == InitCalls /\ [][NextCalls]_calls_vars

(***************************************************************************)
(* Properties.                                                             *)
(***************************************************************************)
(* A ping that returns true was answered by the Agent since it was called,   *)
(* and by none of its own earlier answers, whichever of its attempts the     *)
(* answer was to and whatever else the session heard meanwhile.              *)
PongIsAnswered ==
    asking.kind = "none" /\ result.value /\ result.kind \in {"ping_session", "ping"}
        => answered

(* No call listens longer than it was allowed to, however often a message    *)
(* for someone else interrupts it: each attempt takes its timeout, or, for   *)
(* the ping without a session, not quite twice as long. Only                 *)
(* uxr_run_session_time goes on as long as it hears something.               *)
Allowed(kind) == IF kind = "ping" THEN 2 * Timeout - 1 ELSE Timeout
CallEndsInTime ==
    Listening /\ asking.kind # "run_time"
        => asking.until <= asking.called + (asking.tries - asking.left) * Allowed(asking.kind)

(* Once synchronized, the session is off the Agent's time by half of what    *)
(* the question and its answer took at most, also when the answer is late    *)
(* and belongs to an earlier call.                                           *)
SyncedWithinTrip ==
    LET off == (now + skew) - uxr_epoch_nanos IN
    synchronized => 2 * (IF off < 0 THEN -off ELSE off) <= trip + 1
=============================================================================

------------------------------- MODULE Session -------------------------------
(* The calls of a session that wait for an answer of the Agent, driven by    *)
(* one application thread: src/src/c/core/session/session.c (create, delete, *)
(* run_session_until_all_status, run_session_until_one_status, the reading   *)
(* of the answers) and session_info.c (request identifiers, last status).    *)
(*                                                                           *)
(* Of the streams this module only knows whether they are as reset or used.  *)
(* Logins, logouts and their answers may be lost, reordered and late: the    *)
(* sets below keep what may still arrive. The Agent is external.             *)
EXTENDS Integers, Sequences

CONSTANTS
    MaxRequestId,     \* UINT16_MAX
    MaxAttempts,      \* retries the application asks for, at most
    Lists,            \* the request lists the application may wait for
    Refusals,         \* the statuses an Agent may refuse with
    Quiet             \* the application lets late datagrams pass before a call

UXR_INVALID_REQUEST_ID == 0
UXR_REQUEST_LOGIN == 1
UXR_REQUEST_LOGOUT == 2
RESERVED_REQUESTS_ID == 9

RequestIds == RESERVED_REQUESTS_ID + 1..MaxRequestId

UXR_STATUS_NONE == "none"
UXR_STATUS_OK == "ok"
Answers == {UXR_STATUS_OK} \cup Refusals

(* What became of a request: not written, answers still to come, answered.   *)
Unused == "unused"
Pending == "pending"

ASSUME SessionAssumption ==
    /\ MaxRequestId \in Nat /\ MaxRequestId > RESERVED_REQUESTS_ID
    /\ MaxAttempts \in Nat /\ Quiet \in BOOLEAN
    /\ Lists \subseteq Seq(RequestIds \cup {UXR_INVALID_REQUEST_ID})
    /\ Refusals \cap {UXR_STATUS_NONE, UXR_STATUS_OK, Unused, Pending} = {}

VARIABLES
    call,                      \* the call the application is in, or "idle"
    heard,                     \* a listen of that call came to its end
    attempts,                  \* attempts left of create or delete
    last_request_id,
    last_requested_status,
    request_list, status_list, request_status_list_size,
    streams,                   \* "reset" or "used"
    returned,                  \* the last call that returned, and what
    to_agent,                  \* logins and logouts that may reach the Agent
    to_client,                 \* their answers that may reach the Client
    requests,                  \* what became of the request of each identifier
    agent_session              \* the Agent knows the session

info == <<last_request_id, last_requested_status>>
lists == <<request_list, status_list, request_status_list_size>>
agent == <<to_client, requests, agent_session>>
vars == <<call, heard, attempts, info, lists, streams, returned, to_agent, agent>>

Init ==
    /\ call = "idle" /\ heard = FALSE /\ attempts = 0
    /\ last_request_id = RESERVED_REQUESTS_ID
    /\ last_requested_status = UXR_STATUS_NONE
    /\ request_list = <<>> /\ status_list = <<>> /\ request_status_list_size = 0
    /\ streams = "reset"
    /\ returned = [call |-> "none", value |-> FALSE]
    /\ to_agent = {} /\ to_client = {}
    /\ requests = [id \in RequestIds |-> Unused]
    /\ agent_session = FALSE

(***************************************************************************)
(* Requests. An identifier comes round again after MaxRequestId, but not   *)
(* while an answer to its last use may come or a call waits for one.       *)
(***************************************************************************)
generate_request_id ==
    IF last_request_id = MaxRequestId \/ last_request_id <= RESERVED_REQUESTS_ID
    THEN RESERVED_REQUESTS_ID + 1 ELSE last_request_id + 1

(* Any of the uxr_buffer_* functions that return an identifier.              *)
GenerateRequest ==
    /\ requests[generate_request_id] # Pending
    /\ generate_request_id \notin {request_list[i] : i \in 1..request_status_list_size}
    /\ last_request_id' = generate_request_id
    /\ requests' = [requests EXCEPT ![generate_request_id] = Pending]

WriteRequest ==
    /\ call = "idle"
    /\ GenerateRequest
    /\ streams' = "used"
    /\ UNCHANGED <<call, heard, attempts, last_requested_status, lists, returned,
                   to_agent, to_client, agent_session>>

(***************************************************************************)
(* uxr_create_session_retries, uxr_delete_session_retries and              *)
(* wait_session_status: send, listen for an interval, send again.          *)
(***************************************************************************)
NothingLate == Quiet => to_agent = {} /\ to_client = {}

(* Mutants of WaitSessionStatus: an earlier status is kept; no attempt at all*)
(* is not provided for.                                                      *)
WaitWithOldStatus(which, n) ==
    /\ UNCHANGED last_requested_status
    /\ to_agent' = to_agent \cup {which}
    /\ heard' = FALSE
    /\ call' = which /\ attempts' = IF n = 0 THEN 0 ELSE n - 1
    /\ UNCHANGED returned
WaitWithoutAttempts(which, n) ==
    /\ last_requested_status' = UXR_STATUS_NONE
    /\ to_agent' = to_agent \cup {which}
    /\ heard' = FALSE
    /\ call' = which /\ attempts' = n - 1
    /\ UNCHANGED returned

(* Without attempts there is nothing to wait for and no status.              *)
WaitSessionStatus(which, n) ==
    /\ last_requested_status' = UXR_STATUS_NONE
    /\ to_agent' = to_agent \cup {which}
    /\ heard' = FALSE
    /\ IF n = 0
       THEN /\ returned' = [call |-> which, value |-> FALSE]
            /\ UNCHANGED <<call, attempts>>
       ELSE /\ call' = which /\ attempts' = n - 1
            /\ UNCHANGED returned

CreateSession(n) ==
    /\ call = "idle" /\ NothingLate
    /\ streams' = "reset"
    /\ last_request_id' = UXR_REQUEST_LOGIN
    /\ WaitSessionStatus("create", n)
    /\ UNCHANGED <<lists, agent>>

DeleteSession(n) ==
    /\ call = "idle" /\ NothingLate
    /\ last_request_id' = UXR_REQUEST_LOGOUT
    /\ WaitSessionStatus("delete", n)
    /\ UNCHANGED <<lists, streams, agent>>

(* The interval is over.                                                     *)
SendAgain ==
    /\ call \in {"create", "delete"} /\ ~heard
    /\ attempts > 0
    /\ attempts' = attempts - 1
    /\ to_agent' = to_agent \cup {call}
    /\ UNCHANGED <<call, heard, info, lists, streams, returned, agent>>

Returns(value) ==
    /\ returned' = [call |-> call, value |-> value]
    /\ call' = "idle" /\ heard' = FALSE

GiveUp ==
    /\ call \in {"create", "delete"} /\ ~heard
    /\ attempts = 0
    /\ Returns(FALSE)
    /\ UNCHANGED <<attempts, info, lists, streams, to_agent, agent>>

(* After a message: the wait ends with the first status.                     *)
GoOnWaiting ==
    /\ call \in {"create", "delete"} /\ heard
    /\ last_requested_status = UXR_STATUS_NONE
    /\ heard' = FALSE
    /\ UNCHANGED <<call, attempts, info, lists, streams, returned, to_agent, agent>>

EndWait ==
    LET ok == last_requested_status = UXR_STATUS_OK IN
    /\ call \in {"create", "delete"} /\ heard
    /\ last_requested_status # UXR_STATUS_NONE
    /\ streams' = IF call = "create" /\ ok THEN "reset" ELSE streams
    /\ attempts' = 0
    /\ Returns(ok)
    /\ UNCHANGED <<info, lists, to_agent, agent>>

(***************************************************************************)
(* uxr_run_session_until_all_status, uxr_run_session_until_one_status:     *)
(* listen until the list is answered or the time is over.                  *)
(***************************************************************************)
RunUntilStatus(which, list) ==
    /\ call = "idle"
    /\ call' = which /\ heard' = FALSE
    /\ request_list' = list
    /\ status_list' = [i \in 1..Len(list) |-> UXR_STATUS_NONE]
    /\ request_status_list_size' = Len(list)
    /\ UNCHANGED <<attempts, info, streams, returned, to_agent, agent>>

Answered(i) ==
    status_list[i] # UXR_STATUS_NONE \/ request_list[i] = UXR_INVALID_REQUEST_ID
StatusConfirmed ==
    IF call = "all" THEN \A i \in DOMAIN request_list : Answered(i)
                    ELSE \E i \in DOMAIN request_list : Answered(i)
StatusOk == \A i \in DOMAIN status_list : status_list[i] = UXR_STATUS_OK

(* A listen that ends without a message.                                     *)
HearNothing ==
    /\ call \in {"all", "one"} /\ ~heard
    /\ heard' = TRUE
    /\ UNCHANGED <<call, attempts, info, lists, streams, returned, to_agent, agent>>

RunOn ==
    /\ call \in {"all", "one"} /\ heard
    /\ ~StatusConfirmed
    /\ heard' = FALSE
    /\ UNCHANGED <<call, attempts, info, lists, streams, returned, to_agent, agent>>

(* Mutant of ForgetLists: the lists stay registered with the session.        *)
KeepLists == UNCHANGED request_status_list_size

ForgetLists == request_status_list_size' = 0

(* Confirmed, or out of time.                                                *)
EndRun ==
    /\ call \in {"all", "one"} /\ heard
    /\ Returns(IF call = "all" THEN StatusOk ELSE StatusConfirmed)
    /\ ForgetLists
    /\ UNCHANGED <<attempts, info, request_list, status_list, streams, to_agent, agent>>

(***************************************************************************)
(* listen_message: one datagram of the Agent, read whatever call waits.    *)
(***************************************************************************)
Listens == call # "idle" /\ ~heard /\ heard' = TRUE

(* uxr_read_create_session_status, uxr_read_delete_session_status: only the  *)
(* second looks at what was asked last.                                      *)
Heeds(r) == r.to = "create" \/ last_request_id = UXR_REQUEST_LOGOUT

HearSessionStatus(r) ==
    /\ Listens
    /\ to_client' = to_client \ {r}
    /\ last_requested_status' = IF Heeds(r) THEN r.status ELSE last_requested_status
    /\ UNCHANGED <<call, attempts, last_request_id, lists, streams, returned,
                   to_agent, requests, agent_session>>

(* Mutant of ProcessStatus: the first entry without a status is filled.      *)
ProcessStatusInOrder(id, status) ==
    LET open == {i \in 1..request_status_list_size : status_list[i] = UXR_STATUS_NONE}
    IN  \/ open = {} /\ UNCHANGED status_list
        \/ \E first \in open :
              /\ \A i \in open : first <= i
              /\ status_list' = [status_list EXCEPT ![first] = status]

(* process_status: the first entry of the list that matches.                 *)
ProcessStatus(id, status) ==
    LET matching == {i \in 1..request_status_list_size : request_list[i] = id}
    IN  \/ matching = {} /\ UNCHANGED status_list
        \/ \E first \in matching :
              /\ \A i \in matching : first <= i
              /\ status_list' = [status_list EXCEPT ![first] = status]

(* read_submessage_status: the Agent answers a request once.                 *)
HearStatus(id, status) ==
    /\ Listens
    /\ requests[id] = Pending
    /\ requests' = [requests EXCEPT ![id] = status]
    /\ ProcessStatus(id, status)
    /\ streams' = "used"
    /\ UNCHANGED <<call, attempts, info, request_list, request_status_list_size,
                   returned, to_agent, to_client, agent_session>>

(* read_submessage_data: data that was asked for confirms its request, and a *)
(* callback may write a request of its own (examples/ReplyAdder).            *)
HearData(id) ==
    /\ Listens
    /\ requests[id] \in {Pending, UXR_STATUS_OK}
    /\ ProcessStatus(id, UXR_STATUS_OK)
    /\ \/ UNCHANGED <<last_request_id, requests>>
       \/ GenerateRequest
    /\ streams' = "used"
    /\ UNCHANGED <<call, attempts, last_requested_status, request_list,
                   request_status_list_size, returned, to_agent, to_client, agent_session>>

(***************************************************************************)
(* The Agent and the network (external).                                   *)
(***************************************************************************)
Reply(to, status) == [to |-> to, status |-> status]

AgentHandles(d, status) ==
    /\ \/ d = "create" /\ agent_session' = (agent_session \/ status = UXR_STATUS_OK)
       \/ d = "delete" /\ agent_session' = (agent_session /\ status # UXR_STATUS_OK)
    /\ to_agent' = to_agent \ {d}
    /\ to_client' = to_client \cup {Reply(d, status)}
    /\ UNCHANGED <<call, heard, attempts, info, lists, streams, returned, requests>>

NetworkLoses ==
    /\ \/ \E d \in to_agent : to_agent' = to_agent \ {d} /\ UNCHANGED to_client
       \/ \E r \in to_client : to_client' = to_client \ {r} /\ UNCHANGED to_agent
    /\ UNCHANGED <<call, heard, attempts, info, lists, streams, returned,
                   requests, agent_session>>

Next ==
    \/ WriteRequest
    \/ \E n \in 0..MaxAttempts : CreateSession(n) \/ DeleteSession(n)
    \/ SendAgain \/ GiveUp \/ GoOnWaiting \/ EndWait
    \/ \E which \in {"all", "one"}, list \in Lists : RunUntilStatus(which, list)
    \/ HearNothing \/ RunOn \/ EndRun
    \/ \E r \in to_client : HearSessionStatus(r)
    \/ \E id \in RequestIds : HearData(id) \/ \E s \in Answers : HearStatus(id, s)
    \/ \E d \in to_agent, s \in Answers : AgentHandles(d, s)
    \/ NetworkLoses

Spec == Init /\ [][Next]_vars

(***************************************************************************)
(* Properties.                                                             *)
(***************************************************************************)
SessionTypeOK ==
    /\ call \in {"idle", "create", "delete", "all", "one"} /\ heard \in BOOLEAN
    /\ attempts \in 0..MaxAttempts
    /\ last_request_id \in RequestIds
          \cup {UXR_REQUEST_LOGIN, UXR_REQUEST_LOGOUT, RESERVED_REQUESTS_ID}
    /\ last_requested_status \in Answers \cup {UXR_STATUS_NONE}
    /\ request_list \in Lists \cup {<<>>}
    /\ status_list \in [DOMAIN request_list -> Answers \cup {UXR_STATUS_NONE}]
    /\ request_status_list_size \in 0..Len(request_list)
    /\ streams \in {"reset", "used"}
    /\ requests \in [RequestIds -> Answers \cup {Unused, Pending}]
    /\ agent_session \in BOOLEAN

(* The Client and the Agent agree on the session after every create or       *)
(* delete that returned true, however many of their messages were lost,      *)
(* sent again or answered late, if the application let late answers pass     *)
(* before the call (Quiet).                                                  *)
SessionAgreed ==
    call = "idle" /\ returned.value =>
        /\ returned.call = "create" => agent_session
        /\ returned.call = "delete" => ~agent_session

(* The lists of a call that returned are the caller's again: no later answer *)
(* writes into them.                                                         *)
ListsUntouched ==
    [][call \notin {"all", "one"} /\ call' \notin {"all", "one"}
          => UNCHANGED status_list]_vars

(* A status stands beside the request it answers, also when other requests   *)
(* are answered in between, refused, or written by a callback meanwhile.     *)
StatusMatches ==
    \A i \in 1..request_status_list_size :
        status_list[i] \in Refusals =>
            /\ request_list[i] \in RequestIds
            /\ requests[request_list[i]] = status_list[i]

(* "true in case of successful session deletion" (session.h).                *)
DeletedIsDeleted ==
    call = "idle" /\ returned = [call |-> "delete", value |-> TRUE] => ~agent_session

=============================================================================

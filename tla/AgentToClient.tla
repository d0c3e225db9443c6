---------------------------- MODULE AgentToClient ----------------------------
(* A reliable input stream of the Client fed by an Agent through a transport *)
(* that may lose, delay, repeat and reorder datagrams (UDP).                 *)
(*                                                                           *)
(* The Agent is external to the repository: it numbers its messages, keeps   *)
(* at most AgentWindow of them unacknowledged, and forgets those that an     *)
(* acknack confirms. The transport needs no variable: any message that was   *)
(* not read yet, or is one of the last Lifetime sent, may arrive at any time,*)
(* again or never.                                                           *)
EXTENDS InputReliableStream

CONSTANTS
    AgentWindow,     \* messages the Agent sends without their acknowledgement
    MaxFragments,    \* fragments of the largest submessage the Agent sends
    Lifetime         \* messages sent before a handled one leaves the network

ASSUME AgentAssumption ==
    /\ AgentWindow \in Nat \ {0} /\ MaxFragments \in Nat
    /\ Lifetime \in Nat
    /\ 2 * (AgentWindow + History + Lifetime) < SeqNumSize

VARIABLES
    agent_log,     \* the messages that may arrive, the oldest first
    agent_last,    \* sequence number of the last one
    agent_acked,   \* last sequence number an acknack confirmed
    acknack        \* first_unacked of the last acknack written, or NoAck

agent == <<agent_log, agent_last, agent_acked>>
agentVars == <<vars, agent, acknack>>

NoAck == -1
NotHandled == SeqNumSub(agent_last, last_handled)
Unconfirmed == SeqNumSub(agent_last, agent_acked)

SeqNumOf(n) == SeqNumSub(agent_last, Len(agent_log) - n)

(* A new message, or the fragment that follows the last one sent.            *)
MayFollow(p) ==
    IF agent_log = <<>> \/ agent_log[Len(agent_log)].last
        THEN p.part = 0 \/ (p.part = 1 /\ ~p.last)
        ELSE LET q == agent_log[Len(agent_log)]
             IN  /\ p.msg = q.msg /\ p.part = q.part + 1
                 /\ p.part = MaxFragments => p.last

(* What is left of the log when one more message is sent.                    *)
StillArriving ==
    IF Len(agent_log) > NotHandled /\ Len(agent_log) >= Lifetime
    THEN Tail(agent_log) ELSE agent_log

AgentInit ==
    /\ Init
    /\ agent_log = <<>>
    /\ agent_last = SeqNumMax
    /\ agent_acked = SeqNumMax
    /\ acknack = NoAck

AgentSend(p) ==
    /\ ~looping
    /\ Unconfirmed < AgentWindow
    /\ MayFollow(p)
    /\ agent_last' = SeqNumAdd(agent_last, 1)
    /\ agent_log' = Append(StillArriving, p)
    /\ UNCHANGED <<vars, agent_acked, acknack>>

WriteAcknack == acknack' = FirstUnacked'

DataArrives(n) ==
    /\ Receive(SeqNumOf(n), agent_log[n])
    /\ IF looping' THEN UNCHANGED acknack ELSE WriteAcknack
    /\ UNCHANGED agent

(* A heartbeat tells what the Agent holds; a late one tells what it held.    *)
HeartbeatArrives(n) ==
    /\ ProcessHeartbeat(SeqNumOf(n))
    /\ WriteAcknack
    /\ UNCHANGED agent

(* The Agent takes an acknack that confirms something and ignores the rest.  *)
AgentHandlesAcknack ==
    /\ acknack # NoAck
    /\ SeqNumSub(acknack, SeqNumAdd(agent_acked, 1)) \in 1..Unconfirmed
    /\ agent_acked' = SeqNumSub(acknack, 1)
    /\ UNCHANGED <<vars, agent_log, agent_last, acknack>>

AgentNext ==
    \/ \E p \in Messages : AgentSend(p)
    \/ \E n \in 1..Len(agent_log) : DataArrives(n)
    \/ \E n \in 1..Len(agent_log) : HeartbeatArrives(n)
    \/ AgentHandlesAcknack

AgentSpec == AgentInit /\ [][AgentNext]_agentVars

(***************************************************************************)
(* Properties.                                                             *)
(***************************************************************************)
AgentTypeOK ==
    /\ TypeOK
    /\ agent_log \in Seq(Messages) 
    /\ agent_last \in SeqNums /\ agent_acked \in SeqNums
    /\ acknack \in SeqNums \cup {NoAck}

(* Every buffer holds the message the Agent sent under the sequence number   *)
(* that maps to it now, however often the ring went round: a leftover of a   *)
(* fragment or of an earlier lap would be read in place of a later message.  *)
BuffersMatchStream ==
    \A n \in 1..History :
        Held(slots, last_handled, n) # None =>
            /\ n <= NotHandled
            /\ Held(slots, last_handled, n)
                   = agent_log[Len(agent_log) - NotHandled + n]

(* A message the Client acknowledges, and the Agent forgets, was read or is  *)
(* held by the Client.                                                       *)
AcknowledgedIsHeld ==
    \A n \in 1..NotHandled - Unconfirmed : Held(slots, last_handled, n) # None

(* The nack bitmap asks for exactly the messages announced and missing.      *)
NackIsExact ==
    \A n \in 1..SeqNumSub(last_announced, last_handled) :
        LET i == SeqNumSub(SeqNumAdd(last_handled, n), FirstUnacked) IN
        n <= History /\ i < SeqNumMidsize =>
            (i \in NackBitmap <=> Held(slots, last_handled, n) = None)

(* check_last_fragment returns.                                              *)
NeverLoops == ~looping

(* What the application has yet to read, as the queue of InOrderDelivery.    *)
Unread == SubSeq(agent_log, Len(agent_log) - NotHandled + 1, Len(agent_log))

Delivery == INSTANCE InOrderDelivery WITH queue <- Unread

(* Whatever the transport loses, repeats or reorders, the application reads  *)
(* what the Agent sent, once, in order, and whole.                           *)
ImplementsInOrderDelivery == Delivery!Spec
=============================================================================

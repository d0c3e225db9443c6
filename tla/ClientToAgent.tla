---------------------------- MODULE ClientToAgent ----------------------------
(* A reliable output stream of the Client driven by one application thread   *)
(* that writes and calls uxr_run_session_until_confirm_delivery, with the    *)
(* Agent at the other end of a transport.                                    *)
(*                                                                           *)
(* Datagrams to the Agent may be lost, repeated, reordered and delayed; the  *)
(* acknacks may be lost but come in the order they were sent. The Agent is   *)
(* external to the repository: it takes messages in the order of their       *)
(* sequence numbers and answers data and heartbeats with an acknack. (One    *)
(* that keeps early messages is this one on a network that delays them.)     *)
EXTENDS OutputReliableStream, SequencesExt

CONSTANTS
    Lifetime,      \* messages taken before an old datagram leaves the network
    MaxAcknacks,   \* acknacks on their way
    ShortCalls     \* calls may time out before the next heartbeat is due

ASSUME ChannelAssumption ==
    /\ Lifetime \in Nat \ {0} /\ MaxAcknacks \in Nat \ {0} /\ ShortCalls \in BOOLEAN
    /\ 2 * (Lifetime + History) < SeqNumSize

VARIABLES
    call,              \* where the application's thread is
    confirmed,         \* the last call returned true, nothing was written since
    network,           \* datagrams on their way to the Agent
    acknacks,          \* acknacks on their way to the Client, in order
    agent_taken,       \* last sequence number the Agent took
    agent_announced,   \* last sequence number the Agent heard of
    delivered,         \* what the Agent took last ...
    round              \* ... and the parity of the number of such steps

session == <<call, confirmed>>
agent == <<agent_taken, agent_announced, delivered, round>>
channelVars == <<vars, session, network, acknacks, agent>>

Data(seq_num) == [seq_num |-> seq_num, data |-> data[Slot(seq_num)]]

(* write_submessage_heartbeat                                                *)
Heartbeat == [last_unacked |-> last_sent]
IsData(d) == "data" \in DOMAIN d
Announces(d) == IF IsData(d) THEN d.seq_num ELSE d.last_unacked

(* Datagrams that old are no longer on their way.                            *)
Pruned(datagrams, taken) ==
    {d \in datagrams : SeqNumSub(taken, Announces(d)) \notin Lifetime..SeqNumMidsize - 1}

(* The session has one reliable output stream.                               *)
uxr_output_streams_confirmed == uxr_is_output_up_to_date

ChannelInit ==
    /\ Init
    /\ call = "idle" /\ confirmed = FALSE
    /\ network = {} /\ acknacks = <<>>
    /\ agent_taken = SeqNumMax /\ agent_announced = SeqNumMax
    /\ delivered = <<>> /\ round = 0

AppWrites(m) ==
    /\ call = "idle"
    /\ Write(m)
    /\ confirmed' = FALSE
    /\ UNCHANGED <<call, network, acknacks, agent>>

(***************************************************************************)
(* uxr_run_session_until_confirm_delivery: flush once, then listen until   *)
(* everything sent is confirmed or the time is over.                       *)
(***************************************************************************)
CallRun ==
    /\ call = "idle"
    /\ FlashBegin
    /\ call' = "flash" /\ confirmed' = FALSE
    /\ UNCHANGED <<network, acknacks, agent>>

RunSends ==
    /\ FlashSend
    /\ network' = network \cup {Data(NextToSend)}
    /\ UNCHANGED <<session, acknacks, agent>>

RunSendFails ==
    /\ FlashSendFails
    /\ call' = "run"
    /\ UNCHANGED <<confirmed, network, acknacks, agent>>

RunSentAll ==
    /\ FlashEnd
    /\ call' = "run"
    /\ UNCHANGED <<confirmed, network, acknacks, agent>>

(* One turn of listen_message_reliably, up to the wait for a message.        *)
RunListens ==
    /\ call = "run" /\ ~uxr_output_streams_confirmed
    /\ UpdateHeartbeat
    /\ network' = IF MustConfirm THEN network \cup {Heartbeat} ELSE network
    /\ call' = "wait"
    /\ UNCHANGED <<confirmed, acknacks, agent>>

(* The wait ends with an acknack: listen_message, read_submessage_acknack.   *)
RunHandlesAcknack ==
    LET acknack == Head(acknacks) IN
    /\ call = "wait" /\ acknacks # <<>>
    /\ ProcessAcknack(acknack.first_unacked)
    /\ network' = network \cup (IF acknack.nack THEN {Data(s) : s \in SentAndHeld}' ELSE {})
    /\ acknacks' = Tail(acknacks)
    /\ call' = "run"
    /\ UNCHANGED <<confirmed, agent>>

TimePasses ==
    /\ call = "wait"
    /\ Tick
    /\ UNCHANGED <<session, network, acknacks, agent>>

(* The wait ends because the next heartbeat is due.                          *)
RunWaited ==
    /\ call = "wait" /\ next_heartbeat_timestamp = 0
    /\ call' = "run"
    /\ UNCHANGED <<vars, confirmed, network, acknacks, agent>>

RunConfirms ==
    /\ call = "run" /\ uxr_output_streams_confirmed
    /\ call' = "idle" /\ confirmed' = TRUE
    /\ UNCHANGED <<vars, network, acknacks, agent>>

(* The call's own time is over.                                              *)
RunTimesOut ==
    /\ call = "wait"
    /\ ShortCalls \/ next_heartbeat_timestamp = 0
    /\ call' = "idle"
    /\ UNCHANGED <<vars, confirmed, network, acknacks, agent>>

(***************************************************************************)
(* The network and the Agent (external).                                   *)
(***************************************************************************)
AcknackLost == UNCHANGED acknacks

(* The Agent hears of d and answers with an acknack, taken being the last    *)
(* sequence number it took.                                                  *)
AgentAnswers(d, taken) ==
    LET announced == IF SeqNumCmp(agent_announced, Announces(d)) < 0
                     THEN Announces(d) ELSE agent_announced
        acknack == [first_unacked |-> SeqNumAdd(taken, 1), nack |-> announced # taken]
    IN
    /\ agent_announced' = announced
    /\ \/ Len(acknacks) < MaxAcknacks /\ acknacks' = Append(acknacks, acknack)
       \/ AcknackLost

IsNext(d) == IsData(d) /\ d.seq_num = SeqNumAdd(agent_taken, 1)

AgentTakes(d) ==
    /\ IsNext(d)
    /\ AgentAnswers(d, d.seq_num)
    /\ agent_taken' = d.seq_num
    /\ delivered' = d.data /\ round' = 1 - round
    /\ \E left \in {network, network \ {d}} : network' = Pruned(left, d.seq_num)
    /\ UNCHANGED <<vars, session>>

(* A heartbeat, or data taken before or not to be taken yet.                 *)
AgentReplies(d) ==
    /\ ~IsNext(d)
    /\ AgentAnswers(d, agent_taken)
    /\ network' \in {network, network \ {d}}
    /\ UNCHANGED <<vars, session, agent_taken, delivered, round>>

NetworkLoses(d) ==
    /\ network' = network \ {d}
    /\ UNCHANGED <<vars, session, acknacks, agent>>

Client ==
    \/ CallRun \/ RunSends \/ RunSentAll \/ RunSendFails \/ RunListens
    \/ RunHandlesAcknack \/ RunWaited \/ RunConfirms \/ RunTimesOut

ChannelNext ==
    \/ \E m \in Messages : AppWrites(m)
    \/ Client
    \/ TimePasses
    \/ \E d \in network : AgentTakes(d) \/ AgentReplies(d) \/ NetworkLoses(d)

(* The application calls again and again, the calls go on, time passes; what *)
(* is sent for ever arrives, a transport that is asked for ever sends, and   *)
(* the network does not repeat for ever what the Client no longer sends.     *)
Fairness ==
    /\ WF_channelVars(CallRun \/ RunSentAll \/ RunListens \/ RunWaited \/ RunConfirms)
    /\ WF_channelVars(TimePasses)
    /\ WF_channelVars(\E d \in network : d # Heartbeat /\ NetworkLoses(d))
    /\ SF_channelVars(RunSends)
    /\ SF_channelVars(RunHandlesAcknack)
    /\ SF_channelVars(\E d \in network : AgentTakes(d))
    /\ SF_channelVars(Heartbeat \in network /\ AgentReplies(Heartbeat) /\ ~AcknackLost)

ChannelSpec == ChannelInit /\ [][ChannelNext]_channelVars
FairChannelSpec == ChannelSpec /\ Fairness

(***************************************************************************)
(* Properties.                                                             *)
(***************************************************************************)
ChannelTypeOK ==
    /\ TypeOK
    /\ call \in {"idle", "flash", "run", "wait"} /\ confirmed \in BOOLEAN
    /\ agent_taken \in SeqNums /\ agent_announced \in SeqNums

(* The Client frees a buffer only when the Agent took what it held, so that  *)
(* a stream that is up to date has delivered everything it sent.             *)
FreedIsTaken ==
    SeqNumSub(agent_taken, last_acknown) <= SeqNumSub(last_sent, last_acknown)

(* Every datagram the Agent may still take carries what the Client's buffer  *)
(* holds: no sequence number is ever used for two different messages.        *)
OneMessagePerSeqNum ==
    \A d \in network :
        IsData(d) /\ SeqNumBehind(agent_taken, d.seq_num) => d = Data(d.seq_num)

(* What the Agent took and the Client does not know of; and what the buffers *)
(* behind it hold, one behind the other.                                     *)
Taken == SeqNumSub(agent_taken, last_acknown)
Unread ==
    FlattenSeq([n \in 1..History - Taken |-> data[Slot(SeqNumAdd(agent_taken, n))]])

Stream == INSTANCE EndToEnd WITH MaxFragments <- History, queue <- Unread

(* Whatever the network loses, repeats or reorders, and whenever the         *)
(* transport refuses to send, the Agent takes what the application wrote,    *)
(* once and in order.                                                        *)
ImplementsEndToEnd == Stream!Spec

(* And it does take all of it, if the application keeps calling and the      *)
(* network is not for ever against it.                                       *)
DeliversInTheEnd == Stream!Fairness

(* "true if all output reliable streams confirm the delivery of their        *)
(* messages" (session.h): a call that returns true leaves nothing that the   *)
(* application wrote before it undelivered.                                  *)
ConfirmedIsDelivered ==
    confirmed => \A i \in Slots : size[i] = Offset

(* While something sent is not acknowledged, heartbeats go on.               *)
HeartbeatsGoOn == []<>(~HasUnacked \/ MustConfirm)
=============================================================================

# Micro XRCE-DDS Client: specifications, model checking and proofs

TLA+ modules of the Client library in `src/` (C), the TLC configurations that
check them on small instances, and TLAPS proofs of theorems about them for every
value of their constants. `PROJECT.json` maps each definition to the lines of
the source that it stands for.

## 1. The system

The Client runs on a device next to the application. It keeps one *session*
with an Agent (a separate program, not in this repository) over a transport
that may be a datagram network, a byte stream or a serial line, and it sends
and receives *submessages* (create an entity, write data, ask for data, ...)
over *streams*.

| Component | Source (`src/c/`) | State | Operations | Modules |
|---|---|---|---|---|
| Sequence numbers | `core/session/stream/seq_num.c` | none | add, sub, circular comparison, 16 bits | `SeqNum` |
| Output reliable stream | `.../output_reliable_stream.c`, `common_reliable_stream_internal.h` | ring of buffers, `last_written`, `last_sent`, `last_acknown`, heartbeat timer, `send_lost` | prepare to write (three ways), prepare to send, cancel, heartbeat, acknack, iterate over lost ones | `OutputReliableStream`, `ReliableSender` |
| Input reliable stream | `.../input_reliable_stream.c` | ring of buffers, `last_handled`, `last_announced`, `cleanup_flag` | receive, next available (reassembly), heartbeat, compute acknack | `InputReliableStream`, `AgentToClient`, `InOrderDelivery` |
| Best-effort streams | `.../{in,out}put_best_effort_stream.c` | one buffer and one cursor | write, send, receive if newer | `BestEffortStreams`, `BestEffortDelivery` |
| Stream storage | `.../stream_storage.c`, `stream_id.c` | arrays of streams | add, look up, reset, all confirmed | one stream of each kind in the other modules |
| Session | `core/session/session.c`, `session_info.c` | identifier and key, last request, last status, the caller's status lists, callbacks | create, delete, `uxr_run_session_*`, time synchronisation, dispatch of submessages | `Session`, `AgentCalls`, `ClientToAgent`, `SessionThreads` |
| Requests | `common_create_entities.c`, `create_entities_*.c`, `write_access.c`, `read_access.c` | `last_request_id`, continuous-fragment arguments | one submessage each; returns an identifier whose status comes later | `Requests`, `Wire`, `ContinuousFragments`, `Session` |
| Serialization | `core/serialization/`, `submessage.c` | none | fields to octets and back | `Cdr`, `XrceTypes`, `Wire` |
| Locks | `profile/multithread` | mutexes of session, streams, transport, shared memory | lock, unlock | `SessionThreads`, `SharedMemory` |
| Shared memory, matching | `profile/shared_memory`, `profile/matching` | entities, matching matrix, pool of items | register, match, hand over inside one process | `SharedMemory`, `Matching` |
| Stream framing, serial | `profile/transport/stream_framing`, `serial` | two 42-byte rings, reader state | frame, unframe | `StreamFraming`, `FramedLine` |
| TCP | `profile/transport/ip/tcp` | connection, a message being read | send, receive, in pieces | `TcpTransport`, `FramedLine` |
| UDP, CAN, custom | `profile/transport/{ip/udp,can,custom}` | platform handle, one buffer | send, receive | UDP in `SessionThreads` |
| Discovery, ping | `profile/discovery`, `util/ping.c` | attempts, timeouts | enquire, wait for answers | `AgentCalls`, `Wire` |
| Time, log | `util/time.c`, `core/log` | none | clock; text | time in `AgentCalls` |

How they interact. The application writes into an output stream (a *request*);
nothing is sent before one of the `uxr_run_session_*` calls *flashes* the output
streams and then *listens*. Everything received is dispatched inside `listen`:
data goes to the application's callbacks (which may write requests), statuses
into the caller's lists, heartbeats and acknacks to the streams, which answer at
once. There is no background thread; with `UCLIENT_PROFILE_MULTITHREAD` several
application threads may call in, under mutexes of the session, each stream and
the transport. Time passes only where the code waits in `listen`. With
`UCLIENT_PROFILE_SHARED_MEMORY` a flash first hands the callbacks of other
entities of the process what was written for them.

What is hard: everything about the ring (a slot is reused by the sequence number
`history` later, comparisons are circular, a fragmented write spans several
slots, a failed send is undone), a network that loses, repeats, delays and
reorders, answers that arrive in a later call than the one that asked, callbacks
inside waits, waits cut short by messages for others, octets that come in pieces,
lengths summed by hand beside the code that serializes, and locks that do not
cover what they seem to. `PROJECT.json` lists the hazards at their lines, with
the property that covers each, or the reason why none does.

What makes each part correct:

* **output stream**: the cursors keep their order, the window has neither holes
  nor leaks, what was sent stays as it is until it is acknowledged, pieces leave
  in the order of the writes;
* **input stream**: what the Agent sent is read once, in order and whole, and
  acknacks say exactly what is missing;
* **both, with the network**: nothing is freed that was not delivered, one
  sequence number means one message, and all that is written gets delivered;
* **best-effort streams**: what is read was sent, whole, in order and once;
* **session**: a call that reports success is right about the Agent's side,
  statuses stand beside the request they answer, the caller's lists are not
  written after the call, and no call takes longer than it was allowed;
* **serialization**: what one side writes, the other reads, whatever stands
  before and behind it in a message;
* **shared memory**: items are conserved, what is handed over is what was
  written, to those it was meant for;
* **threads**: every lock is given back, none is waited for in a circle, and what
  one thread reads no other overwrites;
* **byte lines**: messages are read whole, once and in order, or excused.

## 2. Modules

    SeqNum                      circular arithmetic
     |- OutputReliableStream         the sending half
     |    |- ContinuousFragments         ... with writes in the continuous mode;
     |    |    |                             implements ReliableSender
     |    |    |- ContinuousFragments_proofs (with OutputReliableStream_proofs)
     |    |    `- OutputReliableStreamMC
     |    |- OutputReliableStream_proofs (with SeqNum_proofs)
     |    `- ClientToAgent               ... with application, network, Agent;
     |         |                                implements EndToEnd
     |         |- ClientToAgent_proofs (with OutputReliableStream_proofs)
     |         `- ClientToAgentMC
     |- InputReliableStream          the receiving half
     |    `- AgentToClient               ... with network, Agent
     |         |- AgentToClient_proofs
     |         `- AgentToClientMC            ... implements InOrderDelivery
     `- BestEffortStreams            a buffer and a cursor each way
          `- Wire                        ... with Requests, network, Agent
               `- WireMC                     ... implements BestEffortDelivery
    Cdr                         formats: what is written and read where
     `- XrceTypes                    the types of the protocol
          `- Requests                    submessages of the application's calls
    Session                     calls that wait, statuses, request identifiers
     |- SessionMC                    AgentCalls: calls with a clock in hand
     |    |    |
     |    SessionCallsMC                 both
     `- SessionCalls_proofs              of both
    Matching                    names and qualities in descriptions
     `- SharedMemory                 entities of one process
          `- SharedMemoryMC              (ThreadsMC, Threads_proofs)
    SessionThreads              threads that share a session (SessionThreadsMC)
     |- ThreadsMC                    ... and threads that share memory
     `- Threads_proofs               of both
    StreamFraming, TcpTransport two kinds of byte line: frames on a serial line or
     |                          a custom stream, sizes and messages on a connection;
     |                          both implement FramedLine
     |- ByteLines_proofs             of both
     `- ByteLinesMC
          `- OctetsMC                ... with WireMC

`ReliableSender`, `InOrderDelivery`, `EndToEnd`, `BestEffortDelivery` and
`FramedLine` are the abstract specifications: no ring, no sequence numbers, no
cursors, only queues. A refinement mapping stands in the module that a proof is
about, and otherwise in the one of TLC's constants, which is named `...MC`.
`SessionCallsMC`, `ThreadsMC` and `OctetsMC` put systems that do not meet side by
side: a behaviour is of one of them, and the others rest.

**SeqNum.** `SeqNumSize` is the number of sequence numbers (65536 in the code),
`SeqNumMidsize` half of it. `SeqNumBehind`/`SeqNumCmp` follow the branches of
`uxr_seq_num_cmp`.

**OutputReliableStream.** The variables carry the names of the fields of
`uxrOutputReliableStream`; `size[i]` is the length field of slot `i`, `data[i]`
the submessages and fragments written there (content is abstracted to which
submessage, which fragment, and whether it is the last). `WriteInCurrent`,
`WriteInNext`, `WriteFragmented` are the branches of
`uxr_prepare_reliable_buffer_to_write` with its size arithmetic (alignment,
first, full and last fragment); a refused write is no step. `FlashBegin`,
`FlashSend`, `FlashSendFails`, `FlashEnd` are the turns of the loop of
`uxr_flash_output_streams`, with the stream's mutex (`flashing`) held across
them. `ProcessAcknack` is `read_submessage_acknack`. It locks the mutex of the
*input* direction (session.c:1050), so that it is not excluded by a flash of
another thread, and the model lets it happen between the turns of one.
`UpdateHeartbeat` and `Tick` are the heartbeat timer; the timestamp is kept as
the time left until it. The iterator over lost buffers runs within the handler
and is `SentAndHeld`.

**ContinuousFragments** adds `uxr_prepare_output_stream_fragmented`: a topic
longer than the stream is filled by the user into one buffer after the other;
when none is free a callback runs the session in the middle of the write, and may
make room or not. `writing` says who holds the stream: nobody, the callback for
the first fragment (without the mutex), the user who fills a buffer, or the
callback for the next one (within the write). `ReliableSender` knows such a write
as a message that is accepted fragment by fragment (`open`) and completed or
given up; one that is given up leaves fragments without a last one behind. A send
that is refused within the callback hands back the last fragment, which is full;
`CallbackReturns` then only gives the write up (section 5).

**InputReliableStream.** A slot holds a message or `None`. `Receive` is the
whole of `read_stream` for a reliable message: its five disjuncts are the ways
through `uxr_receive_reliable_message` (next and read at once, stored, the last
fragment that completes a run, ignored, and the loop of `check_last_fragment`
that does not end), followed by the reading of everything that has become
readable (`ReadAll`) and, in the composition, by the acknack. `delivered` and
`round` observe what is read, so that refinement can speak of it (`round` tells
two equal readings apart).

**AgentToClient** adds the Agent's sending half and a network without a variable
of its own: each message not read yet, or among the last `Lifetime` sent, may
arrive at any time, repeatedly, or never; so may a heartbeat that names it.

**ClientToAgent** adds one application thread that writes and calls
`uxr_run_session_until_confirm_delivery` (`CallRun` to `RunConfirms` /
`RunTimesOut`), a set of datagrams towards the Agent, acknacks back, and an
Agent that takes messages in sequence.

**Cdr, XrceTypes, Requests.** A *format* says how a value lies in a buffer: its
fields, their widths and alignments, options, lists and unions. `Write` and `Read`
of `Cdr` are what Micro-CDR does with it, errors at the end of a buffer included;
`XrceTypes` gives the format of every type of `xrce_types.c`, and where writer and
reader differ in the code the format says so (`OptionalNotRead`). `Requests` holds,
for each call of the application, the submessage: identifiers, flags, the length
that the code sums by hand, and the payload.

**BestEffortStreams, Wire.** `Wire` composes a best-effort stream in each
direction with the octets that go through it. `Ask` is a request: it takes an
identifier and is serialized at the end of the buffer, or refused for want of
room; `Flash` stamps and sends; `SendDirect` is what the session sends by itself
(login, logout, heartbeat, acknack, timestamp, ping, discovery), with the length
and the buffer that the code gives it. The Agent (external) reads messages by the
lengths in their headers (`AgentReads`). In the other direction
`ReadSubmessageList` is the dispatch of `session.c`: each handler yields what it
calls and where it stops reading, which is where the next header is looked for.

**Session.** The waits of create and delete (`wait_session_status`) and of
`uxr_run_session_until_all_status` / `_one_status`, as loops over `listen`
(`heard` marks the end of one listen). Messages that may still arrive are sets.
`HearData` lets a callback write a request of its own, as
`examples/ReplyAdder` does, also while create or delete waits.

**AgentCalls.** The calls with a clock: `uxr_ping_agent_session`,
`uxr_ping_agent_attempts`, `uxr_sync_session`, `uxr_discovery_agents`, and the
`uxr_run_session_*` calls that only listen. `asking` is the call: its attempts
left, when it was called, when the attempt began, until when it listens now. `CallsSpec` is the
specification of these calls alone.
`NextListen` is how each loop reckons what is left of its time, after every message
that was for someone else. Questions and answers are sets on a network that loses,
delays and repeats; the Agent's clock is `skew` ahead.

**Matching, SharedMemory.** Descriptions are sequences of tokens (a tag may be
the beginning of another), hashes the sequences of what was hashed. A thread is
its stack of calls; `Write` to `Serialize` is a write (the lock of the stream,
then the items under the lock of the map, and only then the message in the
buffer the items point to); `Flash` to `SendStream` is a flash, `Handle` one turn of
`uxr_handle_shared_memory`, whose callbacks may write and run a session
themselves.

**SessionThreads.** Threads as stacks of calls, each call at a place (`pc`)
between two locks, and the recursive mutexes `session`, `out`, `other`, `in`,
`transport`. It models which locks `uxr_run_session_*`, the pings, create/delete,
the writes and `uxr_prepare_output_stream_fragmented` take, in which order and
within which other calls; the transport's one buffer; and `generate_request_id` as
the read and the write that it is. What the streams hold is left to the other
modules: a flash may always send or not, a write find room or not.

**StreamFraming.** `wire` holds the octets written and not read. `WriteFrame`
appends a frame, or its first `n` octets when the line refuses the rest in the
middle of `uxr_write_framed_msg`; frames of other writers or for other readers
(`Routes`) are skipped. `rb` is the content of the reader's ring from `rb_tail` on
(so `rb_head` is their sum), and `reading`/`state` say whether a call is in
progress and which octet it waits for. Every read of the line takes any number
of octets up to what the code asks for and the ring holds, or none, so that
frames are split in all ways and calls end in all states. Octets, escapes and
the CRC are those of the code, its table computed from the polynomial; the
exclusive or of two octets is taken by halves from a table (`HalfXor`).
`CutPayloads` are the payloads whose frames may be cut.

**TcpTransport.** `send_tcp_msg` (size, then message, in as many writes as the
line takes, with attempts that run out) and the states of `read_tcp_data`. Either
end may fail and close; nothing reconnects by itself, `Reconnect` is the
application's.

## 3. Runs

| Run | Module, configuration | What it shows |
|---|---|---|
| `out` | `OutputReliableStreamMC`, `OutputReliableStream.cfg` | `TypeOK`, `WindowBounded`, `WindowFilled`, `UnackedUnchanged`, and that the stream, continuous mode included, implements `ReliableSender` |
| `in` | `AgentToClientMC`, `AgentToClient.cfg` | `AgentTypeOK`, `BuffersMatchStream`, `AcknowledgedIsHeld`, `NackIsExact`, `NeverLoops`, and that the stream implements `InOrderDelivery` |
| `channel` | `ClientToAgentMC`, `ClientToAgent.cfg` | `ChannelTypeOK`, `FreedIsTaken`, `OneMessagePerSeqNum`, and that the whole channel implements `EndToEnd`: `ImplementsEndToEnd`, and its fairness, `DeliversInTheEnd` |
| `session` | `SessionCallsMC`, `SessionCalls.cfg` | `SessionTypeOK`, `SessionAgreed`, `StatusMatches`, `ListsUntouched`; of the calls with a clock `PongIsAnswered`, `CallEndsInTime`, `SyncedWithinTrip` |
| `octets` | `OctetsMC`, `Octets.cfg` | the types of both halves (`OctetsTypeOK`: `WireTypeOK` and `FramingTypeOK`); of messages `AgentUnderstands`, `AsideIsUnderstood`, and that best-effort streams implement `BestEffortDelivery`; of octets that the framed reader implements `FramedLine` (liveness included) and so does a TCP connection (`ImplementsConnection`) |
| `threads` | `ThreadsMC`, `Threads.cfg` | of shared memory `SmTypeOK`, `PoolConserved`, `HandedIsWritten`, `RepliesFindTheirRequester`, `MatchedAreOfOneSubject`, `SomeoneGoesOn`; of threads `ThreadsTypeOK`, `MessageIntact`, `LocksGivenBack`, `NoCircle`, `NumbersDiffer` |
| `in_loops`, `confirm`, `heartbeat`, `late_answer`, `flush_circle`, `request_numbers` | violations | see section 6 |

Every property of a passing run has a mutant: a change of one definition as a
bug of the code would make it, under which TLC reports the property violated.
The mutated forms stand before the definitions they replace ("Mutant of ...").

### Bounds, and why they are enough

* **Sequence numbers** 12 with 3 slots (`out`), 18 with 3 (`in`), 8 with 2
  (`channel`), 8 (`octets`). The model wraps around the circle several times
  over, slots are reused, and the window reaches its limit; the code's assumption
  that a full window is less than half of the circle holds as tightly as the
  assumptions allow. The comment in the code asks for a power of two as history;
  what the ring needs is that history divides the range of sequence numbers, so a
  history of 3 out of 12 or 18 is as good.
* **Sizes** (`out`): a buffer of 20 bytes with a header of 4 and a subheader of
  4. Submessages of 8 (two to a buffer), 20 (two or three fragments, as the
  current buffer is empty, half full or full) and 32 bytes (three or four) take
  every branch of the write, and the last needs the whole ring. In the continuous
  mode also 44 bytes, four fragments on three buffers, which cannot end without
  an acknack in the middle of the write.
* **Fragments** (`in`): submessages in one piece or of 2 fragments on 3 slots, so
  that a fragmented one begins at each slot, waits for its last, and lies behind
  others in the ring. More fragments than slots would make the loop endless; run
  `in_loops` is the case beyond, and the proofs of section 4 cover all below.
* **Network** (`in`): an Agent that may be 4 ahead of a ring of 3, so that
  messages beyond the window arrive and are refused; a message handled may come
  back after one more was sent. (`channel`): a datagram may come back until a
  later message was taken, one acknack is under way; every submessage is of two
  fragments (the mix of sizes is in `out`). A datagram that is older than half of
  the circle is taken for a new one by any protocol of this kind; the assumption
  on `Lifetime` excludes it.
* **Heartbeat**: an interval of 1 or 2 ticks and a counter of tries that wraps
  at 2 (256 in the code), so that the wrap is reached.
* **Session**: two request identifiers, so that they come round; at most two
  attempts; lists of one and of two entries, with a repeated and an invalid
  identifier; one kind of refusal.
* **Calls with a clock**: a timeout of 2, two attempts, two calls between the
  times 1 and 4, two questions or answers under way; the Agent's clock is ahead
  by 1, and the proofs cover any other. A second call begins while answers to the first
  are still under way, which is what the properties turn on.
* **Messages**: a buffer of 84 octets, which two requests of most kinds fill, so
  that requests are refused for want of room; every kind of request once with each
  of its options; texts of 0 to 3 octets, which take each alignment that may
  follow; two messages on the way; five answers, in one message or in two.
  `TypesAreReadBack` is a fact about formats and not about behaviour: TLC evaluates
  it over a set of values of every type before the run.
* **Framing**: two frames behind the last one that was read, each whole, cut at
  any octet, or for another reader; a ring of 6 (42 in the code), just above the
  5 octets that a call may ask for, so that it comes round within a frame; a
  payload with a flag and one whose checksum holds a flag; the frame of the first
  is the one that may be cut.
* **TCP**: two unread messages, written and read in all pieces; two attempts.
* **Shared memory**: six scenes of up to five entities in two sessions (readers
  of one topic in both sessions; a reader that publishes what it reads; topics and
  requesters of the same identifier in two sessions; qualities that differ, and
  more entities than there is room for, which is four; a replier before its
  requester), each with one thread and with two, but for the scenes with a replier,
  which one thread plays; a pool and lists of two, so that
  both run out; calls of callbacks three deep. Threads and the values written are
  symmetric.
* **Threads**: two callers, which are symmetric. A circle among locks of one
  session, or a message read by one thread and overwritten by another, takes two;
  so do the two violations. That a third who comes in between changes nothing is
  what the proofs show.

Deadlock checking is on in all runs. Two steps stutter so that reaching a bound
is not taken for a deadlock: `MessagesEnd` (`octets`: an Agent that has been sent
a bounded number of messages) and `ClockStops` (`session`: the end of time).

### Fairness

`FairChannelSpec` (`channel`) and the fairness of `StreamFraming` and of
`TcpTransport` (`octets`) are stated.

In the first, weak fairness of the thread's steps: the application calls again
and again, a call does not stop in the middle, time passes. Strong fairness of
what the environment may refuse now and then: a transport that is asked for ever
sends in the end, a datagram that is sent for ever arrives in the end, an acknack
that is written for ever arrives in the end. Nothing weaker delivers: without it
the network may lose everything, and the code does not retry a send by itself.
The network does not repeat for ever a datagram that is no longer sent. In
`channel` a call's time limit is not shorter than the heartbeat interval
(`ShortCalls = FALSE`); run `heartbeat` shows why. The fairness of `EndToEnd` is
`WF(Deliver)`, which here says that whatever has been accepted is delivered in
the end (`DeliversInTheEnd`). `ImplementsEndToEnd` is the safety part and needs no
fairness.

In `StreamFraming` a call that has octets to look at looks at them
(`WF(CallRead \/ Turn)`), as `recv_serial_msg` is called by every
`uxr_run_session_*`; and a line that holds octets, asked again and again, gives
some in the end (`SF(LineGivesMore)`). `TcpTransport` asks the same of calls and
of the connection; after a failure nothing more is promised, as nothing in the
code reconnects.

## 4. Proofs

All proofs are checked by tlapm for every value of the constants that satisfies
the named assumptions. They assume nothing else; a theorem that has a hypothesis
on top of the specification says so below.

**SeqNum_proofs**: lemmas. Addition and subtraction are inverse and associative
around the circle; the distance between two numbers is unique; the branches of
`uxr_seq_num_cmp` compare distances as long as those are less than half of the
circle; distinct numbers less than `History` apart have distinct slots (this
needs that `History` divides the circle).

**OutputReliableStream_proofs**: `Spec => []Window` (`WindowInvariant`), where

    Window == TypeOK /\ WindowBounded /\ WindowFilled

and from it `TypeCorrect`, `CursorsInOrder`, `NoHoles` and
`RetransmissionsRepeat`. None of the three is inductive by itself:

* The guard of a fragmented write counts empty buffers anywhere in the ring.
  That this bounds the window needs `WindowFilled` (every slot up to
  `last_written` but perhaps the last is in use, so the free ones are exactly
  those ahead) as well as `WindowBounded`. A first fragment that shares the
  current buffer adds one slot more to those counted, but it is the one in use,
  so it is not counted as free; and when the current buffer is empty the first
  fragment takes a whole block. The latter uses that the header's size is a
  multiple of four (`BufferAssumption`), since an empty buffer would otherwise
  be aligned upwards.
* That a cancelled send leaves no hole needs `WindowFilled` for the buffer that
  is handed back and `WindowBounded` for its neighbour.
* `UnackedUnchanged` follows from `Window` and slot distinctness: a write
  touches only slots whose distance from `last_acknown` is beyond those in flight.

The theorem covers what TLC cannot: any history, any buffer capacity, any set of
submessage sizes, and 16-bit sequence numbers. It rests, as the model does, on
acknacks that do not overtake each other (`InOrderAcks`): the sequence number
that one confirms is between `last_acknown` and `last_sent`.

What the buffers hold is kept for the two refinements below. A buffer is empty by
its size exactly when nothing is in it (`SizesTell`); everything behind the last
buffer written is empty (`HeldBefore`); each of the three ways of writing puts the
submessage, or its fragments one by one, behind what consecutive buffers hold
(`Adds`). The contents of the buffers around the ring from a number on, one behind
the other, are `FlattenSeq` of `Buffers`. Its lemmas go through the buffers one by one:
pieces appended to consecutive buffers, before empty ones, are appended to the
whole (`FlattenAdded`, `EnlargesBehind`), the first buffer taken is the first piece
of the whole taken (`FlattenFirst`, `TakenFirst`), and buffers that come round empty
add nothing (`FlattenPadded`, `FreedBehind`). They use induction on the natural
numbers in the form of `CountUp`, for a set instead of a predicate, which is proved
from the well-foundedness of finite sets.

**ContinuousFragments_proofs** (the stream with writes in the continuous mode).
`ContinuousInvariant`: `ContinuousSpec => []ContinuousKept`, where

    ContinuousKept == Window /\ SizesTell /\ Filling

and from it `ContinuousTypeCorrect`, `ContinuousCursorsInOrder`,
`ContinuousNoHoles` and `ContinuousRepeats`, which say of this stream what the
theorems above say of the plain one. The steps of the plain stream are those whose
lemmas are above. What is new is a fragment put into a buffer of its own (`Puts`):
the first goes behind the last buffer in use, and the guard
`get_available_free_slots > 0` is enough for it because the free slots are those
ahead (`FreeIsBehind`). The others are put without looking at what the buffer holds.
That it is free is `Filling`: while the user fills a fragment nobody flashes, so
that the buffer behind it stays empty if there is one; after a callback, the guard
of `CallbackReturns` says it.

`SendsWhatIsWritten` is the refinement `ContinuousSpec => ImplementsReliableSender`.
The unconfirmed messages of `ReliableSender` are the buffers in flight, and its
queue is the contents of those behind them. A write is `Accept`; a fragment put is
`AcceptFragment`, which opens the submessage or goes on with it, and the last one
closes it; a callback that fails is `GiveUp`; a send is `Transmit` of one buffer
whole; an acknack is `Confirm` of the oldest; a reset empties both. A send that is
cancelled is a stutter: it was never counted as sent, and what is handed back is
read from the same buffers as before.

**AgentToClient_proofs** (the input stream with its Agent and network).
`StreamInvariant`: `AgentSpec => []StreamKept`, where `StreamKept` is
`AgentTypeOK`, `BuffersMatchStream`, `AcknowledgedIsHeld` and three parts that
make it inductive:

* `Order`: what is not handled, not confirmed and may still arrive lies within
  `AgentWindow + History + Lifetime` of `last_handled`. That this is less than half
  of the circle (`AgentAssumption`) is what makes every comparison of
  `uxr_seq_num_cmp` in `read_stream` come out as a distance.
* `HeadWaits`: no message lies next in line that is not a fragment, as
  everything that can be read is read in the handler that made it readable.
  Without it a message could be passed over when the next one arrives.
* `AcknackHeld`: an acknack still under way confirms only what is held or read.

From it follow `StreamTypeCorrect`, `NoLeftovers` (`BuffersMatchStream`) and
`NothingForgotten` (`AcknowledgedIsHeld`). `NacksExact` (`NackIsExact`) needs that
the bitmap has a bit for every buffer (`History <= BitmapWidth`; the code has 16,
and its streams may have more buffers than that). `LoopEnds` (`NeverLoops`) needs
that no submessage has more fragments than the stream has buffers
(`MaxFragments \in 2..History`), and strengthens the invariant once more: the
fragments in the Agent's log are numbered one by one until the last of their
submessage (`FragmentsNumbered`), so that a ring full of fragments without a last
one would belong to a submessage of more than `History` of them.
That the hypothesis is necessary is what the run `in_loops` shows.
`DeliversInOrder` proves the refinement
`AgentSpec => ImplementsInOrderDelivery`: initial states map to initial states; of
the steps, `AgentSend` is `Send`, a datagram that makes a message readable is
`Deliver` of the whole run of fragments, and everything else is a stutter. The
abstract specification has no fairness, so the theorem is the whole of the
property.

**ClientToAgent_proofs** (the output stream with application, network and
Agent). `ChannelInvariant`: `ChannelSpec => []ChannelKept`, where

    ChannelKept == Window /\ Parties /\ FreedIsTaken /\ UnderWay /\ AcknacksInOrder

`Window` is the invariant of the output stream, whose lemmas are used again for
the stream's own steps. `UnderWay` says of every datagram on its way how far its
number is from what the Agent took, and that one the Agent has not taken yet holds
what the Client's buffer of that number holds. `AcknacksInOrder` says that the
acknacks on their way confirm ever more and never more than was taken; this is
what `FreedIsTaken` needs when one arrives. That such an acknack is one of
`InOrderAcks`, on which the proof about the stream alone rests, is proved here.
From it `ChannelTypeCorrect`, `FreesTaken` (`FreedIsTaken`) and `NeverTwoMessages`
(`OneMessagePerSeqNum`). The hypothesis is `ChannelAssumption`: a lifetime and a
history together are less than half of the circle.

`ReadsWhatIsWritten` proves the refinement `ChannelSpec => ImplementsEndToEnd`, from
`ChannelKept` and `SizesTell`. The queue of `EndToEnd` is `Unread`: what the buffers
behind the last number taken hold, one behind the other and as far as the ring goes.

* A write is `Accept`: everything behind the last buffer written is empty
  (`HeldBefore`), so pieces appended to consecutive buffers are appended to the
  whole (`FlattenAdded`).
* The message that the Agent takes is the next one and is as its buffer holds it
  (`TakesNext`), and that buffer is not empty: `Deliver` of its pieces
  (`FlattenFirst`). Here it matters that nothing is sent that holds nothing.
* An acknack frees buffers that were taken; they come round as empty buffers
  behind all the others, which adds nothing (`FreedPads`, `FlattenPadded`).
* All other steps change neither the buffers nor what was taken.

**SessionCalls_proofs**, of `Session`: `SessionInvariant`, and from it `SessionTypeCorrect`,
`RefusalsMatch` (`StatusMatches`) and `ListsReturned` (`ListsUntouched`). The
invariant adds to the types that lists are registered exactly while a call waits
for them, and that replies on their way carry answers. `StatusMatches` needs
that an identifier that a list waits for is not handed out again
(`GenerateRequest`), which is an assumption on the application: 65526 requests
do not go by during one wait. `AgentAgrees` (`SessionAgreed`) has the hypothesis
`Quiet`, and the run `late_answer` shows what happens without it. Its invariant is
`Agreement`: all questions and answers under way are of the kind of the call that
waits, an OK among them or in `last_requested_status` means that the Agent is in
the state asked for, and nothing under way can change that.

Of `AgentCalls`: `CallsInvariant`, for every timeout, number of attempts, clock
and set of messages under way, and from it `PongsAnswer` (`PongIsAnswered`),
`CallsEnd` (`CallEndsInTime`) and `Synchronizes` (`SyncedWithinTrip`). `TimeKept` says
that a call that listens began to in the attempts before this one, and until when
each of its listens may last; an attempt that hears messages for others only
shortens what is left. `TimesInOrder` orders the stamps of every question and
answer on the two clocks, which is all that the arithmetic of `OffsetIsClose` needs:
the offset is wrong by at most half of the trip, and by one half more for the
division. `PongsAreNew` says that a pong under way was sent for the call that
waits (here the model's `NoInfoLate` comes in).

**Threads_proofs**, of `SessionThreads`: `ThreadsInvariant`, for any set of threads. The place of
every call of a stack tells which locks it holds and how often (`Held`), and which
call it may be waiting for (`CalledFrom`), so that a stack is at most four calls
deep. `LocksCounted` equates the depth of each recursive lock with the sum over the
stack of its owner. From this:

* `ThreadsTypeCorrect`; `LocksReturned` (`LocksGivenBack`): a thread out of all calls
  has an empty stack, so its sum is zero.
* `MessagesIntact` (`MessageIntact`): the transport is given back before the message
  is read, so the buffer is not protected by its lock. Whoever reads holds `in`,
  which keeps all listeners out; a ping has no use for `in`, and is kept out by
  `PingsKeepOthersOut`, which rests on the assumption of section 5 on pings.
* `RequestsDiffer` (`NumbersDiffer`), with the hypothesis `~TwoStreams`; the run
  `request_numbers` shows what happens with two.
* `NoDeadlock` (`NoCircle`), with the hypothesis `~FlushTogether`: whoever waits for
  a lock holds only locks before it in the order session, in, out, other,
  transport, but for a flush within a write, which then is alone. In a circle the
  ranks of the locks waited for would rise for ever. The run `flush_circle` shows
  the circle.

Of `SharedMemory`: `MemoryInvariant`, for any number of entities, items of the pool,
threads and calls within each other, where

    MemoryKept == MapKept /\ TypesKept /\ LeftForMatched /\ StacksKept /\ ItemsKept /\ AloneKept

`MapKept`: the map holds what the application created, in that order, up to its
end, and `matched` is what the comparison of its entities says. `StacksKept`
(`Nested`) says how calls lie within each other: under a callback is the delivery
that called it, and what is on top of a callback is what it did last. From this:

* `MemoryTypeCorrect` (`SmTypeOK`). That only matched pairs have something left is
  `LeftForMatched`: entities are appended, and whether two match does not depend
  on those that come later, as a binary endpoint names an earlier topic.
* `PoolIsConserved`: `ItemsKept` says of each item that the places where it is free,
  left or with a callback are one together. A write takes as many items off the
  front of the pool as there are readers to get one; that each reader gets
  another one is the lemma `RanksAreDistinct`.
* `HandedOver` (`HandedIsWritten`): `AloneKept`. A cell is written again only after its
  session was sent, and `uxr_flash_output_streams` sends only when a whole turn
  through the map found nothing left (`NothingLeft`): what its delivery has passed
  is empty (`PassedIsEmpty`), although callbacks write in the middle of it, as each
  of these runs the session, and so a delivery of its own from the beginning,
  before it returns. Between the two steps of a write an item points to a cell
  whose message is still to come (`Points`).
* `NoWaiting` (`SomeoneGoesOn`): with several threads a callback does not write, so a
  thread holds one lock at a time or waits for the map with a stream, and whoever
  holds the map waits for nothing.
* `RepliesArrive` (`RepliesFindTheirRequester`), with the hypothesis that requesters
  have identifiers of at most 255. Beyond, the code loses the reply
  (shared_memory.c:288), see section 5.
* `MatchesAreRight` (`MatchedAreOfOneSubject`), with the hypothesis `DescriptionsTell`,
  which is about descriptions and not about the map: entities of different kinds
  with one hash are the two ends of one topic or service, and a binary endpoint is
  about its topic. `MadeKept` says that every entity has the hash it was described by,
  or the place in the map of the topic it names, in its own session.

**ByteLines_proofs** (TCP and framing). Its first lemmas give an induction that the
provers can use: with a set in place of a property (`CountUp`), and for a function
that is defined step by step, that it exists and takes its steps (`StepsExist`,
`StepsAgree`). This is what proves the equations of `Crc` and `StuffedAll`, on which
everything about frames rests.

Of `TcpTransport`: `LineHoldsMessages`, `TcpSpec => []TcpHolds`, where `TcpHolds` says
that what has arrived of a message and what is still on the line are, one behind
the other, the messages sent with success, each behind its size, and at most the
first octets of one more, which are those the sender has written of its message.
From it `ConnectionIsFramedLine`: `TcpSpec => Connection!Safety`, the safety of
`FramedLine`, for every set of messages. Both have the hypothesis `SizeTaken = {2}`: the
code sends a size again of which one octet was taken (section 5), and then nothing
of this is true.

Of `StreamFraming`: `FramingStaysInBounds` (`FramingTypeOK`), with `RingMoves` for every
way in which octets leave the ring and enter it, whatever is on the line; and

    FramingIsFramedLine == Spec /\ []NoneBroken => Framed!Safety

for all payloads, addresses and sizes. The invariant is `LineHolds`, and it says of
the octets in the ring and on the line (`Place`): first comes what is left of frame
`c`, where the reader is, and then all frames behind it, each from its flag on
(`LaidFrames`); no frame before `c` is to be read. `Todo` says for each state of the
reader what the unstuffed rest of a whole frame is and what the reader knows of it
already, `Missing` which octets of the end of a frame may not have been written.

* An octet that is taken is the next one of frame `c` (`NextOctet`, `WhatIsNext`): what
  is stuffed has no flag in it, and an escape without its octet is never taken.
* A flag that is taken in a frame is that of the next one, and only at the first
  address or within the payload (`MissingWhere`, by the lengths that the rest of a
  frame has from each place on). Within the payload `uxr_read_framed_msg` begins a
  new frame at once; at the first address the reader is where one begins anyhow.
* When the last octet of the checksum is taken nothing was missing, so that the
  checksum is right, and the frame is returned exactly if it is whole, ours and
  not empty: `Receive(c)`. What is behind a frame tells which one it is
  (`FramesBehind`), so `frames` of the model loses the right ones.

The hypothesis `NoneBroken` (no frame is cut outside its payload) is necessary for
arbitrary payloads: the first addresses of a frame can complete the checksum of the
one before, and zeros are their own checksum (section 5). Frames cut anywhere are
checked by `octets`, for its payloads.

**Only model-checked**

* The octets of messages: `Cdr` is RECURSIVE, and what a RECURSIVE operator computes
  is out of the prover's reach.
* Liveness under fairness, and what is stated with `ENABLED`: that the channel
  delivers in the end (`DeliversInTheEnd`), and that byte lines do (the fairness of
  `FramedLine`).
* That no frame is read that was not written, when frames are cut outside their
  payload: false for some payloads, true for those of the run.
* `BestEffortDelivery`, whose mapping speaks of the octets of messages.
* That what is hashed of two descriptions tells their subjects apart
  (`DescriptionsTell`) is evaluated by TLC for the scenes of the run.

## 5. Abstractions to know of

**Streams.**

* Streams are modelled one at a time; they share nothing but the session.
* Acknacks may be lost but arrive in order; see the hazard at
  output_reliable_stream.c:278 for what an older one would do.
* A step is a whole handler, except the flash, whose turns interleave with
  acknacks, and `SessionThreads` and `SharedMemory`, whose steps lie between
  locks.
* In `ClientToAgent` the application is one thread, so that no acknack comes
  during a flash there.
* Resetting a session's streams is an action of `OutputReliableStream`; datagrams
  of the previous session are not in the network of `ClientToAgent`.
* Continuous mode: one such write at a time (a session has one
  `continuous_args`), and the callback does not write to the same stream while a
  buffer is being filled. Topics whose length lies between the block and the
  capacity are left out: there write_access.c:268 marks the first fragment as the
  last. The header has four octets, as `uxr_init_session` leaves the client key out;
  with a key the code would take too little room for the header of a fragment
  (write_access.c:180 counts `WRITE_DATA_PAYLOAD_SIZE` for it). When the transport
  refuses a send within the callback, the buffer handed back may be the last
  fragment (output_reliable_stream.c:195), and write_access.c:173 would put the next
  one behind its end; in the model such a write is given up.
  A write that is given up leaves fragments without a last one, which the
  receiver will put before the next message; `ReliableSender` says so.

**Session and calls.**

* `Session` with `Quiet = TRUE` assumes that the application lets late answers
  pass before it creates or deletes; run `late_answer` drops it.
* `uxr_run_session_until_one_status` returns true for a refusal, where
  session.h:518 promises success; one listen of one call shows it, so that it has
  no run.
* A callback reads the data it is given completely or not at all; the position
  within a buffer is in `Wire`.
* The clock goes only forward (on POSIX the code reads `CLOCK_REALTIME`, which
  may be set back). An INFO that answers one ping does not arrive in a later one
  (`NoInfoLate`): nothing in it tells two pings of one session apart. A ping
  without a session may take up to twice its timeout for an attempt, less one
  tick, as a message for another starts its wait anew; `CallEndsInTime` allows
  that. `uxr_run_session_time` listens until nothing comes and has no bound.
* Discovery: both the version and the activity of an INFO are taken as present,
  as the code reads them; the verdict is that of the last locator.

**Octets.**

* Little-endian; numbers below 2^24; one public session identifier (0x81), so the
  message header has 4 octets. CREATE_CLIENT keeps the length 16 that the code
  writes, properties or not. The Agent speaks only before the first request of a
  session in `octets` (the directions share nothing but the identifiers).
* What the reader really does and a protocol would not: a REPLY moves the reading
  twice; an INFO's addresses are left unread, so that what follows is taken for a
  header; a CREATE_CLIENT's properties are written and not read back.
* A best-effort message more than half of the numbers ahead is taken for an old
  one; `BestEffortDelivery` may lose anything.
* `FramedLine` excuses the loss of frames after one that is cut outside its
  payload. The code needs the excuse: a flag met in the header or the checksum is
  taken off the ring, and is forgotten when the line gives more octets
  (stream_framing_protocol.c:337), so that the next whole frame is skipped.
* The checksum starts at zero and covers neither addresses nor length, so that
  zeros are their own checksum. If empty messages are written too and the local
  address is 0 (the custom transport's), two frames that are both cut outside
  their payload can be read as a message of a zero octet nobody wrote (TLC finds
  it with `<<>>` among the payloads). An XRCE message is never empty, so `octets`
  leaves it out; with its payloads no such reading exists, for local address 0 or
  1. No checksum of 16 bits excludes them altogether.
* TCP: the two octets of the size are written at once (`SizeTaken`); when the
  connection takes one of them the code sends it again. A `recv` of nothing
  counts as a timeout, and a size of 0 is passed over. `FramedLine` for TCP lets
  the line break.

**Threads and shared memory.**

* `SessionThreads`: callbacks within a run write but do not run the session; a
  ping without a session is called while no other thread listens (they share the
  transport and no session lock); the session has an input stream; mutexes are
  recursive, and one that is unlocked by another than its holder stays as it is;
  shared memory is off. In `threads` a flush within a write comes only while no
  other thread is in a call (`FlushTogether = FALSE`), and requests are written to
  one stream (`TwoStreams = FALSE`): the violations `flush_circle` and
  `request_numbers` drop one each.
* `SharedMemory`: entities are created through another stream; hashes of what the
  code hashes are distinct; one best-effort stream per session and one message
  in a buffer; callbacks that write also run their session. With two threads
  callbacks do not write, as the lock of the map and that of a stream are then
  taken in both orders (a hazard), and `HandedIsWritten` is stated for one thread,
  since items point into buffers that another thread may be filling (a hazard).
  Messages written between two deliveries are handed over last first, as the code
  does. A topic is created before the endpoints that name it (`ScenesAssumption`).
  The requesters of the scenes have identifiers up to 255: an identifier of more
  than one octet is taken apart into two, and put together with the second shifted
  the wrong way (shared_memory.c:288), so that nobody takes the reply.

**Not modelled.**

* CAN and custom transports: calls of the platform. Serial beyond its framing, UDP
  beyond its one buffer, opening and closing of sockets: likewise.
* `core/log`: prints.
* Big-endian machines; write limits (`UCLIENT_TWEAK_XRCE_WRITE_LIMIT`);
  performance-test submessages; data formats other than DATA, whose handlers are
  empty.
* The answer to GET_INFO (session.c:1081-1104), which the Agent does not ask for.
* Binary descriptions longer than 512 octets, object identifiers beyond 12 bits.
* Several streams of a kind in a session and indexes beyond the arrays, several
  sessions on one transport.
* Acknacks that overtake each other; the reset of streams without their locks in
  `uxr_create_session` (session.c:236). Both are listed as hazards.
* Examples and tests, except for what they show of the use of the library.

## 6. Where the code and its documentation disagree

Each is a run that ends in a counterexample; the quoted lines are in
`PROJECT.json`.

1. `in_loops`: when every slot of an input stream holds an intermediate fragment
   (a submessage with more fragments than the stream has buffers),
   `check_last_fragment` never returns, and neither does the call with its
   timeout.
2. `confirm`: after a first send that the transport refuses,
   `uxr_run_session_until_confirm_delivery` returns true with nothing sent.
3. `heartbeat`: each turn of the listen loop sets the heartbeat's time again, so
   that calls shorter than the interval never send one. If the last message was
   lost it is never sent again.
4. `late_answer`: an answer to a repeated login that comes during the logout
   makes `uxr_delete_session` return true although the Agent keeps the session.
5. `flush_circle`: the flush callback of a fragmented write runs the session with
   the stream locked, while another thread that runs the session holds it and
   waits for the stream.
6. `request_numbers`: two threads that write to two streams of a session get the
   same request identifier, as each stream has its lock and the session's counter
   has none.

## 7. Plan

Modelled: everything above but for "Not modelled". Proved: every safety property of
the runs but those of messages as octets, for byte lines under the two hypotheses
of section 4. What is left:

1. `ImplementsBestEffortDelivery` for streams whose messages are taken as read back,
   which would need the formats of `Cdr` as recursive functions.
2. A write in the continuous mode that goes on behind a fragment handed back.

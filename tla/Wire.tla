-------------------------------- MODULE Wire --------------------------------
(* What goes over the wire, octet by octet: the requests of an application   *)
(* in a best-effort output stream, the messages the session sends by itself, *)
(* and what the Client makes of the messages of the Agent. What the handlers *)
(* do with what they read is the subject of Session, InputReliableStream and *)
(* OutputReliableStream; here it is what they are called with.               *)
(*                                                                           *)
(* The Agent is external: it reads requests by the lengths in their headers  *)
(* and sends what the Client's formats describe.                             *)
EXTENDS Requests, BestEffortStreams, FiniteSets, SequencesExt

CONSTANTS
    Calls,         \* what the application may ask first in a message ...
    MoreCalls,     \* ... and next
    Answers,       \* lists of submessages that a message of the Agent may hold
    LaterAnswers,  \* the lists sent while an older message is on its way
    AsideAnswers,  \* the lists sent outside of any stream
    MaxCalls,      \* requests in a message
    MaxOnTheWay,   \* messages of the Agent on their way
    MaxAnswers     \* messages the Agent sends in its stream

ASSUME WireAssumption ==
    /\ MaxCalls \in Nat /\ MaxOnTheWay \in Nat /\ MaxAnswers \in 0..SeqNumMax
    /\ LaterAnswers \subseteq Answers
    /\ 2 * (MaxOnTheWay + 1) < SeqNumSize

VARIABLES
    last_request_id,
    asked,          \* the calls whose submessages lie in the buffer
    to_agent,       \* the message on its way to the Agent: <<>> or <<message>>
    agent_sent,     \* number of the Agent's last message
    network,        \* messages of the Agent's stream on their way
    aside,          \* the message outside of any stream: <<>> or <<answers>>
    delivered,      \* what the handlers were called with last ...
    round           \* ... and the parity of the number of messages read

requestVars == <<last_request_id, asked, to_agent, outputVars>>
answerVars == <<last_handled, agent_sent, network, aside, delivered, round>>

(***************************************************************************)
(* Headers. A session of the public interface has the identifier 129,      *)
(* whose messages do not carry the key.                                    *)
(***************************************************************************)
SESSION_ID_WITHOUT_CLIENT_KEY == 128
MAX_HEADER_SIZE == 8
session == [id |-> 129, key |-> <<170, 187, 204, 221>>]

HeaderSize(session_id) == IF session_id < SESSION_ID_WITHOUT_CLIENT_KEY THEN 8 ELSE 4

MessageHeader == Struct(<<
    Field("session_id", UInt(1)), Field("stream_id", UInt(1)), Field("seq_num", UInt(2))>>)

(* uxr_stamp_session_header; stream 0 is outside of any stream.              *)
Stamped(session_id, stream_id, seq_num, octets) ==
    Write(MessageHeader,
          [session_id |-> session_id, stream_id |-> stream_id, seq_num |-> seq_num], 0)
    \o (IF HeaderSize(session_id) = 8 THEN session.key ELSE <<>>) \o octets

SubmessageHeader == Struct(<<
    Field("id", UInt(1)), Field("flags", UInt(1)), Field("length", UInt(2))>>)

FLAG_ENDIANNESS == 1

BEST_EFFORT_STREAM_THRESHOLD == 1
RELIABLE_STREAM_THRESHOLD == 128

(* The identifier of a stream in a header: uxr_stream_id(...).raw, and back. *)
uxr_stream_id(index, type) ==
    CASE type = "none" -> 0
      [] type = "best_effort" -> index + BEST_EFFORT_STREAM_THRESHOLD
      [] type = "reliable" -> index + RELIABLE_STREAM_THRESHOLD
uxr_stream_id_from_raw(raw) ==
    IF raw < BEST_EFFORT_STREAM_THRESHOLD THEN [type |-> "none", index |-> raw]
    ELSE IF raw < RELIABLE_STREAM_THRESHOLD
    THEN [type |-> "best_effort", index |-> raw - BEST_EFFORT_STREAM_THRESHOLD]
    ELSE [type |-> "reliable", index |-> raw - RELIABLE_STREAM_THRESHOLD]

(* uxr_buffer_submessage_header and the payload behind it, from an offset    *)
(* that is a multiple of four.                                               *)
Submessage(id, flags, length, format, value, at) ==
    Write(SubmessageHeader,
          [id |-> id, flags |-> flags + FLAG_ENDIANNESS, length |-> length], at)
    \o Write(format, value, at + SUBHEADER_SIZE)

(***************************************************************************)
(* What the session sends by itself: one submessage in a buffer of the     *)
(* stack, with the length the code puts in its header. CREATE_CLIENT does  *)
(* not count its properties.                                               *)
(***************************************************************************)
Text6 == <<117, 120, 114, 95, 115, 109>>   \* a text of six octets

ClientProperties ==
    (IF ProfileSharedMemory THEN <<[name |-> Text6, value |-> <<49>>]>> ELSE <<>>)
    \o (IF HardLiveliness THEN <<[name |-> Text6, value |-> Text6]>> ELSE <<>>)

ClientRepresentation(mtu) ==
    [xrce_cookie |-> <<88, 82, 67, 69>>, xrce_version |-> <<1, 0>>,
     xrce_vendor_id |-> <<1, 15>>, client_key |-> session.key, session_id |-> session.id,
     properties |-> IF ClientProperties = <<>> THEN <<>> ELSE <<ClientProperties>>,
     mtu |-> mtu]

PropertiesSize ==
    (IF ProfileSharedMemory THEN 21 ELSE 0) + (IF HardLiveliness THEN 26 ELSE 0)

UXR_REQUEST_LOGIN == 1
UXR_REQUEST_LOGOUT == 2
GET_INFO_REQUEST_PING_ID == 10
INFO_CONFIGURATION == 1
INFO_ACTIVITY == 2
GET_INFO_REQUEST_ID == 9
GET_INFO_MSG_SIZE == 8
UXR_UDP_TRANSPORT_MTU_DATAGRAM == 200
ObjectIdAgent == <<255, 253>>
ObjectIdClient == <<255, 254>>

Direct(what, session_id, capacity, id, length, format, value) ==
    [what |-> what, session_id |-> session_id, capacity |-> capacity, id |-> id,
     length |-> length, format |-> format, value |-> value]

(* uxr_buffer_create_session, uxr_create_session_retries                     *)
CreateSession(mtu) ==
    Direct("create_session", SESSION_ID_WITHOUT_CLIENT_KEY, 8 + 4 + 16 + PropertiesSize,
           SUBMESSAGE_ID_CREATE_CLIENT, 16, CREATE_CLIENT_Payload, ClientRepresentation(mtu))

(* uxr_buffer_delete_session, uxr_delete_session_retries                     *)
DeleteSession ==
    Direct("delete_session", session.id, 8 + 4 + 4, SUBMESSAGE_ID_DELETE, 4, DELETE_Payload,
           [request_id |-> RequestIdRaw(UXR_REQUEST_LOGOUT), object_id |-> ObjectIdClient])

(* write_submessage_heartbeat                                                *)
WriteHeartbeat(first, last, stream_id) ==
    Direct("heartbeat", session.id, 8 + 4 + 5, SUBMESSAGE_ID_HEARTBEAT, 5, HEARTBEAT_Payload,
           [first_unacked_seq_nr |-> first, last_unacked_seq_nr |-> last,
            stream_id |-> stream_id])

(* write_submessage_acknack: the bitmap goes most significant octet first.   *)
WriteAcknack(first, bitmap, stream_id) ==
    Direct("acknack", session.id, 8 + 4 + 5, SUBMESSAGE_ID_ACKNACK, 5, ACKNACK_Payload,
           [first_unacked_seq_num |-> first,
            nack_bitmap |-> <<bitmap \div 256, bitmap % 256>>, stream_id |-> stream_id])

(* uxr_sync_session                                                          *)
Timestamp(seconds, nanoseconds) ==
    Direct("timestamp", session.id, 8 + 4 + 8, SUBMESSAGE_ID_TIMESTAMP, 8, TIMESTAMP_Payload,
           [seconds |-> seconds, nanoseconds |-> nanoseconds])

(* serialize_get_info_message: a ping of a session, or of no session.        *)
Ping(session_id) ==
    Direct("ping", session_id, 16, SUBMESSAGE_ID_GET_INFO, 8, GET_INFO_Payload,
           [base |-> [request_id |-> RequestIdRaw(GET_INFO_REQUEST_PING_ID),
                      object_id |-> ObjectIdAgent],
            info_mask |-> INFO_ACTIVITY])

(* write_get_info_message of the discovery                                   *)
Discover ==
    Direct("discovery", SESSION_ID_WITHOUT_CLIENT_KEY, UXR_UDP_TRANSPORT_MTU_DATAGRAM,
           SUBMESSAGE_ID_GET_INFO, GET_INFO_MSG_SIZE, GET_INFO_Payload,
           [base |-> [request_id |-> RequestIdRaw(GET_INFO_REQUEST_ID),
                      object_id |-> ObjectIdAgent],
            info_mask |-> INFO_CONFIGURATION + INFO_ACTIVITY])

Directs ==
    {Discover, CreateSession(508), DeleteSession, WriteHeartbeat(65535, 3, 128),
     WriteAcknack(7, 4098, 129), Timestamp(70000, 999999), Ping(session.id),
     Ping(SESSION_ID_WITHOUT_CLIENT_KEY)}

(* A message that is larger than its buffer loses its end.                   *)
DirectMessage(direct) ==
    LET octets == Stamped(direct.session_id, 0, 0,
                          Submessage(direct.id, 0, direct.length, direct.format,
                                     direct.value, HeaderSize(direct.session_id)))
    IN IF Len(octets) <= direct.capacity THEN octets ELSE SubSeq(octets, 1, direct.capacity)

(***************************************************************************)
(* The Agent reads a message (external): submessage after submessage, by   *)
(* the lengths in their headers, and tells the calls behind them.          *)
(***************************************************************************)
DirectFormat ==
    SUBMESSAGE_ID_CREATE_CLIENT :> CREATE_CLIENT_Payload @@
    SUBMESSAGE_ID_GET_INFO :> GET_INFO_Payload @@
    SUBMESSAGE_ID_DELETE :> DELETE_Payload @@
    SUBMESSAGE_ID_ACKNACK :> ACKNACK_Payload @@
    SUBMESSAGE_ID_HEARTBEAT :> HEARTBEAT_Payload @@
    SUBMESSAGE_ID_TIMESTAMP :> TIMESTAMP_Payload

RECURSIVE SubmessagesIn(_, _), SubmessagesAfter(_, _, _)
SubmessagesAfter(header, octets, at) ==
    <<[id |-> header.id, flags |-> header.flags - FLAG_ENDIANNESS,
       payload |-> Part(octets, at + 1, at + header.length)]>>
    \o SubmessagesIn(octets, at + header.length + Padding(at + header.length, 4))
SubmessagesIn(octets, at) ==
    IF at + SUBHEADER_SIZE > Len(octets) THEN <<>>
    ELSE SubmessagesAfter(Read(SubmessageHeader, octets, at).value, octets, at + SUBHEADER_SIZE)

QosOf(flags, depth) ==
    [reliability |-> IF flags % 2 = 1 THEN "reliable" ELSE "best_effort",
     history |-> IF (flags \div 2) % 2 = 1 THEN "keep_last" ELSE "keep_all",
     durability |-> CHOOSE d \in DOMAIN DurabilityFlag :
                        DurabilityFlag[d] = flags - (flags % 4),
     depth |-> IF depth = <<>> THEN 0 ELSE depth[1]]

BinaryFormat ==
    DDS_XRCE_OBJK_PARTICIPANT :> OBJK_DomainParticipant_Binary @@
    DDS_XRCE_OBJK_TOPIC :> OBJK_Topic_Binary @@
    DDS_XRCE_OBJK_PUBLISHER :> OBJK_Publisher_Binary @@
    DDS_XRCE_OBJK_SUBSCRIBER :> OBJK_Subscriber_Binary @@
    DDS_XRCE_OBJK_DATAWRITER :> OBJK_DataWriter_Binary @@
    DDS_XRCE_OBJK_DATAREADER :> OBJK_DataReader_Binary @@
    DDS_XRCE_OBJK_REQUESTER :> OBJK_Requester_Binary @@
    DDS_XRCE_OBJK_REPLIER :> OBJK_Replier_Binary

DescribedBy(kind, binary) ==
    CASE kind = DDS_XRCE_OBJK_PARTICIPANT ->
            [participant_name |-> binary.qos_profile_reference]
      [] kind = DDS_XRCE_OBJK_TOPIC ->
            [topic_name |-> binary.topic_name, type_name |-> binary.type_name[1]]
      [] kind \in {DDS_XRCE_OBJK_PUBLISHER, DDS_XRCE_OBJK_SUBSCRIBER} -> <<>>
      [] kind \in {DDS_XRCE_OBJK_DATAWRITER, DDS_XRCE_OBJK_DATAREADER} ->
            [topic |-> uxr_object_id_from_raw(binary.topic_id),
             qos |-> QosOf(binary.qos[1].base.qos_flags, binary.qos[1].base.history_depth)]
      [] OTHER ->
            [service_name |-> binary.service_name, request_type |-> binary.request_type,
             reply_type |-> binary.reply_type,
             request_topic_name |-> binary.request_topic_name[1],
             reply_topic_name |-> binary.reply_topic_name[1]]

ParentIn(kind, parent) ==
    IF kind = DDS_XRCE_OBJK_PARTICIPANT THEN parent ELSE uxr_object_id_from_raw(parent)
DescriptionIn(kind, form, described) ==
    CASE form = DDS_XRCE_REPRESENTATION_BY_REFERENCE -> [call |-> "create_ref", text |-> described]
      [] form = DDS_XRCE_REPRESENTATION_AS_XML_STRING -> [call |-> "create_xml", text |-> described]
      [] OTHER -> "call" :> "create_bin"
                  @@ DescribedBy(kind, Read(BinaryFormat[kind], described, 0).value)
CreationOf(flags, kind, entity) ==
    [mode |-> flags, parent |-> ParentIn(kind, entity[ParentField(kind)])]
    @@ DescriptionIn(kind, entity.base[1], entity.base[2])

CreationIn(flags, read) ==
    IF read.ok THEN CreationOf(flags, read.value.object_representation[1],
                               read.value.object_representation[2])
    ELSE [call |-> "unreadable"]

Reading(specification) ==
    [call |-> "read", data_stream |-> specification.preferred_stream_id,
     control |-> specification.delivery_control]

(* What is behind the identifiers of a request.                              *)
AskedIn(submessage, payload, object) ==
    CASE submessage.id = SUBMESSAGE_ID_CREATE ->
            CreationIn(submessage.flags, Read(CREATE_Payload, payload, 0))
      [] submessage.id = SUBMESSAGE_ID_DELETE -> [call |-> "delete"]
      [] submessage.id = SUBMESSAGE_ID_READ_DATA ->
            Reading(Read(READ_DATA_Payload, payload, 0).value.read_specification)
      [] submessage.id = SUBMESSAGE_ID_WRITE_DATA /\ object.type # DDS_XRCE_OBJK_REPLIER ->
            [call |-> "write", data |-> Part(payload, 5, Len(payload))]
      [] submessage.id = SUBMESSAGE_ID_WRITE_DATA /\ object.type = DDS_XRCE_OBJK_REPLIER ->
            LET sample_id == Read(SampleIdentity, payload, 4)
            IN [call |-> "reply", sample_id |-> sample_id.value,
                data |-> Part(payload, sample_id.at + 1, Len(payload))]

AskedOf(submessage, object) ==
    "object" :> object @@ AskedIn(submessage, submessage.payload, object)

UnderstoodFrom(submessage, base) ==
    [request_id |-> RequestIdFromRaw(base.request_id),
     call |-> AskedOf(submessage, uxr_object_id_from_raw(base.object_id))]
Understood(submessage) ==
    UnderstoodFrom(submessage, Read(BaseObjectRequest, submessage.payload, 0).value)

(* CREATE_CLIENT is read to its end: its length counts no properties.        *)
DirectIn(session_id, header, octets) ==
    [session_id |-> session_id, id |-> header.value.id,
     value |-> Read(DirectFormat[header.value.id], octets, header.at).value]
AgentReadsAfter(header, octets) ==
    IF header.stream_id = 0
    THEN <<DirectIn(header.session_id,
                    Read(SubmessageHeader, octets, HeaderSize(header.session_id)), octets)>>
    ELSE LET submessages == SubmessagesIn(octets, HeaderSize(header.session_id))
         IN [i \in DOMAIN submessages |-> Understood(submessages[i])]
AgentReads(octets) == AgentReadsAfter(Read(MessageHeader, octets, 0).value, octets)

(***************************************************************************)
(* The Agent answers (external). An answer is what the handlers of the     *)
(* Client are called with.                                                 *)
(***************************************************************************)
ResultOf(status) == [status |-> status, implementation_status |-> 0]
ReplyTo(base, result) == [related_request |-> base, result |-> result]
AgentRepresentation ==
    [xrce_cookie |-> <<88, 82, 67, 69>>, xrce_version |-> <<1, 0>>,
     xrce_vendor_id |-> <<1, 15>>, properties |-> <<>>]

DataPayload(format) ==
    Struct(<<Field("base", DATA_Payload_Data), Field("about", format[1]),
             Field("data", Octets(format[2]))>>)
DataAnswer(answer, about, format) ==
    [id |-> SUBMESSAGE_ID_DATA, format |-> DataPayload(<<format, Len(answer.data)>>),
     value |-> [base |-> BaseOf(answer.request_id, answer.object), about |-> about,
                data |-> answer.data]]

AnswerOf(answer) ==
    CASE answer.on = "status_agent" ->
            [id |-> SUBMESSAGE_ID_STATUS_AGENT, format |-> STATUS_AGENT_Payload,
             value |-> [result |-> ResultOf(answer.status), agent_info |-> AgentRepresentation]]
      [] answer.on \in {"status", "deleted"} ->
            [id |-> SUBMESSAGE_ID_STATUS, format |-> STATUS_Payload,
             value |-> ReplyTo(BaseOf(answer.request_id, answer.object),
                               ResultOf(answer.status))]
      [] answer.on \in {"topic", "nothing"} -> DataAnswer(answer, <<>>, Nothing)
      [] answer.on = "request" -> DataAnswer(answer, answer.sample_id, SampleIdentity)
      [] answer.on = "reply" ->
            DataAnswer(answer, BaseOf(answer.reply_id, answer.object), BaseObjectRequest)
      [] answer.on = "heartbeat" ->
            [id |-> SUBMESSAGE_ID_HEARTBEAT, format |-> HEARTBEAT_Payload,
             value |-> [first_unacked_seq_nr |-> answer.first,
                        last_unacked_seq_nr |-> answer.last,
                        stream_id |-> 128 + answer.index]]
      [] answer.on = "acknack" ->
            [id |-> SUBMESSAGE_ID_ACKNACK, format |-> ACKNACK_Payload,
             value |-> [first_unacked_seq_num |-> answer.first,
                        nack_bitmap |-> RequestIdRaw(answer.bitmap),
                        stream_id |-> 128 + answer.index]]
      [] answer.on = "timestamp_reply" ->
            [id |-> SUBMESSAGE_ID_TIMESTAMP_REPLY, format |-> TIMESTAMP_REPLY_Payload,
             value |-> [transmit_timestamp |-> answer.transmit,
                        receive_timestamp |-> answer.receive,
                        originate_timestamp |-> answer.originate]]
      [] answer.on = "get_info" ->
            [id |-> SUBMESSAGE_ID_GET_INFO, format |-> GET_INFO_Payload,
             value |-> [base |-> BaseOf(answer.request_id, answer.object), info_mask |-> 2]]
      [] answer.on = "info" ->
            [id |-> SUBMESSAGE_ID_INFO, format |-> INFO_Payload,
             value |-> [base |-> ReplyTo([request_id |-> RequestIdRaw(GET_INFO_REQUEST_PING_ID),
                                          object_id |-> ObjectIdAgent],
                                         [status |-> 0,
                                          implementation_status |-> answer.in_session]),
                        object_info |-> [config |-> answer.config,
                                         activity |-> answer.activity]]]

(* An availability to answer with, and whether it has addresses.             *)
AgentActivity(availability, addresses) ==
    <<<<DDS_XRCE_OBJK_AGENT, [availability |-> availability, address_seq |-> addresses]>>>>

RECURSIVE AgentMessage(_, _)
Aligned(octets) == octets \o Zeros(Padding(Len(octets), 4))
AnswerBehind(octets, answer) ==
    octets \o Submessage(answer.id, 0, Len(Write(answer.format, answer.value, 0)),
                         answer.format, answer.value, Len(octets))
AgentMessage(octets, answers) ==
    IF answers = <<>> THEN octets
    ELSE AgentMessage(AnswerBehind(Aligned(octets), AnswerOf(Head(answers))), Tail(answers))

AgentSends(stream_id, seq_num, answers) ==
    AgentMessage(Stamped(session.id, stream_id, seq_num, <<>>), answers)

(***************************************************************************)
(* The Client reads. A handler returns what it was called with and where   *)
(* the reading goes on.                                                    *)
(***************************************************************************)
Handled(calls, at) == [calls |-> calls, at |-> at]

(* ucdr_advance_buffer stops at the end of the message.                      *)
Advanced(octets, at, length) ==
    IF at + length <= Len(octets) THEN at + length ELSE Len(octets)

OnStatus(object, request_id, status) ==
    [on |-> "status", object |-> object, request_id |-> request_id, status |-> status]

(* The handlers of STATUS_AGENT, and of STATUS outside and inside a stream.  *)
OnStatusAgent(read) ==
    Handled(<<[on |-> "status_agent", status |-> read.value.result.status]>>, read.at)

StatusOf(payload) ==
    OnStatus(uxr_object_id_from_raw(payload.related_request.object_id),
             RequestIdFromRaw(payload.related_request.request_id), payload.result.status)
OnStatusIn(none, read) ==
    Handled(<<IF none THEN [StatusOf(read.value) EXCEPT !.on = "deleted"]
              ELSE StatusOf(read.value)>>, read.at)

(* uxr_on_topic, uxr_on_request, uxr_on_reply: what the data begin with.     *)
OnTopic(about, data, length) ==
    <<"on" :> "topic" @@ "data" :> Part(data, 1, length) @@ about>>
OnRequest(about, data, length, read) ==
    IF read.ok THEN <<"on" :> "request" @@ "sample_id" :> read.value
                      @@ "data" :> Part(data, read.at + 1, length) @@ about>>
    ELSE <<>>
OnReply(about, data, length, read) ==
    IF read.ok THEN <<"on" :> "reply" @@ "reply_id" :> RequestIdFromRaw(read.value.request_id)
                      @@ "data" :> Part(data, read.at + 1, length) @@ about>>
    ELSE <<>>

(* read_format_data: a buffer of its own from the data on, so that what is   *)
(* read there is aligned from there. A reply moves the buffer twice.         *)
FormatDataCalls(about, data, length) ==
    CASE about.object.type = DDS_XRCE_OBJK_DATAREADER -> OnTopic(about, data, length)
      [] about.object.type = DDS_XRCE_OBJK_REPLIER ->
            OnRequest(about, data, length, Read(SampleIdentity, data, 0))
      [] about.object.type = DDS_XRCE_OBJK_REQUESTER ->
            OnReply(about, data, length, Read(BaseObjectRequest, data, 0))
      [] OTHER -> <<>>
FormatDataEnd(about, octets, at, length) ==
    LET end == Advanced(octets, at, length)
    IN IF about.object.type = DDS_XRCE_OBJK_REQUESTER THEN Advanced(octets, end, length) ELSE end

(* read_submessage_data: what is behind the identifiers.                     *)
DataLength(length) == length - 4

(* read_submessage_data and read_submessage_format: data also confirm the    *)
(* request that asked for them; the other formats are not read.              *)
FormatOf(flags) == 2 * ((flags \div 2) % 8)
ReadFormat(about, octets, at, header) ==
    IF FormatOf(header.flags) = FORMAT_DATA
    THEN Handled(FormatDataCalls(about, Part(octets, at + 1, Len(octets)),
                                 DataLength(header.length)),
                 FormatDataEnd(about, octets, at, DataLength(header.length)))
    ELSE Handled(<<>>, at)
OnDataFrom(about, format) ==
    Handled(<<OnStatus(about.object, about.request_id, 0)>> \o format.calls, format.at)
About(base) ==
    [object |-> uxr_object_id_from_raw(base.object_id),
     request_id |-> RequestIdFromRaw(base.request_id)]
OnData(read, octets, header) ==
    OnDataFrom(About(read.value), ReadFormat(About(read.value), octets, read.at, header))

OnHeartbeat(read) ==
    Handled(<<[on |-> "heartbeat", first |-> read.value.first_unacked_seq_nr,
               last |-> read.value.last_unacked_seq_nr,
               index |-> uxr_stream_id_from_raw(read.value.stream_id).index]>>, read.at)

OnAcknack(read) ==
    Handled(<<[on |-> "acknack", first |-> read.value.first_unacked_seq_num,
               bitmap |-> RequestIdFromRaw(read.value.nack_bitmap),
               index |-> uxr_stream_id_from_raw(read.value.stream_id).index]>>, read.at)

OnTimestampReply(read) ==
    Handled(<<[on |-> "timestamp_reply", transmit |-> read.value.transmit_timestamp,
               receive |-> read.value.receive_timestamp,
               originate |-> read.value.originate_timestamp]>>, read.at)

OnGetInfo(read) ==
    Handled(<<"on" :> "get_info" @@ About(read.value.base)>>, read.at)

(* Mutant of PongOf: an Agent that cannot be reached is one.                 *)
PongWhatever(availability, in_session) ==
    IF in_session # 0 THEN "PONG_IN_SESSION" ELSE "PONG_NO_SESSION"

(* read_submessage_info: only an availability of the Agent is taken from it, *)
(* and nothing behind it is read.                                            *)
PongOf(availability, in_session) ==
    IF availability \notin 1..32767 THEN "NO_PONG"
    ELSE IF in_session # 0 THEN "PONG_IN_SESSION" ELSE "PONG_NO_SESSION"
OnActivity(in_session, kind, availability) ==
    IF kind.value = <<DDS_XRCE_OBJK_AGENT>>
    THEN Handled(<<[on |-> "pong", flag |-> PongOf(availability.value, in_session)]>>,
                 availability.at)
    ELSE Handled(<<>>, kind.at)
OnKind(in_session, octets, kind) ==
    OnActivity(in_session, kind, Read(UInt(2), octets, kind.at))
OnConfig(in_session, octets, config) ==
    OnKind(in_session, octets, Read(Optional(UInt(1)), octets, config.at))
OnInfo(read, octets) ==
    OnConfig(read.value.result.implementation_status, octets,
             Read(Optional(ObjectVariant), octets, read.at))

(* read_submessage                                                           *)
ReadSubmessage(header, octets, at, none) ==
    CASE header.id = SUBMESSAGE_ID_STATUS_AGENT /\ none ->
            OnStatusAgent(Read(STATUS_AGENT_Payload, octets, at))
      [] header.id = SUBMESSAGE_ID_STATUS -> OnStatusIn(none, Read(STATUS_Payload, octets, at))
      [] header.id = SUBMESSAGE_ID_DATA ->
            OnData(Read(BaseObjectRequest, octets, at), octets, header)
      [] header.id = SUBMESSAGE_ID_HEARTBEAT -> OnHeartbeat(Read(HEARTBEAT_Payload, octets, at))
      [] header.id = SUBMESSAGE_ID_ACKNACK -> OnAcknack(Read(ACKNACK_Payload, octets, at))
      [] header.id = SUBMESSAGE_ID_TIMESTAMP_REPLY ->
            OnTimestampReply(Read(TIMESTAMP_REPLY_Payload, octets, at))
      [] header.id = SUBMESSAGE_ID_GET_INFO -> OnGetInfo(Read(GET_INFO_Payload, octets, at))
      [] header.id = SUBMESSAGE_ID_INFO -> OnInfo(Read(BaseObjectReply, octets, at), octets)
      [] OTHER -> Handled(<<>>, at)

(* read_submessage_list: the next header is where the handler stopped.       *)
RECURSIVE ReadSubmessageList(_, _, _), ListAfter(_, _, _)
ListAfter(handled, octets, none) ==
    handled.calls \o ReadSubmessageList(octets, handled.at, none)
ReadSubmessageList(octets, at, none) ==
    LET start == at + Padding(at, SUBHEADER_SIZE)
    IN IF start + SUBHEADER_SIZE > Len(octets) THEN <<>>
       ELSE ListAfter(ReadSubmessage(Read(SubmessageHeader, octets, start).value, octets,
                                     start + SUBHEADER_SIZE, none),
                      octets, none)

(* uxr_read_session_header: the stream and the number of a message that is   *)
(* for this session.                                                         *)
SessionHeader(header, octets) ==
    [ok |-> /\ Len(octets) > MAX_HEADER_SIZE
            /\ header.session_id = session.id
            /\ HeaderSize(header.session_id) = 8 => SubSeq(octets, 5, 8) = session.key,
     stream_id |-> header.stream_id, seq_num |-> header.seq_num,
     at |-> HeaderSize(header.session_id)]
ReadSessionHeader(octets) == SessionHeader(Read(MessageHeader, octets, 0).value, octets)

(* The discovery reads with functions of its own: the headers are passed     *)
(* over, what the Agent has no room for here of a list of addresses is left  *)
(* unread, and the addresses are offered to the user if all that was read is *)
(* sound and the version is the Client's.                                    *)
DDS_XRCE_XRCE_VERSION == <<1, 0>>
DiscoveryInfo == Struct(<<
    Field("base", BaseObjectReply), Field("config", Optional(ObjectVariant)),
    Field("activity", Optional(Struct(<<
        Field("kind", UInt(1)), Field("availability", UInt(2)), Field("size", UInt(4))>>)))>>)

ClippedSize(size) ==
    IF size > UXR_TRANSPORT_LOCATOR_SEQUENCE_MAX
    THEN UXR_TRANSPORT_LOCATOR_SEQUENCE_MAX ELSE size
OfAgent(info) ==
    /\ info.ok /\ info.value.activity[1].kind = DDS_XRCE_OBJK_AGENT
    /\ info.value.config[1][2].xrce_version = DDS_XRCE_XRCE_VERSION
LocatorsBehind(info, octets) ==
    IF OfAgent(info)
    THEN ReadEach(ReadValue(<<>>, info.at),
                  [i \in 1..ClippedSize(info.value.activity[1].size) |-> TransportLocator],
                  octets)
    ELSE ReadError(info.at)
OffersOf(locators) == IF locators.ok THEN locators.value ELSE <<>>
on_agent(datagram) ==
    LET octets == Part(datagram, 1, UXR_UDP_TRANSPORT_MTU_DATAGRAM)
        start == HeaderSize(octets[1]) + SUBHEADER_SIZE
    IN OffersOf(LocatorsBehind(Read(DiscoveryInfo, octets, start), octets))

(***************************************************************************)
(* The behaviour. One best-effort stream each way. To keep the two         *)
(* directions from multiplying each other, the Agent speaks only before    *)
(* the first request of a session, and a session sends one message of      *)
(* requests; the session may be created again.                             *)
(***************************************************************************)
OutputStream == uxr_stream_id(0, "best_effort")
InputStream == uxr_stream_id(0, "best_effort")
Resting == to_agent = <<>> /\ asked = <<>> /\ last_send = SeqNumMax

WireInit ==
    /\ StreamsInit
    /\ last_request_id \in {RESERVED_REQUESTS_ID, 255, UINT16_MAX - 1}
    /\ asked = <<>> /\ to_agent = <<>>
    /\ agent_sent = SeqNumMax /\ network = {} /\ aside = <<>>
    /\ delivered = <<>> /\ round = 0

(* A call whose submessage fits: it is given an identifier and serialized.   *)
(* One that does not fit returns UXR_INVALID_REQUEST_ID and leaves all as    *)
(* it was.                                                                   *)
Ask(call) ==
    LET request == Request(call)
        request_id == NextRequestId(last_request_id)
        value == ("base" :> BaseOf(request_id, call.object)) @@ request.fields
    IN /\ last_send = SeqNumMax /\ to_agent = <<>>
       /\ agent_sent = SeqNumMax /\ aside = <<>>
       /\ Len(asked) < MaxCalls
       /\ PrepareToWrite(request.length,
                         Submessage(request.id, request.flags, request.length,
                                    request.format, value, writer))
       /\ last_request_id' = request_id
       /\ asked' = Append(asked, [call |-> call, request_id |-> request_id])
       /\ UNCHANGED <<to_agent, answerVars>>

AskFirst == asked = <<>> /\ \E call \in Calls : Ask(call)
AskNext == asked # <<>> /\ \E call \in MoreCalls : Ask(call)

(* uxr_flash_output_streams                                                  *)
Flash ==
    /\ PrepareToSend
    /\ to_agent' = <<[meant |-> asked,
                      octets |-> Stamped(session.id, OutputStream, last_send', Written)]>>
    /\ asked' = <<>>
    /\ UNCHANGED <<last_request_id, answerVars>>

(* The session sends something by itself; a login also resets the streams    *)
(* and both calls change the last request.                                   *)
SendDirect ==
    \E direct \in Directs :
        /\ to_agent = <<>> /\ asked = <<>> /\ agent_sent = SeqNumMax /\ aside = <<>>
        /\ to_agent' = <<[meant |-> <<[session_id |-> direct.session_id, id |-> direct.id,
                                       value |-> direct.value]>>,
                          octets |-> DirectMessage(direct)]>>
        /\ CASE direct.what = "create_session" ->
                   /\ last_request_id' = UXR_REQUEST_LOGIN
                   /\ writer' = Offset /\ last_send' = SeqNumMax
                   /\ last_handled' = SeqNumMax
             [] direct.what = "delete_session" ->
                   /\ last_request_id' = UXR_REQUEST_LOGOUT
                   /\ UNCHANGED <<writer, last_send, last_handled>>
             [] OTHER -> UNCHANGED <<last_request_id, writer, last_send, last_handled>>
        /\ UNCHANGED <<asked, buffer, agent_sent, network, aside, delivered, round>>

(* The Agent takes the message, or it is lost.                               *)
AgentTakes ==
    /\ to_agent # <<>>
    /\ to_agent' = <<>>
    /\ UNCHANGED <<last_request_id, asked, outputVars, answerVars>>

(* No message outlives MaxOnTheWay later ones.                               *)
Fresh(m, sent) == SeqNumSub(sent, m.seq_num) <= MaxOnTheWay

AgentAnswers(answers) ==
    LET seq_num == SeqNumAdd(agent_sent, 1) IN
    /\ Resting /\ last_request_id = UXR_REQUEST_LOGIN /\ aside = <<>>
    /\ Cardinality(network) < MaxOnTheWay /\ \A m \in network : Fresh(m, seq_num)
    /\ seq_num < MaxAnswers
    /\ agent_sent # SeqNumMax => answers \in LaterAnswers
    /\ agent_sent' = seq_num
    /\ network' = network \cup {[seq_num |-> seq_num, answers |-> answers]}
    /\ UNCHANGED <<requestVars, last_handled, aside, delivered, round>>

(* An answer outside of any stream.                                          *)
AgentAnswersAside(answers) ==
    /\ Resting /\ last_request_id = UXR_REQUEST_LOGIN
    /\ agent_sent = SeqNumMax /\ aside = <<>>
    /\ aside' = <<answers>>
    /\ UNCHANGED <<requestVars, last_handled, agent_sent, network, delivered, round>>

(* read_message of a message of the stream. The transport may keep it to     *)
(* give it again.                                                            *)
ReadsMessage(m, header, octets) ==
    /\ header.ok /\ uxr_stream_id_from_raw(header.stream_id).type = "best_effort"
    /\ Receive(header.seq_num)
    /\ IF Receivable(header.seq_num)
       THEN /\ delivered' = ReadSubmessageList(octets, header.at, FALSE)
            /\ round' = 1 - round
       ELSE UNCHANGED <<delivered, round>>
    /\ network' \in {network, network \ {m}}
    /\ UNCHANGED <<requestVars, agent_sent, aside>>
ReadsStream(m) ==
    \E octets \in {AgentSends(InputStream, m.seq_num, m.answers)} :
        ReadsMessage(m, ReadSessionHeader(octets), octets)

(* read_message of one outside: its handlers' calls are in AsideCalls.       *)
ReadsAside ==
    /\ aside # <<>>
    /\ aside' = <<>>
    /\ UNCHANGED <<requestVars, last_handled, agent_sent, network, delivered, round>>

Loses(m) ==
    /\ network' = network \ {m}
    /\ UNCHANGED <<requestVars, last_handled, agent_sent, aside, delivered, round>>

WireNext ==
    \/ AskFirst \/ AskNext \/ Flash \/ SendDirect \/ AgentTakes
    \/ \E answers \in Answers : AgentAnswers(answers)
    \/ \E answers \in AsideAnswers : AgentAnswersAside(answers)
    \/ \E m \in network : ReadsStream(m) \/ Loses(m)
    \/ ReadsAside

WireSpec == WireInit /\ [][WireNext]_<<requestVars, answerVars>>

(***************************************************************************)
(* Properties.                                                             *)
(***************************************************************************)
WireTypeOK ==
    /\ writer \in Offset..BufferSize /\ last_send \in SeqNums /\ Len(buffer) = writer - Offset
    /\ last_handled \in SeqNums /\ agent_sent \in SeqNums /\ round \in 0..1
    /\ last_request_id \in 0..UINT16_MAX
    /\ Len(asked) <= MaxCalls /\ Len(to_agent) <= 1 /\ Len(aside) <= 1
    /\ Cardinality(network) <= MaxOnTheWay

(* The lengths that the code sums by hand are those of what it serializes:   *)
(* an Agent that goes by them finds every call of the application that was   *)
(* given an identifier, in the order of the calls, with that identifier and  *)
(* every parameter; and what the session sends by itself is not cut by its   *)
(* buffer.                                                                   *)
AgentUnderstands ==
    to_agent # <<>> => AgentReads(to_agent[1].octets) = to_agent[1].meant

(* The calls of the Client's handlers that an answer stands for.             *)
CallsFor(answer) ==
    CASE answer.on \in {"topic", "request", "reply"} ->
            <<OnStatus(answer.object, answer.request_id, 0), answer>>
      [] answer.on = "nothing" -> <<OnStatus(answer.object, answer.request_id, 0)>>
      [] answer.on = "info" -> [i \in DOMAIN answer.pong |-> [on |-> "pong", flag |-> answer.pong[i]]]
      [] OTHER -> <<answer>>

CallsForAll(answers) == FlattenSeq([i \in DOMAIN answers |-> CallsFor(answers[i])])

(* A reply moves the reading twice, and an INFO is not read to its end: the  *)
(* Agent sends nothing behind them in a message.                             *)
EndsReading(answer) == answer.on \in {"reply", "info"}

ASSUME AnswersAssumption ==
    \A answers \in Answers \cup AsideAnswers :
        \A i \in 1..Len(answers) - 1 : ~EndsReading(answers[i])

(* What is asked for by the discovery is answered to no session; a session   *)
(* is told at most one address, for it takes what is behind the availability *)
(* for submessages, and the number of the addresses for a submessage's kind. *)
ToDiscovery(answers) ==
    /\ Len(answers) = 1 /\ answers[1].on = "info"
    /\ answers[1].config # <<>> /\ answers[1].activity # <<>>
ToSession(answers) ==
    \A answer \in ToSet(answers) :
        answer.on = "info" /\ ToDiscovery(<<answer>>) =>
            Len(answer.activity[1][2].address_seq) <= 1

(* Each handler leaves the reading where the next submessage begins and      *)
(* takes from its own what the Agent meant, whatever the lengths before it:  *)
(* of a message outside of any stream, every submessage is handled, once and *)
(* in order, with its values.                                                *)
UnderstoodAs(header, octets, calls) ==
    /\ header.ok /\ header.stream_id = 0
    /\ ReadSubmessageList(octets, header.at, TRUE) = calls
AddressesIn(info) ==
    IF info.config[1][2].xrce_version = DDS_XRCE_XRCE_VERSION
    THEN Part(info.activity[1][2].address_seq, 1, UXR_TRANSPORT_LOCATOR_SEQUENCE_MAX)
    ELSE <<>>
AsideIsUnderstood ==
    \A answers \in ToSet(aside) :
        /\ ToSession(answers) =>
               \A octets \in {AgentSends(0, 0, answers)} :
                   UnderstoodAs(ReadSessionHeader(octets), octets, CallsForAll(answers))
        /\ ToDiscovery(answers) =>
               on_agent(AgentMessage(Stamped(SESSION_ID_WITHOUT_CLIENT_KEY, 0, 0, <<>>),
                                     answers))
               = AddressesIn(answers[1])
=============================================================================

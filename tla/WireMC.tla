------------------------------- MODULE WireMC -------------------------------
(* Calls and answers with texts and data of every alignment; the types of    *)
(* the protocol written and read back.                                       *)
EXTENDS Wire

Texts == {[i \in 1..n |-> 96 + i] : n \in 0..3}
Object(kind) == [id |-> 2741, type |-> kind]
Parent == [id |-> 18, type |-> DDS_XRCE_OBJK_PARTICIPANT]
Kinds == DDS_XRCE_OBJK_PARTICIPANT..DDS_XRCE_OBJK_REPLIER
RefKinds == Kinds \ {DDS_XRCE_OBJK_PUBLISHER, DDS_XRCE_OBJK_SUBSCRIBER}

Described(kind) ==
    [object |-> Object(kind), mode |-> 2 * (kind % 3),
     parent |-> IF kind = DDS_XRCE_OBJK_PARTICIPANT THEN 258 ELSE Parent]

Qos == [reliability : {"reliable", "best_effort"}, history : {"keep_last", "keep_all"},
        durability : DOMAIN DurabilityFlag, depth : {0, 3}]
Identity == [writer_guid |-> [guidPrefix |-> [i \in 1..12 |-> i],
                              entityId |-> [entityKey |-> <<1, 2, 3>>, entityKind |-> 4]],
             sequence_number |-> [high |-> 0, low |-> 70000]]
Control == [max_samples |-> 65535, max_elapsed_time |-> 1,
            max_bytes_per_seconds |-> 2, min_pace_period |-> 3]

CreateCalls ==
    {[call |-> "create_ref", text |-> text] @@ Described(kind) : kind \in RefKinds, text \in Texts}
    \cup {[call |-> "create_xml", text |-> text] @@ Described(kind) : kind \in Kinds, text \in Texts}

BinaryCalls ==
    LET Of(kind, described) == ("call" :> "create_bin") @@ Described(kind) @@ described
        Service(s, t) == [service_name |-> s, request_type |-> t, reply_type |-> s,
                          request_topic_name |-> t, reply_topic_name |-> s]
    IN {Of(DDS_XRCE_OBJK_PARTICIPANT, [participant_name |-> name]) :
            name \in {<<>>} \cup {<<text>> : text \in Texts}}
       \cup {Of(DDS_XRCE_OBJK_TOPIC, [topic_name |-> s, type_name |-> t]) : s, t \in Texts}
       \cup {Of(kind, <<>>) : kind \in {DDS_XRCE_OBJK_PUBLISHER, DDS_XRCE_OBJK_SUBSCRIBER}}
       \cup {Of(kind, [topic |-> Object(DDS_XRCE_OBJK_TOPIC), qos |-> qos]) :
            kind \in {DDS_XRCE_OBJK_DATAWRITER, DDS_XRCE_OBJK_DATAREADER}, qos \in Qos}
       \cup {Of(kind, Service(s, t)) :
            kind \in {DDS_XRCE_OBJK_REQUESTER, DDS_XRCE_OBJK_REPLIER}, s, t \in Texts}

DataCalls ==
    {[call |-> "write", object |-> Object(kind), data |-> text] :
        kind \in {DDS_XRCE_OBJK_DATAWRITER, DDS_XRCE_OBJK_REQUESTER}, text \in Texts}
    \cup {[call |-> "reply", object |-> Object(DDS_XRCE_OBJK_REPLIER),
           sample_id |-> Identity, data |-> text] : text \in Texts}
    \cup {[call |-> "read", object |-> Object(DDS_XRCE_OBJK_DATAREADER), data_stream |-> 128,
           control |-> control] : control \in {<<>>, <<Control>>}}
    \cup {uxr_buffer_cancel_data(Object(DDS_XRCE_OBJK_DATAREADER))}

OtherCalls == {[call |-> "delete", object |-> Object(kind)] : kind \in Kinds}

MCCalls == CreateCalls \cup BinaryCalls \cup DataCalls \cup OtherCalls
MCMoreCalls ==
    {[call |-> "delete", object |-> Object(DDS_XRCE_OBJK_TOPIC)],
     [call |-> "write", object |-> Object(DDS_XRCE_OBJK_DATAWRITER), data |-> <<9>>],
     [call |-> "create_ref", text |-> <<97>>] @@ Described(DDS_XRCE_OBJK_PARTICIPANT)}

(***************************************************************************)
(* What the Agent sends.                                                   *)
(***************************************************************************)
Status(request_id, status) ==
    [on |-> "status", object |-> Object(DDS_XRCE_OBJK_TOPIC), request_id |-> request_id,
     status |-> status]
DataTo(on, kind, data) ==
    [on |-> on, object |-> Object(kind), request_id |-> 513, data |-> data]

InStream ==
    {Status(65535, 131)}
    \cup {DataTo("topic", DDS_XRCE_OBJK_DATAREADER, data) : data \in Texts}
    \cup {DataTo("nothing", DDS_XRCE_OBJK_DATAWRITER, data) : data \in Texts}
    \cup {DataTo("request", DDS_XRCE_OBJK_REPLIER, data) @@ [sample_id |-> Identity] :
            data \in Texts}
Replies ==
    {DataTo("reply", DDS_XRCE_OBJK_REQUESTER, data) @@ [reply_id |-> 258] : data \in Texts}

MCLaterAnswers == {<<Status(10, 0)>>, <<Status(10, 1)>>}
MCAnswers ==
    MCLaterAnswers \cup {<<a>> : a \in InStream \cup Replies}
    \cup {<<a, Status(10, 1)>> : a \in InStream}
    \cup {<<Status(10, 0), a>> : a \in InStream \cup Replies}

Second(s) == [seconds |-> s, nanoseconds |-> 5]
OutOfStreams ==
    {[on |-> "status_agent", status |-> 0],
     [on |-> "deleted", object |-> Object(DDS_XRCE_OBJK_CLIENT), request_id |-> 2, status |-> 0],
     [on |-> "heartbeat", first |-> 65535, last |-> 2, index |-> 1],
     [on |-> "acknack", first |-> 256, bitmap |-> 258, index |-> 0],
     [on |-> "timestamp_reply", transmit |-> Second(3), receive |-> Second(2),
      originate |-> Second(1)],
     [on |-> "get_info", object |-> Object(DDS_XRCE_OBJK_CLIENT), request_id |-> 300]}

Version == [xrce_cookie |-> <<88, 82, 67, 69>>, xrce_version |-> <<1, 0>>,
            xrce_vendor_id |-> <<1, 15>>, properties |-> <<>>]
Locator == <<ADDRESS_FORMAT_MEDIUM, [address |-> <<127, 0, 0, 1>>, locator_port |-> 2018]>>
ShortLocator == <<ADDRESS_FORMAT_SMALL, [address |-> <<1, 2>>, locator_port |-> 7]>>
Info(in_session, config, activity, pong) ==
    [on |-> "info", in_session |-> in_session, config |-> config, activity |-> activity,
     pong |-> pong]
Infos ==
    LET Config == {<<>>, <<<<DDS_XRCE_OBJK_AGENT, Version>>>>}
        Present == AgentActivity(1, <<Locator>>)
        Absent == AgentActivity(0, <<>>)
        ManyLocators == [i \in 1..5 |-> IF i = 2 THEN ShortLocator ELSE Locator]
        NextVersion == [Version EXCEPT !.xrce_version = <<1, 1>>]
    IN {Info(1, config, Present, <<"PONG_IN_SESSION">>) : config \in Config}
       \cup {Info(0, config, Present, <<"PONG_NO_SESSION">>) : config \in Config}
       \cup {Info(1, config, Absent, <<"NO_PONG">>) : config \in Config}
       \cup {Info(1, config, <<>>, <<>>) : config \in Config}
       \cup {Info(0, <<<<DDS_XRCE_OBJK_AGENT, version>>>>, AgentActivity(1, ManyLocators),
                  <<"PONG_NO_SESSION">>) : version \in {Version, NextVersion}}
       \cup {Info(1, <<>>, <<<<DDS_XRCE_OBJK_DATAREADER, 7>>>>, <<>>)}

MCAsideAnswers ==
    {<<a>> : a \in OutOfStreams \cup Infos}
    \cup {<<a, b>> : a \in OutOfStreams, b \in OutOfStreams \cup Infos}

(***************************************************************************)
(* Every type of the protocol, the ones that no message above holds too.   *)
(* Values of a format are numbered: k is the length of a text or a list,   *)
(* the presence of an option, the branch of a union.                       *)
(***************************************************************************)
Types ==
    {Time_t, BinarySequence_t, StringSequence_t, ClientKey, ObjectId,
     ObjectPrefix, XrceCookie, XrceVersion, XrceVendorId,
     TransportLocatorSmall, TransportLocatorMedium, TransportLocatorLarge,
     TransportLocatorString, TransportLocator, TransportLocatorSeq, Property,
     PropertySeq, CLIENT_Representation, AGENT_Representation,
     OBJK_Representation3Formats, OBJK_RepresentationRefAndXMLFormats,
     OBJK_RepresentationBinAndXMLFormats, OBJK_RepresentationRefAndXML_Base,
     OBJK_RepresentationBinAndXML_Base, OBJK_Representation3_Base,
     OBJK_QOSPROFILE_Representation, OBJK_TYPE_Representation,
     OBJK_DOMAIN_Representation, OBJK_APPLICATION_Representation,
     OBJK_PUBLISHER_Representation, OBJK_SUBSCRIBER_Representation,
     DATAWRITER_Representation, DATAREADER_Representation,
     OBJK_PARTICIPANT_Representation, OBJK_TOPIC_Representation,
     OBJK_REQUESTER_Representation, OBJK_REPLIER_Representation,
     OBJK_DomainParticipant_Binary, OBJK_Topic_Binary,
     OBJK_Publisher_Binary_Qos, OBJK_Publisher_Binary,
     OBJK_Subscriber_Binary_Qos, OBJK_Subscriber_Binary,
     OBJK_Endpoint_QosBinary, OBJK_DataWriter_Binary_Qos,
     OBJK_DataReader_Binary_Qos, OBJK_DataReader_Binary,
     OBJK_DataWriter_Binary, OBJK_Requester_Binary, OBJK_Replier_Binary,
     ObjectVariant, CreationMode, RequestId, ResultStatus, BaseObjectRequest,
     AGENT_ActivityInfo, DATAREADER_ActivityInfo, DATAWRITER_ActivityInfo,
     ActivityInfoVariant, ObjectInfo, BaseObjectReply, DataDeliveryControl,
     ReadSpecification, SeqNumberAndTimestamp, SampleInfoDetail, SampleInfo,
     SampleInfoDelta, SampleData, SampleDataSeq, Sample, SampleSeq,
     SampleDelta, SampleDeltaSequence, PackedSamples, SamplePackedSeq,
     DataRepresentation, CREATE_CLIENT_Payload, CREATE_Payload,
     GET_INFO_Payload, DELETE_Payload, STATUS_AGENT_Payload, STATUS_Payload,
     INFO_Payload, READ_DATA_Payload, WRITE_DATA_Payload_Data,
     WRITE_DATA_Payload_Sample, WRITE_DATA_Payload_DataSeq,
     WRITE_DATA_Payload_SampleSeq, WRITE_DATA_Payload_PackedSamples,
     DATA_Payload_Data, DATA_Payload_Sample, DATA_Payload_DataSeq,
     DATA_Payload_SampleSeq, DATA_Payload_PackedSamples, ACKNACK_Payload,
     HEARTBEAT_Payload, TIMESTAMP_Payload, TIMESTAMP_REPLY_Payload,
     GuidPrefix_t, EntityId_t, GUID_t, SequenceNumber_t, SampleIdentity}

RECURSIVE ValueOf(_, _)
ValueOf(format, k) ==
    CASE format.kind = "uint" -> (k * 37) % (IF format.width = 1 THEN 256 ELSE 65536)
      [] format.kind = "octets" -> [i \in 1..format.size |-> k + i]
      [] format.kind \in {"string", "bytes"} -> [i \in 1..(k % 4) |-> 96 + i]
      [] format.kind = "list" ->
            [i \in 1..(k % (format.max + 1)) |-> ValueOf(format.format, k + i)]
      [] format.kind = "struct" ->
            [name \in {format.fields[i].name : i \in DOMAIN format.fields} |->
                LET i == CHOOSE i \in DOMAIN format.fields : format.fields[i].name = name
                IN ValueOf(format.fields[i].format, k + i)]
      [] format.kind = "optional" ->
            IF k % 2 = 0 \/ ~format.read THEN <<>> ELSE <<ValueOf(format.format, k + 1)>>
      [] format.kind = "union" ->
            LET all == DOMAIN format.branches
                discriminator == CHOOSE d \in all :
                    Cardinality({e \in all : e < d}) = k % Cardinality(all)
            IN <<discriminator, ValueOf(format.branches[discriminator], k)>>

(* What is written at any alignment is read back, to its last octet; of a    *)
(* buffer that ends before that octet, nothing is.                           *)
ASSUME TypesAreReadBack ==
    \A format \in Types, k \in 0..15, at \in 0..7 :
        \A value \in {ValueOf(format, k)} :
            \A octets \in {Zeros(at) \o Write(format, value, at)} :
                /\ Read(format, octets, at) = ReadValue(value, Len(octets))
                /\ Len(octets) > at => ~Read(format, Front(octets), at).ok

(***************************************************************************)
(* The abstract best-effort stream.                                        *)
(***************************************************************************)
(* How many messages the Agent has sent after one, whatever the Client makes *)
(* of the distance between two numbers.                                      *)
SentAfter(seq_num) == SeqNumSub(agent_sent, seq_num)
Newer == {m \in network : SentAfter(m.seq_num) < SentAfter(last_handled)}
InOrder ==
    SetToSortSeq(Newer, LAMBDA m, n : SentAfter(m.seq_num) > SentAfter(n.seq_num))
Line == [i \in DOMAIN InOrder |-> CallsForAll(InOrder[i].answers)]

Delivery == INSTANCE BestEffortDelivery WITH
    Contents <- {CallsForAll(answers) : answers \in Answers}, line <- Line

(* Whatever the network loses, repeats or reorders, what a best-effort       *)
(* stream reads was sent, once, in the order of sending, and every           *)
(* submessage of a message that is read reaches its handlers, in order, with *)
(* its values.                                                               *)
ImplementsBestEffortDelivery == Delivery!Spec
=============================================================================

------------------------------ MODULE XrceTypes ------------------------------
(* How the DDS-XRCE types lie in a buffer: for each type the format that     *)
(* uxr_serialize_<type> writes and uxr_deserialize_<type> reads. A structure *)
(* of one field is that field; an optional field includes its flag.          *)
EXTENDS Cdr, TLC

CONSTANTS ProfileSharedMemory, HardLiveliness  \* build options of the Client

ASSUME ProfilesAssumption ==
    ProfileSharedMemory \in BOOLEAN /\ HardLiveliness \in BOOLEAN

UXR_STRING_SIZE_MAX == 512
UXR_SAMPLE_DATA_SIZE_MAX == 512
UXR_STRING_SEQUENCE_MAX == 8
UXR_BINARY_SEQUENCE_MAX == 512
UXR_SAMPLE_SEQUENCE_MAX == 8
UXR_SAMPLE_DATA_SEQUENCE_MAX == 8
UXR_SAMPLE_DELTA_SEQUENCE_MAX == 8
UXR_PACKED_SAMPLES_SEQUENCE_MAX == 8
UXR_TRANSPORT_LOCATOR_SEQUENCE_MAX == 4
UXR_PROPERTY_SEQUENCE_MAX == IF ProfileSharedMemory /\ HardLiveliness THEN 2 ELSE 1

ADDRESS_FORMAT_SMALL == 0
ADDRESS_FORMAT_MEDIUM == 1
ADDRESS_FORMAT_LARGE == 2
ADDRESS_FORMAT_STRING == 3

DDS_XRCE_REPRESENTATION_BY_REFERENCE == 1
DDS_XRCE_REPRESENTATION_AS_XML_STRING == 2
DDS_XRCE_REPRESENTATION_IN_BINARY == 3

DDS_XRCE_OBJK_PARTICIPANT == 1
DDS_XRCE_OBJK_TOPIC == 2
DDS_XRCE_OBJK_PUBLISHER == 3
DDS_XRCE_OBJK_SUBSCRIBER == 4
DDS_XRCE_OBJK_DATAWRITER == 5
DDS_XRCE_OBJK_DATAREADER == 6
DDS_XRCE_OBJK_REQUESTER == 7
DDS_XRCE_OBJK_REPLIER == 8
DDS_XRCE_OBJK_TYPE == 10
DDS_XRCE_OBJK_QOSPROFILE == 11
DDS_XRCE_OBJK_APPLICATION == 12
DDS_XRCE_OBJK_AGENT == 13
DDS_XRCE_OBJK_CLIENT == 14

FORMAT_EMPTY == 0
FORMAT_SEQNUM == 1
FORMAT_TIMESTAMP == 2
FORMAT_DATA == 0
FORMAT_SAMPLE == 2
FORMAT_DATA_SEQ == 8
FORMAT_SAMPLE_SEQ == 10
FORMAT_PACKED_SAMPLES == 14

Text == String(UXR_STRING_SIZE_MAX)

Time_t == Struct(<<Field("seconds", UInt(4)), Field("nanoseconds", UInt(4))>>)
BinarySequence_t == Bytes(UXR_BINARY_SEQUENCE_MAX)
StringSequence_t == List(UXR_STRING_SEQUENCE_MAX, Text)

(***************************************************************************)
(* Identifiers and locators.                                               *)
(***************************************************************************)
ClientKey == Octets(4)
ObjectId == Octets(2)
ObjectPrefix == Octets(2)
XrceCookie == Octets(4)
XrceVersion == Octets(2)
XrceVendorId == Octets(2)
TransportLocatorSmall == Struct(<<
    Field("address", Octets(2)), Field("locator_port", UInt(1))>>)
TransportLocatorMedium == Struct(<<
    Field("address", Octets(4)), Field("locator_port", UInt(2))>>)
TransportLocatorLarge == Struct(<<
    Field("address", Octets(16)), Field("locator_port", UInt(4))>>)
TransportLocatorString == Text
TransportLocator == Union(1,
    ADDRESS_FORMAT_SMALL :> TransportLocatorSmall @@
    ADDRESS_FORMAT_MEDIUM :> TransportLocatorMedium @@
    ADDRESS_FORMAT_LARGE :> TransportLocatorLarge @@
    ADDRESS_FORMAT_STRING :> TransportLocatorString)
TransportLocatorSeq == List(UXR_TRANSPORT_LOCATOR_SEQUENCE_MAX, TransportLocator)

(***************************************************************************)
(* The two ends.                                                           *)
(***************************************************************************)
Property == Struct(<<Field("name", Text), Field("value", Text)>>)
PropertySeq == List(UXR_PROPERTY_SEQUENCE_MAX, Property)
CLIENT_Representation == Struct(<<
    Field("xrce_cookie", XrceCookie), Field("xrce_version", XrceVersion),
    Field("xrce_vendor_id", XrceVendorId), Field("client_key", ClientKey),
    Field("session_id", UInt(1)), Field("properties", Optional(PropertySeq)),
    Field("mtu", UInt(2))>>)
AGENT_Representation == Struct(<<
    Field("xrce_cookie", XrceCookie), Field("xrce_version", XrceVersion),
    Field("xrce_vendor_id", XrceVendorId),
    Field("properties", OptionalNotRead(PropertySeq))>>)

(***************************************************************************)
(* Entities: by reference, as XML and in binary.                           *)
(***************************************************************************)
OBJK_Representation3Formats == Union(1,
    DDS_XRCE_REPRESENTATION_BY_REFERENCE :> Text @@
    DDS_XRCE_REPRESENTATION_AS_XML_STRING :> Text @@
    DDS_XRCE_REPRESENTATION_IN_BINARY :> BinarySequence_t)
OBJK_RepresentationRefAndXMLFormats == Union(1,
    DDS_XRCE_REPRESENTATION_BY_REFERENCE :> Text @@
    DDS_XRCE_REPRESENTATION_AS_XML_STRING :> Text)
OBJK_RepresentationBinAndXMLFormats == Union(1,
    DDS_XRCE_REPRESENTATION_IN_BINARY :> BinarySequence_t @@
    DDS_XRCE_REPRESENTATION_AS_XML_STRING :> Text)
OBJK_RepresentationRefAndXML_Base == OBJK_RepresentationRefAndXMLFormats
OBJK_RepresentationBinAndXML_Base == OBJK_RepresentationBinAndXMLFormats
OBJK_Representation3_Base == OBJK_Representation3Formats
OBJK_QOSPROFILE_Representation == OBJK_RepresentationRefAndXML_Base
OBJK_TYPE_Representation == OBJK_RepresentationRefAndXML_Base
OBJK_DOMAIN_Representation == OBJK_RepresentationRefAndXML_Base
OBJK_APPLICATION_Representation == OBJK_RepresentationRefAndXML_Base
OBJK_PUBLISHER_Representation == Struct(<<
    Field("base", OBJK_RepresentationBinAndXML_Base),
    Field("participant_id", ObjectId)>>)
OBJK_SUBSCRIBER_Representation == Struct(<<
    Field("base", OBJK_RepresentationBinAndXML_Base),
    Field("participant_id", ObjectId)>>)
DATAWRITER_Representation == Struct(<<
    Field("base", OBJK_Representation3_Base), Field("publisher_id", ObjectId)>>)
DATAREADER_Representation == Struct(<<
    Field("base", OBJK_Representation3_Base), Field("subscriber_id", ObjectId)>>)
OBJK_PARTICIPANT_Representation == Struct(<<
    Field("base", OBJK_Representation3_Base), Field("domain_id", UInt(2))>>)
OBJK_TOPIC_Representation == Struct(<<
    Field("base", OBJK_Representation3_Base), Field("participant_id", ObjectId)>>)
OBJK_REQUESTER_Representation == Struct(<<
    Field("base", OBJK_Representation3_Base), Field("participant_id", ObjectId)>>)
OBJK_REPLIER_Representation == Struct(<<
    Field("base", OBJK_Representation3_Base), Field("participant_id", ObjectId)>>)

(***************************************************************************)
(* What a binary representation holds.                                     *)
(***************************************************************************)
OBJK_DomainParticipant_Binary == Struct(<<
    Field("domain_reference", Optional(Text)),
    Field("qos_profile_reference", Optional(Text))>>)
OBJK_Topic_Binary == Struct(<<
    Field("topic_name", Text), Field("type_reference", Optional(Text)),
    Field("type_name", Optional(Text))>>)
OBJK_Publisher_Binary_Qos == Struct(<<
    Field("partitions", Optional(StringSequence_t)),
    Field("group_data", Optional(BinarySequence_t))>>)
OBJK_Publisher_Binary == Struct(<<
    Field("publisher_name", Optional(Text)),
    Field("qos", Optional(OBJK_Publisher_Binary_Qos))>>)
OBJK_Subscriber_Binary_Qos == Struct(<<
    Field("partitions", Optional(StringSequence_t)),
    Field("group_data", Optional(BinarySequence_t))>>)
OBJK_Subscriber_Binary == Struct(<<
    Field("subscriber_name", Optional(Text)),
    Field("qos", Optional(OBJK_Subscriber_Binary_Qos))>>)
OBJK_Endpoint_QosBinary == Struct(<<
    Field("qos_flags", UInt(2)), Field("history_depth", Optional(UInt(2))),
    Field("deadline_msec", Optional(UInt(4))),
    Field("lifespan_msec", Optional(UInt(4))),
    Field("user_data", Optional(BinarySequence_t))>>)
OBJK_DataWriter_Binary_Qos == Struct(<<
    Field("base", OBJK_Endpoint_QosBinary),
    Field("ownership_strength", Optional(UInt(8)))>>)
OBJK_DataReader_Binary_Qos == Struct(<<
    Field("base", OBJK_Endpoint_QosBinary),
    Field("timebasedfilter_msec", Optional(UInt(8))),
    Field("contentbased_filter", Optional(Text))>>)
OBJK_DataReader_Binary == Struct(<<
    Field("topic_id", ObjectId), Field("qos", Optional(OBJK_DataReader_Binary_Qos))>>)
OBJK_DataWriter_Binary == Struct(<<
    Field("topic_id", ObjectId), Field("qos", Optional(OBJK_DataWriter_Binary_Qos))>>)
OBJK_Requester_Binary == Struct(<<
    Field("service_name", Text), Field("request_type", Text),
    Field("reply_type", Text), Field("request_topic_name", Optional(Text)),
    Field("reply_topic_name", Optional(Text))>>)
OBJK_Replier_Binary == Struct(<<
    Field("service_name", Text), Field("request_type", Text),
    Field("reply_type", Text), Field("request_topic_name", Optional(Text)),
    Field("reply_topic_name", Optional(Text))>>)

(***************************************************************************)
(* Requests, replies and the state of an entity.                           *)
(***************************************************************************)
ObjectVariant == Union(1,
    DDS_XRCE_OBJK_AGENT :> AGENT_Representation @@
    DDS_XRCE_OBJK_CLIENT :> CLIENT_Representation @@
    DDS_XRCE_OBJK_APPLICATION :> OBJK_APPLICATION_Representation @@
    DDS_XRCE_OBJK_PARTICIPANT :> OBJK_PARTICIPANT_Representation @@
    DDS_XRCE_OBJK_QOSPROFILE :> OBJK_QOSPROFILE_Representation @@
    DDS_XRCE_OBJK_TYPE :> OBJK_TYPE_Representation @@
    DDS_XRCE_OBJK_TOPIC :> OBJK_TOPIC_Representation @@
    DDS_XRCE_OBJK_PUBLISHER :> OBJK_PUBLISHER_Representation @@
    DDS_XRCE_OBJK_SUBSCRIBER :> OBJK_SUBSCRIBER_Representation @@
    DDS_XRCE_OBJK_DATAWRITER :> DATAWRITER_Representation @@
    DDS_XRCE_OBJK_DATAREADER :> DATAREADER_Representation @@
    DDS_XRCE_OBJK_REQUESTER :> OBJK_REQUESTER_Representation @@
    DDS_XRCE_OBJK_REPLIER :> OBJK_REPLIER_Representation)
CreationMode == Struct(<<Field("reuse", Bool), Field("replace", Bool)>>)
RequestId == Octets(2)
ResultStatus == Struct(<<
    Field("status", UInt(1)), Field("implementation_status", UInt(1))>>)
BaseObjectRequest == Struct(<<
    Field("request_id", RequestId), Field("object_id", ObjectId)>>)
AGENT_ActivityInfo == Struct(<<
    Field("availability", UInt(2)), Field("address_seq", TransportLocatorSeq)>>)
DATAREADER_ActivityInfo == UInt(2)
DATAWRITER_ActivityInfo == Struct(<<
    Field("stream_seq_num", UInt(2)), Field("sample_seq_num", UInt(8))>>)
ActivityInfoVariant == Union(1,
    DDS_XRCE_OBJK_AGENT :> AGENT_ActivityInfo @@
    DDS_XRCE_OBJK_DATAWRITER :> DATAWRITER_ActivityInfo @@
    DDS_XRCE_OBJK_DATAREADER :> DATAREADER_ActivityInfo)
ObjectInfo == Struct(<<
    Field("config", Optional(ObjectVariant)),
    Field("activity", Optional(ActivityInfoVariant))>>)
BaseObjectReply == Struct(<<
    Field("related_request", BaseObjectRequest), Field("result", ResultStatus)>>)
DataDeliveryControl == Struct(<<
    Field("max_samples", UInt(2)), Field("max_elapsed_time", UInt(2)),
    Field("max_bytes_per_seconds", UInt(2)), Field("min_pace_period", UInt(2))>>)

(***************************************************************************)
(* Data.                                                                   *)
(***************************************************************************)
ReadSpecification == Struct(<<
    Field("preferred_stream_id", UInt(1)), Field("data_format", UInt(1)),
    Field("content_filter_expression", Optional(Text)),
    Field("delivery_control", Optional(DataDeliveryControl))>>)
SeqNumberAndTimestamp == Struct(<<
    Field("sequence_number", UInt(4)), Field("session_time_offset", UInt(4))>>)
SampleInfoDetail == Union(4,
    FORMAT_EMPTY :> UInt(4) @@
    FORMAT_SEQNUM :> UInt(4) @@
    FORMAT_TIMESTAMP :> SeqNumberAndTimestamp)
SampleInfo == Struct(<<Field("state", UInt(1)), Field("detail", SampleInfoDetail)>>)
SampleInfoDelta == Struct(<<
    Field("state", UInt(1)), Field("seq_number_delta", UInt(1)),
    Field("timestamp_delta", UInt(2))>>)
SampleData == Bytes(UXR_SAMPLE_DATA_SIZE_MAX)
SampleDataSeq == List(UXR_SAMPLE_DATA_SEQUENCE_MAX, SampleData)
Sample == Struct(<<Field("info", SampleInfo), Field("data", SampleData)>>)
SampleSeq == List(UXR_SAMPLE_SEQUENCE_MAX, Sample)
SampleDelta == Struct(<<Field("info_delta", SampleInfoDelta), Field("data", SampleData)>>)
SampleDeltaSequence == List(UXR_SAMPLE_DELTA_SEQUENCE_MAX, SampleDelta)
PackedSamples == Struct(<<
    Field("info_base", SampleInfo), Field("sample_delta_seq", SampleDeltaSequence)>>)
SamplePackedSeq == List(UXR_PACKED_SAMPLES_SEQUENCE_MAX, PackedSamples)
DataRepresentation == Union(1,
    FORMAT_DATA :> SampleData @@
    FORMAT_SAMPLE :> Sample @@
    FORMAT_DATA_SEQ :> SampleDataSeq @@
    FORMAT_SAMPLE_SEQ :> SampleSeq @@
    FORMAT_PACKED_SAMPLES :> PackedSamples)

(***************************************************************************)
(* Payloads of the submessages.                                            *)
(***************************************************************************)
CREATE_CLIENT_Payload == CLIENT_Representation
CREATE_Payload == Struct(<<
    Field("base", BaseObjectRequest), Field("object_representation", ObjectVariant)>>)
GET_INFO_Payload == Struct(<<
    Field("base", BaseObjectRequest), Field("info_mask", UInt(4))>>)
DELETE_Payload == BaseObjectRequest
STATUS_AGENT_Payload == Struct(<<
    Field("result", ResultStatus), Field("agent_info", AGENT_Representation)>>)
STATUS_Payload == BaseObjectReply
INFO_Payload == Struct(<<
    Field("base", BaseObjectReply), Field("object_info", ObjectInfo)>>)
READ_DATA_Payload == Struct(<<
    Field("base", BaseObjectRequest), Field("read_specification", ReadSpecification)>>)
WRITE_DATA_Payload_Data == BaseObjectRequest
WRITE_DATA_Payload_Sample == Struct(<<
    Field("base", BaseObjectRequest), Field("sample", Sample)>>)
WRITE_DATA_Payload_DataSeq == Struct(<<
    Field("base", BaseObjectRequest), Field("data_seq", SampleDataSeq)>>)
WRITE_DATA_Payload_SampleSeq == Struct(<<
    Field("base", BaseObjectRequest), Field("sample_seq", SampleSeq)>>)
WRITE_DATA_Payload_PackedSamples == Struct(<<
    Field("base", BaseObjectRequest), Field("packed_samples", PackedSamples)>>)
DATA_Payload_Data == BaseObjectRequest
DATA_Payload_Sample == Struct(<<
    Field("base", BaseObjectRequest), Field("sample", Sample)>>)
DATA_Payload_DataSeq == Struct(<<
    Field("base", BaseObjectRequest), Field("data_seq", SampleDataSeq)>>)
DATA_Payload_SampleSeq == Struct(<<
    Field("base", BaseObjectRequest), Field("sample_seq", SampleSeq)>>)
DATA_Payload_PackedSamples == Struct(<<
    Field("base", BaseObjectRequest), Field("packed_samples", PackedSamples)>>)
ACKNACK_Payload == Struct(<<
    Field("first_unacked_seq_num", UInt(2)), Field("nack_bitmap", Octets(2)),
    Field("stream_id", UInt(1))>>)
HEARTBEAT_Payload == Struct(<<
    Field("first_unacked_seq_nr", UInt(2)), Field("last_unacked_seq_nr", UInt(2)),
    Field("stream_id", UInt(1))>>)
TIMESTAMP_Payload == Time_t
TIMESTAMP_REPLY_Payload == Struct(<<
    Field("transmit_timestamp", Time_t), Field("receive_timestamp", Time_t),
    Field("originate_timestamp", Time_t)>>)

(***************************************************************************)
(* What identifies a request of a service.                                 *)
(***************************************************************************)
GuidPrefix_t == Octets(12)
EntityId_t == Struct(<<Field("entityKey", Octets(3)), Field("entityKind", UInt(1))>>)
GUID_t == Struct(<<Field("guidPrefix", GuidPrefix_t), Field("entityId", EntityId_t)>>)
SequenceNumber_t == Struct(<<Field("high", UInt(4)), Field("low", UInt(4))>>)
SampleIdentity == Struct(<<
    Field("writer_guid", GUID_t), Field("sequence_number", SequenceNumber_t)>>)
PERFORMANCE_Payload(len) == Struct(<<
    Field("epoch_time_lsb", UInt(4)), Field("epoch_time_msb", UInt(4)),
    Field("buf", Octets(len))>>)
=============================================================================

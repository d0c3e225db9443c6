------------------------------ MODULE Requests ------------------------------
(* What an application asks of the Agent, and the submessage that each call  *)
(* of the Client writes for it: its identifier and flags, the length it      *)
(* reserves in a stream (sums made by hand in the code) and the payload it   *)
(* serializes there.                                                         *)
(*                                                                           *)
(* A call is a record: the function ("create", "delete", "read", "write"),   *)
(* the entity it is about and the function's own parameters. Text is a       *)
(* sequence of octets without its terminator.                                *)
EXTENDS XrceTypes

SUBMESSAGE_ID_CREATE_CLIENT == 0
SUBMESSAGE_ID_CREATE == 1
SUBMESSAGE_ID_GET_INFO == 2
SUBMESSAGE_ID_DELETE == 3
SUBMESSAGE_ID_STATUS_AGENT == 4
SUBMESSAGE_ID_STATUS == 5
SUBMESSAGE_ID_INFO == 6
SUBMESSAGE_ID_WRITE_DATA == 7
SUBMESSAGE_ID_READ_DATA == 8
SUBMESSAGE_ID_DATA == 9
SUBMESSAGE_ID_ACKNACK == 10
SUBMESSAGE_ID_HEARTBEAT == 11
SUBMESSAGE_ID_TIMESTAMP == 14
SUBMESSAGE_ID_TIMESTAMP_REPLY == 15

(***************************************************************************)
(* Identifiers: twelve bits of name and four of type, most significant     *)
(* first, and so are the sixteen bits of a request.                        *)
(***************************************************************************)
uxr_object_id_to_raw(object) ==
    <<(object.id \div 16) % 256, ((object.id % 16) * 16) + (object.type % 16)>>
uxr_object_id_from_raw(raw) ==
    [id |-> (raw[1] * 16) + (raw[2] \div 16), type |-> raw[2] % 16]

RequestIdRaw(request_id) == <<request_id \div 256, request_id % 256>>
RequestIdFromRaw(raw) == raw[1] * 256 + raw[2]

BaseOf(request_id, object) ==
    [request_id |-> RequestIdRaw(request_id), object_id |-> uxr_object_id_to_raw(object)]

RESERVED_REQUESTS_ID == 9
UINT16_MAX == 65535

(* generate_request_id: the identifier after the last one, past the reserved *)
(* ones.                                                                     *)
NextRequestId(last_request_id) ==
    IF last_request_id = UINT16_MAX \/ last_request_id <= RESERVED_REQUESTS_ID
    THEN RESERVED_REQUESTS_ID + 1 ELSE last_request_id + 1

(***************************************************************************)
(* Creating an entity.                                                     *)
(***************************************************************************)
(* Mutant of CreateLength: the octet before an aligned domain is forgotten.  *)
CreateLengthUnpadded(object, size) == 4 + 1 + 1 + 2 + 4 + size + 2

(* uxr_common_create_entity: request and object, kind, representation        *)
(* format, padding, the length of the representation, the representation and *)
(* what ends the payload: an identifier, or an aligned domain.               *)
CreateLength(object, size) ==
    LET length == (4 + 1 + 1 + 2 + 4 + size) % 65536
        padding == IF object.type = DDS_XRCE_OBJK_PARTICIPANT THEN length % 2 ELSE 0
    IN (length + padding + 2) % 65536

(* What an entity of a kind belongs to: the field that ends its description. *)
ParentField(kind) ==
    CASE kind = DDS_XRCE_OBJK_PARTICIPANT -> "domain_id"
      [] kind = DDS_XRCE_OBJK_DATAWRITER -> "publisher_id"
      [] kind = DDS_XRCE_OBJK_DATAREADER -> "subscriber_id"
      [] OTHER -> "participant_id"
ParentOf(call) ==
    IF call.object.type = DDS_XRCE_OBJK_PARTICIPANT THEN call.parent
    ELSE uxr_object_id_to_raw(call.parent)

Create(call, format, representation, size) ==
    [id |-> SUBMESSAGE_ID_CREATE, flags |-> call.mode,
     length |-> CreateLength(call.object, size), format |-> CREATE_Payload,
     fields |-> "object_representation" :>
        <<call.object.type, "base" :> <<format, representation>>
                            @@ ParentField(call.object.type) :> ParentOf(call)>>]

(* uxr_buffer_create_<entity>_ref and uxr_buffer_create_<entity>_xml         *)
CreateRef(call) ==
    Create(call, DDS_XRCE_REPRESENTATION_BY_REFERENCE, call.text, Len(call.text) + 1)
CreateXml(call) ==
    Create(call, DDS_XRCE_REPRESENTATION_AS_XML_STRING, call.text, Len(call.text) + 1)

(***************************************************************************)
(* uxr_buffer_create_<entity>_bin: the description goes through a buffer   *)
(* of UXR_BINARY_SEQUENCE_MAX octets; texts are short enough for it here.  *)
(***************************************************************************)
CreateBin(call, format, value) ==
    LET octets == Write(format, value, 0)
    IN Create(call, DDS_XRCE_REPRESENTATION_IN_BINARY, octets, Len(octets))

CreateParticipantBin(call) ==
    CreateBin(call, OBJK_DomainParticipant_Binary,
        [domain_reference |-> <<>>, qos_profile_reference |-> call.participant_name])

CreateTopicBin(call) ==
    CreateBin(call, OBJK_Topic_Binary,
        [topic_name |-> call.topic_name, type_reference |-> <<>>,
         type_name |-> <<call.type_name>>])

CreatePublisherBin(call) ==
    CreateBin(call, OBJK_Publisher_Binary, [publisher_name |-> <<>>, qos |-> <<>>])

CreateSubscriberBin(call) ==
    CreateBin(call, OBJK_Subscriber_Binary, [subscriber_name |-> <<>>, qos |-> <<>>])

is_reliable == 1
is_history_keep_last == 2
DurabilityFlag ==
    "volatile" :> 0 @@ "transient_local" :> 8 @@ "transient" :> 16 @@ "persistent" :> 32

QosFlags(qos) ==
    (IF qos.reliability = "reliable" THEN is_reliable ELSE 0)
    + (IF qos.history = "keep_last" THEN is_history_keep_last ELSE 0)
    + DurabilityFlag[qos.durability]

EndpointQos(qos) ==
    [qos_flags |-> QosFlags(qos),
     history_depth |-> IF qos.depth = 0 THEN <<>> ELSE <<qos.depth>>,
     deadline_msec |-> <<>>, lifespan_msec |-> <<>>, user_data |-> <<>>]

CreateDatawriterBin(call) ==
    CreateBin(call, OBJK_DataWriter_Binary,
        [topic_id |-> uxr_object_id_to_raw(call.topic),
         qos |-> <<[base |-> EndpointQos(call.qos), ownership_strength |-> <<>>]>>])

CreateDatareaderBin(call) ==
    CreateBin(call, OBJK_DataReader_Binary,
        [topic_id |-> uxr_object_id_to_raw(call.topic),
         qos |-> <<[base |-> EndpointQos(call.qos), timebasedfilter_msec |-> <<>>,
                    contentbased_filter |-> <<>>]>>])

(* The parameter qos of a service is not used.                               *)
ServiceBinary(call) ==
    [service_name |-> call.service_name, request_type |-> call.request_type,
     reply_type |-> call.reply_type, request_topic_name |-> <<call.request_topic_name>>,
     reply_topic_name |-> <<call.reply_topic_name>>]
CreateRequesterBin(call) == CreateBin(call, OBJK_Requester_Binary, ServiceBinary(call))
CreateReplierBin(call) == CreateBin(call, OBJK_Replier_Binary, ServiceBinary(call))

CreateInBinary(call) ==
    CASE call.object.type = DDS_XRCE_OBJK_PARTICIPANT -> CreateParticipantBin(call)
      [] call.object.type = DDS_XRCE_OBJK_TOPIC -> CreateTopicBin(call)
      [] call.object.type = DDS_XRCE_OBJK_PUBLISHER -> CreatePublisherBin(call)
      [] call.object.type = DDS_XRCE_OBJK_SUBSCRIBER -> CreateSubscriberBin(call)
      [] call.object.type = DDS_XRCE_OBJK_DATAWRITER -> CreateDatawriterBin(call)
      [] call.object.type = DDS_XRCE_OBJK_DATAREADER -> CreateDatareaderBin(call)
      [] call.object.type = DDS_XRCE_OBJK_REQUESTER -> CreateRequesterBin(call)
      [] call.object.type = DDS_XRCE_OBJK_REPLIER -> CreateReplierBin(call)

(***************************************************************************)
(* Deleting an entity, asking for data and writing data.                   *)
(***************************************************************************)
(* uxr_buffer_delete_entity                                                  *)
Delete ==
    [id |-> SUBMESSAGE_ID_DELETE, flags |-> 0, length |-> 4,
     format |-> Struct(<<Field("base", DELETE_Payload)>>), fields |-> <<>>]

(* uxr_buffer_request_data, and uxr_buffer_cancel_data: a request with       *)
(* everything zero. control is <<>> or <<DataDeliveryControl>>.              *)
ReadData(call) ==
    [id |-> SUBMESSAGE_ID_READ_DATA, flags |-> 0,
     length |-> 4 + 4 + (IF call.control # <<>> THEN 8 ELSE 0),
     format |-> READ_DATA_Payload,
     fields |-> "read_specification" :>
        [preferred_stream_id |-> call.data_stream, data_format |-> FORMAT_DATA,
         content_filter_expression |-> <<>>, delivery_control |-> call.control]]
NoDelivery == [max_samples |-> 0, max_elapsed_time |-> 0,
               max_bytes_per_seconds |-> 0, min_pace_period |-> 0]
uxr_buffer_cancel_data(object) ==
    [call |-> "read", object |-> object, data_stream |-> 0, control |-> <<NoDelivery>>]

WRITE_DATA_PAYLOAD_SIZE == 4
SAMPLE_IDENTITY_SIZE == 24

(* uxr_buffer_topic, uxr_buffer_request, and uxr_prepare_output_stream with  *)
(* the application's own serialization.                                      *)
WriteData(call) ==
    [id |-> SUBMESSAGE_ID_WRITE_DATA, flags |-> FORMAT_DATA,
     length |-> WRITE_DATA_PAYLOAD_SIZE + Len(call.data),
     format |-> Struct(<<Field("base", WRITE_DATA_Payload_Data),
                         Field("data", Octets(Len(call.data)))>>),
     fields |-> "data" :> call.data]

(* uxr_buffer_reply                                                          *)
WriteReply(call) ==
    [id |-> SUBMESSAGE_ID_WRITE_DATA, flags |-> FORMAT_DATA,
     length |-> WRITE_DATA_PAYLOAD_SIZE + SAMPLE_IDENTITY_SIZE + Len(call.data),
     format |-> Struct(<<Field("base", WRITE_DATA_Payload_Data),
                         Field("sample_id", SampleIdentity),
                         Field("data", Octets(Len(call.data)))>>),
     fields |-> "sample_id" :> call.sample_id @@ "data" :> call.data]

(* The submessage of a call.                                                 *)
Request(call) ==
    CASE call.call = "create_ref" -> CreateRef(call)
      [] call.call = "create_xml" -> CreateXml(call)
      [] call.call = "create_bin" -> CreateInBinary(call)
      [] call.call = "delete" -> Delete
      [] call.call = "read" -> ReadData(call)
      [] call.call = "write" -> WriteData(call)
      [] call.call = "reply" -> WriteReply(call)
=============================================================================

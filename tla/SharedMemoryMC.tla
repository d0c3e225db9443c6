--------------------------- MODULE SharedMemoryMC ---------------------------
(* Writers, readers, requesters and repliers of two sessions.                *)
EXTENDS SharedMemory, TLC

Entity_(session, kind, id, form, about) ==
    [session |-> session, kind |-> kind, id |-> id, form |-> form, about |-> about]
Xml(session, kind, id, about, xml) ==
    Entity_(session, kind, id, "xml", about) @@ [xml |-> xml]

(* The XML of an endpoint of a topic, and of an end of a service; the name   *)
(* of a topic comes behind a tag that its own is no beginning of.            *)
Element(tag, inside) == <<Open(tag)>> \o inside \o <<Close(tag)>>
EndpointXml(tag, about) ==
    Element(<<"dds">>, Element(tag, Element(<<"topic">>,
        Element(<<"kind">>, <<Content(<<"k">>)>>)
        \o Element(<<"name">>, <<Content(about[1])>>)
        \o Element(<<"dataType">>, <<Content(about[2])>>))))
ServiceXml(tag, about) ==
    Element(<<"dds">>, <<Open(tag), Attribute(<<"profile_name">>, <<"p">>),
        Attribute(<<"service_name">>, about[1]), Attribute(<<"request_type">>, about[2]),
        Attribute(<<"reply_type">>, about[3]), Close(tag)>>)

WriterXml(s, id, about) ==
    Xml(s, UXR_DATAWRITER_ID, id, about, EndpointXml(<<"data_writer">>, about))
ReaderXml(s, id, about) ==
    Xml(s, UXR_DATAREADER_ID, id, about, EndpointXml(<<"data_reader">>, about))
RequesterXml(s, id, about) ==
    Xml(s, UXR_REQUESTER_ID, id, about, ServiceXml(<<"requester">>, about))
ReplierXml(s, id, about) ==
    Xml(s, UXR_REPLIER_ID, id, about, ServiceXml(<<"replier">>, about))

TopicBin(s, id, about) ==
    Entity_(s, UXR_TOPIC_ID, id, "bin", about) @@ [strings |-> about]
EndpointBin(s, kind, id, topic_id, about, qos) ==
    Entity_(s, kind, id, "bin", <<about, qos>>) @@ [topic_id |-> topic_id, qos |-> qos]
ServiceBin(s, kind, id, about) ==
    Entity_(s, kind, id, "bin", about) @@ [strings |-> about \o <<<<>>, <<>>>>]

TopicA == <<<<"a">>, <<"type">>>>
TopicB == <<<<"b">>, <<"type">>>>
Service == <<<<"service">>, <<"in">>, <<"out">>>>

MCScenes ==
    {\* a writer and two readers of a topic, one of another session
     <<WriterXml(1, 1, TopicA), ReaderXml(1, 1, TopicA), ReaderXml(2, 1, TopicA)>>,
     \* a reader that publishes what it reads
     <<WriterXml(1, 2, TopicB), ReaderXml(1, 2, TopicB), WriterXml(1, 1, TopicA),
       ReaderXml(1, 1, TopicA)>>,
     \* topics of the same identifier in two sessions
     <<TopicBin(1, 1, TopicA), TopicBin(2, 1, TopicB),
       EndpointBin(1, UXR_DATAWRITER_ID, 1, 1, TopicA, 1),
       EndpointBin(2, UXR_DATAREADER_ID, 1, 1, TopicB, 1)>>,
     \* one topic, two qualities of service, more entities than there is room for
     <<TopicBin(1, 1, TopicA), EndpointBin(1, UXR_DATAWRITER_ID, 1, 1, TopicA, 1),
       EndpointBin(1, UXR_DATAREADER_ID, 1, 1, TopicA, 2),
       EndpointBin(1, UXR_DATAREADER_ID, 2, 1, TopicA, 1),
       EndpointBin(1, UXR_DATAWRITER_ID, 2, 1, TopicA, 1)>>,
     \* requesters of the same identifier in two sessions, and a replier
     <<RequesterXml(1, 255, Service), ReplierXml(1, 1, Service), RequesterXml(2, 255, Service)>>,
     \* the replier first, the service in binary
     <<ServiceBin(1, UXR_REPLIER_ID, 2, Service), ServiceBin(1, UXR_REQUESTER_ID, 1, Service)>>}

(* The theorem on matching holds of these scenes.                            *)
ASSUME ScenesTell == DescriptionsTell

MCSymmetry == {f @@ g : f \in Permutations(Threads), g \in Permutations(Numbers)}
=============================================================================

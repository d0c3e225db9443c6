------------------------------ MODULE Matching ------------------------------
(* How entities of one process find each other: a hash of the names in their *)
(* description, and the quality of service of a binary one.                  *)
(* src/src/c/profile/matching/matching.c                                     *)
(*                                                                           *)
(* A name is a sequence; a hash is the sequence of what was hashed (djb2     *)
(* itself is taken to be injective), the end of a string included. XML is a  *)
(* sequence of tokens; a tag is a sequence of parts, so that one tag can be  *)
(* the beginning of another.                                                 *)
EXTENDS Naturals, Sequences, FiniteSets, SequencesExt

END == "\\0"
NoHash == <<>>     \* the hash of an entity before it is given one: all zero

Token(token, text, value) == [token |-> token, text |-> text, value |-> value]
Open(tag) == Token("open", tag, <<>>)
Close(tag) == Token("close", tag, <<>>)
Attribute(name, value) == Token("attribute", name, value)
Content(value) == Token("content", <<>>, value)

UXR_TOPIC_ID == 2
UXR_DATAWRITER_ID == 5
UXR_DATAREADER_ID == 6
UXR_REQUESTER_ID == 7
UXR_REPLIER_ID == 8

(* hash_string; initial goes on from a hash.                                 *)
hash_string(str, hash, initial) == (IF initial THEN hash ELSE <<>>) \o str \o <<END>>

First(S) == CHOOSE i \in S : \A j \in S : i <= j
Found(content) == <<content>>
NotFound == <<>>

(* find_tag_xml: what is between the first tag that begins with a name and   *)
(* the first closing tag behind it that does.                                *)
find_tag_xml(xml, tag) ==
    LET begins == {i \in DOMAIN xml : xml[i].token = "open" /\ IsPrefix(tag, xml[i].text)}
        ends == {k \in DOMAIN xml : /\ xml[k].token = "close" /\ IsPrefix(tag, xml[k].text)
                                    /\ begins # {} /\ k > First(begins)}
    IN IF begins = {} \/ ends = {} THEN NotFound
       ELSE Found(SubSeq(xml, First(begins) + 1, First(ends) - 1))

(* find_tag_property: the first attribute of that name behind the tag, in    *)
(* whatever tag it is.                                                       *)
find_tag_property(xml, tag, property) ==
    LET begins == {i \in DOMAIN xml : xml[i].token = "open" /\ IsPrefix(tag, xml[i].text)}
        properties == {k \in DOMAIN xml : /\ begins # {} /\ k > First(begins)
                                          /\ xml[k].token = "attribute"
                                          /\ IsPrefix(property, xml[k].text)}
    IN IF properties = {} THEN NotFound ELSE Found(xml[First(properties)].value)

(* What is found of a path of tags, each within the one before.              *)
Inside(found, tag) == IF found = NotFound THEN NotFound ELSE find_tag_xml(found[1], tag)
TextOf(content) ==
    LET texts == {i \in DOMAIN content : content[i].token = "content"}
    IN IF texts = {} THEN <<>> ELSE content[First(texts)].value

(* uxr_generate_hash_from_xml: the names one behind the other, without what  *)
(* ends them. There is no hash without a topic or a property; a topic has a  *)
(* name and a data type (without one the code copies a length it never set). *)
HashOfEndpointXml(xml, tag) ==
    LET topic == Inside(Inside(find_tag_xml(xml, <<"dds">>), tag), <<"topic">>)
        name == Inside(topic, <<"name">>)
        type == Inside(topic, <<"dataType">>)
    IN IF topic = NotFound THEN NoHash
       ELSE hash_string(TextOf(name[1]) \o TextOf(type[1]), NoHash, FALSE)
HashOfServiceXml(xml, tag) ==
    LET Property(name) == find_tag_property(xml, tag, name)
        all == <<Property(<<"service_name">>), Property(<<"request_type">>),
                 Property(<<"reply_type">>)>>
    IN IF NotFound \in ToSet(all) THEN NoHash
       ELSE hash_string(all[1][1] \o all[2][1] \o all[3][1], NoHash, FALSE)
uxr_generate_hash_from_xml(xml, kind) ==
    CASE kind = UXR_DATAREADER_ID -> HashOfEndpointXml(xml, <<"data_reader">>)
      [] kind = UXR_DATAWRITER_ID -> HashOfEndpointXml(xml, <<"data_writer">>)
      [] kind = UXR_REQUESTER_ID -> HashOfServiceXml(xml, <<"requester">>)
      [] kind = UXR_REPLIER_ID -> HashOfServiceXml(xml, <<"replier">>)

(* uxr_generate_hash_from_strings                                            *)
uxr_generate_hash_from_strings(strings) ==
    FoldLeft(LAMBDA hash, str : hash_string(str, hash, TRUE), NoHash, strings)

(* uxr_match_endpoint_qosbinary                                              *)
uxr_match_endpoint_qosbinary(qos_1, qos_2) == qos_1 = qos_2
=============================================================================

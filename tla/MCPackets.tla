------------------------------ MODULE MCPackets -----------------------------
(***************************************************************************)
(* Reading packets, the functions that encode and validate what packets    *)
(* and records carry, and the files of the records.  The parts share       *)
(* nothing; each behaviour is one of one part.                             *)
(***************************************************************************)
EXTENDS PacketReader, Codec, FileStore

VARIABLE part

vars == <<readerVars, codecVars, fileVars, part>>

Init == /\ part \in {"read", "codec", "files"}
        /\ ReaderInit /\ FileInit
        /\ IF part = "codec" THEN CodecInit
           ELSE kind = "none" /\ text = <<>> /\ client = <<>> /\ topics = <<>> /\ length = 0

Reading(A) == part = "read" /\ A /\ UNCHANGED <<codecVars, fileVars, part>>
Coding(A) == part = "codec" /\ A /\ UNCHANGED <<readerVars, fileVars, part>>
Storing(A) == part = "files" /\ A /\ UNCHANGED <<readerVars, codecVars, part>>

Next == Reading(ReaderNext) \/ Coding(CodecNext) \/ Storing(FileNext)

Spec == /\ Init /\ [][Next]_vars
        /\ \A s \in Sockets : /\ WF_vars(Reading(Arrive(s)))
                              /\ SF_vars(Reading(Factory(s))) /\ WF_vars(Reading(ReadOn(s)))

Means == { [type |-> PUBLISH, qos |-> 1, topic |-> <<7>>, msgId |-> 300, payload |-> <<8>>],
           [type |-> PINGRESP] }
BytesOf(m) == Joined(IF m.type = PUBLISH THEN MQTTPacket_send_publish(m, 0, 0)
                     ELSE MQTTPacket_send_header(m.type))
\* A packet whose length has too many bytes, and means nothing
TooLong == [bytes |-> <<48, 4, 4, 1>>, means |-> [type |-> 15]]
SentPackets == { [bytes |-> BytesOf(m), means |-> m] : m \in Means } \cup {TooLong}

\* Two messages with one id, the PUBREL of it, and a message in the queue
Message(payload) == [type |-> PUBLISH, qos |-> 2, topic |-> <<7>>, msgId |-> 1, payload |-> payload]
PacketRecord(key, bytes, means) == [key |-> key, bytes |-> Joined(bytes), means |-> means]
Records ==
    { PacketRecord(<<"s-", 1>>, MQTTPacket_send_publish(Message(p), 0, 0), Message(p))
      : p \in {<<8>>, <<8, 9>>} }
    \cup { PacketRecord(<<"sc-", 1>>, MQTTPacket_send_ack(PUBREL, 1, 0), [type |-> PUBREL, msgId |-> 1]),
           [key |-> <<"q-", 1>>, means |-> NoPacket,
            bytes |-> MQTTPersistence_persistQueueEntry(
                          [payload |-> <<8>>, qos |-> 2, retained |-> 0, dup |-> 0, msgid |-> 1,
                           topicName |-> <<7>>, topicLen |-> 1])] }

Strings == {<<>>, <<65, 66>>}
OptionalString == {<<>>} \cup {<<s>> : s \in Strings}
Will == [topic : {<<65>>}, msg : Strings, qos : {1}, retained : {0}]
MCOptions == [clientID : Strings, will : {<<>>} \cup {<<w>> : w \in Will},
              username : OptionalString, password : OptionalString,
              cleansession : {0, 1}, keepAliveInterval : {20}]
=============================================================================

-------------------------------- MODULE Codec -------------------------------
(***************************************************************************)
(* The pure functions of MQTTPacket.c, MQTTPacketOut.c, utf-8.c and of     *)
(* MqttRecord over inputs that grow step by step: a text, a client's       *)
(* options, a list of topics, a length.                                    *)
(***************************************************************************)
EXTENDS MqttRecord, UTF8

CONSTANTS TextBytes, MaxText,       \* the texts: bound on their length
          Options,                  \* the options of clients
          Topics, MaxTopics,        \* bound: topics in a list
          MaxLength                 \* bound: the greatest length

VARIABLES kind, text, client, topics, length

codecVars == <<kind, text, client, topics, length>>

CodecInit == /\ kind \in {"text", "client", "topics", "length"}
             /\ text = <<>> /\ client \in (IF kind = "client" THEN Options ELSE {<<>>})
             /\ topics = <<>> /\ length = 0

CodecNext ==
    \/ /\ kind = "text" /\ Len(text) < MaxText
       /\ \E b \in TextBytes : text' = Append(text, b)
       /\ UNCHANGED <<kind, client, topics, length>>
    \/ /\ kind = "topics" /\ Len(topics) < MaxTopics
       /\ \E t \in Topics : topics' = Append(topics, t)
       /\ UNCHANGED <<kind, text, client, length>>
    \/ /\ kind = "length" /\ length < MaxLength
       /\ length' = length + 1
       /\ UNCHANGED <<kind, text, client, topics>>

\* The library accepts exactly the strings that are UTF-8.
AcceptsUTF8 == UTF8_validate(text) <=> IsUTF8(text)

\* The bytes written are as many as were allocated for them, and so are the
\* buffers of the record of a command.
BuffersFit ==
    /\ kind = "client" => \A v \in {3, 4} :
           Len(MQTTPacket_send_connect(client, v)) = ConnectLength(client, v)
    /\ Len(MQTTPacket_send_subscribe(300, topics, [i \in DOMAIN topics |-> 1]))
           = SubscribeLength(topics)
    /\ Len(MQTTPacket_send_unsubscribe(300, topics)) = UnsubscribeLength(topics)

\* A remaining length that was encoded is decoded to itself, and only its last
\* byte says that it is the last.
LengthsReturn ==
    LET bytes == MQTTPacket_encode(length)
    IN /\ MQTTPacket_decode(bytes) = length
       /\ \A i \in DOMAIN bytes : LastDigit(bytes[i]) <=> i = Len(bytes)

\* A message that was queued and a publish that was accepted come back from the
\* store as they were, whatever bytes the payload has.
RecordsReturn ==
    \A topic \in ToSet(topics), payload \in {<<>>, <<0>>, <<0, 65>>, <<65, 0>>} :
        LET qe == [payload |-> payload, qos |-> 1, retained |-> 0, dup |-> 1, msgid |-> 300,
                   topicName |-> topic, topicLen |-> Len(topic)]
            command == [type |-> PUBLISH, token |-> 300, destinationName |-> topic,
                        payload |-> payload, qos |-> 2, retained |-> 1]
        IN /\ MQTTPersistence_restoreQueueEntry(MQTTPersistence_persistQueueEntry(qe)) = qe
           /\ MQTTAsync_restoreCommand(Joined(MQTTAsync_persistCommand(command))) = command
           /\ Len(MQTTAsync_persistCommand(command)) = nbufs(command)

\* Strings are accepted if they are UTF-8; what is encoded fits its buffer
\* and comes back as it was.
CodecIsFaithful ==
    /\ AcceptsUTF8 /\ BuffersFit /\ LengthsReturn /\ RecordsReturn
=============================================================================

----------------------------- MODULE MqttPacket -----------------------------
(***************************************************************************)
(* The packets of MQTTPacket.c and MQTTPacketOut.c, built from and read    *)
(* into sequences of bytes.  A string is a sequence of bytes.              *)
(***************************************************************************)
EXTENDS Integers, Sequences, SequencesExt

CONSTANTS LengthBase,     \* 128: a byte of the remaining length has one digit
          MAX_NO_OF_REMAINING_LENGTH_BYTES

ASSUME PacketAssumption ==
    LengthBase \in Nat \ {0, 1} /\ MAX_NO_OF_REMAINING_LENGTH_BYTES \in Nat \ {0}

CONNECT == 1
CONNACK == 2
PUBLISH == 3
PUBACK == 4
PUBREC == 5
PUBREL == 6
PUBCOMP == 7
SUBSCRIBE == 8
SUBACK == 9
UNSUBSCRIBE == 10
UNSUBACK == 11
PINGREQ == 12
PINGRESP == 13
DISCONNECT == 14

HeaderByte(type, dup, qos, retain) == type * 16 + dup * 8 + qos * 2 + retain
TypeOf(header) == header \div 16
QosOf(header) == (header \div 2) % 4

Joined(seqs) == FlattenSeq(seqs)

-----------------------------------------------------------------------------
(* The remaining length.                                                   *)

\* Fault: a length of LengthBase itself is taken for one digit
OneDigitShort(length) == length <= LengthBase

OneDigit(length) == length < LengthBase

Encoded[length \in Nat] ==
    IF OneDigit(length) THEN << length % LengthBase >>
    ELSE << LengthBase + (length % LengthBase) >> \o Encoded[length \div LengthBase]

MQTTPacket_encode(length) == Encoded[length]

\* Whether a byte is the last of a remaining length, and what all of them say
LastDigit(c) == c < LengthBase
MQTTPacket_decode(bytes) ==
    LET from[i \in 1..Len(bytes) + 1] ==
            IF i > Len(bytes) THEN 0 ELSE (bytes[i] % LengthBase) + LengthBase * from[i + 1]
    IN from[1]

-----------------------------------------------------------------------------
(* Writing.                                                                *)

writeInt(i) == << (i \div 256) % 256, i % 256 >>
writeUTF(string) == writeInt(Len(string)) \o string

\* MQTTPacket_send, MQTTPacket_sends: the buffers that go to Socket_putdatas
Buffers(header, buffers) ==
    << << header >> \o MQTTPacket_encode(Len(Joined(buffers))) >> \o buffers

MQTTPacket_send_publish(pack, dup, retained) ==
    Buffers(HeaderByte(PUBLISH, dup, pack.qos, retained),
            << writeInt(Len(pack.topic)), pack.topic >>
            \o (IF pack.qos > 0 THEN << writeInt(pack.msgId) >> ELSE <<>>)
            \o << pack.payload >>)

\* MQTTPacket_send_puback, _pubrec, _pubrel, _pubcomp
MQTTPacket_send_ack(type, msgid, dup) ==
    Buffers(HeaderByte(type, dup, IF type = PUBREL THEN 1 ELSE 0, 0), << writeInt(msgid) >>)

\* MQTTPacket_send_pingreq, MQTTPacket_send_disconnect
MQTTPacket_send_header(type) == Buffers(HeaderByte(type, 0, 0, 0), << <<>> >>)

\* A string that may be absent is a sequence of at most one string
UTFs(strings) == Joined([i \in DOMAIN strings |-> writeUTF(strings[i])])
OfClient(c) == Joined([i \in DOMAIN c.will |-> << c.will[i].topic, c.will[i].msg >>])
               \o c.username \o c.password

ConnectFlags(c) ==
    2 * c.cleansession
    + (IF c.will = <<>> THEN 0 ELSE 4 + 8 * c.will[1].qos + 32 * c.will[1].retained)
    + 64 * Len(c.password) + 128 * Len(c.username)

\* What MQTTPacket_send_connect allocates for the rest of the packet, and writes to it
ConnectLength(c, MQTTVersion) ==
    (IF MQTTVersion = 3 THEN 12 ELSE 10) + Len(c.clientID) + 2
    + FoldSeq(LAMBDA string, sum : Len(string) + 2 + sum, 0, OfClient(c))

MQTTPacket_send_connect(c, MQTTVersion) ==
    (IF MQTTVersion = 3 THEN writeUTF(<<77, 81, 73, 115, 100, 112>>) ELSE writeUTF(<<77, 81, 84, 84>>))
    \o << MQTTVersion, ConnectFlags(c) >> \o writeInt(c.keepAliveInterval)
    \o writeUTF(c.clientID) \o UTFs(OfClient(c))

\* Fault: the byte of the QoS is forgotten
SubscribeLengthNoQos(topics) ==
    2 + Len(topics) * 2 + FoldSeq(LAMBDA topic, sum : Len(topic) + sum, 0, topics)

\* The same of MQTTPacket_send_subscribe, and of _unsubscribe
SubscribeLength(topics) ==
    2 + Len(topics) * 3 + FoldSeq(LAMBDA topic, sum : Len(topic) + sum, 0, topics)

MQTTPacket_send_subscribe(msgid, topics, qoss) ==
    writeInt(msgid) \o Joined([i \in DOMAIN topics |-> writeUTF(topics[i]) \o << qoss[i] >>])

UnsubscribeLength(topics) ==
    2 + Len(topics) * 2 + FoldSeq(LAMBDA topic, sum : Len(topic) + sum, 0, topics)

MQTTPacket_send_unsubscribe(msgid, topics) == writeInt(msgid) \o UTFs(topics)

-----------------------------------------------------------------------------
(* Reading: data is the packet without header and remaining length.        *)

Bad == [type |-> -1]

readInt(data, pos) == 256 * data[pos] + data[pos + 1]

\* readUTFlen: the string at the start of data, unless it would end past its end
HasUTF(data) == Len(data) > 1 /\ 2 + readInt(data, 1) <= Len(data)
readUTFlen(data) == SubSeq(data, 3, 2 + readInt(data, 1))

\* The message id is read without a look at the length: a packet without one is
\* not among those a server sends
MQTTPacket_publish(header, data) ==
    IF ~HasUTF(data) THEN Bad
    ELSE LET next == 3 + readInt(data, 1)
             qos == QosOf(header)
             body == IF qos > 0 THEN next + 2 ELSE next
         IN [type |-> PUBLISH, qos |-> qos, topic |-> readUTFlen(data),
             msgId |-> IF qos > 0 THEN readInt(data, next) ELSE 0,
             payload |-> SubSeq(data, body, Len(data))]

MQTTPacket_ack(header, data) == [type |-> TypeOf(header), msgId |-> readInt(data, 1)]
MQTTPacket_connack(header, data) == [type |-> CONNACK, flags |-> data[1], rc |-> data[2]]
MQTTPacket_suback(header, data) ==
    [type |-> SUBACK, msgId |-> readInt(data, 1), qoss |-> SubSeq(data, 3, Len(data))]
MQTTPacket_header_only(header, data) == [type |-> TypeOf(header)]

\* new_packets: what MQTTPacket_Factory makes of a packet; a type it has no
\* function for is logged and left
NoPacket == [type |-> 0]

new_packets(header, data) ==
    LET type == TypeOf(header)
    IN CASE type = PUBLISH -> MQTTPacket_publish(header, data)
         [] type = CONNACK -> MQTTPacket_connack(header, data)
         [] type = SUBACK  -> MQTTPacket_suback(header, data)
         [] type \in {PUBACK, PUBREC, PUBREL, PUBCOMP, UNSUBACK} -> MQTTPacket_ack(header, data)
         [] type \in {PINGREQ, PINGRESP, DISCONNECT} -> MQTTPacket_header_only(header, data)
         [] OTHER -> NoPacket
=============================================================================

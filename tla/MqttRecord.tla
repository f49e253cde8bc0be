----------------------------- MODULE MqttRecord -----------------------------
(***************************************************************************)
(* What a record of the persistent store has in it, and what is made of it *)
(* after a restart: packets (MQTTPersistence.c), commands (MQTTAsync.c)    *)
(* and messages queued for the application.                                *)
(*                                                                         *)
(* A record is a sequence of bytes; an int in it is written as one value,  *)
(* for it is stored and read as it is in memory.  A string has no byte 0.  *)
(***************************************************************************)
EXTENDS MqttPacket

CString(string) == Append(string, 0)

\* The string that begins at position i
StringAt(record, i) ==
    SubSeq(record, i, i - 2 + SelectInSeq(SubSeq(record, i, Len(record)), LAMBDA b : b = 0))

-----------------------------------------------------------------------------
(* Packets.                                                                *)

\* Fault: the length is not compared, and zeros are found behind the end
RestoredAnyway(record) ==
    LET last == 1 + SelectInSeq(Tail(record), LastDigit)
    IN IF Len(record) < 2 \/ last = 1 THEN NoPacket
       ELSE new_packets(record[1], [i \in 1..MQTTPacket_decode(SubSeq(record, 2, last)) |->
                                       IF last + i > Len(record) THEN 0 ELSE record[last + i]])

\* A record that is cut is no packet.  Where the remaining length itself is cut,
\* it is read on behind the end, and whatever is found there the length is wrong.
MQTTPersistence_restorePacket(record) ==
    LET last == 1 + SelectInSeq(Tail(record), LastDigit)
    IN IF Len(record) < 2 \/ last = 1 THEN NoPacket
       ELSE IF last + MQTTPacket_decode(SubSeq(record, 2, last)) # Len(record) THEN NoPacket
       ELSE new_packets(record[1], SubSeq(record, last + 1, Len(record)))

-----------------------------------------------------------------------------
(* Commands.                                                               *)

\* The buffers that are written one after the other, and how many there is room for
MQTTAsync_persistCommand(command) ==
    << << command.type >>, << command.token >> >> \o
    CASE command.type = PUBLISH ->
             << CString(command.destinationName), << Len(command.payload) >>, command.payload,
                << command.qos >>, << command.retained >> >>
      [] command.type = SUBSCRIBE ->
             << << Len(command.topics) >> >>
             \o Joined([i \in DOMAIN command.topics |->
                           << CString(command.topics[i]), << command.qoss[i] >> >>])
      [] command.type = UNSUBSCRIBE ->
             << << Len(command.topics) >> >>
             \o [i \in DOMAIN command.topics |-> CString(command.topics[i])]

nbufs(command) == CASE command.type = PUBLISH     -> 7
                    [] command.type = SUBSCRIBE   -> 3 + 2 * Len(command.topics)
                    [] command.type = UNSUBSCRIBE -> 3 + Len(command.topics)

\* Of a PUBLISH: to restore a SUBSCRIBE or UNSUBSCRIBE, MQTTAsync_restoreCommand
\* writes to an array that was never allocated
MQTTAsync_restoreCommand(record) ==
    LET name == StringAt(record, 3)
        at == 4 + Len(name)
        n == record[at]
    IN [type |-> record[1], token |-> record[2], destinationName |-> name,
        payload |-> SubSeq(record, at + 1, at + n),
        qos |-> record[at + n + 1], retained |-> record[at + n + 2]]

-----------------------------------------------------------------------------
(* Messages queued for the application.                                    *)

MQTTPersistence_persistQueueEntry(qe) ==
    << Len(qe.payload) >> \o qe.payload \o << qe.qos, qe.retained, qe.dup, qe.msgid >>
    \o CString(qe.topicName) \o << qe.topicLen >>

\* Fault: dup is read before retained
RestoredSwapped(record) ==
    LET n == record[1]
        name == StringAt(record, n + 6)
    IN [payload |-> SubSeq(record, 2, n + 1), qos |-> record[n + 2], dup |-> record[n + 3],
        retained |-> record[n + 4], msgid |-> record[n + 5], topicName |-> name,
        topicLen |-> record[n + 7 + Len(name)]]

MQTTPersistence_restoreQueueEntry(record) ==
    LET n == record[1]
        name == StringAt(record, n + 6)
    IN [payload |-> SubSeq(record, 2, n + 1), qos |-> record[n + 2], retained |-> record[n + 3],
        dup |-> record[n + 4], msgid |-> record[n + 5], topicName |-> name,
        topicLen |-> record[n + 7 + Len(name)]]
=============================================================================

---------------------------- MODULE MqttDelivery ----------------------------
(***************************************************************************)
(* One client of the Paho MQTT library and its broker: how a message gets  *)
(* from MQTTAsync_send to the broker, and from the broker to the           *)
(* messageArrived callback, with QoS 1 and 2, over connections that break. *)
(*                                                                         *)
(* The send thread takes commands from a queue (MQTTAsync.c) and starts    *)
(* the exchanges; the receive thread reads packets and runs the handlers   *)
(* of MQTTProtocolClient.c.  Both hold mqttasync_mutex while they work, so *)
(* a command and a handler are one action each.  Between reading a packet  *)
(* and looking at the message queue the receive thread lets go of it, and  *)
(* finds its client again by the number of the socket: a connection opened *)
(* meanwhile may have the number of the one that was closed.               *)
(*                                                                         *)
(* When the connection is lost the application reconnects at once, the way *)
(* connlost of mqtt.c does.  The broker is external: it keeps the session  *)
(* as MQTT prescribes.  Packets in flight are lost with the connection.    *)
(***************************************************************************)
EXTENDS Integers, Sequences, SequencesExt, FiniteSets

CONSTANTS
    CleanSession,   \* connectOptions.cleansession
    MaxMsgId,       \* MAX_MSG_ID, 65535 in MQTTProtocolClient.h
    Qos,            \* the qualities of service in use, of 1 and 2
    PubrelDup,      \* does the broker set dup when it repeats a PUBREL?
    MaxSends,       \* bound: messages the application sends
    MaxIncoming,    \* bound: messages the broker has for the client
    MaxBreaks,      \* bound: connections that break or do not come about
    MaxRefusals,    \* bound: times messageArrived returns false
    MaxRetries      \* bound: retries while connected, 0 if retryInterval is 0

ASSUME DeliveryAssumption ==
    /\ CleanSession \in BOOLEAN /\ PubrelDup \in BOOLEAN
    /\ MaxMsgId \in Nat /\ MaxMsgId >= 2
    /\ Qos \subseteq {1, 2}
    /\ MaxSends \in Nat /\ MaxIncoming \in Nat /\ MaxBreaks \in Nat
    /\ MaxRefusals \in Nat /\ MaxRetries \in Nat

MsgId == 1..MaxMsgId
Sent == [seq : 1..MaxSends, qos : Qos]            \* messages of the application
Incoming == [seq : 1..MaxIncoming, qos : Qos]     \* messages of the broker

Publish(id, dup, m) == [type |-> "PUBLISH", id |-> id, dup |-> dup, msg |-> m]
Packet(type, id)    == [type |-> type, id |-> id, dup |-> FALSE]
Connect(version)    == [type |-> "CONNECT", version |-> version]
Disconnect          == [type |-> "DISCONNECT"]

VARIABLES
    \* MQTTAsyncs: the queue of the send thread, the commands whose answer is
    \* awaited, and the MQTT version of the connect command in progress
    commands, responses, version,
    \* Clients: state of the connection, and of the session
    connected, connect_state, msgID, outboundMsgs, inboundMsgs, messageQueue,
    \* the receive thread: the packet of this turn, between cycle and the rest
    pack,
    \* the TCP connection, and what is in flight
    link, to_broker, to_client,
    \* the broker: client connected, QoS 2 messages received but not released,
    \* messages sent to the client and not yet acknowledged
    b_up, b_received, b_unacked,
    \* bounds
    sends, incoming, breaks, refusals, retries,
    \* history: what onSuccess and onFailure were called for, what the broker
    \* published, what messageArrived accepted, and whether onFailure was
    \* called for a connect
    succeeded, failed, published, arrived, gave_up

sendVars    == <<commands, responses>>
connVars    == <<version, connected, connect_state>>
sessionVars == <<msgID, outboundMsgs, inboundMsgs, messageQueue>>
linkVars    == <<link, to_broker, to_client>>
brokerVars  == <<b_up, b_received, b_unacked>>
bounds      == <<sends, incoming, breaks, refusals, retries>>
history     == <<succeeded, failed, published, arrived, gave_up>>
vars == <<sendVars, connVars, sessionVars, pack, linkVars, brokerVars, bounds,
          history>>

Init ==
    /\ commands = <<Connect(0)>> /\ responses = <<>>
    /\ version = 0 /\ connected = FALSE /\ connect_state = 0
    /\ msgID = 0 /\ outboundMsgs = <<>> /\ inboundMsgs = <<>>
    /\ messageQueue = <<>> /\ pack = "none"
    /\ link = "closed" /\ to_broker = <<>> /\ to_client = <<>>
    /\ b_up = FALSE /\ b_received = {} /\ b_unacked = <<>>
    /\ sends = 0 /\ incoming = 0 /\ breaks = 0 /\ refusals = 0 /\ retries = 0
    /\ succeeded = {} /\ failed = {} /\ published = <<>> /\ arrived = <<>>
    /\ gave_up = FALSE

-----------------------------------------------------------------------------
(* Message lists and the command queue.                                    *)

HasId(list, id) == \E i \in 1..Len(list) : list[i].id = id
IndexOf(list, id) == SelectInSeq(list, LAMBDA e : e.id = id)
Without(list, id) == RemoveFirstMatch(list, LAMBDA e : e.id = id)

\* Connect and internal disconnect go to the head of the queue, once
AddFirst(c, queue) ==
    IF queue # <<>> /\ Head(queue).type = c.type THEN queue ELSE <<c>> \o queue

IdInCommands(id) == \E i \in 1..Len(commands) :
                       commands[i].type = "PUBLISH" /\ commands[i].id = id

\* Fault: only the queue is searched
IdInCommandsOnly(id) == IdInCommands(id)

\* The ids of the queued commands and of those that await an answer are taken
IdInUse(id) == IdInCommands(id) \/ HasId(responses, id)

\* MQTTAsync_assignMsgId: the next free id after msgID, 0 if there is none
Following(k) == ((msgID + k - 1) % MaxMsgId) + 1
FreeSteps == {k \in 1..(IF msgID = 0 THEN MaxMsgId ELSE MaxMsgId - 1) :
                 ~IdInUse(Following(k))}
NextMsgId == IF FreeSteps = {} THEN 0
             ELSE Following(CHOOSE k \in FreeSteps : \A j \in FreeSteps : k <= j)

-----------------------------------------------------------------------------
(* The application.                                                        *)

\* MQTTAsync_send
Send(q) ==
    /\ sends < MaxSends /\ sends' = sends + 1
    /\ connected /\ NextMsgId # 0
    /\ msgID' = NextMsgId
    /\ commands' = Append(commands, [type |-> "PUBLISH", id |-> NextMsgId,
                                     msg |-> [seq |-> sends + 1, qos |-> q]])
    /\ UNCHANGED <<responses, connVars, outboundMsgs, inboundMsgs, messageQueue,
                   pack, linkVars, brokerVars, incoming, breaks, refusals,
                   retries, history>>

-----------------------------------------------------------------------------
(* Closing.  closeOnly closes the socket; closeSession also discards the   *)
(* session if it is a clean one.                                           *)

Close ==
    /\ connected' = FALSE /\ connect_state' = 0
    /\ link' = "closed" /\ to_broker' = <<>> /\ to_client' = <<>>
    /\ b_up' = FALSE

\* Fault: the commands that await an answer stay
DiscardSessionButResponses ==
    /\ msgID' = 0 /\ outboundMsgs' = <<>> /\ inboundMsgs' = <<>>
    /\ UNCHANGED responses

DiscardSession ==
    /\ msgID' = 0 /\ outboundMsgs' = <<>> /\ inboundMsgs' = <<>>
    /\ responses' = <<>>

\* queue is what is left of the commands, then what is put in front of it, and
\* messages what is left in the message queue
CloseSession(queue, then, messages) ==
    /\ Close
    /\ IF CleanSession
       THEN DiscardSession /\ messageQueue' = <<>> /\ commands' = then
       ELSE /\ UNCHANGED <<msgID, outboundMsgs, inboundMsgs, responses>>
            /\ messageQueue' = messages
            /\ commands' = then \o queue

-----------------------------------------------------------------------------
(* The send thread: processCommand takes the first command of the queue.   *)

NextIs(type) == commands # <<>> /\ Head(commands).type = type

\* MQTT 3.1.1 is tried first, then 3.1
VersionToTry == IF Head(commands).version = 0 THEN 4 ELSE 3

\* TCP connects and the CONNECT packet is sent.  A turn of the receive thread
\* that began before goes on if the socket has the old number.
StartConnect ==
    /\ NextIs("CONNECT") /\ ~connected /\ connect_state = 0
    /\ pack' \in {pack, "none"}
    /\ commands' = Tail(commands)
    /\ version' = VersionToTry
    /\ connect_state' = 3
    /\ link' = "open" /\ to_broker' = <<[type |-> "CONNECT"]>> /\ to_client' = <<>>
    /\ UNCHANGED <<responses, connected, sessionVars, brokerVars, bounds, history>>

\* TCP does not connect, and says so at once (ConnectTimeout stands for later):
\* once more with the other version, or onFailure
CannotConnect ==
    /\ NextIs("CONNECT") /\ ~connected /\ connect_state = 0
    /\ breaks < MaxBreaks /\ breaks' = breaks + 1
    /\ commands' = IF VersionToTry = 4 THEN <<Connect(4)>> \o Tail(commands)
                   ELSE Tail(commands)
    /\ gave_up' = (gave_up \/ VersionToTry = 3)
    /\ UNCHANGED <<responses, connVars, sessionVars, pack, linkVars, brokerVars,
                   sends, incoming, refusals, retries, succeeded, failed,
                   published, arrived>>

\* disconnect_internal's command: closeSession, and connlost reconnects.  The
\* connection need not be the one the command was meant for: if a new one is
\* being made, it is closed and nobody is told.
LoseConnection ==
    /\ NextIs("DISCONNECT") /\ (connected \/ connect_state # 0)
    /\ CloseSession(Tail(commands), IF connected THEN <<Connect(0)>> ELSE <<>>,
                    messageQueue)
    /\ UNCHANGED <<version, pack, b_received, b_unacked, bounds, history>>

NothingToLose ==
    /\ NextIs("DISCONNECT") /\ ~connected /\ connect_state = 0
    /\ commands' = Tail(commands)
    /\ UNCHANGED <<responses, connVars, sessionVars, pack, linkVars, brokerVars,
                   bounds, history>>

CanPublish ==
    /\ NextIs("PUBLISH") /\ connected /\ connect_state = 0
    /\ Len(outboundMsgs) < MaxMsgId - 1

\* Fault: the list of messages is a stack
StoredInFront(c) ==
    outboundMsgs' = <<[id |-> c.id, msg |-> c.msg, next |-> "PUBREC"]>> \o outboundMsgs

\* startPublish stores the message before it sends it.  next is the packet a
\* QoS 2 message waits for; nobody reads it for QoS 1.
Stored(c) ==
    outboundMsgs' = Append(outboundMsgs,
                           [id |-> c.id, msg |-> c.msg, next |-> "PUBREC"])

\* A broken connection is not noticed by every write
PublishCommand ==
    /\ CanPublish
    /\ LET c == Head(commands)
       IN /\ Stored(c)
          /\ to_broker' = IF link = "open"
                          THEN Append(to_broker, Publish(c.id, FALSE, c.msg))
                          ELSE to_broker
          /\ responses' = Append(responses, [id |-> c.id, msg |-> c.msg])
    /\ commands' = Tail(commands)
    /\ UNCHANGED <<connVars, msgID, inboundMsgs, messageQueue, pack, link,
                   to_client, brokerVars, bounds, history>>

\* SOCKET_ERROR: onFailure, while the message stays in outboundMsgs
PublishFails ==
    /\ CanPublish /\ link = "broken"
    /\ Stored(Head(commands))
    /\ failed' = failed \cup {Head(commands).msg}
    /\ commands' = AddFirst(Disconnect, Tail(commands))
    /\ UNCHANGED <<responses, connVars, msgID, inboundMsgs, messageQueue, pack,
                   linkVars, brokerVars, bounds, succeeded, published, arrived,
                   gave_up>>

\* Fault: the version that failed is not looked at
ConnectFailedRetried(messages) ==
    /\ Close
    /\ commands' = AddFirst(Connect(version), commands) /\ messageQueue' = messages
    /\ UNCHANGED <<msgID, outboundMsgs, inboundMsgs, responses, version, b_received,
                   b_unacked, gave_up>>

\* The CONNECT command fails later: no answer in time, a socket error, or a
\* CONNACK that comes when none is awaited
ConnectFailed(messages) ==
    /\ gave_up' = (gave_up \/ version # 4)
    /\ IF version = 4
       THEN /\ Close
            /\ commands' = AddFirst(Connect(4), commands)
            /\ messageQueue' = messages
            /\ UNCHANGED <<msgID, outboundMsgs, inboundMsgs, responses>>
       ELSE CloseSession(commands, <<>>, messages)
    /\ UNCHANGED <<version, b_received, b_unacked>>

\* checkTimeouts
ConnectTimeout ==
    /\ connect_state = 3
    /\ breaks < MaxBreaks /\ breaks' = breaks + 1
    /\ ConnectFailed(messageQueue)
    /\ UNCHANGED <<pack, sends, incoming, refusals, retries, succeeded, failed,
                   published, arrived>>

-----------------------------------------------------------------------------
(* The receive thread: cycle reads one packet and handles it.              *)

Reads(type) ==
    /\ pack = "none" /\ to_client # <<>> /\ Head(to_client).type = type
    /\ to_client' = Tail(to_client)
Answer(p) == to_broker' = Append(to_broker, p)

\* Fault: what is queued is overtaken
DirectAlways == connected

Direct == messageQueue = <<>> /\ connected

\* Protocol_processPublication: messageArrived if nothing is queued before it
\* (ok is what it returns), otherwise to the queue
ProcessPublication(m, ok) ==
    /\ ok \/ (Direct /\ refusals < MaxRefusals)
    /\ refusals' = IF ok THEN refusals ELSE refusals + 1
    /\ arrived' = IF Direct /\ ok THEN Append(arrived, m) ELSE arrived
    /\ messageQueue' = IF Direct /\ ok THEN messageQueue ELSE Append(messageQueue, m)

RecvPublish1 ==
    /\ Reads("PUBLISH") /\ Head(to_client).msg.qos = 1
    /\ pack' = "other"
    /\ Answer(Packet("PUBACK", Head(to_client).id))
    /\ \E ok \in BOOLEAN : ProcessPublication(Head(to_client).msg, ok)
    /\ UNCHANGED <<sendVars, connVars, msgID, outboundMsgs, inboundMsgs, link,
                   brokerVars, sends, incoming, breaks, retries, succeeded,
                   failed, published, gave_up>>

\* Fault: ids are not compared
StoredTwice(m) == Append(inboundMsgs, m)

\* A message with an id that is stored already replaces the one stored
Inbound(m) == IF HasId(inboundMsgs, m.id)
              THEN ReplaceAt(inboundMsgs, IndexOf(inboundMsgs, m.id), m)
              ELSE Append(inboundMsgs, m)

RecvPublish2 ==
    /\ Reads("PUBLISH") /\ Head(to_client).msg.qos = 2
    /\ pack' = "other"
    /\ LET p == Head(to_client)
       IN /\ inboundMsgs' = Inbound([id |-> p.id, msg |-> p.msg])
          /\ Answer(Packet("PUBREC", p.id))
    /\ UNCHANGED <<sendVars, connVars, msgID, outboundMsgs, messageQueue, link,
                   brokerVars, bounds, history>>

\* The stored message is released to the application and forgotten
RecvPubrel ==
    /\ Reads("PUBREL") /\ HasId(inboundMsgs, Head(to_client).id)
    /\ pack' = "other"
    /\ LET id == Head(to_client).id
       IN /\ Answer(Packet("PUBCOMP", id))
          /\ \E ok \in BOOLEAN :
                ProcessPublication(inboundMsgs[IndexOf(inboundMsgs, id)].msg, ok)
          /\ inboundMsgs' = Without(inboundMsgs, id)
    /\ UNCHANGED <<sendVars, connVars, msgID, outboundMsgs, link, brokerVars,
                   sends, incoming, breaks, retries, succeeded, failed, published,
                   gave_up>>

\* Fault: not even that
StrayIgnored == UNCHANGED to_broker

\* No such message: only a PUBREL with dup set is answered
AnswerStray == IF Head(to_client).dup THEN Answer(Packet("PUBCOMP", Head(to_client).id))
               ELSE UNCHANGED to_broker

RecvStrayPubrel ==
    /\ Reads("PUBREL") /\ ~HasId(inboundMsgs, Head(to_client).id)
    /\ pack' = "other"
    /\ AnswerStray
    /\ UNCHANGED <<sendVars, connVars, sessionVars, link, brokerVars, bounds,
                   history>>

\* The message this packet can be about: one with its id and qos that waits
\* for it
Expecting(type, id, q) ==
    /\ HasId(outboundMsgs, id)
    /\ LET m == outboundMsgs[IndexOf(outboundMsgs, id)]
       IN m.msg.qos = q /\ (q = 2 => m.next = type)

\* Fault: the message goes on waiting for PUBREC
NotRecorded(id) == UNCHANGED outboundMsgs

\* From now on the message waits for PUBCOMP, also after a reconnect
Recorded(id) ==
    outboundMsgs' = [outboundMsgs EXCEPT ![IndexOf(outboundMsgs, id)].next = "PUBCOMP"]

RecvPubrec ==
    /\ Reads("PUBREC")
    /\ pack' = "other"
    /\ LET id == Head(to_client).id
       IN IF Expecting("PUBREC", id, 2)
          THEN /\ Recorded(id)
               /\ Answer(Packet("PUBREL", id))
          ELSE UNCHANGED <<outboundMsgs, to_broker>>
    /\ UNCHANGED <<sendVars, connVars, msgID, inboundMsgs, messageQueue, link,
                   brokerVars, bounds, history>>

\* Fault: answers are taken to come in the order of the commands
CompletedFirst(id) ==
    /\ responses' = IF responses = <<>> THEN <<>> ELSE Tail(responses)
    /\ succeeded' = IF responses = <<>> THEN succeeded
                    ELSE succeeded \cup {Head(responses).msg}

\* The end of an exchange, whatever the protocol client made of the packet:
\* onSuccess of the command with its id
Completed(id) ==
    /\ responses' = Without(responses, id)
    /\ succeeded' = IF HasId(responses, id)
                    THEN succeeded \cup {responses[IndexOf(responses, id)].msg}
                    ELSE succeeded

RecvEnd(type, q) ==
    /\ Reads(type)
    /\ pack' = "other"
    /\ LET id == Head(to_client).id
       IN /\ outboundMsgs' = IF Expecting(type, id, q) THEN Without(outboundMsgs, id)
                             ELSE outboundMsgs
          /\ Completed(id)
    /\ UNCHANGED <<commands, connVars, msgID, inboundMsgs, messageQueue, link,
                   to_broker, brokerVars, bounds, failed, published, arrived,
                   gave_up>>

RecvPuback  == RecvEnd("PUBACK", 1)
RecvPubcomp == RecvEnd("PUBCOMP", 2)

\* PINGRESP, or any packet that concerns nothing of this: it matters only as
\* a turn of the receive thread
RecvPingresp ==
    /\ pack = "none" /\ link = "open" /\ connected /\ messageQueue # <<>>
    /\ pack' = "other"
    /\ UNCHANGED <<sendVars, connVars, sessionVars, linkVars, brokerVars, bounds,
                   history>>

\* cycle hands the CONNACK to receiveThread
RecvConnack ==
    /\ Reads("CONNACK")
    /\ pack' = "CONNACK"
    /\ UNCHANGED <<sendVars, connVars, sessionVars, link, to_broker, brokerVars,
                   bounds, history>>

\* cycle returns SOCKET_ERROR.  While CONNACK is awaited that is a failure to
\* connect.
ReadFails ==
    /\ pack = "none" /\ link = "broken"
    /\ pack' = "error"
    /\ IF connect_state = 3
       THEN ConnectFailed(messageQueue)
       ELSE UNCHANGED <<sendVars, connVars, sessionVars, linkVars, brokerVars,
                        gave_up>>
    /\ UNCHANGED <<bounds, succeeded, failed, published, arrived>>

-----------------------------------------------------------------------------
(* The receive thread, after cycle: the head of the message queue, then    *)
(* the CONNACK; or after an error, disconnect_internal or closeOnly.       *)

\* The socket was closed meanwhile, and no client has one of its number
TurnLost ==
    /\ pack # "none" /\ link = "closed"
    /\ pack' = "none"
    /\ UNCHANGED <<sendVars, connVars, sessionVars, linkVars, brokerVars, bounds,
                   history>>

\* The error may be that of an earlier connection.  closeOnly closes one that
\* is being made, and tells nobody.
TurnFails ==
    /\ pack = "error" /\ link # "closed"
    /\ pack' = "none"
    /\ IF connected
       THEN /\ commands' = AddFirst(Disconnect, commands)
            /\ UNCHANGED <<connected, connect_state, linkVars, b_up>>
       ELSE Close /\ UNCHANGED commands
    /\ UNCHANGED <<responses, version, sessionVars, b_received, b_unacked, bounds,
                   history>>

\* Fault: what messageArrived returns is ignored
AfterAnyDelivery(ok) == IF messageQueue # <<>> THEN Tail(messageQueue)
                        ELSE messageQueue

\* The message queue after messageArrived was given its head; ok is what it
\* returned
AfterDelivery(ok) == IF messageQueue # <<>> /\ ok THEN Tail(messageQueue)
                     ELSE messageQueue
DeliverHead(ok) ==
    /\ ok \/ (messageQueue # <<>> /\ refusals < MaxRefusals)
    /\ refusals' = IF ok THEN refusals ELSE refusals + 1
    /\ arrived' = IF messageQueue # <<>> /\ ok
                  THEN Append(arrived, Head(messageQueue)) ELSE arrived

\* Fault: the queue is not looked at
TurnEndsEarly ==
    /\ pack = "other" /\ link # "closed"
    /\ pack' = "none"
    /\ UNCHANGED <<sendVars, connVars, sessionVars, linkVars, brokerVars, bounds,
                   history>>

TurnEnds ==
    /\ pack = "other" /\ link # "closed"
    /\ pack' = "none"
    /\ \E ok \in BOOLEAN : DeliverHead(ok) /\ messageQueue' = AfterDelivery(ok)
    /\ UNCHANGED <<sendVars, connVars, msgID, outboundMsgs, inboundMsgs, linkVars,
                   brokerVars, sends, incoming, breaks, retries, succeeded,
                   failed, published, gave_up>>

\* What MQTTProtocol_retries sends again for message m
Again(m) == IF m.msg.qos = 1 \/ m.next = "PUBREC" THEN Publish(m.id, TRUE, m.msg)
            ELSE Packet("PUBREL", m.id)

\* Fault: nothing is sent again
ResumeNothing == to_broker

Resume == to_broker \o [i \in 1..Len(outboundMsgs) |-> Again(outboundMsgs[i])]

\* completeConnection: a clean session starts empty, another one goes on with
\* every message not yet acknowledged
ConnectionComplete ==
    /\ pack = "CONNACK" /\ link # "closed" /\ connect_state = 3
    /\ pack' = "none"
    /\ connected' = TRUE /\ connect_state' = 0
    /\ \E ok \in BOOLEAN :
          /\ DeliverHead(ok)
          /\ IF CleanSession
             THEN /\ DiscardSession /\ messageQueue' = <<>> /\ commands' = <<>>
                  /\ UNCHANGED to_broker
             ELSE /\ messageQueue' = AfterDelivery(ok)
                  /\ to_broker' = IF link = "open" THEN Resume ELSE to_broker
                  /\ UNCHANGED <<msgID, outboundMsgs, inboundMsgs, sendVars>>
    /\ UNCHANGED <<version, link, to_client, brokerVars, sends, incoming, breaks,
                   retries, succeeded, failed, published, gave_up>>

\* A CONNACK nobody waits for counts as a failure to connect
ConnackUnexpected ==
    /\ pack = "CONNACK" /\ link # "closed" /\ connect_state # 3
    /\ pack' = "none"
    /\ \E ok \in BOOLEAN : DeliverHead(ok) /\ ConnectFailed(AfterDelivery(ok))
    /\ UNCHANGED <<sends, incoming, breaks, retries, succeeded, failed, published>>

-----------------------------------------------------------------------------
(* Losing the connection, and retrying over a connection that is up.       *)

Break ==
    /\ link = "open" /\ breaks < MaxBreaks /\ breaks' = breaks + 1
    /\ link' = "broken" /\ to_broker' = <<>> /\ to_client' = <<>>
    /\ b_up' = FALSE
    /\ UNCHANGED <<sendVars, connVars, sessionVars, pack, b_received, b_unacked,
                   sends, incoming, refusals, retries, history>>

\* keepalive: no PINGRESP came, though the connection may be all right
PingTimeout ==
    /\ link = "open" /\ connected /\ pack = "none" /\ ~NextIs("DISCONNECT")
    /\ breaks < MaxBreaks /\ breaks' = breaks + 1
    /\ commands' = AddFirst(Disconnect, commands)
    /\ UNCHANGED <<responses, connVars, sessionVars, pack, linkVars, brokerVars,
                   sends, incoming, refusals, retries, history>>

\* MQTTProtocol_retries of the messages that have not been touched for long:
\* due are their places in the list, which it goes through from the first
RetryTimer(due) ==
    /\ retries < MaxRetries /\ retries' = retries + 1
    /\ connected /\ link = "open" /\ pack = "none"
    /\ \A i, j \in DOMAIN due : i < j => due[i] < due[j]
    /\ to_broker' = to_broker \o [i \in DOMAIN due |-> Again(outboundMsgs[due[i]])]
    /\ UNCHANGED <<sendVars, connVars, sessionVars, pack, link, to_client,
                   brokerVars, sends, incoming, breaks, refusals, history>>

-----------------------------------------------------------------------------
(* The broker (external).                                                  *)

BrokerReads(type) ==
    /\ to_broker # <<>> /\ Head(to_broker).type = type
    /\ to_broker' = Tail(to_broker)
BrokerAnswers(p) == to_client' = Append(to_client, p)
BrokerOnly == UNCHANGED <<sendVars, connVars, sessionVars, pack, link, sends,
                          breaks, refusals, retries, succeeded, failed, arrived,
                          gave_up>>

\* What the broker has not seen acknowledged it sends again
BrokerAgain(m) == IF m.next # "PUBCOMP" THEN Publish(m.id, TRUE, m.msg)
                  ELSE [Packet("PUBREL", m.id) EXCEPT !.dup = PubrelDup]

BrokerConnect ==
    /\ BrokerReads("CONNECT")
    /\ b_up' = TRUE
    /\ IF CleanSession
       THEN /\ b_received' = {} /\ b_unacked' = <<>>
            /\ to_client' = <<Packet("CONNACK", 0)>>
       ELSE /\ to_client' = <<Packet("CONNACK", 0)>> \o
                   [i \in 1..Len(b_unacked) |-> BrokerAgain(b_unacked[i])]
            /\ UNCHANGED <<b_received, b_unacked>>
    /\ BrokerOnly /\ UNCHANGED <<incoming, published>>

BrokerPublish1 ==
    /\ BrokerReads("PUBLISH") /\ Head(to_broker).msg.qos = 1
    /\ published' = Append(published, Head(to_broker).msg)
    /\ BrokerAnswers(Packet("PUBACK", Head(to_broker).id))
    /\ BrokerOnly /\ UNCHANGED <<brokerVars, incoming>>

BrokerPublish2 ==
    /\ BrokerReads("PUBLISH") /\ Head(to_broker).msg.qos = 2
    /\ b_received' = IF \E r \in b_received : r.id = Head(to_broker).id
                     THEN b_received
                     ELSE b_received \cup {[id |-> Head(to_broker).id,
                                           msg |-> Head(to_broker).msg]}
    /\ BrokerAnswers(Packet("PUBREC", Head(to_broker).id))
    /\ BrokerOnly /\ UNCHANGED <<b_up, b_unacked, incoming, published>>

BrokerPubrel ==
    /\ BrokerReads("PUBREL")
    /\ LET released == {r \in b_received : r.id = Head(to_broker).id}
       IN /\ b_received' = b_received \ released
          /\ published' = IF released = {} THEN published
                          ELSE Append(published, (CHOOSE r \in released : TRUE).msg)
    /\ BrokerAnswers(Packet("PUBCOMP", Head(to_broker).id))
    /\ BrokerOnly /\ UNCHANGED <<b_up, b_unacked, incoming>>

\* The broker's own messages; the client need not be connected unless its
\* session is a clean one
BrokerSend(q) ==
    /\ incoming < MaxIncoming /\ incoming' = incoming + 1
    /\ b_up \/ ~CleanSession
    /\ LET id == CHOOSE i \in 1..(MaxIncoming + 1) :
                    /\ ~HasId(b_unacked, i)
                    /\ \A j \in 1..(i - 1) : HasId(b_unacked, j)
           m == [seq |-> incoming + 1, qos |-> q]
       IN /\ b_unacked' = Append(b_unacked, [id |-> id, msg |-> m, next |-> "PUBREC"])
          /\ to_client' = IF b_up THEN Append(to_client, Publish(id, FALSE, m))
                          ELSE to_client
    /\ BrokerOnly /\ UNCHANGED <<b_up, b_received, to_broker, published>>

BrokerPubrec ==
    /\ BrokerReads("PUBREC")
    /\ b_unacked' = [i \in 1..Len(b_unacked) |->
                        IF b_unacked[i].id = Head(to_broker).id
                        THEN [b_unacked[i] EXCEPT !.next = "PUBCOMP"]
                        ELSE b_unacked[i]]
    /\ BrokerAnswers(Packet("PUBREL", Head(to_broker).id))
    /\ BrokerOnly /\ UNCHANGED <<b_up, b_received, incoming, published>>

BrokerEnd ==
    /\ BrokerReads("PUBACK") \/ BrokerReads("PUBCOMP")
    /\ b_unacked' = Without(b_unacked, Head(to_broker).id)
    /\ BrokerOnly /\ UNCHANGED <<to_client, b_up, b_received, incoming, published>>

-----------------------------------------------------------------------------
SendThread == \/ StartConnect \/ CannotConnect \/ LoseConnection
              \/ NothingToLose \/ PublishCommand \/ PublishFails \/ ConnectTimeout

ReceiveThread == \/ RecvPublish1 \/ RecvPublish2 \/ RecvPubrel \/ RecvStrayPubrel
                 \/ RecvPubrec \/ RecvPuback \/ RecvPubcomp \/ RecvPingresp
                 \/ RecvConnack \/ ReadFails \/ TurnLost \/ TurnFails
                 \/ TurnEnds \/ ConnectionComplete \/ ConnackUnexpected

Timers == \/ PingTimeout
          \/ \E n \in 1..Len(outboundMsgs) :
                \E due \in [1..n -> 1..Len(outboundMsgs)] : RetryTimer(due)

BrokerHandles == \/ BrokerConnect \/ BrokerPublish1 \/ BrokerPublish2
                 \/ BrokerPubrel \/ BrokerPubrec \/ BrokerEnd
Broker == BrokerHandles \/ \E q \in Qos : BrokerSend(q)

Next == \/ \E q \in Qos : Send(q)
        \/ SendThread \/ ReceiveThread \/ Timers \/ Broker \/ Break

Spec == Init /\ [][Next]_vars

(***************************************************************************)
(* Both threads go on, and the broker handles what it gets.  Connections   *)
(* need not break, nor messageArrived refuse, nor anybody send.            *)
(***************************************************************************)
Fairness == /\ WF_vars(SendThread) /\ WF_vars(ReceiveThread)
            /\ WF_vars(BrokerHandles)
FairSpec == Spec /\ Fairness

-----------------------------------------------------------------------------
Entries(M) == [id : MsgId, msg : M, next : {"PUBREC", "PUBCOMP"}]
ToBroker == [type : {"CONNECT"}]
            \cup [type : {"PUBLISH"}, id : MsgId, dup : BOOLEAN, msg : Sent]
            \cup [type : {"PUBREL", "PUBACK", "PUBREC", "PUBCOMP"},
                  id : Nat, dup : {FALSE}]

(***************************************************************************)
(* The type invariant.  A message id is never 0 nor above MAX_MSG_ID, and  *)
(* what reaches the application was sent to it by the broker.              *)
(***************************************************************************)
TypeOK ==
    /\ commands \in Seq([type : {"CONNECT"}, version : {0, 4}] \cup {Disconnect}
                        \cup [type : {"PUBLISH"}, id : MsgId, msg : Sent])
    /\ responses \in Seq([id : MsgId, msg : Sent])
    /\ version \in {0, 3, 4} /\ connected \in BOOLEAN /\ connect_state \in {0, 3}
    /\ msgID \in 0..MaxMsgId
    /\ outboundMsgs \in Seq(Entries(Sent))
    /\ inboundMsgs \in Seq([id : Nat, msg : Incoming])
    /\ messageQueue \in Seq(Incoming)
    /\ pack \in {"none", "other", "CONNACK", "error"}
    /\ link \in {"closed", "open", "broken"}
    /\ to_broker \in Seq(ToBroker)
    /\ b_up \in BOOLEAN
    /\ succeeded \subseteq Sent /\ failed \subseteq Sent
    /\ published \in Seq(Sent) /\ arrived \in Seq(Incoming) /\ gave_up \in BOOLEAN

Once(s, m) == \A i, j \in 1..Len(s) : s[i] = m /\ s[j] = m => i = j

(***************************************************************************)
(* A QoS 2 message is published by the broker at most once, however often  *)
(* the connection breaks and whatever is repeated.                         *)
(***************************************************************************)
SentAtMostOnce == \A i \in 1..Len(published) :
                     published[i].qos = 2 => Once(published, published[i])

\* A QoS 2 message is accepted by messageArrived at most once.
ArrivesAtMostOnce == \A i \in 1..Len(arrived) :
                        arrived[i].qos = 2 => Once(arrived, arrived[i])

(***************************************************************************)
(* onSuccess is called for a message only after the broker has published   *)
(* it.  The callback is found by message id alone, and ids are used again. *)
(***************************************************************************)
SuccessMeansPublished == succeeded \subseteq ToSet(published)

FirstAt(s, m) == CHOOSE i \in 1..Len(s) : s[i] = m /\ \A j \in 1..(i - 1) : s[j] # m
InOrder(s) == \A m, k \in ToSet(s) :
                 m.qos = k.qos /\ m.seq < k.seq => FirstAt(s, m) < FirstAt(s, k)

(***************************************************************************)
(* Messages of one quality of service are published in the order in which  *)
(* they were sent, repetitions aside: exchanges that were interrupted are  *)
(* resumed before new ones start.                                          *)
(***************************************************************************)
PublishedInOrder == InOrder(published)

\* Messages arrive in the order in which the broker sent them, also when
\* messageArrived has refused one.
ArrivesInOrder == InOrder(arrived)

(***************************************************************************)
(* What the broker need not send again is with the application or stored   *)
(* for it: the client acknowledges nothing it may still lose.              *)
(***************************************************************************)
Owed == {b_unacked[i].msg : i \in 1..Len(b_unacked)}
AckedIsKept ==
    \A n \in 1..incoming : \E q \in Qos :
        LET m == [seq |-> n, qos |-> q]
        IN m \in Owed \cup ToSet(arrived) \cup ToSet(messageQueue)

(***************************************************************************)
(* Whoever waits for onSuccess has a message that is still to be           *)
(* acknowledged: a callback in responses is never orphaned.                *)
(***************************************************************************)
ResponsesHaveMessages ==
    \A i \in 1..Len(responses) : \E j \in 1..Len(outboundMsgs) :
        outboundMsgs[j].id = responses[i].id /\ outboundMsgs[j].msg = responses[i].msg

\* No two messages under way have the same id.
UniqueIds == \A i, j \in 1..Len(outboundMsgs) :
                outboundMsgs[i].id = outboundMsgs[j].id => i = j

(***************************************************************************)
(* Nothing connects and nothing will: onFailure was called for the         *)
(* connect, or the connect was closed unawares.  connlost does not retry.  *)
(***************************************************************************)
GivenUp == ~connected /\ connect_state = 0 /\ ~NextIs("CONNECT")

(***************************************************************************)
(* A connect comes about or its onFailure is called, whatever is left over *)
(* of the connection before it.                                            *)
(***************************************************************************)
ConnectAnswered == connect_state = 3 ~> connected \/ gave_up

(***************************************************************************)
(* Every message MQTTAsync_send accepted is answered by onSuccess or       *)
(* onFailure, unless the client stays disconnected.                        *)
(***************************************************************************)
EverySendAnswered ==
    \A n \in 1..MaxSends : sends >= n ~>
        \/ \E q \in Qos : [seq |-> n, qos |-> q] \in succeeded \cup failed
        \/ []GivenUp

(***************************************************************************)
(* Every message of the broker is acknowledged in the end and forgotten by *)
(* the broker, also when the client had forgotten it before.               *)
(***************************************************************************)
IncomingCompletes == b_unacked # <<>> ~> b_unacked = <<>> \/ []GivenUp

(***************************************************************************)
(* A message that messageArrived has refused does not stay in the queue:   *)
(* messageArrived is called again.                                         *)
(***************************************************************************)
RefusedIsDelivered == messageQueue # <<>> ~> messageQueue = <<>> \/ []GivenUp

\* A QoS 2 message is published, and delivered, at most once, whatever breaks
\* and is repeated.
ExchangedOnce ==
    /\ TypeOK /\ SentAtMostOnce /\ ArrivesAtMostOnce

\* Messages keep their order, both ways, across reconnects and refusals.
OrderIsKept ==
    /\ PublishedInOrder /\ ArrivesInOrder

\* In a clean session onSuccess is called for the message it is about, though
\* ids come round: no id has two messages, and no callback outlives its message.
OwnCallbacks ==
    /\ ResponsesHaveMessages /\ SuccessMeansPublished /\ UniqueIds

\* Every exchange the broker begins is finished, and a message messageArrived
\* refused is offered again.
IncomingIsServed ==
    /\ IncomingCompletes /\ RefusedIsDelivered
=============================================================================

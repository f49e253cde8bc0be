------------------------------ MODULE MqttStore -----------------------------
(***************************************************************************)
(* What survives a crash: the persistent store of an asynchronous client   *)
(* (MQTTPersistence.c, and its callers in MQTTAsync.c, MQTTPacket.c and    *)
(* MQTTProtocolClient.c), for a session that is kept.                      *)
(*                                                                         *)
(* A command or a handler works with mqttasync_mutex held.  It changes     *)
(* memory at once, which nobody sees in between, and what the world sees   *)
(* of it is done step by step: records put and removed, packets sent,      *)
(* messageArrived called, in the order of the code.  The process may end   *)
(* between any two of these steps; it is started again, and MQTTAsync_     *)
(* create restores what is in the store.  MqttDelivery is about the same   *)
(* exchanges in a process that does not end.                               *)
(***************************************************************************)
EXTENDS Integers, Sequences, SequencesExt, FiniteSets, FiniteSetsExt, TLC

CONSTANTS
    MaxMsgId,       \* MAX_MSG_ID, 65535 in MQTTProtocolClient.h
    Qos,            \* the qualities of service in use, of 1 and 2
    Starts,         \* msgID at the start: earlier messages have had ids too
    MaxSends,       \* bound: messages the application sends
    MaxIncoming,    \* bound: messages the broker has for the client
    MaxTroubles     \* bound: times that the process ends, a connection breaks, or
                    \* messageArrived returns false

ASSUME StoreAssumption ==
    /\ MaxMsgId \in Nat /\ MaxMsgId >= 2 /\ Starts \subseteq 0..MaxMsgId
    /\ Qos \subseteq {1, 2}
    /\ MaxSends \in Nat /\ MaxIncoming \in Nat /\ MaxTroubles \in Nat

Sent == [to : {"broker"}, seq : 1..MaxSends, qos : Qos]
Incoming == [to : {"client"}, seq : 1..MaxIncoming, qos : Qos]

VARIABLES
    \* the disk: records by key
    store,
    \* memory: commands and the ids of those that await an answer, the lists of
    \* Clients, the counters of keys and ids
    commands, responses, outboundMsgs, inboundMsgs, messageQueue,
    command_seqno, qentry_seqno, msgID,
    \* what is left to be done of the command or handler in progress
    todo,
    \* the connection, what is in flight, and the broker's session
    link, to_broker, to_client, b_received, b_unacked,
    \* bounds
    sends, incoming, crashes, troubles,
    \* history: in which order messages were started, what the broker
    \* published, what messageArrived accepted, the messages a crash caught at
    \* a bad moment, and whether two messages under way, here or at the broker,
    \* had one id
    started, published, arrived, caught, reused

memory  == <<commands, responses, outboundMsgs, inboundMsgs, messageQueue,
             command_seqno, qentry_seqno, msgID>>
network == <<link, to_broker, to_client>>
broker  == <<b_received, b_unacked>>
bounds  == <<sends, incoming, crashes, troubles>>
history == <<started, published, arrived, caught, reused>>
vars == <<store, memory, todo, network, broker, bounds, history>>

Init ==
    /\ store = [k \in {} |-> 0]
    /\ commands = <<>> /\ responses = {} /\ outboundMsgs = <<>> /\ inboundMsgs = <<>>
    /\ messageQueue = <<>> /\ command_seqno = 0 /\ qentry_seqno = 0
    /\ msgID \in Starts
    /\ todo = <<>>
    /\ link = "closed" /\ to_broker = <<>> /\ to_client = <<>>
    /\ b_received = {} /\ b_unacked = <<>>
    /\ sends = 0 /\ incoming = 0 /\ crashes = 0 /\ troubles = 0
    /\ started = <<>> /\ published = <<>> /\ arrived = <<>> /\ caught = {}
    /\ reused = FALSE

-----------------------------------------------------------------------------
(* Keys: PUBLISH and PUBREL sent, PUBLISH received, commands, and messages *)
(* queued for the application.                                             *)

PUBLISH_SENT(id)     == <<"s-", id>>
PUBREL_KEY(id)       == <<"sc-", id>>
PUBLISH_RECEIVED(id) == <<"r-", id>>
COMMAND_KEY(n)       == <<"c-", n>>
QUEUE_KEY(n)         == <<"q-", n>>

Keys(kind) == {k \in DOMAIN store : k[1] = kind}
Records(kind) == {store[k] : k \in Keys(kind)}
Numbers(kind) == SetToSortSeq({k[2] : k \in Keys(kind)}, <)

\* What is done step by step
Put(key, value) == [do |-> "put", key |-> key, value |-> value]
Drop(key)     == [do |-> "drop", key |-> key]
SendPacket(p)   == [do |-> "send", packet |-> p]
Deliver(m)      == [do |-> "deliver", msg |-> m]

Publish(id, m)   == [type |-> "PUBLISH", id |-> id, msg |-> m]
Packet(type, id) == [type |-> type, id |-> id]

HasId(list, id) == \E i \in DOMAIN list : list[i].id = id
IndexOf(list, id) == SelectInSeq(list, LAMBDA e : e.id = id)
Without(list, id) == RemoveFirstMatch(list, LAMBDA e : e.id = id)

Connected == link # "closed"
Trouble == troubles < MaxTroubles /\ troubles' = troubles + 1
Idle == todo = <<>>

-----------------------------------------------------------------------------
(* The steps of what is in progress.                                       *)

Does(kind) == todo # <<>> /\ Head(todo).do = kind /\ todo' = Tail(todo)
DoesOnly == UNCHANGED <<memory, broker, link, to_client, bounds, started, published,
                        caught, reused>>

\* pput of the store: a record that is there is cut to nothing when its file is
\* opened, and written anew
StoreOpens ==
    /\ todo # <<>> /\ Head(todo).do = "put" /\ Head(todo).key \in DOMAIN store
    /\ store' = [k \in DOMAIN store \ {Head(todo).key} |-> store[k]]
    /\ DoesOnly /\ UNCHANGED <<todo, to_broker, arrived>>

StorePut ==
    /\ Does("put") /\ Head(todo).key \notin DOMAIN store
    /\ store' = (Head(todo).key :> Head(todo).value) @@ store
    /\ DoesOnly /\ UNCHANGED <<to_broker, arrived>>

\* premove of the store
StoreRemove ==
    /\ Does("drop")
    /\ store' = [k \in DOMAIN store \ {Head(todo).key} |-> store[k]]
    /\ DoesOnly /\ UNCHANGED <<to_broker, arrived>>

\* Socket_putdatas; what is written to a broken connection is lost
PacketSent ==
    /\ Does("send")
    /\ to_broker' = IF link = "open" THEN Append(to_broker, Head(todo).packet) ELSE to_broker
    /\ DoesOnly /\ UNCHANGED <<store, arrived>>

\* messageArrived returns true
MessageArrived ==
    /\ Does("deliver")
    /\ arrived' = Append(arrived, Head(todo).msg)
    /\ DoesOnly /\ UNCHANGED <<store, to_broker>>

Perform == StoreOpens \/ StorePut \/ StoreRemove \/ PacketSent \/ MessageArrived

-----------------------------------------------------------------------------
(* Sending.                                                                *)

\* The ids of commands queued or awaiting an answer are taken
IdInUse(id) == HasId(commands, id) \/ id \in responses

\* Fault: ids do not begin again at 1
FollowingUnbounded(k) == msgID + k

\* MQTTAsync_assignMsgId: the next free id after msgID
Following(k) == ((msgID + k - 1) % MaxMsgId) + 1
FreeSteps == {k \in 1..(IF msgID = 0 THEN MaxMsgId ELSE MaxMsgId - 1) : ~IdInUse(Following(k))}

\* MQTTAsync_send, MQTTAsync_addCommand, MQTTAsync_persistCommand.  It has not
\* returned, and promised nothing, before the record is put.
Send(q) ==
    /\ sends < MaxSends /\ sends' = sends + 1
    /\ Idle /\ Connected /\ FreeSteps # {}
    /\ LET id == Following(Min(FreeSteps))
           m == [to |-> "broker", seq |-> sends + 1, qos |-> q]
       IN /\ msgID' = id
          /\ commands' = Append(commands, [seqno |-> command_seqno + 1, id |-> id, msg |-> m])
          /\ store' = (COMMAND_KEY(command_seqno + 1) :> [id |-> id, msg |-> m]) @@ store
    /\ command_seqno' = command_seqno + 1
    /\ UNCHANGED <<responses, outboundMsgs, inboundMsgs, messageQueue, qentry_seqno, todo,
                   network, broker, incoming, crashes, troubles, history>>

\* MQTTAsync_unpersistCommand, then MQTTPacket_sends
StartSteps(c) == << Drop(COMMAND_KEY(c.seqno)), Put(PUBLISH_SENT(c.id), c.msg),
                    SendPacket(Publish(c.id, c.msg)) >>

\* MQTTAsync_processCommand, MQTTProtocol_startPublish
PublishCommand ==
    /\ Idle /\ commands # <<>> /\ Connected
    /\ Len(outboundMsgs) < MaxMsgId - 1
    /\ LET c == Head(commands)
       IN /\ outboundMsgs' = Append(outboundMsgs, [id |-> c.id, msg |-> c.msg, next |-> "PUBREC"])
          /\ responses' = responses \cup {c.id}
          /\ todo' = StartSteps(c)
          /\ started' = Append(started, c.msg)
          /\ reused' = (reused \/ HasId(outboundMsgs, c.id)
                             \/ \E r \in b_received : r.id = c.id)
    /\ commands' = Tail(commands)
    /\ UNCHANGED <<store, inboundMsgs, messageQueue, command_seqno, qentry_seqno, msgID,
                   network, broker, bounds, published, arrived, caught>>

\* The message a packet can be about
Expecting(type, id, q) ==
    /\ HasId(outboundMsgs, id)
    /\ LET m == outboundMsgs[IndexOf(outboundMsgs, id)]
       IN m.msg.qos = q /\ (q = 2 => m.next = type)

Reads(type) == /\ Idle /\ to_client # <<>> /\ Head(to_client).type = type
               /\ to_client' = Tail(to_client)
Read == Head(to_client)
ReadsOnly == UNCHANGED <<store, commands, command_seqno, msgID, link, to_broker, broker,
                         sends, incoming, crashes, history>>

RecvPubrec ==
    /\ Reads("PUBREC")
    /\ IF Expecting("PUBREC", Read.id, 2)
       THEN /\ outboundMsgs' =
                   [outboundMsgs EXCEPT ![IndexOf(outboundMsgs, Read.id)].next = "PUBCOMP"]
            /\ todo' = << Put(PUBREL_KEY(Read.id), Packet("PUBREL", Read.id)), SendPacket(Packet("PUBREL", Read.id)) >>
       ELSE UNCHANGED <<outboundMsgs, todo>>
    /\ ReadsOnly
    /\ UNCHANGED <<responses, inboundMsgs, messageQueue, qentry_seqno, troubles>>

\* Fault: the record of the PUBREL stays
RemoveKeepsPubrel(q, id) == << Drop(PUBLISH_SENT(id)) >>

\* MQTTPersistence_remove of a message sent
RemoveSent(q, id) == IF q = 2 THEN << Drop(PUBLISH_SENT(id)), Drop(PUBREL_KEY(id)) >>
                     ELSE << Drop(PUBLISH_SENT(id)) >>

\* The end of an exchange; the command that awaits it is found by its id alone
RecvEnd(type, q) ==
    /\ Reads(type)
    /\ IF Expecting(type, Read.id, q)
       THEN outboundMsgs' = Without(outboundMsgs, Read.id) /\ todo' = RemoveSent(q, Read.id)
       ELSE UNCHANGED <<outboundMsgs, todo>>
    /\ responses' = responses \ {Read.id}
    /\ ReadsOnly
    /\ UNCHANGED <<inboundMsgs, messageQueue, qentry_seqno, troubles>>

RecvPuback  == RecvEnd("PUBACK", 1)
RecvPubcomp == RecvEnd("PUBCOMP", 2)

-----------------------------------------------------------------------------
(* Receiving.                                                              *)

\* Protocol_processPublication: messageArrived if nothing is queued before it
\* (ok is what it returns), otherwise the queue, and its record
Direct == messageQueue = <<>> /\ Connected
Processing(m, ok) == IF Direct /\ ok THEN << Deliver(m) >>
                     ELSE << Put(QUEUE_KEY(qentry_seqno + 1), m) >>
Queued(m, ok) ==
    /\ IF ok THEN UNCHANGED troubles ELSE Direct /\ Trouble
    /\ IF Direct /\ ok THEN UNCHANGED <<messageQueue, qentry_seqno>>
       ELSE /\ messageQueue' = Append(messageQueue, [seqno |-> qentry_seqno + 1, msg |-> m])
            /\ qentry_seqno' = qentry_seqno + 1

RecvPublish1(ok) ==
    /\ Reads("PUBLISH") /\ Read.msg.qos = 1
    /\ Queued(Read.msg, ok)
    /\ todo' = << SendPacket(Packet("PUBACK", Read.id)) >> \o Processing(Read.msg, ok)
    /\ ReadsOnly
    /\ UNCHANGED <<responses, outboundMsgs, inboundMsgs>>

\* Fault: the message is acknowledged before its record is put
AckFirst(id, m) == << SendPacket(Packet("PUBREC", id)), Put(PUBLISH_RECEIVED(id), m) >>

\* MQTTPacket_Factory puts the record before the handler runs
KeepSteps(id, m) == << Put(PUBLISH_RECEIVED(id), m), SendPacket(Packet("PUBREC", id)) >>

RecvPublish2 ==
    /\ Reads("PUBLISH") /\ Read.msg.qos = 2
    /\ LET m == [id |-> Read.id, msg |-> Read.msg]
       IN inboundMsgs' = IF HasId(inboundMsgs, m.id)
                         THEN ReplaceAt(inboundMsgs, IndexOf(inboundMsgs, m.id), m)
                         ELSE Append(inboundMsgs, m)
    /\ todo' = KeepSteps(Read.id, Read.msg)
    /\ ReadsOnly
    /\ UNCHANGED <<responses, outboundMsgs, messageQueue, qentry_seqno, troubles>>

\* Fault: the record stays
ReleaseKeepsRecord(id, m, ok) == << SendPacket(Packet("PUBCOMP", id)) >> \o Processing(m, ok)

ReleaseSteps(id, m, ok) ==
    << SendPacket(Packet("PUBCOMP", id)) >> \o Processing(m, ok)
    \o << Drop(PUBLISH_RECEIVED(id)) >>

RecvPubrel(ok) ==
    /\ Reads("PUBREL") /\ HasId(inboundMsgs, Read.id)
    /\ LET m == inboundMsgs[IndexOf(inboundMsgs, Read.id)].msg
       IN Queued(m, ok) /\ todo' = ReleaseSteps(Read.id, m, ok)
    /\ inboundMsgs' = Without(inboundMsgs, Read.id)
    /\ ReadsOnly
    /\ UNCHANGED <<responses, outboundMsgs>>

\* A PUBREL that is repeated has dup set, and is answered all the same
RecvStrayPubrel ==
    /\ Reads("PUBREL") /\ ~HasId(inboundMsgs, Read.id)
    /\ todo' = << SendPacket(Packet("PUBCOMP", Read.id)) >>
    /\ ReadsOnly
    /\ UNCHANGED <<responses, outboundMsgs, inboundMsgs, messageQueue, qentry_seqno, troubles>>

\* MQTTAsync_deliverMessage, MQTTPersistence_unpersistQueueEntry
DeliverSteps(e) == << Deliver(e.msg), Drop(QUEUE_KEY(e.seqno)) >>

\* The receive thread: the head of the queue, at the end of a turn
DeliverHead ==
    /\ Idle /\ Connected /\ messageQueue # <<>>
    /\ todo' = DeliverSteps(Head(messageQueue))
    /\ messageQueue' = Tail(messageQueue)
    /\ UNCHANGED <<store, commands, responses, outboundMsgs, inboundMsgs, command_seqno,
                   qentry_seqno, msgID, network, broker, bounds, history>>

-----------------------------------------------------------------------------
(* The end of the process, and the next one: MQTTAsync_create.             *)

\* Fault: the order is that of the ids, also after they began again at 1
NotWrapped(ids) == ids

\* MQTTPersistence_wrapMsgID: the ids from the largest gap on come first
Wrapped(ids) ==
    LET n == Len(ids)
        gap(i) == IF i = 1 THEN MaxMsgId - ids[n] + ids[1] ELSE ids[i] - ids[i - 1]
        largest == {i \in DOMAIN ids : \A j \in DOMAIN ids : gap(j) <= gap(i)}
    IN IF n = 0 THEN ids
       ELSE SubSeq(ids, Min(largest), n) \o SubSeq(ids, 1, Min(largest) - 1)

\* The file of a PUBREL that was being put is there, and nothing is in it that
\* can be read
CutPubrels == IF todo # <<>> /\ Head(todo).do = "put" /\ Head(todo).key[1] = "sc-"
              THEN {Head(todo).key} ELSE {}

\* Fault: the record of the PUBREL is not looked for
NextIsPubrec(id, files) == "PUBREC"

\* It is enough that pcontainskey finds a file
RestoredNext(id, files) == IF PUBREL_KEY(id) \in files THEN "PUBCOMP" ELSE "PUBREC"

\* MQTTPersistence_restore of messages sent; a cut file is removed when its turn
\* comes, which is before or after that of its message
RestoredOutbound(files) ==
    LET ids == Wrapped(Numbers("s-"))
    IN [i \in DOMAIN ids |->
           [id |-> ids[i], msg |-> store[PUBLISH_SENT(ids[i])],
            next |-> RestoredNext(ids[i], files)]]

RestoredInbound == LET ids == Numbers("r-")
                   IN [i \in DOMAIN ids |-> [id |-> ids[i], msg |-> store[PUBLISH_RECEIVED(ids[i])]]]

\* Records of a PUBREL without its PUBLISH are removed
Orphans == {k \in Keys("sc-") : PUBLISH_SENT(k[2]) \notin DOMAIN store}

\* MQTTAsync_restoreCommands: in the order in which the directory lists them,
\* for what is compared is not the number of the command
RestoredCommands == { [i \in DOMAIN keys |-> [seqno |-> keys[i][2], id |-> store[keys[i]].id,
                                              msg |-> store[keys[i]].msg]]
                      : keys \in SetToSeqs(Keys("c-")) }

\* Fault: the queue starts empty
QueueForgotten == <<>>

\* MQTTPersistence_restoreMessageQueue
RestoredQueue == LET ns == Numbers("q-")
                 IN [i \in DOMAIN ns |-> [seqno |-> ns[i], msg |-> store[QUEUE_KEY(ns[i])]]]

\* Fault: the numbers of keys start again
SeqnoRestarts(kind) == 0

Seqno(kind) == Max({0} \cup {k[2] : k \in Keys(kind)})

\* The messages that the crash may lose or double: acknowledged or no command
\* any more, and not stored; passed on and still stored; or to be stored again,
\* as they were or as released, and their file cut
Caught ==
    LET doing == IF todo # <<>> /\ Head(todo).do = "send" THEN {} ELSE ToSet(todo)
        puts == {e \in doing : e.do = "put"}
        delivers == {e \in doing : e.do = "deliver"}
        removes == {e \in doing : e.do = "drop"}
    IN {e.msg : e \in {d \in delivers : d.msg \notin Records("q-")}}
       \cup {e.value : e \in {p \in puts : p.key[1] = "q-"}}
       \cup {e.value : e \in {p \in puts : p.key[1] = "s-" /\ p.value \notin Records("s-") /\
                                           \A c \in Records("c-") : c.msg # p.value}}
       \cup {store[PUBLISH_SENT(e.key[2])] :
                e \in {p \in puts : p.key \in CutPubrels /\ p.key \notin DOMAIN store
                                   /\ PUBLISH_SENT(p.key[2]) \in DOMAIN store}}
       \cup {store[e.key] : e \in {r \in removes : r.key[1] \in {"r-", "q-"} /\
                                                   r.key \in DOMAIN store /\ delivers = {}}}

Restart ==
    /\ Trouble /\ crashes' = crashes + 1
    /\ caught' = caught \cup Caught
    /\ todo' = <<>>
    /\ \E seen \in SUBSET CutPubrels : outboundMsgs' = RestoredOutbound(Keys("sc-") \cup seen)
    /\ inboundMsgs' = RestoredInbound
    /\ store' = [k \in DOMAIN store \ Orphans |-> store[k]]
    /\ commands' \in RestoredCommands
    /\ command_seqno' = Seqno("c-")
    /\ messageQueue' = RestoredQueue
    /\ qentry_seqno' = Seqno("q-")
    /\ msgID' = 0 /\ responses' = {}
    /\ link' = "closed" /\ to_broker' = <<>> /\ to_client' = <<>>
    /\ UNCHANGED <<broker, sends, incoming, started, published,
                   arrived, reused>>

-----------------------------------------------------------------------------
(* The connection.                                                         *)

\* What MQTTProtocol_retries does for message m
Again(m) == IF m.msg.qos = 1 \/ m.next = "PUBREC"
            THEN << Put(PUBLISH_SENT(m.id), m.msg), SendPacket(Publish(m.id, m.msg)) >>
            ELSE << Put(PUBREL_KEY(m.id), Packet("PUBREL", m.id)), SendPacket(Packet("PUBREL", m.id)) >>

\* Fault: nothing is sent again
ResumeNothing == <<>>

Resume == FlattenSeq([i \in DOMAIN outboundMsgs |-> Again(outboundMsgs[i])])

\* The connection is closed if it broke, and made again; MQTTAsync_completeConnection,
\* while the broker sends again what it has not seen acknowledged
Connect ==
    /\ Idle /\ link \in {"closed", "broken"}
    /\ link' = "open" /\ to_broker' = <<>>
    /\ to_client' = [i \in DOMAIN b_unacked |->
                        IF b_unacked[i].next = "PUBCOMP" THEN Packet("PUBREL", b_unacked[i].id)
                        ELSE Publish(b_unacked[i].id, b_unacked[i].msg)]
    /\ todo' = Resume
    /\ UNCHANGED <<store, memory, broker, bounds, history>>

Break ==
    /\ link = "open" /\ Trouble
    /\ link' = "broken" /\ to_broker' = <<>> /\ to_client' = <<>>
    /\ UNCHANGED <<store, memory, todo, broker, sends, incoming, crashes, history>>

-----------------------------------------------------------------------------
(* The broker (external).                                                  *)

BrokerReads(type) == /\ to_broker # <<>> /\ Head(to_broker).type = type
                     /\ to_broker' = Tail(to_broker)
BrokerAnswers(type) == to_client' = Append(to_client, Packet(type, Head(to_broker).id))
BrokerOnly == UNCHANGED <<store, memory, todo, link, sends, crashes, troubles,
                          started, arrived, caught, reused>>

BrokerPublish ==
    /\ BrokerReads("PUBLISH")
    /\ LET p == Head(to_broker)
       IN IF p.msg.qos = 1
          THEN published' = Append(published, p.msg) /\ BrokerAnswers("PUBACK")
               /\ UNCHANGED b_received
          ELSE /\ b_received' = IF \E r \in b_received : r.id = p.id THEN b_received
                                ELSE b_received \cup {[id |-> p.id, msg |-> p.msg]}
               /\ BrokerAnswers("PUBREC") /\ UNCHANGED published
    /\ BrokerOnly /\ UNCHANGED <<b_unacked, incoming>>

BrokerPubrel ==
    /\ BrokerReads("PUBREL")
    /\ LET released == {r \in b_received : r.id = Head(to_broker).id}
       IN /\ b_received' = b_received \ released
          /\ published' = published \o SetToSeq({r.msg : r \in released})
    /\ BrokerAnswers("PUBCOMP")
    /\ BrokerOnly /\ UNCHANGED <<b_unacked, incoming>>

BrokerSend(q) ==
    /\ incoming < MaxIncoming /\ incoming' = incoming + 1
    /\ LET id == Min({i \in 1..(MaxIncoming + 1) : ~HasId(b_unacked, i)})
           m == [to |-> "client", seq |-> incoming + 1, qos |-> q]
       IN /\ b_unacked' = Append(b_unacked, [id |-> id, msg |-> m, next |-> "PUBREC"])
          /\ to_client' = IF link = "open" THEN Append(to_client, Publish(id, m)) ELSE to_client
    /\ BrokerOnly /\ UNCHANGED <<b_received, to_broker, published>>

BrokerPubrec ==
    /\ BrokerReads("PUBREC")
    /\ b_unacked' = [i \in DOMAIN b_unacked |->
                        IF b_unacked[i].id = Head(to_broker).id
                        THEN [b_unacked[i] EXCEPT !.next = "PUBCOMP"] ELSE b_unacked[i]]
    /\ BrokerAnswers("PUBREL")
    /\ BrokerOnly /\ UNCHANGED <<b_received, incoming, published>>

BrokerEnd ==
    /\ BrokerReads("PUBACK") \/ BrokerReads("PUBCOMP")
    /\ b_unacked' = Without(b_unacked, Head(to_broker).id)
    /\ BrokerOnly /\ UNCHANGED <<to_client, b_received, incoming, published>>

-----------------------------------------------------------------------------
Handles == \/ PublishCommand \/ RecvPubrec \/ RecvPuback \/ RecvPubcomp \/ RecvPublish2
           \/ RecvStrayPubrel \/ DeliverHead \/ Connect
           \/ \E ok \in BOOLEAN : RecvPublish1(ok) \/ RecvPubrel(ok)
BrokerHandles == BrokerPublish \/ BrokerPubrel \/ BrokerPubrec \/ BrokerEnd

Next == \/ Perform \/ Handles \/ BrokerHandles \/ Restart \/ Break
        \/ \E q \in Qos : Send(q) \/ BrokerSend(q)

(***************************************************************************)
(* What is in progress goes on, the threads have turns, the client         *)
(* connects again, and the broker handles what it gets.                    *)
(***************************************************************************)
Spec == /\ Init /\ [][Next]_vars
        /\ WF_vars(Perform) /\ WF_vars(Handles) /\ WF_vars(BrokerHandles)

-----------------------------------------------------------------------------
\* The types; what the store has for the broker was sent, and for the client received
StoreTypeOK ==
    /\ \A k \in Keys("s-") : store[k] \in Sent
    /\ \A k \in Keys("r-") \cup Keys("q-") : store[k] \in Incoming
    /\ \A k \in Keys("c-") : store[k].msg \in Sent /\ store[k].id \in 1..MaxMsgId
    /\ \A k \in DOMAIN store : k[2] \in Nat \ {0}
    /\ msgID \in 0..MaxMsgId /\ link \in {"closed", "open", "broken"}

(***************************************************************************)
(* Between two handlers the store has what memory has, neither more nor    *)
(* less, and no two things have one key: a process that ended here would   *)
(* find everything again - but for the PUBREL of a message a crash caught, *)
(* of which it may have found the file and not the record.                 *)
(***************************************************************************)
Entries(list, Key(_)) == {Key(list[i]) : i \in DOMAIN list}
CaughtPubrels == Entries(SelectSeq(outboundMsgs, LAMBDA m : m.msg \in caught),
                         LAMBDA m : PUBREL_KEY(m.id))
StoreMatches ==
    Idle /\ ~reused =>
        /\ DOMAIN store \ CaughtPubrels =
               Entries(outboundMsgs, LAMBDA m : PUBLISH_SENT(m.id))
               \cup (Entries(SelectSeq(outboundMsgs, LAMBDA m : m.next = "PUBCOMP"),
                             LAMBDA m : PUBREL_KEY(m.id)) \ CaughtPubrels)
               \cup Entries(inboundMsgs, LAMBDA m : PUBLISH_RECEIVED(m.id))
               \cup Entries(commands, LAMBDA c : COMMAND_KEY(c.seqno))
               \cup Entries(messageQueue, LAMBDA e : QUEUE_KEY(e.seqno))
        /\ \A i \in DOMAIN outboundMsgs :
               store[PUBLISH_SENT(outboundMsgs[i].id)] = outboundMsgs[i].msg
        /\ \A i \in DOMAIN inboundMsgs :
               store[PUBLISH_RECEIVED(inboundMsgs[i].id)] = inboundMsgs[i].msg
        /\ \A i \in DOMAIN commands : store[COMMAND_KEY(commands[i].seqno)].msg = commands[i].msg
        /\ \A i \in DOMAIN messageQueue :
               store[QUEUE_KEY(messageQueue[i].seqno)] = messageQueue[i].msg

(***************************************************************************)
(* At every step of the disk and of the network, a message that            *)
(* MQTTAsync_send accepted is in the store or published - unless a crash   *)
(* caught it between the removal of its command and its next record.       *)
(***************************************************************************)
Doing(kind) == {e \in ToSet(todo) : e.do = kind}
Accepted == {m \in Sent : \E i \in DOMAIN commands : commands[i].msg = m} \cup ToSet(started)
SentIsKept ==
    ~reused =>
        Accepted \subseteq {c.msg : c \in Records("c-")} \cup Records("s-") \cup ToSet(published)
                           \cup {e.value : e \in Doing("put")} \cup caught

\* A QoS 2 message is published at most once, whatever crashes - unless a crash
\* caught it while the record of its PUBREL was written.
PublishedOnce ==
    ~reused => \A i, j \in DOMAIN published :
                   published[i] = published[j] /\ published[i].qos = 2
                   /\ published[i] \notin caught => i = j

(***************************************************************************)
(* A message that the broker need not send again is in the store for the   *)
(* application or was given to it - unless a crash caught it.              *)
(***************************************************************************)
ReceivedIsKept ==
    \A n \in 1..incoming : \E q \in Qos :
        [to |-> "client", seq |-> n, qos |-> q] \in
            {b_unacked[i].msg : i \in DOMAIN b_unacked} \cup Records("q-") \cup ToSet(arrived)
            \cup {e.value : e \in Doing("put")} \cup {e.msg : e \in Doing("deliver")} \cup caught

\* A QoS 2 message arrives at most once, unless a crash caught it between
\* messageArrived and the removal of its record.
ArrivedOnce ==
    \A i, j \in DOMAIN arrived :
        arrived[i] = arrived[j] /\ arrived[i].qos = 2 /\ arrived[i] \notin caught => i = j

(***************************************************************************)
(* Messages under way are restored in the order in which they were         *)
(* started, also if their ids began again at 1 between them.  This holds   *)
(* of the first crash; then msgID is 0, and ids do not follow each other.  *)
(***************************************************************************)
RestoredInOrder ==
    crashes <= 1 /\ ~reused =>
        LET at(i) == SelectLastInSeq(started, LAMBDA m : m = outboundMsgs[i].msg)
        IN \A i, j \in DOMAIN outboundMsgs : i < j => at(i) < at(j)

\* No two messages under way have the same id: MQTTAsync_assignMsgId is to make
\* sure that an id is not already being used.
UniqueIds == \A i, j \in DOMAIN outboundMsgs : outboundMsgs[i].id = outboundMsgs[j].id => i = j

(***************************************************************************)
(* However often the process ends, what MQTTAsync_send accepted is         *)
(* published in the end, and what the broker has for the application       *)
(* arrives - unless a crash caught it, or an id was given twice.           *)
(***************************************************************************)
SentIsPublished ==
    []<>(Accepted \subseteq ToSet(published) \cup caught \/ reused)
IncomingArrives ==
    []<>(\A n \in 1..incoming : \E q \in Qos :
             [to |-> "client", seq |-> n, qos |-> q] \in ToSet(arrived) \cup caught)

\* Wherever the process ends, what was accepted from the application, or
\* acknowledged to the broker, is restored, in order, and with QoS 2 is neither
\* published nor delivered twice - but for what the parts exempt by name.
CrashesLoseNothing ==
    /\ StoreTypeOK /\ StoreMatches /\ SentIsKept /\ PublishedOnce
    /\ ReceivedIsKept /\ ArrivedOnce /\ RestoredInOrder

\* What is stored is published, or delivered, in the end.
StoredGetsThrough ==
    /\ SentIsPublished /\ IncomingArrives
=============================================================================

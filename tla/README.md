# ec2icp in TLA+

ec2icp simulates the internal communication protocol (ICP) of a satellite.
Each subsystem (PC, CAM, EPS, CDHS) is a process, the *subsystem simulator*,
that runs the ICP library against a simulated RS485 bus. The bus is a set of
MQTT topics on a broker. One more node, the *bus node*, arbitrates the ACCESS
line; a *tester* sends the subsystems commands. Every process links the same
copy of the Paho asynchronous MQTT client.

## 1. Inventory

### 1.1 ICP library (`src/icp`)

State: the configuration object `g_conf` (`role`, `destination_received`,
`waiting_for_ack`, `listen_to_all`, receive buffer and position, transmit
buffer with start and end) and the globals `ack_timeout_cnt` and
`icp_update_in_progress`.

Operations: `icp_init_conf_struct`, `icp_init`, `icp_bytes_in`,
`icp_send_data`, `icp_send_packet`, `icp_update` (receive, then transmit, or
count towards the acknowledgement timeout), `icp_notify_acces_active`,
`icp_notify_acces_inactive`, `icp_notify_bytes_out_finished`,
`icp_set_listen_to_all`. It calls back: set, clear and get the ACCESS signal,
output bytes, packet received, packet acknowledged, wrong recipient.

How it works. A node that has a frame asks for the ACCESS line, becomes `TX`
when it gets it, outputs the frame and waits. Every other node becomes `RX` at
the first ACTIVE of another; the first bytes decide whether it stays `RX`.
The receiver of a valid frame drives ACCESS INACTIVE, and that *is* the
acknowledgement. The sender of a broadcast drives it INACTIVE itself; so does
a sender whose wait times out.

Hard: two threads write the same object without a lock; the acknowledgement
names no frame; busy-waits in callbacks; the frame's buffer is refilled
whatever is being done with it; 16-bit positions and an 8-bit return value.

Correct when: one node transmits at a time; an acknowledgement is for a frame
its destination has; a frame reaches its destination's host once and no other
host; the line does not stay taken; every wait ends.

### 1.2 Subsystem simulator (`src/subsystem_simulator`) and MQTT glue (`src/mqtt/source/mqtt.c`)

State: globals shared by two threads: `g_access`, `line_is_mine`, `bytes_in`
with `payload_in`, `update_now`, `reset_flag`, `sent`, `connected`.

The *main thread* loops: poll `bytes_in`, poll `update_now` and run
`icp_update`, poll `reset_flag`, sleep a second. Its callbacks publish and then
wait: `while (!sent);`, `while (g_access == ACTIVE);`, ten seconds for a grant.
The *receive thread* of the MQTT client runs `msgarrvd` for every message,
and `onSend` and the connection callbacks.

Hard: what one thread polls the other overwrites; a grant that comes late; a
release that is missed; commands that arrive in the middle of anything.

### 1.3 Bus node (the `N_BUS` branch of `msgarrvd`)

State: its own `g_access`, one `payload`, `update_now`. A request that finds
the line free makes it ACTIVE and the same text is published to everybody; a
request that finds it taken is dropped; any INACTIVE releases it. Its main
program is not in the repository.

### 1.4 Tester (`src/tester`)

Publishes commands: ping (hand a frame to ICP), update, stopupdate, reset and
some that do not touch the protocol. No state the protocol depends on.

### 1.5 The MQTT client (`src/mqtt/source`, Paho C)

| part | state | operations, and what is hard |
|---|---|---|
| MQTTAsync.c | handles, command queue, response lists, pending connect and disconnect | API calls, send thread and receive thread over one queue; connection loss in between; several servers and versions to try |
| MQTTProtocolClient.c, MQTTProtocolOut.c, Clients.c | per client: in and out message lists, message ids, ping state | QoS 1 and 2 exchanges, retry, keepalive; duplicates and losses across reconnects; id wrap |
| MQTTPersistence.c, MQTTPersistenceDefault.c | a record per message or command, a file per record | put, remove, restore after a restart; an end of the process between any two of them, or inside one; wrap of ids |
| MQTTPacket.c, MQTTPacketOut.c, utf-8.c | none | encoding and decoding; remaining length, UTF-8; buffers of the computed length |
| Socket.c, SocketBuffer.c | lists of sockets, pending writes, partial reads | interrupted writes, reads in pieces; select without a mutex while another thread opens and closes |
| Tree.c, LinkedList.c, Heap.c | containers, allocation records | red-black balancing, current pointers, accounting under a mutex |
| Thread.c | mutexes, condition variables, semaphores | timed waits |
| MQTTClient.c | one client, a background thread, four semaphores, one slot for a packet | calls that wait for the broker; connectionLost on a third thread |
| Log.c, Messages.c, StackTrace.c | trace buffers | output only |

Correct when: QoS 2 messages arrive once and QoS 1 messages at least once, in
order; a callback is called for every call, once, and not before what it
reports has happened; a lost connection is noticed and made again; nothing
acknowledged is lost, whenever the process ends; two exchanges never share an
id; a byte stream is what was written to it; a container is the set or the
sequence it stands for.

MQTTClient.c, SSLSocket.c and MQTTVersion.c are filtered out of the build by
both Makefiles.

### 1.6 How they interact

    host, tester --ping, update--> simulator --request, release--> bus node
        ^                            |   ^                            |
        |                          bytes |<------ ACCESS text ---------+
     packet, ack                     v   |
        +------------------------- all simulators

Everything between two processes is an MQTT message; everything within one is
a shared global or a callback. Messages of one publisher arrive in order;
those of different publishers in any order.

## 2. Modules

| module | models | of the source | section |
|---|---|---|---|
| IcpBus, MCIcpBus | the whole ICP bus: nodes, their two threads, bus node, broker | icp.c, main.c, mqtt.c | 3 |
| IcpBus_proofs | proofs: types, right recipient, no packet is delivered twice; mutual exclusion on the line, what an acknowledgement means, no frame is discarded by the node it is addressed to | | 13.1-13.3 |
| IcpNode | one node, cut at each access its two threads make to what they share | icp.c, main.c, mqtt.c | 4 |
| IcpNode_proofs | proofs: header and data of what is received, and what is sent, are whole | | 13.4 |
| MqttDelivery, MCMqttDelivery | QoS 1 and 2 exchanges, ids, queue, both threads, retries, reconnects | MQTTAsync.c, MQTTProtocolClient.c, MQTTProtocolOut.c | 5 |
| MqttDelivery_proofs | proofs: types, and what a connection can have in flight | | 13.5 |
| MqttExchange_proofs | proofs: onSuccess is true, QoS 2 messages once each way, nothing acknowledged is lost; in the nodes' session a callback is about its own message, though ids come round | | 13.6, 13.7 |
| MqttOrder_proofs | proofs: messages keep their order, both ways | | 13.6 |
| MCNodeThreads | IcpNode, and the client under it | | 4, 5 |
| MqttConnect | the calls that are not about messages: connect, disconnect, subscribe | MQTTAsync.c | 6 |
| MqttConnect_proofs | proofs: a call is replied at most once and truly, a lost connection is reported once | | 13.10 |
| MqttStore | what an asynchronous client keeps when its process ends | MQTTPersistence.c, MQTTAsync.c, MQTTProtocolClient.c | 7 |
| MCMqttStore | both | | 6, 7 |
| MqttSync, MCMqttSync | the calls of the synchronous client that wait | MQTTClient.c, Thread.c | 8 |
| MqttSync_proofs | proofs: what a call that waited returns is true | | 13.9 |
| RBTree, Dictionary | the red-black tree, and what it promises | Tree.c | 9 |
| LinkedList, Sequence | the linked list, and what it promises | LinkedList.c | 9 |
| Heap | the tracked heap, with Dictionary for its tree | Heap.c | 9 |
| SocketIO | waiting for sockets, writing to them | Socket.c, SocketBuffer.c | 9 |
| MCLibrary | RBTree, LinkedList, Heap and SocketIO | | 9 |
| MqttPacket, MqttRecord, UTF8, Codec | encoders, decoders, records, validation as operators | MQTTPacket.c, MQTTPacketOut.c, MQTTPersistence.c, utf-8.c | 10 |
| PacketReader | reading packets from several sockets | MQTTPacket.c, Socket.c, SocketBuffer.c | 10 |
| FileStore | the files of the default store | MQTTPersistenceDefault.c, MQTTPersistence.c | 10 |
| FileStore_proofs | proofs: what is restored was put, and what was put is found | | 13.8 |
| MCPackets | PacketReader, Codec and FileStore | | 10 |

How they fit. IcpBus takes the MQTT client as an external, in-order, reliable
channel, which is what the library gives over one open TCP connection;
MqttDelivery says what happens to messages when the connection is lost, and
MqttStore what happens to them when the process ends. IcpBus runs a message
handler in one step and has many nodes; IcpNode runs one node in single
accesses and takes the rest of the bus as arbitrary. MqttDelivery and MqttStore
take packets as whole, which PacketReader and SocketIO are about, and a record
as put or not put, which FileStore is about. Heap uses Dictionary, which RBTree
is shown to implement.

A module MC... that takes several components starts each behaviour in one of
them (`part`) and leaves the others alone: they share no variable of the code.
The components are put together so that a run explores the sum of their states,
not the product.

A property named in a configuration is often the conjunction of named parts,
such as `StreamsAreWhole /\ CompleteIsWritten`; the parts are stated one by
one in their module, each with the words of what it says. For each part the
module has at least one *fault*, an operator that differs from the code's by
one plausible mistake and with which that part fails.

Still to prove, of what the provers can do: the invariants of what persists
(MqttStore), of the sockets (SocketIO, PacketReader), and of Heap, its mutex
first; that the steps of LinkedList are steps of Sequence.

## 3. Module IcpBus

### 3.1 State

| code | module |
|---|---|
| mqtt.c `g_access`, `line_is_mine`, `update_now`, `reset_flag` | same names, a function of the node |
| mqtt.c `bytes_in` and `payload_in` | `payload_in`; `NoFrame` stands for `bytes_in == FALSE` |
| icp.c `g_conf`: `role`, `destination_received`, `waiting_for_ack`, `listen_to_all` | same names |
| `rx_buffer`, `rx_buf_pos` | `rx_buffer`, the sequence of chunks appended since the last flush |
| `tx_buffer`, `tx_buf_start`, `tx_buf_end` | same names, the bytes abstracted to the frame, the positions kept |
| `ack_timeout_cnt` | same name; a global that no reset touches |
| program counter of the main thread, the return value `bytes_out_cb` computed on entry, the packet found valid | `pc`, `array_len`, `packet` |
| the bus node's `g_access`, and `payload` with `update_now` | `bus_access`, `bus_payload` |
| MQTT topics | `bus_in[n]`, signals of n not yet seen by the bus node; `inbox[n]`, messages not yet seen by n |

A *chunk* is the payload of one RS485 message: a whole frame, or `Junk`, the
tail of one, which is sent when a frame replaces another between output and
`tx_buf_start +=`. No checksum matches a tail; what its first byte is compared
with `local_mac_addr` gives is chosen freely. The history variables (`pings`,
`commands`, `on_air`, `host_in`, `acked`) are read by properties and bounds, and
by `Timely`, below.

### 3.2 Actions

| actions | code |
|---|---|
| `RecvGrant`, `RecvForeignActive`, `RecvActiveIgnored`, `RecvInactive`, `RecvFrame` | `msgarrvd`, ACCESS and RS485 topics, with `icp_notify_acces_active` and `_inactive` inside |
| `Update`, `StopUpdate`, `Reset`, `Ping` | `msgarrvd`, the tester's commands; `Ping` is `icp_send_data` |
| `SetListenToAll` | the host calls `icp_set_listen_to_all` |
| `BusGrant`, `BusRefuse`, `BusRelease`, `BusReset`, `BusPublish` | the `N_BUS` branch; `BusPublish` is external |
| `BytesIn` | main loop, `icp_bytes_in` |
| `Acknowledge`, `AckSpin`, `DeliverAcked`, `DeliverUnacked`, `NothingReceived` | `icp_update`: `icp_process_rx_buffer` |
| `NothingSent`, `RequestLine`, `LineReserved`, `LineBusy`, `BytesOut`, `SentToOne`, `SentToAll`, `BroadcastSpin`, `BroadcastDone` | `icp_process_tx_buffer`, `icp_set_access_sig_cb`, `icp_bytes_out_cb`, `icp_notify_bytes_out_finished` |
| `KeepWaiting`, `AckTimedOut`, `TimeoutSpin` | the end of `icp_update`, `icp_ack_timeout` |
| `NoUpdate`, `Reinit` | the rest of the turn, `goto reset` |

The main thread is cut where it waits for the other thread: at the top of a
turn, before the role is tested after reception, in each busy-wait and after
it, in the ten-second poll for the grant, and while the broker confirms the
bytes. Between two such points it runs in one action.

### 3.3 Decisions

* A publish is accepted by the broker at once. Messages of one publisher keep
  their order; signals of different nodes reach the bus node in any order.
  RS485 bytes are put into every inbox by `BytesOut`, those of the sender too:
  everybody subscribes to the topic.
* A message handler is atomic. What can happen in the middle of one is the
  subject of IcpNode.
* The test of `bytes_in` that finds nothing is no step of its own, and
  `reset_flag` is tested with the end of the turn: both only read, and what
  happens in between commutes with them.
* `tx_buf_start += bytes_out_cb(...)` reads `tx_buf_start` after the callback,
  so a frame handed to ICP during the callback is skipped by as many bytes as
  the earlier one had. `Advance` does that.
* The bus node's main program is not in the repository. It is taken to publish
  `payload` and clear `update_now`, as the code in msgarrvd expects.
* The code accepts no frame to BROADCAST: `icp_bytes_in` compares the first
  byte with `local_mac_addr` only, so every receiver drops it, though icp.h
  lists broadcast as a destination. The sender's side is modelled in full.
* Clock, printing, `GPINTL`, `SHUDUP`, time, sync, set and clean are left out:
  the protocol reads nothing they write.

### 3.4 Timing

The code waits by the second and the broker answers in milliseconds, but nothing
enforces it. The constant `Early` names the timers that may run out before the
message they wait for: the poll for the grant, the acknowledgement timeout, the
wait for the broker's confirmation, the poll for bytes, and so on (listed at
`Timely`). The poll for bytes has two halves. A main thread in its loop takes
them within a second; one that waits in `icp_set_access_sig_cb` looks at
`g_access` every second, returns when another's transmission made it ACTIVE, and
takes them then. A property is checked with `Early = {}` when it needs the
assumption and with the largest set it holds for otherwise. What exploring the
others showed:

* with a reset (`MaxCommands = 1`), `OneTransmitter`, `AckMeansDelivered`,
  `NoIdleHold`, `ReceiverServesHolder` and `FrameIsHeard` do not hold: a node
  reset while it holds the line leaves the bus node and the others out of step;
* `FrameIsHeard` fails as soon as any of `ack`, `puback`, `poll`, `ping` or
  `pulse` may be early;
* `FrameLeaves` fails with `grant`: a late grant is never given back.

## 4. Module IcpNode

One subsystem simulator. The main thread and the receive thread of the MQTT
client share the globals of mqtt.c and `g_conf` without a lock; the Makefiles
compile with `-g` and without optimisation, so every access in the source is
made. IcpNode has a step for each access to what is shared.

| code | module |
|---|---|
| globals of mqtt.c: `g_access`, `line_is_mine`, `payload_in`, `bytes_in`, `update_now`, `reset_flag`, `sent` | record `g` |
| `g_conf`, `ack_timeout_cnt` | record `conf`, with both buffers byte by byte and their positions |
| the main thread: statement and locals | `main`: `at` names the statement, `back` where a wait returns to |
| the receive thread inside `msgarrvd` | `receive` |
| the line, the texts to the bus node, publications that are not confirmed (external) | `bus` |

| actions | code |
|---|---|
| `Main` | main.c's loop with `icp_update`, `icp_bytes_in` and the callbacks |
| `Handler` with `Arrival` | `msgarrvd` for ACCESS (`Granted`, `OtherActive`, `Released`, `OtherInactive`), RS485 (`BytesArrive`, `WritePayload`, `FlagBytes`) and the commands; `Ping`, `WriteTx`, `EndTx` are `icp_send_data` |
| `OnSend` | `onSend` of mqtt.c, on a thread of the library |

Properties: `ReceivedWhole` (`PacketsAreFrames`: the host gets the header and
data of a whole frame, though `payload_in`, `rx_buffer` and `tx_buffer` are
overwritten and flushed while they are read, and its checksum unless a flush
came before that was read for the packet, `ReadChecksum`; `BytesAreTaken`:
clearing `bytes_in` loses no message; positions stay inside), `SentWhole`,
`GrantedIsReleased`, `JunkIsFlushed`. The last two are about progress, with what
the code gets wrong named in them: `seen.overlooked`, `At("undefined")`.

Abstractions. A byte is a frame and a place; place 1 is the header and the last
is the checksum, which matches no other bytes, so CRC collisions are left out.
A frame that is torn is cut between the header and the rest. All frames are
equally long. The two bytes of a length or a checksum are read at once. A flush
(memset and position), the test and write of `role` in
`icp_notify_acces_inactive`, and a reset are one step each; the ten-second poll
outlasts any message handler. The rest of the bus may publish whatever it could.

## 5. Module MqttDelivery

### 5.1 State

| code | module |
|---|---|
| MQTTAsync.c `commands`, `MQTTAsyncs.responses` | same names |
| `MQTTAsyncs.connect...MQTTVersion` | `version`: 0 untried, 4, 3 |
| `Clients.connected`, `connect_state`, `msgID` | same names; state 3 stands for 1 and 2 too, the TCP connect in progress |
| `outboundMsgs` with `nextMessageType`, `inboundMsgs`, `messageQueue` | same names |
| what `MQTTAsync_cycle` has returned to `MQTTAsync_receiveThread` | `pack`: a CONNACK, another packet handled already, an error, or nothing read |
| `net.socket` and the connection behind it | `link`: closed, open, or broken and not yet noticed |
| packets in flight | `to_broker`, `to_client` |
| the broker (external) | `b_up`, `b_received`, `b_unacked` |

A message is a number, in the order of sending, and a quality of service.

### 5.2 Actions

| actions | code |
|---|---|
| `Send` | `MQTTAsync_send`, `MQTTAsync_assignMsgId` |
| `StartConnect`, `CannotConnect`, `LoseConnection`, `NothingToLose`, `PublishCommand`, `PublishFails` | send thread, `MQTTAsync_processCommand`; `LoseConnection` includes `closeSession` and connlost's reconnect |
| `ConnectTimeout` | send thread, `MQTTAsync_checkTimeouts` |
| `RecvPublish1`, `RecvPublish2`, `RecvPubrel`, `RecvStrayPubrel`, `RecvPubrec`, `RecvPuback`, `RecvPubcomp`, `RecvPingresp`, `RecvConnack`, `ReadFails` | receive thread, one `MQTTAsync_cycle` with its handler |
| `TurnEnds`, `ConnectionComplete`, `ConnackUnexpected`, `TurnFails`, `TurnLost` | receive thread, the rest of its turn: the message queue, then the CONNACK, or the error |
| `PingTimeout`, `RetryTimer` | `MQTTAsync_retry` |
| `Broker...`, `Break` | external: a broker that keeps sessions as MQTT prescribes, a network that loses what is in flight when a connection breaks |

### 5.3 Decisions

* Both threads hold `mqttasync_mutex` while they work, so a command and a
  handler are one action each. The receive thread lets go of it between
  `cycle` and the rest of its turn and then finds its client by socket number.
  `StartConnect` keeps `pack` if the new socket has the number of the old one
  (the lowest free number, hence the usual case) and clears it otherwise.
* The application reconnects from `connectionLost`, as `connlost` of mqtt.c
  does, and `messageArrived` may refuse a message (`MaxRefusals`).
* A write to a broken connection may succeed or fail. The broker accepts every
  CONNECT; a refusal ends like `ConnectTimeout`.
* Left out: QoS 0, subscriptions, interrupted writes, several server URIs and
  the application's own `MQTTAsync_disconnect` (MqttConnect has them),
  persistence (MqttStore), TLS. `connect_state` -2 is left in the action that
  sets it, since the internal disconnect has a timeout of 0.

Other bounds showed that `SuccessMeansPublished` needs ids that do not come
round while a repeated answer is in flight: with 4 messages, 3 ids and one
retry a second PUBACK completes the next message with that id. With 65535 ids
this takes a very late answer. `UniqueIds` fails in a kept session with the
same bounds and one break: a publish fails at the write, its message will be
repeated after reconnecting, but `assignMsgId` does not look for its id there.
`IncomingCompletes` needs a broker that sets dup on a repeated PUBREL
(`PubrelDup`), as in MQTT 3.1; under 3.1.1, which the client tries first, such a
PUBREL is never answered.

## 6. Module MqttConnect

| code | module |
|---|---|
| `MQTTAsyncs`, its `Clients`, its queue and response lists, and the connection | record `handle` |
| what `MQTTAsync_cycle` has returned | `received` |
| the application: the calls it made, and the callbacks it got for each | `app` |
| `MQTTAsync_connectOptions` | `options`, one of `ConnectOptions` |

Each function of the code is an operator from the state to the state
(`closeOnly`, `checkConn`, `NextAttempt`, ...), which a command or a handler
applies in the code's order. `SendTurn` is a turn of the send thread,
`ReceiveTurn` one of the receive thread, in the two halves between which it
lets go of the mutex. `ConnectTimesOut` and `KeepaliveEnds` are the checks of
`MQTTAsync_checkTimeouts` and of keepalive. The server refuses, and the network
breaks, up to `MaxFaults` times.

Four kinds of behaviour are followed only to where they begin (`ended`), since
the code's state is undefined or wrong from there on; section 15 lists them:
`overrun`, `freed`, `undone`, `stale`.

Properties: `CallsAreTold` (no call is replied twice; onSuccess of a call is for
the broker's acceptance of that call; onFailure of a connect comes only after
every server was tried; every lost connection is reported; no CONNECT meets a
client that is connecting), proved in 13.10, and `CallsAreAnswered`.

## 7. Module MqttStore

A handler works under the mutex, so memory changes at once; what others see of
it, records put and removed, packets sent, `messageArrived` called, is done
step by step in the code's order (`todo`, taken by `Perform`). The process may
end between any two steps (`Restart`), and `MQTTAsync_create` restores what the
store has (`Restored...`): messages in both directions, commands, and the queue
for the application.

Properties: `CrashesLoseNothing` and, with fairness, `StoredGetsThrough`. Their
parts exempt messages in `caught`, which a crash caught at a moment the code
has no answer for, and ids that were given twice, `reused` (section 15); all
other moments are covered. `RestoredInOrder` holds of the first crash.

## 8. Module MqttSync

The application's thread, the thread that calls `connectionLost`, and the
background thread `MQTTClient_run`, with the four semaphores and the one slot
`m->pack` for the packet. `caller` says for each of the first two which call it
is in and what it waits for. A wait can time out while its answer is under way,
up to `MaxLate` times.

Properties: `WaitsAreTrue` and `CallsEnd`. `mixed`, `outrun` and `surplus` mark
behaviours in which a part does not hold, each a finding of section 15. The
application is taken not to connect on one thread while a connect on the other
goes on, or still waits for the background thread to end (`Connect`); that
`connectionLost` connects while another call waits is what `mixed` marks.

## 9. Module MCLibrary

RBTree: one index as in Heap.c. An action is a call, or one iteration of the
loop that balances. `IsDictionary` is a refinement: with
`items <- [k \in Present |-> node_size[k]]` every step is a step of Dictionary or
leaves the items alone, so no rotation loses an item on the way.
`BalancingEnds`: each iteration starts nearer to the root. `TreeIsSound` has
the colours, the counts and the walk. `RedBlack` leaves out trees in which an
item was replaced: `TreeAdd` of an equal item balances the tree as if a node had
been added in its place.

LinkedList: pointers `next` and `prev`, elements allocated and freed.
`IsSequence` refines to Sequence, `ListIsSound` says that both ways through the
list agree and that no freed element is `current`.

Heap: threads call, lock, and run; the tree is Dictionary. `HeapIsSound`: what
is tracked is what is allocated, under its present address, and a thread that
returned does not have the mutex, unless the allocator failed.

SocketIO: the receive thread's `Socket_getReadySocket` in its steps, without a
mutex, against the send thread that opens, writes and closes. An iteration over
`clientsds` is cut where it reads `s.cur_clientsds`: the test for NULL (`Look`),
`isReady` (`Use`), the socket that is returned (`Ready`), and `ListNextElement`
(`Advance`). A close has two parts, before the element is removed and freed
(`SendCloses`) and that (`SendCloseEnds`), so that each of these steps may come
between them. Where a close takes away what the iteration has read, the outcome
is undefined in C: `at = "undefined"`, and the behaviour ends. Other operations
on a list are one step, and no close comes within `Socket_continueWrites`.
`connecting` are the sockets whose connect is in progress; when it completes
MQTTAsync.c calls `Socket_clearPendingWrite` and sends CONNECT.

`WritesAreSound`: each byte stream is a prefix of what was accepted for it, and
the whole of it if no write is pending; a packet is complete only when written;
select watches every pending write and every pending connect; the iterator,
which lives from one call to the next, is on a listed socket whatever was closed
and opened in between, and comes to be undefined only if a close and an iteration
met (`overtaken`). `PendingWritesEnd`: every interrupted write ends, where the
code is defined.

## 10. Module MCPackets

Codec: encoders and decoders against each other and UTF-8 validation against a
definition of UTF-8, over all texts, options, lists of topics and lengths of
the bounds. The base of the remaining length is a constant; with base 4
lengths of all sizes, and the limit, are met below 70.

PacketReader: each call of `Socket_getch` and `Socket_getdata` is an action;
bytes arrive in between, on several sockets, and the server may close anywhere.
What was read of an unfinished packet is kept in the socket's own queue
(`NoByteLost`) and read again from its first byte.

FileStore: a put writes byte by byte; the process may end in it, and the disk
may be full. `FilesAreWhole`: what is restored was put, and what was put is
found. A put that succeeded is forgotten when the record is removed, when a
restart finds it an orphan, or no packet because only fclose met the full disk.

## 11. Runs

### 11.1 IcpBus

Every run of IcpBus uses frames of two bytes to a node and of four to BROADCAST,
so that the tail of a longer frame can follow a shorter one, two frames in all
(`MaxPings`), a timeout after one update (`AckTimeout = 1`) and at most two
signals of a node under way. Two frames are what the properties compare: an
acknowledgement, a timeout or a delivery meant for the first is mistaken for one
of the second. `MaxRequests` bites only where `grant` may be early; otherwise a
node waits for its request.

| run | shows |
|---|---|
| `bus_timely` | Three nodes, two of them asking for the line, `Early = {}`: `OneTransmitter`, `AckMeansDelivered`, `NoIdleHold`, `ReceiverServesHolder`, `FrameIsHeard`. The nodes the tester sends nothing to are symmetric. |
| `bus_untimely` | Two nodes, one of which may listen to all, every timer early: `TypeOK` and `DeliveredOnce` need no assumption about time. |
| `bus_commands` | One reset, stopupdate or bus reset at any moment, and a node that may listen to all: `RightRecipient`. |
| `bus_live` | Fair, with late acknowledgements and missed INACTIVE pulses: `LineReleased`, `FrameLeaves`, `SpinEnds`. |

One run finds the code to disagree with what its comments say:

| run | what the counterexample shows |
|---|---|
| `bus_false_ack` | The frame is received, but the update that exhausts `ack_timeout` comes before the acknowledgement does. The sender gives up, sends its next frame, and the late INACTIVE acknowledges that one, which nobody has. icp.h calls the callback the notice that the ACK "for last frame has been received". |

A deadlock is checked in these runs: the tester's update is always possible
again, so none is expected.

### 11.2 The rest

| run | bounds | shows |
|---|---|---|
| `node_safety` | node: frames of 3 bytes, buffers of 4, the traffic of `SomeTraffic`, a timeout after one update; client: kept session, 2 messages out, 2 in, 2 breaks, 2 refusals | `ReceivedWhole`, `SentWhole`, `ExchangedOnce`, `SuccessMeansPublished`, `OrderIsKept`, `AckedIsKept` |
| `node_live` | node: the same with frames of 2 bytes, fair; client: clean session, 5 messages, 4 ids, 1 break | `GrantedIsReleased`, `JunkIsFlushed`, `OwnCallbacks` |
| `mqtt_live` | kept session, 1 out, 1 in, 2 breaks, 2 refusals, 1 retry, fair | `EverySendAnswered`, `IncomingIsServed` |
| `store` | store: 2 messages out, 1 in, 2 troubles, 4 ids from 3 on; calls: 4 calls, 3 faults, one server and version or two of each | `CrashesLoseNothing`, `StoredGetsThrough`, `CallsAreTold`, `CallsAreAnswered` |
| `sync` | 2 calls, 2 connections, 1 message in, 1 trouble, 1 late answer, with callbacks and without | `WaitsAreTrue`, `CallsEnd` |
| `library` | tree of 6 keys; list of 4 elements; 2 threads, 3 blocks; 2 descriptors, packets of buffers 2 and 1 | `TreeIsSound`, `IsBalancedDictionary`, `ListIsSound`, `IsSequence`, `HeapIsSound`, `WritesAreSound`, `PendingWritesEnd` |
| `packets` | 2 sockets, 2 packets, 3 connections; texts of 4 bytes of 14; lengths to 70; 3 puts, 2 faults | `ReadsAreWhole`, `PacketsArrive`, `CodecIsFaithful`, `FilesAreWhole` |

Why these bounds. A break, like a connect that times out, may come anywhere; two
of them are what it takes to interrupt the repetition of an interrupted
exchange. Two messages are what it takes to confuse or reorder them, two
refusals what it takes for a message to stay in the queue beyond the turn that
put it there, five messages with four ids what it takes for ids to come round
while an exchange is still going on. Ids that start at 3 of 4 wrap between the
two messages of `store`. Six keys are what it takes for every case of the tree's
two balancings; three blocks for a reallocation that moves beside another
thread's block. Two sockets with three connections are what it takes for a
number to be used again while the other has an unfinished packet. The 14 text
bytes are the ends of every range of utf-8.c. A frame of three bytes has a place
of its own for the data, copied before the checksum is read; for progress header
and checksum are enough. A buffer of 4 bytes takes one frame of three and not
two; with frames of two, a byte of junk in it makes the second not fit. The five
kinds of traffic are separate, since two frames, a listener and commands at once
do not fit into memory.

`AckedIsKept` is not claimed for clean sessions, which discard the message
queue by design. These systems stop when their bounds are used up, hence no
deadlock check; what must go on is stated as liveness.

`PROJECT.json` lists for each property definitions of the code changed as a
plausible mistake would change them, with which the run fails.

## 12. Fairness

`FairSpec` of IcpBus assumes weak fairness of each thread of each node, of the
bus node's two parts and of the tester's `Update`. The threads are threads of a
running process and never disabled for good except by waiting on each other,
which is what the liveness properties are about; the broker delivers what it
accepted; `Update` is a person at the tester (or the clock of an on-board
computer), and without it no node does anything at all. No fairness is assumed
for `Ping`, `Reset`, `StopUpdate` and `SetListenToAll`.

No strong fairness: that a node is not starved of the line (`FrameLeaves`) is
checked to follow from weak fairness, with the two frames of the bound.

`FairSpec` of MqttDelivery assumes weak fairness of the send thread, of the
receive thread and of the broker's handling of packets. Both threads loop until
the client is destroyed, with a wait of at most a second. The receive thread's
turns include the PINGRESPs, which keepalive brings about every 20 seconds.
Connections need not break, so a run has a connection that lasts in the end.

IcpNode: weak fairness of the main thread, of a handler that has begun, and of
onSend. Strong fairness of what comes from outside and is only possible now and
then: the tester's update, while the main thread is where an update is not
wiped out; the grant or release for a text that the node has sent; and other
nodes' use of the line, which starts and ends a reception.

MqttStore and MqttConnect: weak fairness of what is in progress, of both
threads' turns and of the broker's answers. Refusals, breaks, crashes and
timeouts have none. MqttSync: weak fairness of each thread, and of the
network's answers; a wait always can time out.

SocketIO: weak fairness of the receive thread and of a close that has begun;
strong fairness of select finding a socket writable and of a write then taking a
byte, which TCP gives as long as the peer reads. PacketReader: bytes that were
sent arrive (weak), a socket that is ready again and again is served (strong,
for `Socket_getReadySocket` goes round its list), a read goes on (weak).

## 13. Proofs

TLC checks small instances; the theorems below hold for every set of nodes,
every length of frames, buffers and timeouts and every bound. Their assumptions
on constants are `BusAssumption` and `MarkersAreNoFrames` of IcpBus (the
constants have their types, a frame has at least two bytes, and the two markers
are not frames) and `NodeAssumption` of IcpNode (a frame has at least two bytes
and is shorter than the buffer) and `DeliveryAssumption` of MqttDelivery (the
bounds are numbers, and there are at least two ids) and `StoredAssumption` of
FileStore (a record is bytes, and a packet's record decodes to it) and
`SyncAssumption` of MqttSync (the bounds are numbers) and `ConnectAssumption` of
MqttConnect (the options have their types, a request is of a kind the client
has, and the bounds are numbers). TLC evaluates them in the runs of these
modules. Each invariant was checked by TLC on the instances of section 11 before
it was proved.

### 13.1 Whatever the timing: IcpBus_proofs

For every `Early`, and with any commands of the tester:

* `TypeCorrect`: `Spec => []TypeOK`. TypeOK is not inductive: `DeliverAcked`
  appends `packet` to what the host got and `BytesOut` publishes `tx_buffer`,
  and that these are frames there follows only from where the main thread is.
  `InvType` adds `Held`, which says what `packet` and the transmit buffer hold
  at those points. That the timeout counter stays within `AckTimeout` is part
  of `TypeOK` and uses the guard of `KeepWaiting`.
* `RecipientCorrect`: `Spec => []RightRecipient`. The code tests the address
  once, on the first bytes after the line became ACTIVE, and takes everything
  else on trust. The inductive invariant `Addressed` says why this is enough:
  for a node that does not listen to all, `rx_buffer` is empty or *starts* with
  a chunk that passed the test, a node that is `RX` with `destination_received`
  set has a nonempty buffer, so nothing foreign can come to stand at the front,
  and validation only ever takes the frame at the front.
* `DeliveredOnceCorrect`: `Spec => []DeliveredOnce`. `OnceInv` follows a frame
  through the places of a node: on its way, in `payload_in`, kept in `rx_buffer`
  or `packet`, given to the host. It is never in two of them (`Placed`), a
  packet is held only around the spin of its acknowledgement (`PacketHeld`), and
  a transmit buffer whose frame is still to be sent from its first byte holds
  one that is nowhere yet (`SentOnce`). A frame that is replaced while it is
  sent leaves a tail, which is `Junk`, not the frame again.

### 13.2 The line: IcpBus_proofs

Four of the seven timing assumptions, no reset and no listeners: that is
`OnTime`. Signals do not overtake each other at the bus node (`slot`), an
acknowledgement is not awaited too briefly (`ack`) and does not overtake the
broker's confirmation (`puback`), the host hands over one frame at a time
(`ping`). Without `ack`, `puback` or `ping` TLC finds a counterexample to
`ReceiverServesHolder` or `AckMeansDelivered` on two nodes. Without `slot` it
finds none to the four properties (two nodes and three pings, three nodes and
two), but it soon finds one to the invariant: a release that is overwritten
leaves the node that held the line with `line_is_mine` while the next one is
granted it, and only what that node happens to be waiting for keeps it silent.
The proof does not follow that, and assumes `slot`.

The right to transmit is a token. `BusGrant` creates it; it travels as the text
ACTIVE to the node it names, and every other node sees the same text; it stays
there as `line_is_mine` until a text INACTIVE is on its way to that node. `Live`
says that a node has it or that it is coming; `Granted` says that no two nodes
are live and that the bus node's `g_access` is ACTIVE while one is. What makes
this inductive is the other half: an INACTIVE that reaches the bus node while a
token is fresh would let a second one be created. `Releases` says that at most
one INACTIVE is on its way to the bus node, and only if the owner's hold comes
to its end, either because its destination has the frame it waits for
(`Received`), or because it has broadcast or given up. That in turn needs:

* `Served`: a frame that is on its way to its destination or lies there
  unacknowledged is the one its sender waits for with the line in its hands, and
  nobody has published a release;
* `Overdue`: a sender whose next update makes it give up has nothing in flight;
* `Senders`: who waits, sends or asks has the role and the line that go with it;
* `Buffered`, `NoTails`: a transmission starts at the first byte and leaves the
  transmit buffer empty, so no tail is ever published;
* `Signals`, `Quiet`: the payload of the bus node agrees with its `g_access`,
  every signal carries its publisher's name, no reset is under way.

From `LineInv`, their conjunction, follow `OneTransmitterCorrect`
(OneTransmitter), `ServesHolderCorrect` (ReceiverServesHolder), and with the
acknowledgements seen so far `AcksMeanDelivered` (AckMeansDelivered).
`NoIdleHoldCorrect` (NoIdleHold) also assumes that the poll for the grant
outlasts the request (`grant`); its invariant `Requests` says that a node with
a request under way is still polling.

### 13.3 Every frame is heard: IcpBus_proofs

`FrameIsHeardCorrect` proves the action property FrameIsHeard, with two more of
the timing assumptions, `poll` and `pulse`. A receiver takes bytes on its role,
which the ACTIVE before them has set, so the invariant is about the order of the
messages on their way to a node: ACTIVE comes only behind an INACTIVE or to a
node that knows the line to be free (`Alternate`); an idle bus has told
everybody (`IdleKnown`); while a node that was granted the line has not sent,
its ACTIVE is the last message to everybody else, or they are listening
(`Announced`); a frame follows at once on the ACTIVE of its sender, or finds its
destination listening, and no INACTIVE comes behind it before it is acknowledged
(`Ahead`).

The attempt to prove this found the assumption `poll` too weak (15.1).

### 13.4 Both threads of a node: IcpNode_proofs

For any traffic, with resets and pings at any time and the two threads
interleaved at every access:

* `Receptions`: `NodeSpec => []ReceivedWhole`. Positions stay inside the
  buffers, no message's flag is lost, and the header and data of what the host
  is given are those of one whole frame. The receive thread may flush
  `rx_buffer` while the main thread copies it. The invariant `Copying` says that
  what has been copied agrees with `rx_buffer` or `rx_buffer` has been flushed
  since, which the checksum over `rx_buffer` finds out; behind that check header
  and data are a frame's whatever happens to the buffer (`Summed`). icp.c:437
  then reads the checksum again, for the packet: it is the frame's, or that of a
  flushed buffer (`Unsummed`), and in that case nothing is in `rx_buffer` until
  the packet is given (`Whole`). `Storing` and `Transmitting`, inside the type
  invariant, bound the positions that one thread adds to while the other resets
  them.
* `Transmissions`: `NodeSpec => []SentWhole`. As long as no ping came at the
  wrong time (`seen.pinged`), the bytes between `tx_buf_start` and `tx_buf_end`
  are one frame from the first byte on, and a ping that is being written shows
  none of its bytes (`Transmission`).

### 13.5 Types of the exchanges: MqttDelivery_proofs

`TypeCorrect`: `Spec => []TypeOK`, for both kinds of session and all bounds.
TypeOK is not inductive. The message a PUBREL makes the client deliver is the
stored one, but the id it is answered with is the broker's; so `TypeInv` adds
the types of the packets in flight, and of what the broker owes. The broker
takes an id that none of its messages has: that there is one needs
that it owes at most as many messages as it has begun, each with an id of its
own (`Owed1`), and that `MaxIncoming + 1` ids are more than they can take
(`Places`, by cardinalities). Finding and removing a list element by id
(`IndexOf`, `Without`) means the first place that matches; that a nonempty set
of numbers has a least one is proved as `Least`, from the library's theorem
that the strict subsets of finite sets are well-founded.

`Linked`, proved beside it, says what a connection can have in flight: only an
open one has a broker at its end, CONNECT is the first packet and the only one
before the broker has seen it, and the broker sends nothing before.

### 13.6 Exchanges: MqttExchange_proofs, MqttOrder_proofs

For a session that is kept, any number of messages, breaks, refusals and
retries:

* `SuccessIsTrue`: `Spec => []SuccessMeansPublished`;
* `DeliveredExactly`: `Spec => []ExchangedOnce`;
* `NothingLost`: `Spec => []AckedIsKept`;
* `OrderKept`: `Spec => []OrderIsKept` (MqttOrder_proofs).

All but `NothingLost` assume `KeptSession`: the session is kept, and the application
does not send more messages than there are ids (65535 in the code), so that ids
have not come round. `MQTTAsync_assignMsgId` looks for a free id among the
commands and the responses, and not among the messages under way; 5.3 gives the
bounds with which TLC then finds `SuccessMeansPublished` and `UniqueIds` false.
`NothingLost`, and the halves of `DeliveredExactly` and `OrderKept` that are
about arrivals, are about the broker's ids, and need only that the session is
kept.

*To the broker* (`OutInv`). `Numbered`: wherever a message is, queue, responses,
messages under way, packet, or broker, it has the id it was given, and no other
message has it. `Fresh`: what is queued has never been sent. `PublishedOnce`:
once the broker has published a QoS 2 message, neither it nor a packet has it
any more, and the client is waiting for PUBCOMP, so that a retry or a reconnect
repeats PUBREL and not PUBLISH; behind a PUBREL in flight there is no PUBLISH of
the same id. This is where the order of the packets on the connection is needed,
and a break that loses both. `Acknowledged`: who holds an acknowledgement, a
PUBREC in flight or recorded, or a PUBREL, holds it for a message the broker has
received (`Got`) or published.

*To the application* (`InInv`). An exchange of the broker has at most one packet
in flight, its PUBLISH or PUBREL or the answer to it (`OneToken`): a break takes
all of them, and only a reconnect makes them anew, from what is owed. `Stages`
says for each packet, and for each stored message, what the broker owes under
that id and whether the application has been given the message. `GivenOnce`
follows a message from the store to the message queue and the application: a QoS
2 message is stored or given, not both; one that awaits its PUBREC has not been
given; every message the broker has begun is owed or given. The last is
`AckedIsKept`.

*The order* (`OutOrder`, `BackOrder`). Two messages of one quality of service
are followed, a message of the other may pass. The lists they are in are in the
order of acceptance (`QueueOrder`, `ListOrder`; `OwedInTurn` at the broker), and
a message is taken from the queue only over a connection that is up. On such a
connection each message that is not published is on its way in one of three
packets, PUBLISH, PUBREC, PUBREL, and of two messages the later has its packet
behind the earlier's, or the earlier is a packet further on (`WayOrder`;
`PublishTurn`, `PubrecTurn`, `PubrelTurn`). A break takes all the packets, and
the next connection begins with the lists, sent again from their first element
on (`RepeatedInTurn`), so that the order begins anew there. Messages that
`messageArrived` refuses stay in front of what arrives (`Arrivals`, what was
accepted followed by the message queue, is ordered).

### 13.7 The session of the nodes: MqttExchange_proofs

`CallbacksAreOwn`: `NodeSession => (Spec => []OwnCallbacks)`, for any number of
messages, ids, breaks and refusals. `NodeSession` is what every node asks for
(mqtt.c:208, main.c:304, the tester's main.c:132): a clean session, and the
retryInterval of 0 of `MQTTAsync_connectOptions_initializer` (MQTTAsync.h:696),
with which `MQTTProtocol_retries` returns at once (MQTTProtocolClient.c:561).
Ids may come round here: that `MQTTAsync_assignMsgId` does not look among the
messages under way does no harm in this session.

`OutInv` of 13.6 is of no use: in a clean session messages are discarded, and
what the broker has may be about a message the client no longer knows. The
invariant is `CleanInv`. `Apart`: commands and responses share no id, each
response has its message under way, and each message under way its response, as
long as commands are taken. A publish that fails at the write leaves a message
without a response; a disconnect is then the next command while the client is
connected, and the lists are emptied before it is again. `OneFlight`: at most
one packet is in flight about an id, and then somebody waits for its onSuccess,
so the id is not given again. `Steps`: that packet says how far the exchange is,
at the client (`next`) and at the broker (`WithBroker`, `Published`).
`Receiving`: what the broker has received and not published is about to be
released, so a PUBLISH under an id that comes round is not taken for a
repetition. Most actions take no exchange further (`Calm`): the packets in
flight are some of those before, and if any is left then the lists are as they
were.

### 13.8 Files: FileStore_proofs

`FilesWhole`: `FileSpec => []FilesAreWhole`, for any records that are put,
wherever the process ends in a put and whenever the disk is full. It rests on
one fact of the format (`CutIsNoPacket`): a record that is cut before its last
byte does not decode as a packet, because its remaining length is that of the
whole record; and a cut inside the remaining length leaves none. So what
`MQTTPersistence_restore` accepts is never a beginning. The invariant `FileInv`
says that each file is the beginning of a record put under its key, that no put
that succeeded is under the key of the put that goes on, and, from
`KeptIsFound`, that the others are whole. What is restored concerns packets: the
records of commands and queue entries are not decoded by a length (15.3).

### 13.9 Calls that wait: MqttSync_proofs

`WaitsTrue`: `Spec => []WaitsAreTrue`, for any number of calls, connections,
incoming messages, refusals, breaks and late answers, and both kinds of session.
The inductive invariant, `SyncInv`, was checked by TLC on the instance of the
run. Its parts:

* `ControlInv` says where each thread can be: which places are a connect's, that
  a thread connects only while the client is not connected, that one of the two at
  most connects, and that a client in the middle of a connect has a thread in it.
  `StopInv` adds that a background thread that was not told to stop has a
  connection, or a connect, to run for.
* `LossInv`: a connection that is up is not in `lost`, and every earlier one
  that was up is in `lost` once, or in `closed`. `MQTTClient_disconnect1` looks
  at `connected` before it closes the session, so that the second thread to find
  the connection broken reports nothing.
* `PacksInv` follows a packet from the broker to the thread's hands, `m->pack`
  and the call: of which connection it is, and that a CONNACK of acceptance has
  an acceptance behind it. `ConnectedIsAccepted` follows.
* `ConInv` and `AnswerInv` count. Of CONNECT and CONNACK there is one on a
  connection, on the way or given, and one answer to the subscribe that waits,
  which is its own (`Asking`), and none when no call waits (`Resting`): a call that
  gives up ends the connection before the next one asks, and that is why no
  message id needs to be compared. A semaphore is posted at most once, together with
  the packet.
* `AckInv`: in a kept session an id stands for one message, among what is kept,
  on the way to the broker and in the PUBACKs on the way back; what is no longer
  kept was acknowledged. That MQTTProtocol_retry sends the same messages under
  the same ids is the step in which this could fail.

`mixed`, `outrun` and `surplus` are hypotheses of the parts that name them, as
in the run: with them true the code does the other thing (15.5). Ids do not come
round in MqttSync; that they do is MqttDelivery's subject (13.6).

### 13.10 Calls and replies: MqttConnect_proofs

For all connect options, lists of servers, numbers of calls, refusals and breaks:

* `CallsToldOnce`: `ConnInit /\ [][ConnNext]_connVars` implies always
  `ConnTypeOK`, `ConnectIsTried`, `ToldOnce`, `ToldIsAnswered` and `LossIsTold`,
  without a hypothesis;
* `CallsTold`: the same for `CallsAreTold`, which adds `ServersAreTried`, if options
  with a list of servers leave the version at `MQTTVERSION_DEFAULT`. With a list and
  a given version `MQTTAsync_processCommand` skips the first server (15.2), so that
  `ServersAreTried` is false; the options of the run meet the hypothesis.

As in the run, nothing is said of a behaviour after `ended`.

What an operator of the code does to the state (`closeOnly`, `NextAttempt`, ...) is
stated once as a lemma about any state, and the invariant is an operator of a
state too, so that a handler that applies four of them is followed from one to
the next. The parts of the invariant, `ConnInv`, which TLC checked first:

* `OnceInv` says who will reply to a call: a command in the queue, a response, the
  write that is pending, the disconnect or the connect that is going on, and never
  two of them; whoever will, has not. The outcome of an attempt to connect is
  noticed in five places; each ends the connect it replies to. The response of a
  publish with QoS 0 does not count: the pending write replies to that call, and the
  response may be left behind, since `MQTTAsync_writeComplete` takes another (15.2).
* `TokenInv`: of a connection there is one CONNECT on its way or one answer to
  it, until the client is connected, and it is of the present connect.
  `QueueInv`: a CONNECT that waits is the first command, and then no connect or
  connection is in use, so that none is dropped (`ConnectIsTried`).
* `ConnectInv`: `m->connect` is the last connect the application called. That it is
  what an answer is about is the step that fails for an answer read before
  the connection was replaced; `ReceivedInv` keeps what was read apart, and `stale`
  marks the other case.
* `TrueInv`: an answer on its way, and a success told, were given by the broker
  to that call.
* `TriedInv`: how far a connect has come, from its `currentURI` and `MQTTVersion`:
  which servers were tried, and the first one with both versions.
* `Counted`: connections that were up are lost, left, or up.

## 14. Checked only

Out of the provers' reach: liveness, for want of fairness and `ENABLED`; and what a
function that is recursive over links, or a fold over a sequence, computes for
every input, since that needs induction over data: both refinements, of the
tree to Dictionary and of the list to Sequence, the codecs, and the sums of the
heap. (A first-order argument by well-foundedness over finite sets is possible,
as in `Least`, but says nothing of a recursive definition.) The modules that
only TLC's runs use may declare operators recursive.

Not a question for a proof: whether the timing assumptions of section 3.4 hold,
which the code does not enforce.

Within reach and not done: the rest of the safety properties of section 11.2,
listed at the end of section 2.

## 15. What the modelling found

Where a property names an exemption, it is one of these. "Run" says how to see
it again: a property to check, or the constants to change.

### 15.1 Bus and nodes

* With `Early = {"grant"}`, `NoIdleHold` fails (two nodes, `MaxRequests = 2`):
  `icp_set_access_sig_cb` stops polling, returns `ICP_BUSY` and is granted the
  line afterwards. Nothing gives it back.
* A node that asks for the line while bytes to it wait in `payload_in`, hears
  another's ACTIVE before its ten-second poll looks at `g_access`, and then takes
  the old bytes on the role of the new transmission: it is not their
  destination, drops the role, and misses the frame that follows. Three nodes
  and three frames are needed, one more than the runs have; it came up as the
  step of the proof of 13.3 that could not be proved. With `poll` read as for
  the main loop only, `FrameIsHeard` fails so (`MaxPings = 3`); the assumption
  now covers the poll for the grant.
* With `Early = {"puback"}` and `FairSpec`, `AckAwaitEnds` fails: the
  acknowledgement comes before the broker's confirmation and is ignored,
  `waiting_for_ack` is set behind it, and `icp_update` counts towards the
  timeout only while the node has a role.
* `icp_bytes_in` compares the first byte with `local_mac_addr` only (icp.c:112):
  no receiver keeps a frame to BROADCAST, though icp.h lists broadcast as a
  destination. A listener may acknowledge another's frame (icp.c:114).
* `connlost` (mqtt.c:208) connects again with a clean session and does not
  subscribe again.
* icp.c:424 reads the length again that icp.c:420 checked; an INACTIVE in
  between has flushed the buffer, and the length is 0xFFFF (`At("undefined")`).
* icp.c:298-300 sets `role` before it clears `destination_received`: bytes
  between the two skip the address check.
* A poll that ends between mqtt.c:351 and :354, or while its request is under
  way, overlooks the grant; so does a reset command (mqtt.c:402) while the node
  asks or holds. The line stays taken (`seen.overlooked`).
* A ping while the node sends tears the frame that is published, moves
  `tx_buf_start`, and `icp_notify_bytes_out_finished` looks at the new frame's
  destination (`seen.pinged`).
* A flush that races with `rx_buf_pos +=` leaves the position over flushed
  bytes until the end of the next transmission.
* An update that arrives while `icp_update` runs is wiped out (main.c:392).
* The checksum is read again behind its check (icp.c:437): after an INACTIVE in
  between `packet.checksum` is 0xFFFF. The simulator's host prints the packet
  only (`ReadChecksum`, `Unsummed`).
* `role` is read again at icp.c:442: a receiver that was late may acknowledge
  another transmission.
* `sent` (main.c:71) is shared by all publishes: the confirmation of an earlier
  one ends the wait for this one. The busy-waits read variables that are not
  volatile and work because nothing is optimised.
* `memmove` in icp.c copies `data_length + 1` bytes into an allocation of
  `data_length`.

### 15.2 Messages and calls of the asynchronous client

* `EverySendAnswered` fails with a clean session, one message and one break:
  the clean session discards the command that awaits its answer, without
  onFailure. The nodes use clean sessions, and `icp_bytes_out_cb` spins until
  onSend.
* `ConnectAnswered` of MqttDelivery fails with one break: a read error closes
  the connection in `cycle`, the send thread connects again before the receive
  thread has the mutex back, and the receive thread closes the new connection
  for the old error.
* `MQTTAsync_checkTimeouts` (MQTTAsync.c:1195) tests `connect_state` for
  anything but 0. A disconnect that waits longer than the connect timeout has
  state -2 and becomes a new attempt to connect (`ended = "undone"`).
* `serverURIs` is read past its end; with a given `MQTTVersion` the first server
  is skipped, with the default, servers after the first are only tried with 3.1
  (`"overrun"`).
* `MQTTAsync_writeComplete` (about MQTTAsync.c:905) compares the pending write
  with itself, hence takes and frees the first response of the client. A
  publish with QoS 0 that fails leaves `pending_write` dangling and neither
  callback is called (`"freed"`, `astray.response`).
* A CONNACK read on one connection completes the connect of the next, whose own
  CONNACK then counts as a failure (`"stale"`).
* A disconnect of the application whose connection is lost first gets no
  callback, or ends the new connect (`astray.connects`).
* `MQTTAsync_waitForCompletion` leaves with `mqttasync_mutex` locked if the
  handle is NULL or not connected; onSuccess of a connect reads `serverURIs`
  after they are freed; a second CONNECT while one is going on replaces
  `m->connect`, which is never answered.

### 15.3 Persistence

* A crash between the removal of a command's record and the put of the
  message's loses an accepted message; around `messageArrived` it loses a QoS 1
  message, or delivers a QoS 2 message twice; while a PUBREL record is
  rewritten (MQTTPersistence.c:213-216, MQTTPersistenceDefault.c:163) it leads
  to a QoS 2 message published twice (all `caught`).
* After a restart `msgID` is 0 and ids of commands still stored are given again
  (`reused`); `UniqueIds` of MqttStore fails with the constants of `store`.
  After two restarts the order of the outbound messages is not restored.
* `restoreCommands` sorts by `MQTTPersistence_insertInOrder` (MQTTAsync.c:713),
  which takes a command for a message: where the id would be is a null callback,
  and the order is that of the directory. Restored
  SUBSCRIBE and UNSUBSCRIBE commands write through a NULL pointer
  (MQTTAsync.c:614, 631).
* `pstput` truncates before it writes (MQTTPersistenceDefault.c:163) and ignores
  the result of fclose (:171). Truncated records of commands and of the queue
  are read past their end (MQTTPersistence.c:534-577); a topic with a 0 in it
  comes back cut. An orphaned PUBREL is kept if a bad record comes after it.
* `clearUnix` (MQTTPersistenceDefault.c:498-523) removes relative to the working
  directory, so that `MQTTPersistence_clear` removes nothing.

### 15.4 Sockets and containers

* `Socket_continueWrites` takes SOCKET_ERROR for success, and `Socket_close`
  leaves the packet in `writes`; the next connection with that number goes on
  with it: `StreamsStayWhole` fails. `ServedIsWritable` fails: the send
  thread may leave a write pending between the test for one and the service of
  the socket, since the mutex is free between them.
* `Socket_getReadySocket` has no mutex, and reads `s.cur_clientsds` at its test
  for NULL, in `isReady` and in `ListNextElement` (Socket.c:225-230, 264-280),
  while `Socket_close` on the send thread moves it on and frees the element
  (553-559). A close in between leaves it NULL, or on the freed element, where it
  is used: undefined. In other orders a socket is served that was not tested, or
  0 is returned (`Ready`). With `overtaken` left out, `WatchesAll` fails so.
* `TreeAdd` of an equal item balances as if a red node had been added there:
  `RedBlackAlways` fails.
* `mymalloc` and `myrealloc` return with `heap_mutex` locked if there is no
  memory (Heap.c:147-169): `MutexIsFreed` fails.

### 15.5 The synchronous client

* `MQTTClient_waitfor` returns `m->pack` even after a timeout
  (MQTTClient.c:1648), a packet left there is taken for the next CONNACK (887),
  and SOCKET_ERROR posts `connack_sem` without a packet (523) (`surplus`).
* The mutex is free between `MQTTClient_cycle` and the use of what it returned
  (489-492): a packet can outlive its connection (`outrun`), as can a post that
  `messageArrived` delayed (545).
* `connectionLost` connects on its own thread while a subscribe of the
  application waits; that one's timeout then ends the new connection (`mixed`).
* With a clean session `SuccessIsDelivery` fails: a lost connection discards the
  message, and waitForCompletion returns success (1843-1845 against
  MQTTClient.h:820).
* `emptyMessageQueue` frees the message that `messageArrived` is using; a failed
  `send_connect` leaks the socket; a connected client can be connected again;
  `waitfor(CONNECT)` without callbacks returns 0 on a timeout (1652, 1701);
  `Thread_wait_sem` takes any error but EAGAIN for success (Thread.c:269), and
  `1000 * timeout` overflows an int (Thread.c:257).

## 16. Not modelled

* IcpBus and IcpNode: the checks of arguments, the arithmetic of the CRC, 16-bit
  positions and the `uint8_t` that `icp_bytes_out_cb` returns (frames of 256
  bytes and more; the simulator sends none), partial outputs of a frame
  (icp.c:363, with a callback that reports fewer bytes than it got; the
  simulator's reports all).
* Start and end of a simulator; clock, printing, and the commands that the
  protocol does not read.
* The asynchronous client: several handles, `MQTTAsync_destroy` and the stop of
  its threads, `getPendingTokens`, `isComplete`, `waitForCompletion`, wills and
  credentials beyond their encoding, reference counts of shared publications.
* The synchronous client: several handles and servers, QoS 2, the contents of
  its message queue. What they do is what the asynchronous client does.
* Stores: persisted SUBSCRIBE and UNSUBSCRIBE commands (their records are
  translated), `MQTTPersistence_clear`, directory calls.
* The tree's second index, the heap's red zones and scan, condition variables.
* External: the broker, the bus node's main program, system calls, the network.
* Log.c, Messages.c, StackTrace.c (output only), SSLSocket.c (not compiled
  without OPENSSL), MQTTVersion.c (prints a version), and the tester's line
  editing.

------------------------------- MODULE IcpBus -------------------------------
(***************************************************************************)
(* The ICP bus as a whole: a set of subsystem simulators, each running     *)
(* the ICP library, the bus node that arbitrates the ACCESS line, and the  *)
(* MQTT broker between them.                                               *)
(*                                                                         *)
(* Every simulator has two threads.  The MQTT receive thread runs          *)
(* msgarrvd (mqtt.c): it follows the ACCESS line, stores RS485 bytes and   *)
(* obeys the tester's commands.  The main thread (main.c) polls the flags  *)
(* the other one sets and runs icp_bytes_in and icp_update.  A message     *)
(* handler is one action here; the main thread is cut wherever it waits    *)
(* for the other thread, which is where the two really interleave.         *)
(*                                                                         *)
(* To send, a node publishes "ACTIVE by me" and transmits only when the    *)
(* bus publishes that same text back.  "INACTIVE by x" releases the line;  *)
(* coming from the receiver of a frame it is the acknowledgement, from the *)
(* sender it is the end of a broadcast or an acknowledgement timeout.      *)
(***************************************************************************)
EXTENDS Integers, Sequences, SequencesExt, FiniteSets

CONSTANTS
    Node,           \* the subsystems on the bus (PC, CAM, EPS, CDHS)
    Broadcast,      \* mac_addr_t's BROADCAST, the destination of every node
    NoFrame,        \* no frame: an empty tx_buffer, payload_in without bytes_in
    Junk,           \* bytes that are the tail of a frame: no CRC matches
    FrameLen,       \* bytes of a frame, by destination ("PING to X from Y")
    AckTimeout,     \* conf.ack_timeout, in calls of icp_update
    MaxPings,       \* bound: frames the hosts hand to ICP
    MaxRequests,    \* bound: signals of one node on their way to the bus node
    MaxCommands,    \* bound: reset and stopupdate commands of the tester
    Targets,        \* destinations the tester asks for in its ping commands
    Listeners,      \* nodes whose host calls icp_set_listen_to_all
    Early           \* which timers may run out early, see Timely below

Timer == {"grant", "ack", "puback", "poll", "slot", "ping", "pulse"}

ASSUME BusAssumption ==
    /\ Node # {} /\ Broadcast \notin Node
    /\ NoFrame # Junk
    /\ FrameLen \in [Node \cup {Broadcast} -> Nat]
    /\ \A d \in Node \cup {Broadcast} : FrameLen[d] >= 2
    /\ AckTimeout \in Nat /\ MaxPings \in Nat
    /\ MaxRequests \in Nat /\ MaxCommands \in Nat
    /\ Listeners \subseteq Node
    /\ Targets \subseteq Node \cup {Broadcast}
    /\ Early \subseteq Timer

Mac == Node \cup {Broadcast}
Frame == [dst : Mac, src : Node, id : 1..MaxPings]
ASSUME MarkersAreNoFrames == NoFrame \notin Frame /\ Junk \notin Frame

Chunk == Frame \cup {Junk}                    \* the payload of one RS485 message
AccessText == [type : {"ACTIVE", "INACTIVE"}, by : Node]
Message == AccessText \cup [type : {"RS485"}, chunk : Chunk]
ActiveBy(n)   == [type |-> "ACTIVE", by |-> n]
InactiveBy(n) == [type |-> "INACTIVE", by |-> n]
Rs485(c)      == [type |-> "RS485", chunk |-> c]
Role == {"NO_ROLE", "TX", "RX", "LISTEN_IN"}

VARIABLES
    \* globals of mqtt.c, shared by the two threads of a node
    g_access, line_is_mine, payload_in, update_now, reset_flag,
    \* the ICP configuration object g_conf, and icp.c's ack_timeout_cnt
    role, destination_received, waiting_for_ack, listen_to_all, rx_buffer,
    tx_buffer, tx_buf_start, tx_buf_end, ack_timeout_cnt,
    \* the main thread: where it is, the bytes it is sending, the packet it got
    pc, array_len, packet,
    \* the bus node: its g_access, and payload while its update_now is set
    bus_access, bus_payload,
    \* the broker: per publisher what is on its way to the bus node, and per
    \* subscriber what is on its way to a node
    bus_in, inbox,
    \* history, read by properties, bounds and the timing assumptions only
    pings, commands, on_air, host_in, acked

lineVars == <<g_access, line_is_mine>>
flagVars == <<payload_in, update_now, reset_flag>>
roleVars == <<role, destination_received, waiting_for_ack>>
txVars   == <<tx_buffer, tx_buf_start, tx_buf_end>>
mainVars == <<pc, array_len, packet>>
busVars  == <<bus_access, bus_payload>>
bounds   == <<pings, commands>>
history  == <<on_air, host_in, acked>>
vars == <<lineVars, flagVars, roleVars, listen_to_all, rx_buffer, txVars,
          ack_timeout_cnt, mainVars, busVars, bus_in, inbox, bounds, history>>

(***************************************************************************)
(* Points of the main thread at which it waits: in its loop, in the three  *)
(* places that clear the ACCESS line and spin, while it asks for the line, *)
(* and while the broker has not confirmed its bytes.  "acked" and          *)
(* "cleared" follow a spin; "role" follows icp_process_rx_buffer.          *)
(***************************************************************************)
Points == {"loop", "update", "reset", "ack_spin", "acked", "role",
           "set_access", "bytes_out", "puback", "bcast_spin", "cleared",
           "timeout_spin"}

Init ==
    /\ g_access = [n \in Node |-> "INACTIVE"]
    /\ line_is_mine = [n \in Node |-> FALSE]
    /\ payload_in = [n \in Node |-> NoFrame]
    /\ update_now = [n \in Node |-> FALSE]
    /\ reset_flag = [n \in Node |-> FALSE]
    /\ role = [n \in Node |-> "NO_ROLE"]
    /\ destination_received = [n \in Node |-> FALSE]
    /\ waiting_for_ack = [n \in Node |-> FALSE]
    /\ listen_to_all = [n \in Node |-> FALSE]
    /\ rx_buffer = [n \in Node |-> <<>>]
    /\ tx_buffer = [n \in Node |-> NoFrame]
    /\ tx_buf_start = [n \in Node |-> 0]
    /\ tx_buf_end = [n \in Node |-> 0]
    /\ ack_timeout_cnt = [n \in Node |-> 0]
    /\ pc = [n \in Node |-> "loop"]
    /\ array_len = [n \in Node |-> 0]
    /\ packet = [n \in Node |-> NoFrame]
    /\ bus_access = "INACTIVE"
    /\ bus_payload = <<>>
    /\ bus_in = [n \in Node |-> <<>>]
    /\ inbox = [n \in Node |-> <<>>]
    /\ pings = 0 /\ commands = 0
    /\ on_air = [n \in Node |-> NoFrame]
    /\ host_in = [n \in Node |-> <<>>]
    /\ acked = {}

-----------------------------------------------------------------------------
(***************************************************************************)
(* Timing.  The program runs at human speed: the main loop sleeps a second *)
(* per turn, the request for the line waits ten of them, an acknowledgement *)
(* is awaited for six tester commands.  The broker answers in milliseconds. *)
(* Early names the timers for which that is not assumed.                   *)
(*   grant   icp_set_access_sig_cb stops polling while its request is      *)
(*           still on its way to the bus or back                           *)
(*   ack     the tester sends the update that exhausts ack_timeout while   *)
(*           the frame or its acknowledgement is still on its way          *)
(*   puback  the acknowledgement overtakes the broker's confirmation       *)
(*   poll    RS485 bytes, or the start of the next transmission, arrive    *)
(*           while earlier bytes wait for a main thread that looks for them *)
(*           every second, or would if it had seen that the line is ACTIVE, *)
(*           for which it looks every second too                           *)
(*   ping    a frame is handed to ICP while an earlier one is not done with *)
(*   pulse   the line is ACTIVE again before the main thread, which spins   *)
(*           for it to become INACTIVE, has seen that                       *)
(*   slot    a signal reaches the bus node before it published the last one *)
(***************************************************************************)
Turn == {"loop", "update", "role", "reset"}
Clearing == {"ack_spin", "acked", "bcast_spin", "cleared", "timeout_spin"}

Carries(s, m) == m \in ToSet(s)

RequestInFlight(n) ==
    \/ Carries(bus_in[n], ActiveBy(n))
    \/ Carries(bus_payload, ActiveBy(n))
    \/ Carries(inbox[n], ActiveBy(n))

FrameInFlight(f) ==
    \E m \in Node : \/ Carries(inbox[m], Rs485(f))
                    \/ payload_in[m] = f
                    \/ role[m] = "RX" /\ Carries(rx_buffer[m], f)

ReleaseInFlight(n) ==
    \E m \in Node : \/ Carries(bus_in[m], InactiveBy(m))
                    \/ Carries(bus_payload, InactiveBy(m))
                    \/ Carries(inbox[n], InactiveBy(m))

Timely(n, t) ==
    \/ t \in Early
    \/ t = "grant" /\ ~RequestInFlight(n)
    \/ t = "ack" /\ (waiting_for_ack[n] /\ ack_timeout_cnt[n] = AckTimeout =>
                        ~FrameInFlight(on_air[n]) /\ ~ReleaseInFlight(n))
    \/ t = "puback" /\ pc[n] # "puback"
    \/ t = "poll" /\ (pc[n] \in Turn \cup {"set_access"} => payload_in[n] = NoFrame)
    \/ t = "pulse" /\ (pc[n] \in Clearing => g_access[n] = "ACTIVE")
    \/ t = "slot" /\ bus_payload = <<>>
    \/ t = "ping" /\ tx_buf_start[n] >= tx_buf_end[n] /\ role[n] # "TX"

-----------------------------------------------------------------------------
(* The receive thread: msgarrvd for the ACCESS and RS485 topics.           *)

Arrives(n, kind) == inbox[n] # <<>> /\ Head(inbox[n]).type = kind
Consume(n) == inbox' = [inbox EXCEPT ![n] = Tail(@)]

\* "ACTIVE by me": the line is mine
RecvGrant(n) ==
    /\ Arrives(n, "ACTIVE") /\ Timely(n, "pulse")
    /\ ~line_is_mine[n] /\ Head(inbox[n]).by = n
    /\ Consume(n)
    /\ g_access' = [g_access EXCEPT ![n] = "ACTIVE"]
    /\ line_is_mine' = [line_is_mine EXCEPT ![n] = TRUE]
    /\ UNCHANGED <<flagVars, roleVars, listen_to_all, rx_buffer, txVars,
                   ack_timeout_cnt, mainVars, busVars, bus_in, bounds, history>>

\* Fault: destination_received is left over from the previous frame
NotifyAccessActiveKeeping(n) ==
    /\ role' = [role EXCEPT ![n] = "RX"]
    /\ UNCHANGED destination_received

\* icp_notify_acces_active: somebody starts to transmit
NotifyAccessActive(n) ==
    /\ role' = [role EXCEPT ![n] = "RX"]
    /\ destination_received' = [destination_received EXCEPT ![n] = FALSE]

\* "ACTIVE by another"
RecvForeignActive(n) ==
    /\ Arrives(n, "ACTIVE") /\ Timely(n, "pulse") /\ Timely(n, "poll")
    /\ ~line_is_mine[n] /\ Head(inbox[n]).by # n
    /\ Consume(n)
    /\ g_access' = [g_access EXCEPT ![n] = "ACTIVE"]
    /\ NotifyAccessActive(n)
    /\ UNCHANGED <<line_is_mine, flagVars, waiting_for_ack, listen_to_all,
                   rx_buffer, txVars, ack_timeout_cnt, mainVars, busVars,
                   bus_in, bounds, history>>

\* ACTIVE while the line is mine already: no branch of msgarrvd takes it
RecvActiveIgnored(n) ==
    /\ Arrives(n, "ACTIVE") /\ line_is_mine[n]
    /\ Consume(n)
    /\ UNCHANGED <<lineVars, flagVars, roleVars, listen_to_all, rx_buffer,
                   txVars, ack_timeout_cnt, mainVars, busVars, bus_in, bounds,
                   history>>

\* icp_notify_acces_inactive: the acknowledgement, for a sender that waits
\* for it; the end of the transmission, for a node that receives
NotifyAccessInactive(n) ==
    \/ /\ waiting_for_ack[n] /\ role[n] = "TX"
       /\ role' = [role EXCEPT ![n] = "NO_ROLE"]
       /\ waiting_for_ack' = [waiting_for_ack EXCEPT ![n] = FALSE]
       /\ acked' = acked \cup {on_air[n]}
       /\ UNCHANGED rx_buffer
    \/ /\ role[n] \in {"RX", "LISTEN_IN"}
       /\ role' = [role EXCEPT ![n] = "NO_ROLE"]
       /\ rx_buffer' = [rx_buffer EXCEPT ![n] = <<>>]
       /\ UNCHANGED <<waiting_for_ack, acked>>
    \/ /\ role[n] = "NO_ROLE" \/ (role[n] = "TX" /\ ~waiting_for_ack[n])
       /\ UNCHANGED <<role, waiting_for_ack, rx_buffer, acked>>

\* Fault: the line stays mine although it is INACTIVE
LineFreedStillMine(n) ==
    /\ g_access' = [g_access EXCEPT ![n] = "INACTIVE"]
    /\ UNCHANGED line_is_mine

LineFreed(n) ==
    /\ g_access' = [g_access EXCEPT ![n] = "INACTIVE"]
    /\ line_is_mine' = [line_is_mine EXCEPT ![n] = FALSE]

\* INACTIVE, whoever sent it
RecvInactive(n) ==
    /\ Arrives(n, "INACTIVE") /\ Timely(n, "puback")
    /\ Consume(n)
    /\ LineFreed(n)
    /\ NotifyAccessInactive(n)
    /\ UNCHANGED <<flagVars, destination_received, listen_to_all, txVars,
                   ack_timeout_cnt, mainVars, busVars, bus_in, bounds, on_air,
                   host_in>>

\* RS485 bytes: one slot, overwritten by the next message
RecvFrame(n) ==
    /\ Arrives(n, "RS485") /\ Timely(n, "poll")
    /\ Consume(n)
    /\ payload_in' = [payload_in EXCEPT ![n] = Head(inbox[n]).chunk]
    /\ UNCHANGED <<lineVars, update_now, reset_flag, roleVars, listen_to_all,
                   rx_buffer, txVars, ack_timeout_cnt, mainVars, busVars,
                   bus_in, bounds, history>>

-----------------------------------------------------------------------------
(* The receive thread: the tester's commands, and the host's own calls.    *)

Update(n) ==
    /\ ~update_now[n] /\ Timely(n, "ack")
    /\ update_now' = [update_now EXCEPT ![n] = TRUE]
    /\ UNCHANGED <<lineVars, payload_in, reset_flag, roleVars, listen_to_all,
                   rx_buffer, txVars, ack_timeout_cnt, mainVars, busVars,
                   bus_in, inbox, bounds, history>>

StopUpdate(n) ==
    /\ commands < MaxCommands /\ commands' = commands + 1
    /\ update_now' = [update_now EXCEPT ![n] = FALSE]
    /\ UNCHANGED <<lineVars, payload_in, reset_flag, roleVars, listen_to_all,
                   rx_buffer, txVars, ack_timeout_cnt, mainVars, busVars,
                   bus_in, inbox, pings, history>>

\* Every variable of the receive thread at once; the main thread follows
\* when it next looks at reset_flag.
Reset(n) ==
    /\ commands < MaxCommands /\ commands' = commands + 1
    /\ reset_flag' = [reset_flag EXCEPT ![n] = TRUE]
    /\ LineFreed(n)
    /\ payload_in' = [payload_in EXCEPT ![n] = NoFrame]
    /\ UNCHANGED <<update_now, roleVars, listen_to_all, rx_buffer, txVars,
                   ack_timeout_cnt, mainVars, busVars, bus_in, inbox, pings,
                   history>>

\* Ping to d: icp_send_data.  The buffer is filled whether or not an earlier
\* frame still waits in it or is being sent.
Ping(n, d) ==
    /\ pings < MaxPings /\ pings' = pings + 1
    /\ Timely(n, "ping")
    /\ tx_buffer' = [tx_buffer EXCEPT ![n] = [dst |-> d, src |-> n, id |-> pings + 1]]
    /\ tx_buf_start' = [tx_buf_start EXCEPT ![n] = 0]
    /\ tx_buf_end' = [tx_buf_end EXCEPT ![n] = FrameLen[d] - 1]
    /\ UNCHANGED <<lineVars, flagVars, roleVars, listen_to_all, rx_buffer,
                   ack_timeout_cnt, mainVars, busVars, bus_in, inbox, commands,
                   history>>

\* The host's icp_set_listen_to_all, off is not modelled apart from icp_init
SetListenToAll(n) ==
    /\ n \in Listeners /\ pc[n] = "loop" /\ ~listen_to_all[n]
    /\ listen_to_all' = [listen_to_all EXCEPT ![n] = TRUE]
    /\ UNCHANGED <<lineVars, flagVars, roleVars, rx_buffer, txVars,
                   ack_timeout_cnt, mainVars, busVars, bus_in, inbox, bounds,
                   history>>

-----------------------------------------------------------------------------
(* The bus node: msgarrvd's N_BUS branch, and the program that publishes   *)
(* payload while update_now is set.                                        *)

BusArrives(n, kind) ==
    bus_in[n] # <<>> /\ Head(bus_in[n]).type = kind /\ Timely(n, "slot")

BusVarsFrom(n) ==
    /\ bus_in' = [bus_in EXCEPT ![n] = Tail(@)]
    /\ UNCHANGED <<lineVars, flagVars, roleVars, listen_to_all, rx_buffer,
                   txVars, ack_timeout_cnt, mainVars, inbox, bounds, history>>

\* Fault: the bus node does not look at its own g_access
BusGrantAlways(n) ==
    /\ BusArrives(n, "ACTIVE")
    /\ bus_access' = "ACTIVE"
    /\ bus_payload' = <<Head(bus_in[n])>>
    /\ BusVarsFrom(n)

\* A request finds the line free: the payload is to be published
BusGrant(n) ==
    /\ BusArrives(n, "ACTIVE") /\ bus_access # "ACTIVE"
    /\ bus_access' = "ACTIVE"
    /\ bus_payload' = <<Head(bus_in[n])>>
    /\ BusVarsFrom(n)

\* A request finds the line taken: dropped without an answer
BusRefuse(n) ==
    /\ BusArrives(n, "ACTIVE") /\ bus_access = "ACTIVE"
    /\ UNCHANGED busVars
    /\ BusVarsFrom(n)

\* Fault: nothing is published
BusReleaseSilent(n) ==
    /\ BusArrives(n, "INACTIVE")
    /\ bus_access' = "INACTIVE"
    /\ UNCHANGED bus_payload
    /\ BusVarsFrom(n)

\* INACTIVE is obeyed whoever sends it
BusRelease(n) ==
    /\ BusArrives(n, "INACTIVE")
    /\ bus_access' = "INACTIVE"
    /\ bus_payload' = <<Head(bus_in[n])>>
    /\ BusVarsFrom(n)

\* The tester's reset of the bus node publishes nothing
BusReset ==
    /\ commands < MaxCommands /\ commands' = commands + 1
    /\ bus_access' = "INACTIVE"
    /\ UNCHANGED <<lineVars, flagVars, roleVars, listen_to_all, rx_buffer,
                   txVars, ack_timeout_cnt, mainVars, bus_payload, bus_in,
                   inbox, pings, history>>

BusPublish ==
    /\ bus_payload # <<>>
    /\ bus_payload' = <<>>
    /\ inbox' = [m \in Node |-> inbox[m] \o bus_payload]
    /\ UNCHANGED <<lineVars, flagVars, roleVars, listen_to_all, rx_buffer,
                   txVars, ack_timeout_cnt, mainVars, bus_access, bus_in,
                   bounds, history>>

-----------------------------------------------------------------------------
(* The main thread.  One turn of its loop: bytes_in is tested at "loop",    *)
(* update_now at "update", and reset_flag when the turn is done.           *)

At(n, point) == pc[n] = point

\* The test of bytes_in that finds nothing is no step of its own
AtUpdate(n) == At(n, "update") \/ (At(n, "loop") /\ payload_in[n] = NoFrame)

Goto(n, point) == pc' = [pc EXCEPT ![n] = point]
TurnDone(n) == Goto(n, IF reset_flag[n] THEN "reset" ELSE "loop")
PublishAccess(n, text) == bus_in' = [bus_in EXCEPT ![n] = Append(@, text)]

\* Is the first byte of the chunk my address?  The tail of a frame begins
\* with whatever byte stood there.
FirstByteIsMine(n, c) == IF c = Junk THEN BOOLEAN ELSE {c.dst = n}

\* The role of a node that is not the destination of the frame
Bystander(n) == IF listen_to_all[n] THEN "LISTEN_IN" ELSE "NO_ROLE"

\* Fault: bytes_in stays TRUE
TakeBytesNot(n) == UNCHANGED payload_in

\* bytes_in = FALSE
TakeBytes(n) == payload_in' = [payload_in EXCEPT ![n] = NoFrame]

\* icp_bytes_in
BytesIn(n) ==
    /\ At(n, "loop") /\ payload_in[n] # NoFrame
    /\ TakeBytes(n)
    /\ LET c == payload_in[n]
           awaited == role[n] = "RX" /\ ~destination_received[n]
       IN \E mine \in FirstByteIsMine(n, c) :
            LET rejected == awaited /\ ~mine
                r == IF rejected THEN Bystander(n) ELSE role[n]
            IN /\ role' = [role EXCEPT ![n] = r]
               /\ destination_received' =
                     [destination_received EXCEPT ![n] = @ \/ awaited]
               /\ rx_buffer' = [rx_buffer EXCEPT ![n] =
                     IF rejected /\ r = "NO_ROLE" THEN <<>>
                     ELSE IF r \in {"RX", "LISTEN_IN"} THEN Append(@, c)
                     ELSE @]
    /\ Goto(n, "update")
    /\ UNCHANGED <<lineVars, update_now, reset_flag, waiting_for_ack,
                   listen_to_all, txVars, ack_timeout_cnt, array_len, packet,
                   busVars, bus_in, inbox, bounds, history>>

NoUpdate(n) ==
    /\ AtUpdate(n) /\ ~update_now[n]
    /\ TurnDone(n)
    /\ UNCHANGED <<lineVars, flagVars, roleVars, listen_to_all, rx_buffer,
                   txVars, ack_timeout_cnt, array_len, packet, busVars, bus_in,
                   inbox, bounds, history>>

\* icp_update's icp_process_rx_buffer: the first chunk of the buffer is a
\* frame with the right checksum
ValidPacket(n) == rx_buffer[n] # <<>> /\ Head(rx_buffer[n]) # Junk

\* For a receiver it is the moment to acknowledge: ICP_CLEAR_ACCESS_SIG
Acknowledge(n) ==
    /\ AtUpdate(n) /\ update_now[n] /\ ValidPacket(n) /\ role[n] = "RX"
    /\ packet' = [packet EXCEPT ![n] = Head(rx_buffer[n])]
    /\ PublishAccess(n, InactiveBy(n))
    /\ Goto(n, "ack_spin")
    /\ UNCHANGED <<lineVars, flagVars, roleVars, listen_to_all, rx_buffer,
                   txVars, ack_timeout_cnt, array_len, busVars, inbox, bounds,
                   history>>

\* while (g_access == ACTIVE);
AckSpin(n) ==
    /\ At(n, "ack_spin") /\ g_access[n] # "ACTIVE"
    /\ Goto(n, "acked")
    /\ UNCHANGED <<lineVars, flagVars, roleVars, listen_to_all, rx_buffer,
                   txVars, ack_timeout_cnt, array_len, packet, busVars, bus_in,
                   inbox, bounds, history>>

\* role = NO_ROLE, flush, hand the packet to the host
Deliver(n, p) ==
    /\ rx_buffer' = [rx_buffer EXCEPT ![n] = <<>>]
    /\ host_in' = [host_in EXCEPT ![n] = Append(@, p)]
    /\ Goto(n, "role")

DeliverAcked(n) ==
    /\ At(n, "acked")
    /\ role' = [role EXCEPT ![n] = "NO_ROLE"]
    /\ packet' = [packet EXCEPT ![n] = NoFrame]
    /\ Deliver(n, packet[n])
    /\ UNCHANGED <<lineVars, flagVars, destination_received, waiting_for_ack,
                   listen_to_all, txVars, ack_timeout_cnt, array_len, busVars,
                   bus_in, inbox, bounds, on_air, acked>>

\* A listener, or a node without role, delivers and acknowledges nothing
DeliverUnacked(n) ==
    /\ AtUpdate(n) /\ update_now[n] /\ ValidPacket(n) /\ role[n] # "RX"
    /\ role' = [role EXCEPT ![n] = IF @ = "LISTEN_IN" THEN "NO_ROLE" ELSE @]
    /\ Deliver(n, Head(rx_buffer[n]))
    /\ UNCHANGED <<lineVars, flagVars, destination_received, waiting_for_ack,
                   listen_to_all, txVars, ack_timeout_cnt, array_len, packet,
                   busVars, bus_in, inbox, bounds, on_air, acked>>

\* Nothing, or nothing valid: the buffer stays as it is
NothingReceived(n) ==
    /\ AtUpdate(n) /\ update_now[n] /\ ~ValidPacket(n)
    /\ Goto(n, "role")
    /\ UNCHANGED <<lineVars, flagVars, roleVars, listen_to_all, rx_buffer,
                   txVars, ack_timeout_cnt, array_len, packet, busVars, bus_in,
                   inbox, bounds, history>>

\* The rest of icp_update, and update_now = FALSE behind it
UpdateDone(n) ==
    /\ update_now' = [update_now EXCEPT ![n] = FALSE]
    /\ TurnDone(n)

\* Faults: the timeout is one update late, one update early, or never counted
AckOverdueLate(n) == waiting_for_ack[n] /\ AckTimeout < ack_timeout_cnt[n]
AckOverdueSoon(n) == waiting_for_ack[n] /\ AckTimeout <= ack_timeout_cnt[n] + 1
CountNoUpdate(n) == UNCHANGED ack_timeout_cnt

\* The end label of icp_update, for a node that has a role: one update more
\* has passed without an acknowledgement
AckOverdue(n) == waiting_for_ack[n] /\ AckTimeout <= ack_timeout_cnt[n]
CountUpdate(n) ==
    ack_timeout_cnt' =
        [ack_timeout_cnt EXCEPT ![n] = IF waiting_for_ack[n] THEN @ + 1 ELSE @]

KeepWaiting(n) ==
    /\ At(n, "role") /\ role[n] # "NO_ROLE" /\ ~AckOverdue(n)
    /\ CountUpdate(n)
    /\ UpdateDone(n)
    /\ UNCHANGED <<lineVars, payload_in, reset_flag, roleVars, listen_to_all,
                   rx_buffer, txVars, array_len, packet, busVars, bus_in,
                   inbox, bounds, history>>

\* icp_ack_timeout
AckTimedOut(n) ==
    /\ At(n, "role") /\ role[n] # "NO_ROLE" /\ AckOverdue(n)
    /\ ack_timeout_cnt' = [ack_timeout_cnt EXCEPT ![n] = 0]
    /\ waiting_for_ack' = [waiting_for_ack EXCEPT ![n] = FALSE]
    /\ role' = [role EXCEPT ![n] = "NO_ROLE"]
    /\ PublishAccess(n, InactiveBy(n))
    /\ Goto(n, "timeout_spin")
    /\ UNCHANGED <<lineVars, flagVars, destination_received, listen_to_all,
                   rx_buffer, txVars, array_len, packet, busVars, inbox,
                   bounds, history>>

TimeoutSpin(n) ==
    /\ At(n, "timeout_spin") /\ g_access[n] # "ACTIVE"
    /\ UpdateDone(n)
    /\ UNCHANGED <<lineVars, payload_in, reset_flag, roleVars, listen_to_all,
                   rx_buffer, txVars, ack_timeout_cnt, array_len, packet,
                   busVars, bus_in, inbox, bounds, history>>

\* icp_process_tx_buffer finds no bytes, or the line taken
BytesToSend(n) == tx_buf_start[n] <= tx_buf_end[n] - 1

NothingSent(n) ==
    /\ At(n, "role") /\ role[n] = "NO_ROLE"
    /\ ~BytesToSend(n) \/ g_access[n] # "INACTIVE"
    /\ UpdateDone(n)
    /\ UNCHANGED <<lineVars, payload_in, reset_flag, roleVars, listen_to_all,
                   rx_buffer, txVars, ack_timeout_cnt, array_len, packet,
                   busVars, bus_in, inbox, bounds, history>>

\* icp_set_access_sig_cb: publish the request, then poll g_access
RequestLine(n) ==
    /\ At(n, "role") /\ role[n] = "NO_ROLE"
    /\ BytesToSend(n) /\ g_access[n] = "INACTIVE"
    /\ Len(bus_in[n]) < MaxRequests
    /\ PublishAccess(n, ActiveBy(n))
    /\ Goto(n, "set_access")
    /\ UNCHANGED <<lineVars, flagVars, roleVars, listen_to_all, rx_buffer,
                   txVars, ack_timeout_cnt, array_len, packet, busVars, inbox,
                   bounds, history>>

\* Fault: an ACTIVE line is taken for one's own
AccessActive(n) == g_access[n] = "ACTIVE"

\* ... until it is ACTIVE, and look whose it is
AccessGranted(n) == line_is_mine[n]

LineReserved(n) ==
    /\ At(n, "set_access") /\ AccessGranted(n)
    /\ role' = [role EXCEPT ![n] = "TX"]
    /\ Goto(n, "bytes_out")
    /\ UNCHANGED <<lineVars, flagVars, destination_received, waiting_for_ack,
                   listen_to_all, rx_buffer, txVars, ack_timeout_cnt, array_len,
                   packet, busVars, bus_in, inbox, bounds, history>>

\* ICP_BUSY: another node was granted the line, or ten seconds passed
LineBusy(n) ==
    /\ At(n, "set_access") /\ ~AccessGranted(n) /\ Timely(n, "grant")
    /\ UpdateDone(n)
    /\ UNCHANGED <<lineVars, payload_in, reset_flag, roleVars, listen_to_all,
                   rx_buffer, txVars, ack_timeout_cnt, array_len, packet,
                   busVars, bus_in, inbox, bounds, history>>

\* icp_bytes_out_cb publishes what lies between start and end; every node,
\* the sender too, subscribes to the topic
BytesOut(n) ==
    /\ At(n, "bytes_out")
    /\ LET c == IF tx_buf_start[n] = 0 THEN tx_buffer[n] ELSE Junk
       IN /\ inbox' = [m \in Node |-> Append(inbox[m], Rs485(c))]
          /\ on_air' = [on_air EXCEPT ![n] = c]
    /\ array_len' = [array_len EXCEPT ![n] = tx_buf_end[n] - tx_buf_start[n] + 1]
    /\ Goto(n, "puback")
    /\ UNCHANGED <<lineVars, flagVars, roleVars, listen_to_all, rx_buffer,
                   txVars, ack_timeout_cnt, packet, busVars, bus_in, bounds,
                   host_in, acked>>

\* Fault: tx_buf_start stays where it is
AdvanceNot(n) ==
    /\ array_len' = [array_len EXCEPT ![n] = 0]
    /\ UNCHANGED tx_buf_start

\* The callback returns array_len, and tx_buf_start moves by that much
Advance(n) ==
    /\ tx_buf_start' = [tx_buf_start EXCEPT ![n] = @ + array_len[n]]
    /\ array_len' = [array_len EXCEPT ![n] = 0]

\* onSend, then icp_notify_bytes_out_finished for a frame to one node
SentToOne(n) ==
    /\ At(n, "puback") /\ tx_buffer[n].dst # Broadcast
    /\ waiting_for_ack' = [waiting_for_ack EXCEPT ![n] = TRUE]
    /\ Advance(n)
    /\ UpdateDone(n)
    /\ UNCHANGED <<lineVars, payload_in, reset_flag, role,
                   destination_received, listen_to_all, rx_buffer, tx_buffer,
                   tx_buf_end, ack_timeout_cnt, packet, busVars, bus_in, inbox,
                   bounds, history>>

\* ... and for a broadcast: release the line, without waiting for anybody
SentToAll(n) ==
    /\ At(n, "puback") /\ tx_buffer[n].dst = Broadcast
    /\ PublishAccess(n, InactiveBy(n))
    /\ Goto(n, "bcast_spin")
    /\ UNCHANGED <<lineVars, flagVars, roleVars, listen_to_all, rx_buffer,
                   txVars, ack_timeout_cnt, array_len, packet, busVars, inbox,
                   bounds, history>>

BroadcastSpin(n) ==
    /\ At(n, "bcast_spin") /\ g_access[n] # "ACTIVE"
    /\ Goto(n, "cleared")
    /\ UNCHANGED <<lineVars, flagVars, roleVars, listen_to_all, rx_buffer,
                   txVars, ack_timeout_cnt, array_len, packet, busVars, bus_in,
                   inbox, bounds, history>>

BroadcastDone(n) ==
    /\ At(n, "cleared")
    /\ role' = [role EXCEPT ![n] = "NO_ROLE"]
    /\ Advance(n)
    /\ UpdateDone(n)
    /\ UNCHANGED <<lineVars, payload_in, reset_flag, destination_received,
                   waiting_for_ack, listen_to_all, rx_buffer, tx_buffer,
                   tx_buf_end, ack_timeout_cnt, packet, busVars, bus_in, inbox,
                   bounds, history>>

\* goto reset: icp_init_conf_struct and icp_init; ack_timeout_cnt is a global
\* neither of them touches
Reinit(n) ==
    /\ At(n, "reset")
    /\ Goto(n, "loop")
    /\ reset_flag' = [reset_flag EXCEPT ![n] = FALSE]
    /\ role' = [role EXCEPT ![n] = "NO_ROLE"]
    /\ destination_received' = [destination_received EXCEPT ![n] = FALSE]
    /\ waiting_for_ack' = [waiting_for_ack EXCEPT ![n] = FALSE]
    /\ listen_to_all' = [listen_to_all EXCEPT ![n] = FALSE]
    /\ rx_buffer' = [rx_buffer EXCEPT ![n] = <<>>]
    /\ tx_buffer' = [tx_buffer EXCEPT ![n] = NoFrame]
    /\ tx_buf_start' = [tx_buf_start EXCEPT ![n] = 0]
    /\ tx_buf_end' = [tx_buf_end EXCEPT ![n] = 0]
    /\ UNCHANGED <<lineVars, payload_in, update_now, ack_timeout_cnt, array_len,
                   packet, busVars, bus_in, inbox, bounds, history>>

-----------------------------------------------------------------------------
Receive(n) == \/ RecvGrant(n) \/ RecvForeignActive(n) \/ RecvActiveIgnored(n)
              \/ RecvInactive(n) \/ RecvFrame(n)

Command(n) == \/ StopUpdate(n) \/ Reset(n) \/ SetListenToAll(n)
              \/ \E d \in Targets : Ping(n, d)

Bus(n) == BusGrant(n) \/ BusRefuse(n) \/ BusRelease(n)

Main(n) == \/ BytesIn(n) \/ NoUpdate(n)
           \/ Acknowledge(n) \/ AckSpin(n) \/ DeliverAcked(n)
           \/ DeliverUnacked(n) \/ NothingReceived(n)
           \/ KeepWaiting(n) \/ AckTimedOut(n) \/ TimeoutSpin(n)
           \/ NothingSent(n) \/ RequestLine(n) \/ LineReserved(n)
           \/ LineBusy(n) \/ BytesOut(n) \/ SentToOne(n) \/ SentToAll(n)
           \/ BroadcastSpin(n) \/ BroadcastDone(n) \/ Reinit(n)

Next ==
    \/ \E n \in Node : Receive(n) \/ Update(n) \/ Command(n) \/ Bus(n) \/ Main(n)
    \/ BusReset \/ BusPublish

Spec == Init /\ [][Next]_vars

(***************************************************************************)
(* Fairness.  Both threads run, the broker delivers, the bus node answers  *)
(* and the tester goes on sending update.                                  *)
(***************************************************************************)
Fairness ==
    /\ WF_vars(BusPublish)
    /\ \A n \in Node : /\ WF_vars(Receive(n)) /\ WF_vars(Bus(n))
                       /\ WF_vars(Update(n)) /\ WF_vars(Main(n))

FairSpec == Spec /\ Fairness

-----------------------------------------------------------------------------
LineType ==
    /\ g_access \in [Node -> {"ACTIVE", "INACTIVE"}]
    /\ line_is_mine \in [Node -> BOOLEAN]
    /\ payload_in \in [Node -> Chunk \cup {NoFrame}]
    /\ update_now \in [Node -> BOOLEAN]
    /\ reset_flag \in [Node -> BOOLEAN]

IcpType ==
    /\ role \in [Node -> Role]
    /\ destination_received \in [Node -> BOOLEAN]
    /\ waiting_for_ack \in [Node -> BOOLEAN]
    /\ listen_to_all \in [Node -> BOOLEAN]
    /\ rx_buffer \in [Node -> Seq(Chunk)]
    /\ ack_timeout_cnt \in [Node -> 0..AckTimeout]

TxType ==
    /\ tx_buffer \in [Node -> Frame \cup {NoFrame}]
    /\ tx_buf_start \in [Node -> Nat]
    /\ tx_buf_end \in [Node -> Nat]
    /\ array_len \in [Node -> Nat]

MainType ==
    /\ pc \in [Node -> Points]
    /\ packet \in [Node -> Frame \cup {NoFrame}]

NetType ==
    /\ bus_access \in {"ACTIVE", "INACTIVE"}
    /\ bus_payload \in Seq(AccessText)
    /\ bus_in \in [Node -> Seq(AccessText)]
    /\ inbox \in [Node -> Seq(Message)]

HistoryType ==
    /\ pings \in 0..MaxPings
    /\ commands \in 0..MaxCommands
    /\ on_air \in [Node -> Chunk \cup {NoFrame}]
    /\ host_in \in [Node -> Seq(Frame)]
    /\ acked \subseteq Chunk \cup {NoFrame}

(***************************************************************************)
(* The type invariant.  ack_timeout_cnt never passes ack_timeout, and what *)
(* reaches a host or the line is a frame or the tail of one, never an      *)
(* empty buffer.                                                           *)
(***************************************************************************)
TypeOK == LineType /\ IcpType /\ TxType /\ MainType /\ NetType /\ HistoryType

(***************************************************************************)
(* Mutual exclusion on the RS485 line: two nodes are never both about to   *)
(* output bytes.  The bus node grants one request at a time; the node only *)
(* knows of it through the text published back to everybody.               *)
(***************************************************************************)
OneTransmitter == \A n, m \in Node : At(n, "bytes_out") /\ At(m, "bytes_out") => n = m

(***************************************************************************)
(* ICP_NOTIFY_PACKET_ACK is called for a frame only if its destination has *)
(* checked that very frame and handed it, or is about to hand it, to its   *)
(* host.  An acknowledgement names no frame: it is just the line going     *)
(* INACTIVE while the sender waits.                                        *)
(***************************************************************************)
Received(f) == f.dst \in Node /\ (Carries(host_in[f.dst], f) \/ packet[f.dst] = f)
AckMeansDelivered == \A f \in acked \ {Junk} : Received(f)

(***************************************************************************)
(* A node whose request was granted uses the line: there is no node that   *)
(* holds it and has gone on to other things, ICP_BUSY in its hands.        *)
(***************************************************************************)
NoIdleHold ==
    \A n \in Node : line_is_mine[n] =>
        \/ role[n] = "TX"
        \/ pc[n] \in {"set_access", "bytes_out", "puback"} \cup Clearing

(***************************************************************************)
(* While a node has a complete frame and the role RX, the node that sent   *)
(* it holds the line and still waits: the INACTIVE the receiver is about   *)
(* to publish releases the right hold and reaches a sender that listens.   *)
(***************************************************************************)
ReceiverServesHolder ==
    \A n \in Node : role[n] = "RX" /\ ValidPacket(n) /\ pc[n] \in Turn =>
        LET sender == Head(rx_buffer[n]).src
        IN role[sender] = "TX" /\ line_is_mine[sender]

(***************************************************************************)
(* icp_bytes_in never discards a frame addressed to this node by another:  *)
(* when the bytes are polled, its role and destination_received still      *)
(* belong to the transmission the bytes came with.                         *)
(***************************************************************************)
FrameIsHeard ==
    [][\A n \in Node :
          /\ BytesIn(n) /\ payload_in[n] # Junk
          /\ payload_in[n].dst = n /\ payload_in[n].src # n
          => rx_buffer'[n] # rx_buffer[n]]_vars

(***************************************************************************)
(* No host is given a packet addressed to another node, unless it asked to *)
(* listen to all.  Only the first bytes after the line became ACTIVE are   *)
(* checked against local_mac_addr; the rest of the frame is taken on the   *)
(* role and on destination_received, which two threads write.              *)
(***************************************************************************)
RightRecipient ==
    \A n \in Node \ Listeners : \A i \in 1..Len(host_in[n]) : host_in[n][i].dst = n

(***************************************************************************)
(* A host is given a frame at most once, although an acknowledged frame    *)
(* stays in rx_buffer while the main thread spins and its sender may have  *)
(* given up and gone on.                                                   *)
(***************************************************************************)
DeliveredOnce ==
    \A n \in Node : \A i, j \in 1..Len(host_in[n]) :
        host_in[n][i] = host_in[n][j] => i = j

\* The bus does not stay taken: every hold of the line ends.
LineReleased == bus_access = "ACTIVE" ~> bus_access = "INACTIVE"

\* What lies in a transmit buffer is transmitted: no node starves.
FrameLeaves == \A n \in Node : BytesToSend(n) ~> ~BytesToSend(n)

\* A main thread that spins for the line to become INACTIVE gets out.
SpinEnds == \A n \in Node : pc[n] \in Clearing ~> pc[n] \notin Clearing

\* A wait for an acknowledgement ends, by the acknowledgement or by timeout.
AckAwaitEnds == \A n \in Node : waiting_for_ack[n] ~> ~waiting_for_ack[n]
=============================================================================

------------------------------- MODULE IcpNode -------------------------------
(***************************************************************************)
(* One subsystem simulator, its two threads cut at the accesses to what    *)
(* they share.  IcpBus runs a message handler of mqtt.c in one step and a  *)
(* turn of the main loop in a few; here the main thread clears bytes_in,   *)
(* then reads payload_in byte by byte while the receive thread may be      *)
(* overwriting it, reads rx_buffer several times while an INACTIVE may     *)
(* flush it, and hands over tx_buffer while a ping may be filling it.  The *)
(* Makefiles compile without optimisation: every access is made.           *)
(*                                                                         *)
(* A byte is a frame and a place in it: place 1 stands for the header, the *)
(* last for the checksum, which matches no other bytes.  The bus and the   *)
(* other nodes are external: whatever they may publish next comes next.    *)
(***************************************************************************)
EXTENDS Integers, Sequences, FiniteSets

CONSTANTS
    LocalMac,       \* local_mac_addr
    Traffic,        \* what a behaviour may bring: frames that arrive on RS485,
                    \* frames that ping commands ask for, icp_set_listen_to_all,
                    \* how many stopupdate and reset commands
    FrameBytes,     \* bytes of a frame
    BufferLen,      \* BUFFER_LEN, of both buffers
    AckLimit,       \* conf.ack_timeout, in calls of icp_update
    MaxOnWay        \* bound: texts to the bus node, and publications not confirmed

ASSUME NodeAssumption ==
    /\ FrameBytes \in Nat /\ FrameBytes >= 2
    /\ BufferLen \in Nat /\ BufferLen > FrameBytes
    /\ AckLimit \in Nat /\ MaxOnWay \in Nat \ {0}

NoFrame == [dst |-> "none", id |-> 0]
Byte(f, i) == [frame |-> f, at |-> i]
FF == Byte(NoFrame, 0)                  \* 0xFF, what a flush leaves
Heard == UNION {t.heard : t \in Traffic}
Pinged == UNION {t.pinged : t \in Traffic}
Bytes == {FF} \cup {Byte(f, i) : f \in Heard \cup Pinged, i \in 1..FrameBytes}
FrameOf(f) == [i \in 1..FrameBytes |-> Byte(f, i)]
Flushed == [i \in 1..BufferLen |-> FF]        \* and a transmit buffer at the start
Empty == [i \in 1..FrameBytes |-> FF]
\* A frame whose checksum was flushed before it was read
Unsummed(f) == [FrameOf(f) EXCEPT ![FrameBytes] = FF]

VARIABLES
    g,        \* the globals of mqtt.c
    conf,     \* g_conf and icp.c's ack_timeout_cnt
    main,     \* the main thread: the statement it is at, and its locals
    receive,  \* the receive thread: the statement of msgarrvd it is at
    bus,      \* outside: whose the line is, the node's texts on their way to
              \* the bus node, its unconfirmed publications, the commands given
    seen      \* history: a message not taken yet, a grant overlooked, whether the
              \* last ping came while the main thread was sending or starting anew

nodeVars == <<g, conf, main, receive, bus, seen>>

NodeInit ==
    /\ bus \in [line : {"free"}, texts : {<<>>}, unconfirmed : {0}, orders : {0}, traffic : Traffic]
    /\ g = [access |-> "INACTIVE", mine |-> FALSE, payload_in |-> Empty, bytes_in |-> FALSE,
            update_now |-> FALSE, reset_flag |-> FALSE, sent |-> FALSE]
    /\ conf = [role |-> "NO_ROLE", destination_received |-> FALSE, waiting_for_ack |-> FALSE,
               listen_to_all |-> bus.traffic.listens, rx_buffer |-> Flushed, rx_buf_pos |-> 0,
               tx_buffer |-> Flushed, tx_buf_start |-> 0, tx_buf_end |-> 0, ack_count |-> 0]
    /\ main = [at |-> "loop", back |-> "loop", n |-> 0, pos |-> 0, packet |-> <<>>]
    /\ receive = [at |-> "idle", frame |-> NoFrame, n |-> 0]
    /\ seen = [fresh |-> FALSE, overlooked |-> FALSE, pinged |-> FALSE]

-----------------------------------------------------------------------------
(* Steps of the main thread.  At(p) is the guard, Goto(p) what it sets.    *)

At(p) == main.at = p
Goto(p) == main' = [main EXCEPT !.at = p]
Test(p, condition, yes, no) == At(p) /\ Goto(IF condition THEN yes ELSE no)
MainOnly == UNCHANGED <<g, conf, receive, bus, seen>>
ConfOnly == UNCHANGED <<g, receive, bus, seen>>

Asking == \E i \in 1..Len(bus.texts) : bus.texts[i] = "ACTIVE"

\* icp_flush_rx_buffer, on either thread
Flush(c) == [c EXCEPT !.rx_buffer = Flushed, !.rx_buf_pos = 0]

\* The loop sees bytes_in and clears it; then it calls icp_bytes_in
TakeBytes ==
    /\ At("loop")
    /\ Goto(IF g.bytes_in THEN "call" ELSE "updating")
    /\ g' = [g EXCEPT !.bytes_in = FALSE]
    /\ UNCHANGED <<conf, receive, bus, seen>>

\* icp_bytes_in: whether the address is still to be looked at
CallBytesIn ==
    /\ Test("call", conf.role = "RX" /\ ~conf.destination_received, "mark", "room")
    /\ seen' = [seen EXCEPT !.fresh = FALSE]
    /\ UNCHANGED <<g, conf, receive, bus>>
MarkReceived ==
    /\ At("mark") /\ Goto("address")
    /\ conf' = [conf EXCEPT !.destination_received = TRUE] /\ ConfOnly
ReadAddress ==
    /\ Test("address", g.payload_in[1].frame.dst # LocalMac, "foreign", "room")
    /\ MainOnly
\* Another's frame: LISTEN_IN, or no role and a flush.  The role is read again.
ForeignFrame ==
    /\ At("foreign") /\ Goto(IF conf.listen_to_all THEN "room" ELSE "drop")
    /\ conf' = [conf EXCEPT !.role = IF conf.listen_to_all THEN "LISTEN_IN" ELSE "NO_ROLE"]
    /\ ConfOnly
DropFrame ==
    /\ At("drop") /\ Goto("room")
    /\ conf' = Flush(conf) /\ ConfOnly

\* Fault: the room left is not looked at
RoomForAny ==
    /\ At("room") /\ MainOnly
    /\ main' = IF conf.role \in {"RX", "LISTEN_IN"}
               THEN [main EXCEPT !.at = "store", !.n = 0, !.pos = conf.rx_buf_pos]
               ELSE [main EXCEPT !.at = "updating"]

\* Whether the bytes are wanted and fit
Room ==
    /\ At("room") /\ MainOnly
    /\ main' = IF /\ conf.role \in {"RX", "LISTEN_IN"}
                  /\ conf.rx_buf_pos + FrameBytes < BufferLen
               THEN [main EXCEPT !.at = "store", !.n = 0, !.pos = conf.rx_buf_pos]
               ELSE [main EXCEPT !.at = "updating"]
\* memmove, byte by byte
StoreByte ==
    /\ At("store")
    /\ main' = [main EXCEPT !.n = @ + 1, !.at = IF main.n + 1 = FrameBytes THEN "sum" ELSE @]
    /\ conf' = [conf EXCEPT !.rx_buffer[main.pos + main.n + 1] = g.payload_in[main.n + 1]]
    /\ ConfOnly
\* rx_buf_pos += num_bytes: read, then written
ReadPosition ==
    /\ At("sum") /\ MainOnly
    /\ main' = [main EXCEPT !.at = "advance", !.pos = conf.rx_buf_pos + FrameBytes, !.n = 0]
\* Fault: bytes_in is cleared when the bytes have been taken
PositionClears ==
    /\ At("advance")
    /\ main' = [main EXCEPT !.at = "updating", !.pos = 0]
    /\ conf' = [conf EXCEPT !.rx_buf_pos = main.pos]
    /\ g' = [g EXCEPT !.bytes_in = FALSE] /\ UNCHANGED <<receive, bus, seen>>

WritePosition ==
    /\ At("advance")
    /\ main' = [main EXCEPT !.at = "updating", !.pos = 0]
    /\ conf' = [conf EXCEPT !.rx_buf_pos = main.pos] /\ ConfOnly

\* icp_update runs when update_now is set; icp_process_rx_buffer begins
StartUpdate ==
    /\ Test("updating", g.update_now, "header", "resetting") /\ MainOnly
\* Whether there are bytes, and the three checks of the header
CheckHeader ==
    /\ Test("header", conf.rx_buf_pos # 0 /\ conf.rx_buffer[1].at = 1, "length", "role")
    /\ MainOnly
\* The length is read again after its check; 0xFFFF, of a buffer flushed
\* meanwhile, is copied out of a smaller buffer: undefined from here on
ReadLength ==
    /\ At("length") /\ MainOnly
    /\ main' = IF conf.rx_buffer[1].at = 1
               THEN [main EXCEPT !.at = "data", !.packet = <<conf.rx_buffer[1]>>]
               ELSE [main EXCEPT !.at = "undefined"]

\* packet_data is a copy of what stands between header and checksum
CopyData ==
    /\ At("data") /\ MainOnly
    /\ main' = [main EXCEPT !.at = "checksum",
                            !.packet = @ \o SubSeq(conf.rx_buffer, 2, FrameBytes - 1)]

\* Fault: the checksum is not looked at
SumUnchecked == At("checksum") /\ Goto("reread") /\ MainOnly

\* The checksum is taken of the buffer, not of the copy
CheckSum ==
    /\ At("checksum") /\ MainOnly
    /\ LET f == main.packet[1].frame
       IN main' = IF \A i \in 1..FrameBytes : conf.rx_buffer[i] = Byte(f, i)
                  THEN [main EXCEPT !.at = "reread"]
                  ELSE [main EXCEPT !.at = "role", !.packet = <<>>]

\* packet.checksum is read of the buffer again, which may have been flushed
ReadChecksum ==
    /\ At("reread") /\ MainOnly
    /\ main' = [main EXCEPT !.at = "receiving",
                            !.packet = Append(@, conf.rx_buffer[FrameBytes])]

Receiving ==
    /\ Test("receiving", conf.role \in {"RX", "LISTEN_IN"}, "mine", "taken") /\ MainOnly
Addressed ==
    /\ At("mine") /\ MainOnly
    /\ main' = IF conf.role = "RX" THEN [main EXCEPT !.at = "clear", !.back = "idle"]
               ELSE [main EXCEPT !.at = "idle"]
EndReception ==
    /\ At("idle") /\ Goto("taken")
    /\ conf' = [conf EXCEPT !.role = "NO_ROLE"] /\ ConfOnly
\* The buffer is flushed and icp_packet_received_cb given the packet
GivePacket ==
    /\ At("taken") /\ ConfOnly
    /\ main' = [main EXCEPT !.at = "role", !.packet = <<>>]
    /\ conf' = Flush(conf)

-----------------------------------------------------------------------------
(* The main thread: sending, and the waits for the line.                   *)

\* What is published: sent is cleared first, then set by the confirmation
Publishes(publication) ==
    /\ g' = [g EXCEPT !.sent = FALSE]
    /\ bus.unconfirmed < MaxOnWay /\ Len(bus.texts \o publication) <= MaxOnWay
    /\ bus' = [bus EXCEPT !.texts = @ \o publication, !.unconfirmed = @ + 1]
    /\ UNCHANGED <<conf, receive>>

\* icp_clear_access_sig_cb, and its spin
ClearAccess ==
    /\ At("clear") /\ Goto("spin")
    /\ Publishes(<<"INACTIVE">>) /\ UNCHANGED seen
Spin ==
    /\ At("spin") /\ g.access = "INACTIVE" /\ MainOnly
    /\ main' = [main EXCEPT !.at = main.back, !.back = "loop"]

\* icp_update behind the receive buffer: only a node without a role sends
RoleTest == Test("role", conf.role = "NO_ROLE", "tx", "waiting") /\ MainOnly
AnyToSend == Test("tx", conf.tx_buf_start <= conf.tx_buf_end - 1, "line", "updated") /\ MainOnly
LineTest == Test("line", g.access = "INACTIVE", "ask", "updated") /\ MainOnly
\* icp_set_access_sig_cb: the request, and the poll for the answer
Ask ==
    /\ At("ask") /\ Goto("poll")
    /\ Publishes(<<"ACTIVE">>) /\ UNCHANGED seen
PollEnds == At("poll") /\ g.access = "ACTIVE" /\ Goto("result") /\ MainOnly
\* Ten seconds, in which any handler ends
PollTimesOut ==
    /\ At("poll") /\ g.access = "INACTIVE" /\ receive.at = "idle"
    /\ Goto("result") /\ MainOnly
GrantTest ==
    /\ Test("result", g.mine, "grant", "updated")
    /\ seen' = [seen EXCEPT !.overlooked =
                    @ \/ (~g.mine /\ (Asking \/ receive.at = "granting"))]
    /\ UNCHANGED <<g, conf, receive, bus>>
BecomeSender ==
    /\ At("grant") /\ Goto("out")
    /\ conf' = [conf EXCEPT !.role = "TX"] /\ ConfOnly
\* The arguments of ICP_BYTES_OUT
BytesOut ==
    /\ At("out") /\ MainOnly
    /\ main' = [main EXCEPT !.at = "publish", !.n = conf.tx_buf_end - conf.tx_buf_start + 1,
                            !.pos = conf.tx_buf_start]

\* icp_bytes_out_cb: sent is cleared, the bytes are published; packet keeps them
PublishBytes ==
    /\ At("publish")
    /\ main' = [main EXCEPT !.at = "confirm",
                            !.packet = SubSeq(conf.tx_buffer, main.pos + 1, main.pos + main.n)]
    /\ Publishes(<<>>) /\ UNCHANGED seen
Confirmed == At("confirm") /\ g.sent /\ Goto("finished") /\ MainOnly
\* icp_notify_bytes_out_finished looks at tx_buffer, not at what was sent
BytesOutFinished ==
    /\ At("finished") /\ ConfOnly
    /\ LET after == [main EXCEPT !.packet = <<>>]
       IN IF conf.tx_buffer[1].frame.dst = "BROADCAST"
          THEN main' = [after EXCEPT !.at = "clear", !.back = "unsend"] /\ UNCHANGED conf
          ELSE /\ main' = [after EXCEPT !.at = "advanceTx"]
               /\ conf' = [conf EXCEPT !.waiting_for_ack = TRUE]
EndBroadcast ==
    /\ At("unsend") /\ Goto("advanceTx")
    /\ conf' = [conf EXCEPT !.role = "NO_ROLE"] /\ ConfOnly
\* tx_buf_start += what the call returned; C leaves open when it is read
AdvanceTx ==
    /\ At("advanceTx")
    /\ main' = [main EXCEPT !.at = "updated", !.n = 0, !.pos = 0]
    /\ \E start \in {main.pos, conf.tx_buf_start} :
          conf' = [conf EXCEPT !.tx_buf_start = start + main.n]
    /\ ConfOnly

\* Behind the label end: an update finds the node in a role
CountUpdate ==
    /\ At("waiting") /\ ConfOnly
    /\ IF ~conf.waiting_for_ack THEN Goto("updated") /\ UNCHANGED conf
       ELSE IF AckLimit <= conf.ack_count
            THEN Goto("expired") /\ conf' = [conf EXCEPT !.ack_count = 0]
            ELSE Goto("updated") /\ conf' = [conf EXCEPT !.ack_count = @ + 1]

\* Fault: a sender that gives up keeps the line
ExpireKeepsLine ==
    /\ At("expired") /\ ConfOnly
    /\ main' = [main EXCEPT !.at = "updated"]
    /\ conf' = [conf EXCEPT !.waiting_for_ack = FALSE, !.role = "NO_ROLE"]

\* icp_ack_timeout
Expire ==
    /\ At("expired") /\ ConfOnly
    /\ main' = [main EXCEPT !.at = "clear", !.back = "updated"]
    /\ conf' = [conf EXCEPT !.waiting_for_ack = FALSE, !.role = "NO_ROLE"]

\* Back in the loop: update_now is cleared, whoever has set it meanwhile
EndUpdate ==
    /\ At("updated") /\ Goto("resetting")
    /\ g' = [g EXCEPT !.update_now = FALSE]
    /\ UNCHANGED <<conf, receive, bus, seen>>
\* The label reset: icp_init_conf_struct and icp_init, with new buffers
ResetTest ==
    /\ At("resetting") /\ Goto("loop")
    /\ seen' = [seen EXCEPT
           !.pinged = @ \/ (g.reset_flag /\ receive.at = "ping"),
           !.overlooked = @ \/ (g.reset_flag /\ (bus.line = "node" \/ Asking))]
    /\ UNCHANGED <<receive, bus>>
    /\ g' = [g EXCEPT !.reset_flag = FALSE]
    /\ conf' = IF g.reset_flag
               THEN [Flush(conf) EXCEPT !.role = "NO_ROLE", !.destination_received = FALSE,
                                        !.waiting_for_ack = FALSE, !.listen_to_all = FALSE,
                                        !.tx_buffer = Flushed, !.tx_buf_start = 0, !.tx_buf_end = 0]
               ELSE conf

Main ==
    \/ TakeBytes \/ CallBytesIn \/ MarkReceived \/ ReadAddress \/ ForeignFrame
    \/ DropFrame \/ Room \/ StoreByte \/ ReadPosition \/ WritePosition
    \/ StartUpdate \/ CheckHeader \/ ReadLength \/ CopyData \/ CheckSum
    \/ ReadChecksum \/ Receiving \/ Addressed \/ EndReception \/ GivePacket
    \/ ClearAccess \/ Spin \/ RoleTest \/ AnyToSend \/ LineTest \/ Ask \/ PollEnds
    \/ PollTimesOut \/ GrantTest \/ BecomeSender \/ BytesOut \/ PublishBytes \/ Confirmed
    \/ BytesOutFinished \/ EndBroadcast \/ AdvanceTx \/ CountUpdate \/ Expire
    \/ EndUpdate \/ ResetTest

-----------------------------------------------------------------------------
(* The receive thread: msgarrvd, one message at a time.                    *)

Handling(p) == receive.at = p
Turn(p) == receive' = [receive EXCEPT !.at = p]
ReceiveOnly == UNCHANGED <<main, bus>>
HeadIs(text) == bus.texts # <<>> /\ Head(bus.texts) = text
Running == main.at # "undefined"

\* The bus grants the node's request, or drops it as the line is taken
Granted ==
    /\ Handling("idle") /\ HeadIs("ACTIVE")
    /\ bus' = [bus EXCEPT !.texts = Tail(@),
                          !.line = IF @ = "free" THEN "node" ELSE @]
    /\ IF bus.line # "free" \/ g.mine THEN UNCHANGED <<receive, g>>
       ELSE Turn("granting") /\ g' = [g EXCEPT !.access = "ACTIVE"]
    /\ UNCHANGED <<main, conf, seen>>
GrantNoticed ==
    /\ Handling("granting") /\ Turn("idle")
    /\ g' = [g EXCEPT !.mine = TRUE]
    /\ ReceiveOnly /\ UNCHANGED <<conf, seen>>

\* Another node's transmission begins
OtherActive ==
    /\ Handling("idle") /\ bus.line = "free"
    /\ bus' = [bus EXCEPT !.line = "other"]
    /\ IF g.mine THEN UNCHANGED <<receive, g>>
       ELSE Turn("active") /\ g' = [g EXCEPT !.access = "ACTIVE"]
    /\ UNCHANGED <<main, conf, seen>>
NotifyActive ==
    /\ Handling("active") /\ Turn("begun")
    /\ conf' = [conf EXCEPT !.role = "RX"]
    /\ ReceiveOnly /\ UNCHANGED <<g, seen>>
ForgetDestination ==
    /\ Handling("begun") /\ Turn("idle")
    /\ conf' = [conf EXCEPT !.destination_received = FALSE]
    /\ ReceiveOnly /\ UNCHANGED <<g, seen>>

\* INACTIVE, the node's own text or another's
Inactive(texts) ==
    /\ Handling("idle") /\ Turn("inactive")
    /\ bus' = [bus EXCEPT !.texts = texts, !.line = "free"]
    /\ g' = [g EXCEPT !.access = "INACTIVE"]
    /\ UNCHANGED <<main, conf, seen>>
Released == HeadIs("INACTIVE") /\ Inactive(Tail(bus.texts))
OtherInactive == bus.line # "free" /\ Inactive(bus.texts)

\* Fault: a reception that is cancelled leaves its bytes
NotifyInactiveKeeping ==
    /\ Handling("inactive") /\ ReceiveOnly /\ UNCHANGED <<g, seen>>
    /\ IF conf.waiting_for_ack /\ conf.role = "TX"
       THEN Turn("acknowledged") /\ conf' = [conf EXCEPT !.role = "NO_ROLE"]
       ELSE Turn("freeing") /\ conf' = [conf EXCEPT !.role = IF @ = "TX" THEN @ ELSE "NO_ROLE"]

\* icp_notify_acces_inactive
NotifyInactive ==
    /\ Handling("inactive") /\ ReceiveOnly /\ UNCHANGED <<g, seen>>
    /\ \/ /\ conf.waiting_for_ack /\ conf.role = "TX"
          /\ Turn("acknowledged") /\ conf' = [conf EXCEPT !.role = "NO_ROLE"]
       \/ /\ conf.role \in {"RX", "LISTEN_IN"}
          /\ Turn("cancelled") /\ conf' = [conf EXCEPT !.role = "NO_ROLE"]
       \/ /\ conf.role = "NO_ROLE" \/ (conf.role = "TX" /\ ~conf.waiting_for_ack)
          /\ Turn("freeing") /\ UNCHANGED conf
AckReceived ==
    /\ Handling("acknowledged") /\ Turn("freeing")
    /\ conf' = [conf EXCEPT !.waiting_for_ack = FALSE]
    /\ ReceiveOnly /\ UNCHANGED <<g, seen>>
FlushCancelled ==
    /\ Handling("cancelled") /\ Turn("freeing")
    /\ conf' = Flush(conf)
    /\ ReceiveOnly /\ UNCHANGED <<g, seen>>
LineFree ==
    /\ Handling("freeing") /\ Turn("idle")
    /\ g' = [g EXCEPT !.mine = FALSE]
    /\ ReceiveOnly /\ UNCHANGED <<conf, seen>>

\* RS485: the one slot, byte by byte, and the flag
BytesArrive(f) ==
    /\ Handling("idle") /\ receive' = [at |-> "bytes", frame |-> f, n |-> 0]
    /\ seen' = [seen EXCEPT !.fresh = FALSE]
    /\ ReceiveOnly /\ UNCHANGED <<g, conf>>
WritePayload ==
    /\ Handling("bytes") /\ receive.n < FrameBytes
    /\ receive' = [receive EXCEPT !.n = @ + 1]
    /\ g' = [g EXCEPT !.payload_in[receive.n + 1] = Byte(receive.frame, receive.n + 1)]
    /\ ReceiveOnly /\ UNCHANGED <<conf, seen>>
FlagBytes ==
    /\ Handling("bytes") /\ receive.n = FrameBytes
    /\ receive' = [at |-> "idle", frame |-> NoFrame, n |-> 0]
    /\ g' = [g EXCEPT !.bytes_in = TRUE] /\ seen' = [seen EXCEPT !.fresh = TRUE]
    /\ ReceiveOnly /\ UNCHANGED conf

\* A ping command: icp_send_data fills tx_buffer whatever it holds
Sending == \/ main.at \in {"line", "ask", "poll", "result", "grant", "out", "publish",
                          "confirm", "finished", "unsend", "advanceTx"}
           \/ main.at \in {"clear", "spin"} /\ main.back = "unsend"
Pings(before) == seen' = [seen EXCEPT !.pinged = before \/ Sending]

Ping(f) ==
    /\ Handling("idle") /\ receive' = [at |-> "ping", frame |-> f, n |-> 0]
    /\ conf' = [conf EXCEPT !.tx_buf_start = 0, !.tx_buf_end = 0]
    /\ Pings(FALSE) /\ ReceiveOnly /\ UNCHANGED g

WriteTx ==
    /\ Handling("ping") /\ receive.n < FrameBytes
    /\ receive' = [receive EXCEPT !.n = @ + 1]
    /\ conf' = [conf EXCEPT !.tx_buffer[receive.n + 1] = Byte(receive.frame, receive.n + 1)]
    /\ Pings(seen.pinged) /\ ReceiveOnly /\ UNCHANGED g

\* Fault: the end is set before the checksum is written
EndTxFirst ==
    /\ Handling("ping") /\ receive.n = FrameBytes - 1
    /\ receive' = [at |-> "idle", frame |-> NoFrame, n |-> 0]
    /\ conf' = [conf EXCEPT !.tx_buf_end = @ + FrameBytes - 1]
    /\ Pings(seen.pinged) /\ ReceiveOnly /\ UNCHANGED g

EndTx ==
    /\ Handling("ping") /\ receive.n = FrameBytes
    /\ receive' = [at |-> "idle", frame |-> NoFrame, n |-> 0]
    /\ conf' = [conf EXCEPT !.tx_buf_end = @ + FrameBytes - 1]
    /\ Pings(seen.pinged) /\ ReceiveOnly /\ UNCHANGED g

\* The commands that set flags
UpdateCommand ==
    /\ Handling("idle") /\ g' = [g EXCEPT !.update_now = TRUE]
    /\ ReceiveOnly /\ UNCHANGED <<conf, receive, seen>>
Ordered ==
    /\ Handling("idle") /\ bus.orders < bus.traffic.orders
    /\ bus' = [bus EXCEPT !.orders = @ + 1]
    /\ UNCHANGED <<main, conf, receive>>
StopUpdateCommand ==
    /\ Ordered /\ g' = [g EXCEPT !.update_now = FALSE] /\ UNCHANGED seen
ResetCommand ==
    /\ Ordered
    /\ g' = [g EXCEPT !.reset_flag = TRUE, !.access = "INACTIVE", !.mine = FALSE, !.bytes_in = FALSE]
    /\ seen' = [seen EXCEPT !.fresh = FALSE,
                            !.overlooked = @ \/ bus.line = "node" \/ Asking]

\* onSend, on the library's threads
OnSend ==
    /\ bus.unconfirmed > 0
    /\ g' = [g EXCEPT !.sent = TRUE] /\ bus' = [bus EXCEPT !.unconfirmed = @ - 1]
    /\ UNCHANGED <<main, conf, receive, seen>>

Handler ==
    \/ GrantNoticed \/ NotifyActive \/ ForgetDestination \/ NotifyInactive \/ AckReceived
    \/ FlushCancelled \/ LineFree \/ WritePayload \/ FlagBytes \/ WriteTx \/ EndTx

Arrival ==
    \/ Granted \/ OtherActive \/ Released \/ OtherInactive \/ UpdateCommand \/ StopUpdateCommand \/ ResetCommand
    \/ \E f \in bus.traffic.heard : BytesArrive(f)
    \/ \E f \in bus.traffic.pinged : Ping(f)

NodeNext == Main \/ (Running /\ (Handler \/ Arrival \/ OnSend))

NodeSpec == NodeInit /\ [][NodeNext]_nodeVars

\* The threads run and the library confirms.  The tester goes on sending
\* updates, not all of them while one is being done, as that one wipes them
\* out; the bus hands on the node's texts and other nodes go on transmitting.
NodeFairness ==
    /\ WF_nodeVars(Main) /\ WF_nodeVars(Running /\ Handler) /\ WF_nodeVars(Running /\ OnSend)
    /\ SF_nodeVars(main.at \in {"loop", "updating", "resetting"} /\ UpdateCommand)
    /\ SF_nodeVars(Running /\ (Granted \/ Released))
    /\ SF_nodeVars(Running /\ (OtherActive \/ (bus.line = "other" /\ OtherInactive)))

NodeFairSpec == NodeSpec /\ NodeFairness

-----------------------------------------------------------------------------
(* Properties                                                              *)

\* The node's variables are in their ranges; rx_buf_pos, which a flush on one
\* thread and += on the other may set from an old value, stays inside.
NodeTypeOK ==
    /\ conf.role \in {"NO_ROLE", "TX", "RX", "LISTEN_IN"}
    /\ conf.rx_buf_pos \in 0..BufferLen - 1 /\ DOMAIN conf.rx_buffer = 1..BufferLen
    /\ \A i \in 1..BufferLen : conf.rx_buffer[i] \in Bytes
    /\ conf.tx_buf_end \in 0..FrameBytes - 1 /\ conf.tx_buf_start \in 0..FrameBytes
    /\ conf.ack_count \in 0..AckLimit /\ bus.line \in {"free", "node", "other"}

\* A packet handed to the host is a frame that somebody sent, though
\* payload_in, tx_buffer and rx_buffer may be overwritten or flushed while
\* they are read; only its field checksum, read once more after the check,
\* may be that of a flushed buffer, and then nothing is left in rx_buffer.
PacketsAreFrames ==
    At("taken") =>
        \E f \in Heard :
            \/ main.packet = FrameOf(f)
            \/ main.packet = Unsummed(f) /\ conf.rx_buffer = Flushed

\* A message whose handler has ended is handed to icp_bytes_in, unless the
\* next one or a reset comes first: clearing bytes_in loses none.
BytesAreTaken == seen.fresh => g.bytes_in \/ At("call")

\* What is published is one whole frame, unless a ping came while the main
\* thread was sending or starting anew, and none since.
SentWhole ==
    At("confirm") /\ ~seen.pinged => \E f \in Pinged : main.packet = FrameOf(f)

\* The line granted to the node is released in the end, unless the node
\* overlooked the grant: its poll ended before line_is_mine was set, or a
\* reset was commanded, or carried out, while it asked or held the line.
GrantedIsReleased ==
    g.mine ~> (~g.mine \/ seen.overlooked \/ At("undefined"))

\* Bytes in the receive buffer, whatever they are, do not stay: a packet or
\* the end of a transmission empties it, so junk costs one transmission.
JunkIsFlushed ==
    conf.rx_buf_pos # 0 ~> (conf.rx_buf_pos = 0 \/ seen.overlooked \/ At("undefined"))

\* Whatever one thread overwrites while the other reads it, buffer positions
\* stay inside, the host is given the header and data of a whole frame, and no
\* message's flag is lost.
ReceivedWhole ==
    /\ NodeTypeOK /\ PacketsAreFrames /\ BytesAreTaken
=============================================================================

----------------------------- MODULE MqttConnect -----------------------------
(***************************************************************************)
(* The calls of the asynchronous client that are not about messages:       *)
(* connecting, to one server after the other, disconnecting, subscribing;  *)
(* and how the two threads of MQTTAsync.c answer them while connections    *)
(* are refused, time out and break.  What happens to messages is the       *)
(* subject of MqttDelivery; here a publish is a call like the others.      *)
(*                                                                         *)
(* A handler of the code changes much of the client's state through the    *)
(* functions it calls, so each function is an operator from the state to   *)
(* the state: closeOnly(h) is the handle h after MQTTAsync_closeOnly.      *)
(* mqttasync_mutex makes each command, and each half of a turn of the      *)
(* receive thread, one action.                                             *)
(*                                                                         *)
(* The application connects when it is not connected, and again whenever   *)
(* connectionLost is called, as connlost of mqtt.c does.                   *)
(***************************************************************************)
EXTENDS Integers, Sequences, SequencesExt, FiniteSets

CONSTANTS
    ConnectOptions,  \* options of connect: serverURIcount, MQTTVersion, cleansession
    MayWait,         \* whether a disconnect has a timeout other than 0
    Asks,            \* types of the calls between connect and disconnect
    MaxAPICalls,     \* bound: calls of the API
    MaxAsks,         \* bound: calls between connect and disconnect
    MaxFaults        \* bound: whatever goes wrong outside the client

ASSUME ConnectAssumption ==
    /\ ConnectOptions \subseteq [serverURIcount : Nat, MQTTVersion : {0, 3, 4}, cleansession : BOOLEAN]
    /\ MayWait \subseteq BOOLEAN
    /\ Asks \subseteq {"SUBSCRIBE", "UNSUBSCRIBE", "PUBLISH0", "PUBLISH1"}
    /\ {MaxAPICalls, MaxAsks, MaxFaults} \subseteq Nat

VARIABLES
    options,    \* the options the application connects with
    handle,     \* MQTTAsyncs, its Clients, and the connection
    received,       \* what cycle has returned to the receive thread
    app,        \* the application: what it does, the calls it made, and what
                \* it was told of each
    replied,   \* history: what the broker replied to each call
    tried,      \* history: servers and versions tried for the present connect
    links,       \* history: how many connections were up, lost, and left
    astray,     \* history: what the properties make an exception of
    ended,      \* why the behaviour is not followed any further
    faults      \* bound

connVars == <<options, handle, received, app, replied, tried, links, astray, ended, faults>>

APICall == 1..MaxAPICalls
Command(type, call) == [type |-> type, call |-> call, currentURI |-> 0, MQTTVersion |-> 0,
                        internal |-> FALSE, waits |-> FALSE]

\* Where a behaviour ends: the list of servers was read beyond its end; a command
\* was used that had been freed; a connect that had been done was made again
\* because it took too long; or the CONNACK of one connection is about to be taken
\* for that of the next.  The first two are undefined in C; after the others the
\* properties below do not hold.
Endings == {"overrun", "freed", "undone", "stale"}

IdlePack == [type |-> "none"]
ErrorPack == [type |-> "error"]

ConnInit ==
    /\ options \in ConnectOptions
    /\ handle = [connected |-> FALSE, connect_state |-> 0, outboundMsgs |-> {},
                 commands |-> <<>>, responses |-> <<>>, pending_write |-> 0,
                 connect |-> Command("CONNECT", 0), disconnect |-> Command("DISCONNECT", 0),
                 socket |-> "closed", writing |-> <<>>, to_broker |-> <<>>, to_client |-> <<>>]
    /\ received = IdlePack
    /\ app = [is |-> "off", calls |-> <<>>, told |-> [k \in APICall |-> <<>>]]
    /\ replied = [k \in APICall |-> {}] /\ tried = <<>>
    /\ links = [up |-> 0, lost |-> 0, left |-> 0, since |-> 0]
    /\ astray = [connects |-> {}, response |-> FALSE]
    /\ ended = "no" /\ faults = 0

Fault == faults < MaxFaults /\ faults' = faults + 1
NoFault == UNCHANGED faults

-----------------------------------------------------------------------------
(* The functions of the client.                                            *)

\* The state is passed through functions as one record
State == [h |-> handle, a |-> app, n |-> links]
Becomes(s) == handle' = s.h /\ app' = s.a /\ links' = s.n

\* Fault: whatever the command, not again if the queue has any
AddedToEmpty(s, command) ==
    IF s.h.commands = <<>> THEN [s EXCEPT !.h.commands = <<command>>] ELSE s

\* MQTTAsync_addCommand: connects and the client's own disconnects go first
addCommand(s, command) ==
    IF command.type = "CONNECT" \/ command.internal
    THEN IF s.h.commands # <<>> /\ Head(s.h.commands).type = command.type
         THEN s ELSE [s EXCEPT !.h.commands = <<command>> \o @]
    ELSE [s EXCEPT !.h.commands = Append(@, command)]

\* The callback of a call: the application takes note
Called(s, command, result) ==
    [s EXCEPT !.a.told[command.call] = Append(@, result),
              !.a.is = IF command.type = "CONNECT"
                       THEN IF result = "success" THEN "on" ELSE "off"
                       ELSE IF command.type = "DISCONNECT" THEN "off" ELSE @]

\* MQTTAsync_connect: its callback is the callback of any connect that goes on
connectCall(s) ==
    IF Len(s.a.calls) = MaxAPICalls THEN [s EXCEPT !.a.is = "done"]
    ELSE LET command == Command("CONNECT", Len(s.a.calls) + 1)
         IN addCommand([s EXCEPT !.a.calls = Append(@, "CONNECT"), !.a.is = "connecting",
                                 !.h.connect.call = command.call], command)

\* Fault: connect_state is left as it was
CloseKeepsState(s) ==
    [s EXCEPT !.h.connected = FALSE, !.h.socket = "closed",
              !.h.writing = <<>>, !.h.to_broker = <<>>, !.h.to_client = <<>>]

\* MQTTAsync_closeOnly
closeOnly(s) ==
    [s EXCEPT !.h.connected = FALSE, !.h.connect_state = 0, !.h.socket = "closed",
              !.h.writing = <<>>, !.h.to_broker = <<>>, !.h.to_client = <<>>]

\* MQTTAsync_cleanSession, if the session is to be clean
cleanedSession(s) ==
    IF options.cleansession
    THEN [s EXCEPT !.h.outboundMsgs = {}, !.h.responses = <<>>, !.h.commands = <<>>] ELSE s

closeSession(s) == cleanedSession(closeOnly(s))

\* MQTTAsync_disconnect_internal
disconnectInternal(s) ==
    IF s.h.connected
    THEN addCommand(s, [Command("DISCONNECT", 0) EXCEPT !.internal = TRUE]) ELSE s

\* Fault: whether it was connected is asked when it no longer is
WasConnectedAfter(s) == closeSession(s).h.connected

WasConnected(s) == s.h.connected

\* Fault: only when every message is acknowledged
IsDueWhenDone(s, command, expired) == s.h.outboundMsgs = {}

\* The messages under way are acknowledged, or the timeout is over
IsDue(s, command, expired) == s.h.outboundMsgs = {} \/ ~command.waits \/ expired

\* MQTTAsync_checkDisconnect, with the callbacks that it makes
checkDisconnect(s, command, expired) ==
    LET shut == closeSession([s EXCEPT !.n.lost = @ + (IF command.internal /\ WasConnected(s) THEN 1 ELSE 0),
                                         !.n.left = @ + (IF ~command.internal /\ s.h.connected THEN 1 ELSE 0)])
    IN IF ~IsDue(s, command, expired) THEN s
       ELSE IF ~command.internal THEN Called(shut, command, "success")
       ELSE IF WasConnected(s) THEN connectCall(shut) ELSE shut

\* Fault: the list of servers is not looked at
CheckConnVersion(command) == command.MQTTVersion = 4 /\ options.MQTTVersion = 0

\* MQTTAsync_checkConn: there is another server or version to try
checkConn(command) ==
    \/ command.currentURI < options.serverURIcount
    \/ command.MQTTVersion = 4 /\ options.MQTTVersion = 0

\* Fault: each attempt that fails is reported
ReportsEach(s) ==
    Called(IF checkConn(s.h.connect) THEN addCommand(closeOnly(s), s.h.connect)
           ELSE closeSession(s), s.h.connect, "failure")

\* An attempt has failed; written out in five places
NextAttempt(s) ==
    IF checkConn(s.h.connect) THEN addCommand(closeOnly(s), s.h.connect)
    ELSE Called(closeSession(s), s.h.connect, "failure")

\* The server and the version that a connect goes on with
NextServer(command) ==
    LET both == options.MQTTVersion = 0
        turn == options.serverURIcount > 0 /\ (both => command.MQTTVersion = 3)
        version == IF turn /\ both THEN 4 ELSE command.MQTTVersion
    IN [command EXCEPT
          !.currentURI = IF turn THEN @ + 1 ELSE @,
          !.MQTTVersion = IF ~both THEN options.MQTTVersion
                          ELSE IF version = 0 THEN 4 ELSE 3]

IsBeyond(command) ==
    options.serverURIcount > 0 /\ command.currentURI >= options.serverURIcount

-----------------------------------------------------------------------------
(* The send thread.                                                        *)

NextCommand(type) == handle.commands # <<>> /\ Head(handle.commands).type = type
Taken == [State EXCEPT !.h.commands = Tail(@)]
InUse(h) == h.connect_state # 0 \/ h.connected

\* A CONNECT is processed.  If the client were in use it would be dropped, which
\* never happens: see ConnectIsTried.
Attempting(command) ==
    /\ NextCommand("CONNECT") /\ ~InUse(handle)
    /\ command = NextServer(Head(handle.commands))
    /\ tried' = Append(IF Head(handle.commands).MQTTVersion = 0 THEN <<>> ELSE tried,
                       <<command.currentURI, command.MQTTVersion>>)

\* The TCP connect is under way, or done and CONNECT sent.  What the receive
\* thread has read from the last connection is taken to be from this one if it
\* has the number of the last.
ConnectStarts(command) ==
    /\ Attempting(command) /\ ~IsBeyond(command)
    /\ \E done \in BOOLEAN :
         Becomes([Taken EXCEPT
                    !.h.connect = command,
                    !.h.connect_state = IF done THEN 3 ELSE 1,
                    !.h.socket = IF done THEN "open" ELSE "opening",
                    !.h.to_broker = IF done THEN <<command>> ELSE <<>>])
    /\ received' \in {received, IdlePack}
    /\ ended' = IF received'.type = "CONNECT" THEN "stale" ELSE ended
    /\ UNCHANGED <<replied, astray>> /\ NoFault

\* It fails at once, or the list of servers is read beyond its end, which
\* gives no server or ends the program
ConnectFails(command) ==
    /\ Attempting(command)
    /\ IF IsBeyond(command) THEN NoFault /\ ended' \in {"no", "overrun"}
       ELSE Fault /\ UNCHANGED ended
    /\ Becomes(IF checkConn(command) THEN addCommand(Taken, command)
               ELSE Called(Taken, command, "failure"))
    /\ UNCHANGED <<received, replied, astray>>

\* The connect that a disconnect overtakes is forgotten
Overtaken(s) ==
    IF s.h.connect_state > 0 THEN astray.connects \cup {s.h.connect.call} ELSE astray.connects

ProcessDisconnect ==
    /\ NextCommand("DISCONNECT")
    /\ LET command == Head(handle.commands)
       IN /\ Becomes([IF InUse(handle)
                      THEN checkDisconnect([Taken EXCEPT !.h.connect_state = -2], command, FALSE)
                      ELSE Taken EXCEPT !.h.disconnect = command])
          /\ astray' = [astray EXCEPT !.connects = Overtaken(State)]
    /\ UNCHANGED <<received, replied, tried, ended>> /\ NoFault

\* A request is processed when the client is connected and nothing is being written
NextRequest(command) ==
    /\ handle.commands # <<>> /\ command = Head(handle.commands) /\ command.type \in Asks
    /\ handle.connected /\ handle.connect_state = 0 /\ handle.writing = <<>>

\* A QoS 1 message is kept before it is sent
Kept(s, command) ==
    IF command.type = "PUBLISH1" THEN [s EXCEPT !.h.outboundMsgs = @ \cup {command.call}] ELSE s

\* The packet is written, or the rest of it waits
RequestSent(command) ==
    /\ NextRequest(command)
    /\ LET kept == Kept(Taken, command)
           answer == [kept EXCEPT !.h.responses = Append(@, command)]
       IN \/ /\ Becomes([(IF command.type = "PUBLISH0" THEN Called(kept, command, "success") ELSE answer)
                         EXCEPT !.h.to_broker = IF handle.socket = "open" THEN Append(@, command) ELSE @])
             /\ NoFault
          \/ /\ handle.socket = "open" /\ Fault
             /\ Becomes([answer EXCEPT !.h.writing = <<command>>,
                                       !.h.pending_write = IF command.type = "PUBLISH0" THEN command.call ELSE @])
    /\ UNCHANGED <<received, replied, tried, astray, ended>>

\* The connection is found broken: pending_write refers to a command that is freed
RequestFails(command) ==
    /\ NextRequest(command) /\ handle.socket = "broken"
    /\ LET kept == Kept(Taken, command)
       IN Becomes(IF command.type = "PUBLISH0" THEN [kept EXCEPT !.h.pending_write = command.call]
                  ELSE Called(disconnectInternal(kept), command, "failure"))
    /\ UNCHANGED <<received, replied, tried, astray, ended>> /\ NoFault

\* MQTTAsync_checkTimeouts: the connect takes too long - also if the client is
\* disconnecting, and the connect was long ago
ConnectTimesOut ==
    /\ handle.connect_state # 0
    /\ IF handle.connect_state = -2 THEN ended' = "undone" /\ NoFault
       ELSE Fault /\ UNCHANGED ended
    /\ Becomes(NextAttempt(State))
    /\ UNCHANGED <<received, replied, tried, astray>>

DisconnectDue ==
    /\ handle.connect_state = -2
    /\ \E expired \in BOOLEAN : Becomes(checkDisconnect(State, handle.disconnect, expired))
    /\ UNCHANGED <<received, replied, tried, astray, ended>> /\ NoFault

-----------------------------------------------------------------------------
(* The receive thread, at MQTTAsync_cycle.                                 *)

AtCycle == received = IdlePack

\* MQTTAsync_connecting: the TCP connect is done, CONNECT is sent
TcpDone ==
    /\ AtCycle /\ handle.connect_state = 1
    /\ Becomes([State EXCEPT !.h.connect_state = 3, !.h.socket = "open",
                             !.h.to_broker = <<handle.connect>>])
    /\ UNCHANGED <<received, replied, tried, astray, ended>> /\ NoFault

\* It is not, or CONNECT cannot be sent, which is a SOCKET_ERROR for the turn too
TcpFails ==
    /\ AtCycle /\ handle.connect_state = 1 /\ Fault
    /\ Becomes(NextAttempt(State)) /\ received' \in {IdlePack, ErrorPack}
    /\ UNCHANGED <<replied, tried, astray, ended>>

\* Fault: the first response, whatever its message id
FirstResponse(call) == {i \in DOMAIN handle.responses : i = 1}

\* The response that has the message id
ResponseTo(call) == {i \in DOMAIN handle.responses : handle.responses[i].call = call}

Answer(s, call, result) ==
    IF ResponseTo(call) = {} THEN s
    ELSE LET i == CHOOSE i \in ResponseTo(call) : \A j \in ResponseTo(call) : i <= j
         IN Called([s EXCEPT !.h.responses = RemoveAt(@, i)], s.h.responses[i], result)

Arriving == AtCycle /\ handle.socket = "open" /\ handle.connect_state # 1 /\ handle.to_client # <<>>
Arrived == [State EXCEPT !.h.to_client = Tail(@)]

\* A PUBACK is dealt with in MQTTAsync_cycle
CyclePuback ==
    /\ Arriving /\ Head(handle.to_client).type = "PUBLISH1"
    /\ LET call == Head(handle.to_client).call
       IN Becomes(Answer([Arrived EXCEPT !.h.outboundMsgs = @ \ {call}], call, "success"))
    /\ UNCHANGED <<received, replied, tried, astray, ended>> /\ NoFault

CycleReads ==
    /\ Arriving /\ Head(handle.to_client).type # "PUBLISH1"
    /\ Becomes(Arrived) /\ received' = Head(handle.to_client)
    /\ UNCHANGED <<replied, tried, astray, ended>> /\ NoFault

CycleFails ==
    /\ AtCycle /\ handle.socket = "broken"
    /\ Becomes(IF handle.connect_state = 3 THEN NextAttempt(State) ELSE State)
    /\ received' = ErrorPack
    /\ UNCHANGED <<replied, tried, astray, ended>> /\ NoFault

\* Socket_continueWrites and MQTTAsync_writeComplete, which takes the first
\* response for the one of the write: it compares pending_write with itself
WriteCompletes ==
    /\ AtCycle /\ handle.socket = "open" /\ handle.writing # <<>>
    /\ LET written == [State EXCEPT !.h.writing = <<>>, !.h.to_broker = @ \o handle.writing]
           call == handle.pending_write
           done == [written EXCEPT !.h.pending_write = 0, !.h.responses = IF @ = <<>> THEN @ ELSE Tail(@)]
           isFreed == \A i \in DOMAIN handle.responses : handle.responses[i].call # call
       IN IF call = 0 THEN Becomes(written) /\ UNCHANGED <<astray, ended>>
          ELSE /\ Becomes(IF handle.responses = <<>> THEN done
                          ELSE Called(done, Command("PUBLISH0", call), "success"))
               /\ ended' \in IF handle.responses = <<>> THEN {"freed"}
                             ELSE IF isFreed THEN {"no", "freed"} ELSE {"no"}
               /\ astray' = [astray EXCEPT !.response = @ \/ isFreed \/ handle.responses[1].call # call]
    /\ UNCHANGED <<received, replied, tried>> /\ NoFault

(* The rest of its turn, with the mutex taken again.                       *)

\* Fault: whatever the return code
CompletesAnyway == handle.connect_state = 3

\* MQTTAsync_completeConnection is successful
CompletesConnection == handle.connect_state = 3 /\ received.result = "success"

\* MQTTProtocol_retry repeats the messages of a session that is kept
Repeated(s) ==
    LET messages == SetToSeq({Command("PUBLISH1", k) : k \in s.h.outboundMsgs})
    IN IF s.h.socket = "open" THEN {[s EXCEPT !.h.to_broker = messages]}
       ELSE {s} \cup {disconnectInternal(s) : k \in s.h.outboundMsgs}

TurnConnack ==
    /\ received.type = "CONNECT" /\ handle.socket # "closed"
    /\ IF CompletesConnection
       THEN \E s \in Repeated(cleanedSession([State EXCEPT !.h.connected = TRUE, !.h.connect_state = 0,
                                                          !.n.up = @ + 1, !.n.since = Len(app.calls)])) :
              Becomes(Called(s, handle.connect, "success"))
       ELSE Becomes(NextAttempt(State))
    /\ received' = IdlePack
    /\ UNCHANGED <<replied, tried, astray, ended>> /\ NoFault

\* A SUBACK or UNSUBACK
TurnAnswer ==
    /\ received.type \in {"SUBSCRIBE", "UNSUBSCRIBE"} /\ handle.socket # "closed"
    /\ Becomes(Answer(State, received.call, received.result)) /\ received' = IdlePack
    /\ UNCHANGED <<replied, tried, astray, ended>> /\ NoFault

\* The error may be of a connection that was closed meanwhile: a connect that is
\* going on with the same socket is then closed without a word
TurnError ==
    /\ received = ErrorPack /\ handle.socket # "closed"
    /\ Becomes(IF handle.connected THEN disconnectInternal(State) ELSE closeOnly(State))
    /\ astray' = IF handle.connected THEN astray ELSE [astray EXCEPT !.connects = Overtaken(State)]
    /\ received' = IdlePack
    /\ UNCHANGED <<replied, tried, ended>> /\ NoFault

\* No client has the socket any more
TurnWithoutClient ==
    /\ ~AtCycle /\ handle.socket = "closed" /\ received' = IdlePack
    /\ UNCHANGED <<options, handle, app, links, replied, tried, astray, ended>> /\ NoFault

\* MQTTProtocol_keepalive finds a ping unanswered
KeepaliveEnds ==
    /\ AtCycle /\ handle.connected /\ Fault
    /\ Becomes(disconnectInternal(State))
    /\ UNCHANGED <<received, replied, tried, astray, ended>>

-----------------------------------------------------------------------------
(* The application, the broker and the network.                            *)

AppOnlyCalls == UNCHANGED <<received, replied, tried, astray, ended>> /\ NoFault
CanCall == Len(app.calls) < MaxAPICalls

AppConnects == app.is = "off" /\ CanCall /\ Becomes(connectCall(State)) /\ AppOnlyCalls

\* Only a client that is connected is disconnected, or takes a request
AppCalls(type, is, waits) ==
    LET command == [Command(type, Len(app.calls) + 1) EXCEPT !.waits = waits]
    IN /\ app.is = "on" /\ CanCall /\ handle.connected
       /\ Becomes(addCommand([State EXCEPT !.a.calls = Append(@, type), !.a.is = is], command))
       /\ AppOnlyCalls

AppDisconnects == \E waits \in MayWait : AppCalls("DISCONNECT", "leaving", waits)
AppAsks ==
    /\ Len(SelectSeq(app.calls, LAMBDA c : c \in Asks)) < MaxAsks
    /\ \E type \in Asks : AppCalls(type, "on", FALSE)

ServerTurn(result) ==
    /\ handle.socket = "open" /\ handle.to_broker # <<>>
    /\ LET packet == Head(handle.to_broker)
           taken == [State EXCEPT !.h.to_broker = Tail(@)]
           answer == [type |-> packet.type, call |-> packet.call, result |-> result]
       IN /\ result = "failure" => packet.type \in {"CONNECT", "SUBSCRIBE"}
          /\ Becomes(IF packet.type = "PUBLISH0" THEN taken
                     ELSE [taken EXCEPT !.h.to_client = Append(@, answer)])
          /\ replied' = [replied EXCEPT ![packet.call] = @ \cup {result}]
    /\ UNCHANGED <<received, tried, astray, ended>>

ServerAnswers == ServerTurn("success") /\ NoFault
ServerRefuses == ServerTurn("failure") /\ Fault

LinkBreaks ==
    /\ handle.socket = "open" /\ Fault
    /\ Becomes([State EXCEPT !.h.socket = "broken", !.h.to_broker = <<>>, !.h.to_client = <<>>])
    /\ UNCHANGED <<received, replied, tried, astray, ended>>

-----------------------------------------------------------------------------
SendTurn ==
    \/ ProcessDisconnect \/ DisconnectDue
    \/ \E command \in {NextServer(c) : c \in ToSet(handle.commands)} :
         ConnectStarts(command) \/ ConnectFails(command)
    \/ \E command \in ToSet(handle.commands) : RequestSent(command) \/ RequestFails(command)
ReceiveTurn ==
    \/ TcpDone \/ TcpFails \/ CyclePuback \/ CycleReads \/ CycleFails \/ WriteCompletes
    \/ TurnConnack \/ TurnAnswer \/ TurnError \/ TurnWithoutClient

ConnNext ==
    /\ ended = "no" /\ UNCHANGED options
    /\ \/ AppConnects \/ AppDisconnects \/ AppAsks
       \/ SendTurn \/ ReceiveTurn \/ ConnectTimesOut \/ KeepaliveEnds
       \/ ServerAnswers \/ ServerRefuses \/ LinkBreaks

Running(A) == ended = "no" /\ UNCHANGED options /\ A

-----------------------------------------------------------------------------
\* The types; only a connection that is there is connected or connecting
ConnTypeOK ==
    /\ handle.connected \in BOOLEAN /\ handle.connect_state \in {0, 1, 3, -2}
    /\ handle.socket \in {"closed", "opening", "open", "broken"}
    /\ received.type \in {"none", "error", "CONNECT", "SUBSCRIBE", "UNSUBSCRIBE"}
    /\ ended \in {"no"} \cup Endings
    /\ handle.socket = "closed" <=> ~InUse(handle)

Defined == ended = "no"

(***************************************************************************)
(* No CONNECT is taken from the queue while one is going on or the client  *)
(* is connected: it would be dropped, and its call never answered.         *)
(***************************************************************************)
ConnectIsTried == Defined => ~(NextCommand("CONNECT") /\ InUse(handle))

(***************************************************************************)
(* No call is replied twice, though the outcome of an attempt to connect  *)
(* is noticed in five places of two threads.                               *)
(***************************************************************************)
ToldOnce == Defined => \A k \in APICall : Len(app.told[k]) <= 1

(***************************************************************************)
(* onSuccess of a call says that the broker accepted it: the answer is not *)
(* another call's - but for QoS 0, which has no answer.                    *)
(***************************************************************************)
ToldIsAnswered ==
    Defined => \A k \in DOMAIN app.calls :
        app.calls[k] \in {"CONNECT"} \cup (Asks \ {"PUBLISH0"}) /\ app.told[k] = <<"success">>
          => "success" \in replied[k]

(***************************************************************************)
(* onFailure of a connect comes when every server was tried, and with      *)
(* MQTTVERSION_DEFAULT the first "with 3.1.1, and if that fails" with 3.1. *)
(***************************************************************************)
ServersAreTried ==
    Defined => \A k \in DOMAIN app.calls :
        /\ app.calls[k] = "CONNECT" /\ app.told[k] = <<"failure">>
        /\ \A j \in k + 1 .. Len(app.calls) : app.calls[j] # "CONNECT"
        => /\ 0 .. options.serverURIcount - 1 \subseteq {t[1] : t \in ToSet(tried)}
           /\ options.MQTTVersion = 0 => SubSeq(tried, 1, 2) = <<<<0, 4>>, <<0, 3>>>>

(***************************************************************************)
(* Every connection that was up is up, was ended by the application's      *)
(* disconnect, or connectionLost was called for it, once.                  *)
(***************************************************************************)
LossIsTold ==
    Defined => links.up = links.lost + links.left + (IF handle.connected THEN 1 ELSE 0)

\* Every connect is replied, but those that a disconnect, or the error of the
\* connection before, has ended.
ConnectsEnd ==
    []<>(Defined => \A k \in DOMAIN app.calls :
             app.calls[k] = "CONNECT" => app.told[k] # <<>> \/ k \in astray.connects)

\* A disconnect comes to an end: its callback is called, or connectionLost
\* was before it.
DisconnectsEnd == []<>(Defined => app.is # "leaving")

(***************************************************************************)
(* A request is answered if the connection on which it was made lasts,     *)
(* unless its response was taken for that of a QoS 0 message whose write   *)
(* was interrupted.                                                        *)
(***************************************************************************)
RequestsEnd ==
    []<>(Defined /\ handle.connected /\ ~astray.response =>
             \A k \in links.since + 1 .. Len(app.calls) :
                 app.calls[k] \in Asks => app.told[k] # <<>>)

\* A call is replied at most once and truly: success is the broker's, failure
\* comes when every server was tried, and every connection lost is reported.
CallsAreTold ==
    /\ ConnTypeOK /\ ConnectIsTried /\ ToldOnce
    /\ ToldIsAnswered /\ ServersAreTried /\ LossIsTold

\* Every connect, disconnect and request is replied in the end, in the cases
\* the parts name.
CallsAreAnswered ==
    /\ ConnectsEnd /\ DisconnectsEnd /\ RequestsEnd
=============================================================================

------------------------------ MODULE MqttSync ------------------------------
(***************************************************************************)
(* The synchronous client of MQTTClient.c: calls that wait for the broker. *)
(*                                                                         *)
(* With callbacks, a background thread (MQTTClient_run) reads packets and  *)
(* wakes the waiting call with a semaphore; without, the call reads them   *)
(* itself.  connectionLost is called on a thread of its own, which may     *)
(* connect again.  mqttclient_mutex is held for one action, and is of the  *)
(* error-checking kind, as MQTTClient_init makes it: a call made by a      *)
(* handler that holds it goes on at once.                                  *)
(*                                                                         *)
(* How packets are read, written and stored is the subject of              *)
(* PacketReader, SocketIO and MqttStore: a packet is whole here, and what  *)
(* is published has QoS 1.                                                 *)
(***************************************************************************)
EXTENDS Integers, Sequences, SequencesExt, FiniteSets, FiniteSetsExt

CONSTANTS
    MaxInflight,    \* maxInflightMessages, 1 or 10 in MQTTClient_connectURI
    CleanSessions,  \* values of the option cleansession
    Requests,       \* what is waited for: "suback_sem", "unsuback_sem"
    MaxCalls,       \* bound: calls of the application, apart from connects
    MaxConnections, \* bound: connections that are begun
    MaxIncoming,    \* bound: messages that arrive
    MaxTroubles,    \* bound: connections refused or broken, calls of
                    \* messageArrived that return false
    MaxLate         \* bound: waits that time out as the answer is under way

ASSUME SyncAssumption ==
    /\ MaxInflight \in Nat \ {0} /\ CleanSessions \subseteq BOOLEAN
    /\ Requests \subseteq {"suback_sem", "unsuback_sem"}
    /\ {MaxCalls, MaxConnections, MaxIncoming, MaxTroubles, MaxLate} \subseteq Nat

VARIABLES
    callbacks, cleansession,    \* MQTTClient_setCallbacks was called; the option
    m,              \* MQTTClients and its Clients
    running, tostop,
    run,            \* the background thread: where it is, and what its cycle found
    caller,         \* the threads that call: where each is, and what it knows
    net,            \* the connection: its state, and what is under way on it
    epoch,          \* how many connections were begun
    calls, incoming, troubles, overdue,
    \* history: what the broker accepted and acknowledged, which connections were
    \* up, closed by the application, or reported as lost; how calls ended; and
    \* whether a connection was begun while a call waited on another, a packet
    \* was passed on after its connection ended, or an answer came as its wait
    \* timed out
    accepted, acked, up, closed, lost, completed, answered, failures,
    mixed, outrun, surplus

client  == <<m, running, tostop>>
threads == <<run, caller>>
bounds  == <<calls, incoming, troubles, overdue>>
results == <<completed, answered, failures>>
marks   == <<mixed, outrun, surplus>>
history == <<accepted, acked, up, closed, lost, results, marks>>
fixed   == <<callbacks, cleansession>>
vars == <<fixed, client, threads, net, epoch, bounds, history>>

Caller == {"app", "lost"}
Semaphores == {"connect_sem", "connack_sem", "suback_sem", "unsuback_sem"}
NoPack == [type |-> "none"]
Released == [s \in Semaphores |-> 0]

\* Where a thread that calls is, and what it knows; no connect has version 0
IdleCaller == [at |-> "idle", next |-> "idle", version |-> 0, late |-> FALSE,
               sem |-> "connect_sem", rc |-> 0, pack |-> NoPack,
               call |-> 0, epoch |-> 0, id |-> 0, msg |-> 0]
CallerAt(place) == [IdleCaller EXCEPT !.at = place]

\* Where the background thread is, and what it has in its hands
RunAt(place) == [at |-> place, rc |-> 0, pack |-> NoPack, msg |-> 0, epoch |-> 0]

NoNet == [is |-> "none", to_broker |-> <<>>, to_client |-> <<>>]

Init ==
    /\ callbacks \in BOOLEAN /\ cleansession \in CleanSessions
    /\ m = [connected |-> FALSE, connect_state |-> 0, socket |-> FALSE,
            outboundMsgs |-> {}, messageQueue |-> <<>>, msgID |-> 0,
            sem |-> Released, rc |-> 0, pack |-> NoPack]
    /\ running = FALSE /\ tostop = FALSE
    /\ run = RunAt("off") /\ caller = [t \in Caller |-> IdleCaller]
    /\ net = NoNet /\ epoch = 0
    /\ calls = 0 /\ incoming = 0 /\ troubles = 0 /\ overdue = 0
    /\ accepted = {} /\ acked = {} /\ up = {} /\ closed = {} /\ lost = <<>>
    /\ completed = {} /\ answered = {} /\ failures = {}
    /\ mixed = FALSE /\ outrun = FALSE /\ surplus = FALSE

Trouble == troubles < MaxTroubles /\ troubles' = troubles + 1
At(t, place) == caller[t].at = place
Goes(t, to) == caller' = [caller EXCEPT ![t] = to]

-----------------------------------------------------------------------------
(* Ending a connection.                                                    *)

\* Fault: a session that is to be kept is cleaned too
CleanedAnyway(c) == [c EXCEPT !.outboundMsgs = {}, !.messageQueue = <<>>, !.msgID = 0]

\* MQTTClient_cleanSession, if the session is to be clean
Cleaned(c) == IF cleansession
              THEN [c EXCEPT !.outboundMsgs = {}, !.messageQueue = <<>>, !.msgID = 0] ELSE c

\* MQTTClient_closeSession
SessionClosed(c) == Cleaned([c EXCEPT !.connected = FALSE, !.connect_state = 0, !.socket = FALSE])

\* Fault: the semaphores are left as they are
NotDrained(c) == c

Drained(c) == [c EXCEPT !.sem = Released]

IsOpen(c) == c.connected \/ c.connect_state # 0

\* Fault: also if there is no background thread
StopsAnyway(c) == ~c.connected /\ c.connect_state <= 0

\* MQTTClient_stop: no connection is left for the background thread
Stops(c) == running /\ ~tostop /\ ~c.connected /\ c.connect_state <= 0

\* Where the caller is after MQTTClient_stop: it waits for the thread to end
AfterStop(stopped, place) ==
    IF stopped THEN [place EXCEPT !.at = "stopping", !.next = place.at] ELSE place

\* The thread that calls connectionLost begins
LostBegins(callers, begins) ==
    IF begins /\ callers["lost"].at = "idle"
    THEN [callers EXCEPT !["lost"] = CallerAt("begin")] ELSE callers

\* Fault: whether it was connected is looked at when the session is closed
ReportedTooLate(internal, c) == internal /\ callbacks /\ SessionClosed(c).connected

Reported(internal, c) == internal /\ callbacks /\ c.connected

\* MQTTClient_disconnect1 with no time to wait, for the client c.  It is internal
\* if the application did not ask for it; there is no stop when a connect is
\* tried again.  callers is where the callers are afterwards.
Disconnects(c, internal, stop, callers) ==
    LET gone == Drained(SessionClosed(c))
        reports == Reported(internal, c)
    IN /\ m' = IF IsOpen(c) THEN gone ELSE c
       /\ net' = IF IsOpen(c) THEN NoNet ELSE net
       /\ tostop' = (tostop \/ (stop /\ Stops(m')))
       /\ lost' = IF reports THEN Append(lost, epoch) ELSE lost
       /\ caller' = LostBegins(callers, reports)
       /\ UNCHANGED running

\* The same by caller t, who is at place afterwards
DisconnectsFor(t, c, internal, stop, place) ==
    LET after == IF IsOpen(c) THEN SessionClosed(c) ELSE c
    IN Disconnects(c, internal, stop,
                   [caller EXCEPT ![t] = AfterStop(stop /\ Stops(after), place)])

\* MQTTClient_stop returns: the thread has ended, or it has not after 10 seconds
Stopped(t) ==
    /\ At(t, "stopping")
    /\ ~running \/ ~tostop \/ run.at = "callback"
    /\ Goes(t, [caller[t] EXCEPT !.at = caller[t].next, !.next = "idle"])
    /\ UNCHANGED <<fixed, client, run, net, epoch, bounds, history>>

-----------------------------------------------------------------------------
(* MQTTClient_cycle.                                                       *)

\* What Socket_getReadySocket finds
Ready == m.socket /\ IF m.connect_state = 1 THEN net.is # "connecting"
                     ELSE net.to_client # <<>> \/ net.is = "broken"

\* What the client and the connection are after it, its result and the packet
\* that it returns.  The rest of the packets have been handled.
Cycled ==
    LET p == Head(net.to_client)
        Finds(rc) == [m |-> m, net |-> net, rc |-> rc, pack |-> NoPack]
        Reads(c, pack) == [m |-> c, net |-> [net EXCEPT !.to_client = Tail(@)], rc |-> 0,
                           pack |-> pack]
    IN CASE ~m.socket -> Finds(-1)
         [] m.socket /\ m.connect_state = 1 -> Finds(0)
         [] m.socket /\ m.connect_state # 1 /\ net.to_client = <<>> ->
                Finds(IF net.is = "broken" THEN -1 ELSE 0)
         [] OTHER ->
                CASE p.type = "PUBACK" ->
                         Reads([m EXCEPT !.outboundMsgs = {e \in @ : e.id # p.id}], NoPack)
                  [] p.type = "PUBLISH" ->
                         Reads([m EXCEPT !.messageQueue = Append(@, p.msg)], NoPack)
                  [] OTHER -> Reads(m, p)

\* getsockopt of SO_ERROR
SocketError == IF net.is \in {"up", "connecting"} THEN 0 ELSE -1

\* MQTTProtocol_keepalive: no PINGRESP came, and the handler closes the session
KeepaliveFails ==
    /\ m.connected /\ Trouble
    /\ run.at = "cycle" /\ ~tostop
    /\ Disconnects(m, TRUE, TRUE, caller)
    /\ UNCHANGED <<fixed, run, epoch, calls, incoming, overdue, accepted, acked, up, closed,
                   results, marks>>

-----------------------------------------------------------------------------
(* The background thread: MQTTClient_run.                                  *)

RunOnly == UNCHANGED <<fixed, epoch, calls, incoming, overdue, accepted, acked, up, closed, results,
                       mixed, surplus>>

RunSelects ==
    /\ run.at = "cycle" /\ Ready
    /\ run' = RunAt("read")
    /\ UNCHANGED <<client, caller, net, troubles, lost, outrun>> /\ RunOnly

\* The mutex is released between the cycle and the use of what it found
RunReads ==
    /\ run.at = "read"
    /\ m' = Cycled.m /\ net' = Cycled.net
    /\ run' = [RunAt("handle") EXCEPT !.rc = Cycled.rc, !.pack = Cycled.pack]
    /\ UNCHANGED <<running, tostop, caller, troubles, lost, outrun>> /\ RunOnly

RunEnds ==
    /\ run.at \in {"cycle", "handle"} /\ tostop
    /\ run' = RunAt("off") /\ running' = FALSE /\ tostop' = FALSE
    /\ UNCHANGED <<m, caller, net, troubles, lost, outrun>> /\ RunOnly

\* Thread_post_sem
Posted(c, s) == [c EXCEPT !.sem[s] = @ + 1]

\* The client is not found any more if its socket was closed
RunPasses ==
    /\ run.at = "handle" /\ ~tostop /\ ~m.socket
    /\ run' = RunAt("cycle")
    /\ UNCHANGED <<client, caller, net, troubles, lost, outrun>> /\ RunOnly

RunFindsError ==
    /\ run.at = "handle" /\ ~tostop /\ m.socket /\ run.rc # 0
    /\ IF m.connected THEN run' = RunAt("drop") /\ UNCHANGED m
       ELSE /\ run' = RunAt("cycle")
            /\ m' = IF m.connect_state = 3 /\ m.sem["connack_sem"] = 0
                    THEN Posted(m, "connack_sem") ELSE m
    /\ UNCHANGED <<running, tostop, caller, net, troubles, lost, outrun>> /\ RunOnly

\* MQTTClient_disconnect_internal, after the mutex was released
RunDrops ==
    /\ run.at = "drop"
    /\ Disconnects(m, TRUE, TRUE, caller)
    /\ run' = RunAt("cycle")
    /\ UNCHANGED <<troubles, outrun>> /\ RunOnly

\* Fault: a subscribe is woken before it is given the packet
WokenWithoutPack(c, pack) ==
    CASE pack.type = "CONNACK" /\ c.sem["connack_sem"] = 0 ->
             Posted([c EXCEPT !.pack = pack], "connack_sem")
      [] pack.type = "SUBACK"  -> Posted(c, "suback_sem")
      [] pack.type = "none" /\ c.connect_state = 1 /\ c.sem["connect_sem"] = 0 ->
             Posted([c EXCEPT !.rc = SocketError], "connect_sem")
      [] OTHER -> c

\* The packet is given to the call that waits, or a connect is told that TCP is up
Woken(c, pack) ==
    CASE pack.type = "CONNACK" -> IF c.sem["connack_sem"] > 0 THEN c
                                  ELSE Posted([c EXCEPT !.pack = pack], "connack_sem")
      [] pack.type = "SUBACK"   -> Posted([c EXCEPT !.pack = pack], "suback_sem")
      [] pack.type = "UNSUBACK" -> Posted([c EXCEPT !.pack = pack], "unsuback_sem")
      [] pack.type = "none" /\ c.connect_state = 1 /\ c.sem["connect_sem"] = 0 ->
             Posted([c EXCEPT !.rc = SocketError], "connect_sem")
      [] OTHER -> c

RunHandles ==
    /\ run.at = "handle" /\ ~tostop /\ m.socket /\ run.rc = 0 /\ m.messageQueue = <<>>
    /\ m' = Woken(m, run.pack)
    /\ run' = RunAt("cycle")
    /\ UNCHANGED <<running, tostop, caller, net, troubles, lost, outrun>> /\ RunOnly

\* messageArrived is called without the mutex
RunCalls ==
    /\ run.at = "handle" /\ ~tostop /\ m.socket /\ run.rc = 0 /\ m.messageQueue # <<>>
    /\ run' = [run EXCEPT !.at = "callback", !.msg = Head(m.messageQueue), !.epoch = epoch]
    /\ UNCHANGED <<client, caller, net, troubles, lost, outrun>> /\ RunOnly

RunReturns(ok) ==
    /\ run.at = "callback"
    /\ IF ok THEN UNCHANGED troubles ELSE Trouble
    /\ LET c == IF ok THEN [m EXCEPT !.messageQueue = Remove(@, run.msg)] ELSE m
       IN m' = Woken(c, run.pack)
    /\ run' = RunAt("cycle")
    /\ outrun' = (outrun \/ (m'.sem # m.sem /\ ~(m.socket /\ run.epoch = epoch)))
    /\ UNCHANGED <<running, tostop, caller, net, lost>> /\ RunOnly

RunStep == \/ RunSelects \/ RunReads \/ RunEnds \/ RunPasses \/ RunFindsError
           \/ RunDrops \/ RunHandles \/ RunCalls \/ RunReturns(TRUE)

-----------------------------------------------------------------------------
(* Waiting: MQTTClient_waitfor, with the mutex released.                   *)

WaitOnly == UNCHANGED <<fixed, epoch, calls, incoming, troubles, accepted, acked, outrun>>
CallOnly == WaitOnly /\ UNCHANGED overdue
NothingEnds == UNCHANGED <<up, closed, results, mixed, surplus>>

\* The packet type a call waits for
Awaited(sem) == CASE sem = "connect_sem" -> "CONNECT" [] sem = "connack_sem" -> "CONNACK"
                  [] sem = "suback_sem" -> "SUBACK"   [] sem = "unsuback_sem" -> "UNSUBACK"

WaitBegins(t) ==
    /\ At(t, "waitfor")
    /\ Goes(t, [caller[t] EXCEPT !.at = IF running THEN "waiting" ELSE "cycling"])
    /\ UNCHANGED <<client, run, net, lost>> /\ NothingEnds /\ CallOnly

\* Thread_wait_sem: the semaphore is taken
WaitEnds(t) ==
    /\ At(t, "waiting") /\ m.sem[caller[t].sem] > 0
    /\ ~caller[t].late
    /\ m' = [m EXCEPT !.sem[caller[t].sem] = @ - 1]
    /\ Goes(t, [caller[t] EXCEPT !.at = "woken",
                                 !.rc = IF caller[t].sem = "connect_sem" THEN m.rc ELSE 0])
    /\ UNCHANGED <<running, tostop, run, net, lost>> /\ NothingEnds /\ CallOnly

\* No time is left for the second version of a connect
TimedOut(t, place, rc) == [caller[t] EXCEPT !.at = place, !.late = TRUE, !.rc = rc, !.pack = NoPack]

\* Time is over, though an answer is under way, or as none is
AnswerComes ==
    /\ net.is = "up" /\ (callbacks => running)
    /\ net.to_broker # <<>> \/ net.to_client # <<>> \/ run.at \notin {"off", "cycle"}
TimeIsOver(t) ==
    IF AnswerComes /\ ~caller[t].late
    THEN overdue < MaxLate /\ overdue' = overdue + 1
    ELSE UNCHANGED overdue

WaitTimesOut(t) ==
    /\ At(t, "waiting") /\ TimeIsOver(t)
    /\ Goes(t, TimedOut(t, "woken", -1))
    /\ UNCHANGED <<client, run, net, lost>> /\ NothingEnds /\ WaitOnly

\* pack = m->pack, whether or not the wait timed out
PackIsRead(t) ==
    /\ At(t, "woken")
    /\ Goes(t, [caller[t] EXCEPT !.at = "resume", !.pack = m.pack])
    /\ UNCHANGED <<client, run, net, lost>> /\ NothingEnds /\ CallOnly

\* Without a background thread the call reads the packets itself, until it has
\* the one it awaits or the connection is made or broken
Found(t, cycle) ==
    \/ cycle.rc # 0 \/ cycle.pack.type = Awaited(caller[t].sem)
    \/ m.connect_state = 1 \/ (m.connect_state = 3 /\ SocketError # 0)

CallCycles(t) ==
    /\ At(t, "cycling") /\ Ready
    /\ m' = Cycled.m /\ net' = Cycled.net
    /\ IF Found(t, Cycled)
       THEN Goes(t, [caller[t] EXCEPT !.at = "resume", !.pack = Cycled.pack,
                                      !.rc = IF Cycled.rc = 0 THEN SocketError ELSE -1])
       ELSE UNCHANGED caller
    /\ UNCHANGED <<running, tostop, run, lost>> /\ NothingEnds /\ CallOnly

\* The result is still what it was at the start: 0
CycleTimesOut(t) ==
    /\ At(t, "cycling") /\ TimeIsOver(t)
    /\ Goes(t, TimedOut(t, "resume", 0))
    /\ UNCHANGED <<client, run, net, lost>> /\ NothingEnds /\ WaitOnly

WaitStep(t) == \/ WaitBegins(t) \/ WaitEnds(t) \/ WaitTimesOut(t) \/ PackIsRead(t)
               \/ CallCycles(t) \/ CycleTimesOut(t)

-----------------------------------------------------------------------------
(* MQTTClient_connect.                                                     *)

\* connectionLost does nothing else
LostReturns ==
    /\ At("lost", "begin")
    /\ Goes("lost", IdleCaller)
    /\ UNCHANGED <<client, run, net, lost>> /\ NothingEnds /\ CallOnly

Sends(packet) == [net EXCEPT !.to_broker = Append(@, packet)]
CanSend == net.is \in {"up", "connecting"}

\* MQTTClient_connectURIVersion, MQTTProtocol_connect: TCP connects at once, or
\* later, or not at all
Attempts(t, version, late) ==
    LET attempt == [IdleCaller EXCEPT !.version = version, !.late = late]
    IN /\ LET starts == callbacks /\ ~running
          IN /\ running' = (running \/ starts)
             /\ run' = IF starts THEN RunAt("cycle") ELSE run
       /\ \/ /\ epoch < MaxConnections /\ epoch' = epoch + 1
             /\ \/ /\ m' = [m EXCEPT !.connect_state = 1, !.socket = TRUE]
                   /\ net' = [NoNet EXCEPT !.is = "connecting"]
                   /\ Goes(t, [attempt EXCEPT !.at = "waitfor", !.sem = "connect_sem"])
                \/ /\ m' = [m EXCEPT !.connect_state = 3, !.socket = TRUE]
                   /\ net' = [NoNet EXCEPT !.is = "up", !.to_broker = <<[type |-> "CONNECT"]>>]
                   /\ Goes(t, [attempt EXCEPT !.at = "waitfor", !.sem = "connack_sem"])
             /\ UNCHANGED troubles
          \/ /\ IF epoch < MaxConnections THEN Trouble ELSE UNCHANGED troubles
             /\ Goes(t, [attempt EXCEPT !.at = "failed"])
             /\ UNCHANGED <<m, net, epoch>>
       /\ UNCHANGED <<fixed, tostop, calls, incoming, overdue, accepted, acked, up, closed, lost,
                      results, outrun, surplus>>

\* By an application that is not connected; MQTTVERSION_DEFAULT: first 4, then 3
Connect(t) ==
    /\ At(t, IF t = "app" THEN "idle" ELSE "begin")
    /\ ~IsOpen(m) /\ epoch < MaxConnections
    /\ \A u \in Caller : caller[u].version = 0
    /\ Attempts(t, 4, FALSE)
    /\ mixed' = (mixed \/ \E u \in Caller \ {t} : caller[u].at \notin {"idle", "begin"})

ConnectAgain(t) ==
    /\ At(t, "attempt")
    /\ Attempts(t, caller[t].version, caller[t].late)
    /\ UNCHANGED mixed

Resumes(t, sem) == At(t, "resume") /\ caller[t].sem = sem
Ends(t) == [IdleCaller EXCEPT !.at = "failed", !.version = caller[t].version,
                              !.late = caller[t].late]

TcpConnected(t) ==
    /\ Resumes(t, "connect_sem")
    /\ IF caller[t].rc = 0
       THEN /\ m' = [m EXCEPT !.connect_state = 3]
            /\ IF CanSend
               THEN /\ net' = Sends([type |-> "CONNECT"])
                    /\ Goes(t, [Ends(t) EXCEPT !.at = "waitfor", !.sem = "connack_sem"])
               ELSE Goes(t, Ends(t)) /\ UNCHANGED net
       ELSE Goes(t, Ends(t)) /\ UNCHANGED <<m, net>>
    /\ UNCHANGED <<running, tostop, run, lost>> /\ NothingEnds /\ CallOnly

\* Fault: the return code is not looked at
AcceptsAny(pack) == {TRUE}

\* The return code of the CONNACK; a packet of another type is read as if it were one
Accepts(pack) == IF pack.type = "CONNACK" THEN {pack.accepted} ELSE BOOLEAN

\* Fault: nothing is sent again
NothingAgain == <<>>

\* MQTTProtocol_retry sends again what is not acknowledged
Again == LET msgs == SetToSeq(m.outboundMsgs)
         IN [i \in DOMAIN msgs |-> [type |-> "PUBLISH", id |-> msgs[i].id, msg |-> msgs[i].msg]]

MqttConnected(t) ==
    /\ Resumes(t, "connack_sem") /\ caller[t].pack # NoPack
    /\ LET c == Cleaned([m EXCEPT !.connected = TRUE, !.connect_state = 0, !.pack = NoPack])
           resends == c.outboundMsgs # {}
       IN \/ /\ TRUE \in Accepts(caller[t].pack)
             /\ up' = up \cup {epoch}
             /\ IF resends /\ ~CanSend
                THEN DisconnectsFor(t, c, TRUE, TRUE, Ends(t))
                ELSE /\ m' = c /\ Goes(t, IdleCaller)
                     /\ net' = IF resends THEN [net EXCEPT !.to_broker = @ \o Again] ELSE net
                     /\ UNCHANGED <<running, tostop, lost>>
          \/ /\ FALSE \in Accepts(caller[t].pack)
             /\ m' = [m EXCEPT !.pack = NoPack] /\ Goes(t, Ends(t))
             /\ UNCHANGED <<running, tostop, net, lost, up>>
    /\ surplus' = (surplus \/ caller[t].rc # 0 \/ caller[t].pack.epoch # epoch)
    /\ UNCHANGED <<run, closed, results, mixed>> /\ CallOnly

NoConnack(t) ==
    /\ Resumes(t, "connack_sem") /\ caller[t].pack = NoPack
    /\ Goes(t, Ends(t))
    /\ UNCHANGED <<client, run, net, lost>> /\ NothingEnds /\ CallOnly

\* What was begun is ended; the version before is tried next
AttemptFails(t) ==
    /\ At(t, "failed")
    /\ IF caller[t].version = 4
       THEN DisconnectsFor(t, m, FALSE, FALSE, [Ends(t) EXCEPT !.at = "attempt", !.version = 3])
       ELSE DisconnectsFor(t, m, FALSE, TRUE, IdleCaller)
    /\ UNCHANGED run /\ NothingEnds /\ CallOnly

ConnectStep(t) == \/ ConnectAgain(t) \/ TcpConnected(t) \/ MqttConnected(t) \/ NoConnack(t)
                  \/ AttemptFails(t)

-----------------------------------------------------------------------------
(* The other calls of the application.                                     *)

Calls == At("app", "idle") /\ calls < MaxCalls /\ calls' = calls + 1
AppOnly == UNCHANGED <<fixed, run, epoch, incoming, troubles, overdue, accepted, acked, up, mixed,
                       outrun>>
Returns == Goes("app", IdleCaller)

\* MQTTClient_subscribeMany and MQTTClient_unsubscribeMany
Subscribe(sem) ==
    /\ Calls /\ m.connected
    /\ IF CanSend
       THEN /\ net' = Sends([type |-> IF sem = "suback_sem" THEN "SUBACK" ELSE "UNSUBACK",
                             call |-> calls', epoch |-> epoch])
            /\ Goes("app", [CallerAt("waitfor") EXCEPT !.sem = sem, !.call = calls',
                                                       !.epoch = epoch])
       ELSE Goes("app", CallerAt("drop")) /\ UNCHANGED net
    /\ UNCHANGED <<client, lost, closed, results, surplus>> /\ AppOnly

\* The packet is taken as the answer
Subscribed ==
    /\ At("app", "resume") /\ caller["app"].sem \in {"suback_sem", "unsuback_sem"}
    /\ LET a == caller["app"]
       IN IF a.pack # NoPack
          THEN /\ answered' = answered \cup {[call |-> a.call, pack |-> a.pack]}
               /\ m' = [m EXCEPT !.pack = NoPack]
               /\ surplus' = (surplus \/ a.rc # 0)
               /\ Returns /\ UNCHANGED failures
          ELSE /\ failures' = IF ~a.late /\ a.rc = 0 /\ m.connected /\ a.epoch = epoch
                              THEN failures \cup {a.call} ELSE failures
               /\ Goes("app", CallerAt("drop"))
               /\ UNCHANGED <<m, answered, surplus>>
    /\ UNCHANGED <<running, tostop, net, lost, closed, completed, calls>> /\ AppOnly

\* Fault: the connection is kept
KeepConnection ==
    /\ At("app", "drop") /\ Returns
    /\ UNCHANGED <<client, net, lost, closed, results, surplus, calls>> /\ AppOnly

\* MQTTClient_disconnect_internal, after the mutex was released
Drop ==
    /\ At("app", "drop")
    /\ DisconnectsFor("app", m, TRUE, TRUE, IdleCaller)
    /\ UNCHANGED <<closed, results, surplus, calls>> /\ AppOnly

HasRoom(c) == Cardinality(c.outboundMsgs) < MaxInflight

\* MQTTProtocol_assignMsgId, MQTTProtocol_startPublish.  It is a success also if
\* the connection is broken.
StartPublish(msg) ==
    /\ m' = [m EXCEPT !.msgID = @ + 1, !.outboundMsgs = @ \cup {[id |-> m.msgID + 1, msg |-> msg]}]
    /\ IF CanSend
       THEN /\ net' = Sends([type |-> "PUBLISH", id |-> m.msgID + 1, msg |-> msg])
            /\ Returns
       ELSE Goes("app", CallerAt("drop")) /\ UNCHANGED net

Publish ==
    /\ Calls /\ m.connected
    /\ IF HasRoom(m) THEN StartPublish(calls')
       ELSE /\ Goes("app", [CallerAt("blocked") EXCEPT !.msg = calls'])
            /\ UNCHANGED <<m, net>>
    /\ UNCHANGED <<running, tostop, lost, closed, results, surplus>> /\ AppOnly

\* The outbound queue was full
PublishGoesOn ==
    /\ At("app", "blocked") /\ (~m.connected \/ HasRoom(m))
    /\ IF m.connected THEN StartPublish(caller["app"].msg)
       ELSE Returns /\ UNCHANGED <<m, net>>
    /\ UNCHANGED <<running, tostop, lost, closed, results, surplus, calls>>
    /\ AppOnly

\* MQTTClient_waitForCompletion
WaitForCompletion ==
    /\ Calls /\ m.connected
    /\ \E e \in m.outboundMsgs :
           Goes("app", [CallerAt("completing") EXCEPT !.id = e.id, !.msg = e.msg])
    /\ UNCHANGED <<client, net, lost, closed, results, surplus>> /\ AppOnly

MessageGone(id) == \A e \in m.outboundMsgs : e.id # id

Completed ==
    /\ At("app", "completing")
    /\ IF MessageGone(caller["app"].id)
       THEN completed' = completed \cup {caller["app"].msg} ELSE UNCHANGED completed
    /\ Returns
    /\ UNCHANGED <<client, net, lost, closed, answered, failures, surplus, calls>>
    /\ AppOnly

\* MQTTClient_disconnect, with some time to wait for what is in flight
Disconnect ==
    /\ Calls /\ IsOpen(m)
    /\ IF m.connected
       THEN m' = [m EXCEPT !.connect_state = -2] /\ Goes("app", CallerAt("draining"))
       ELSE Goes("app", CallerAt("draining")) /\ UNCHANGED m
    /\ UNCHANGED <<running, tostop, net, lost, closed, results, surplus>>
    /\ AppOnly

\* The session is closed, whichever it is by now
DisconnectEnds ==
    /\ At("app", "draining")
    /\ LET c == Drained(SessionClosed(m))
       IN /\ m' = c
          /\ tostop' = (tostop \/ Stops(c))
          /\ Goes("app", AfterStop(Stops(c), IdleCaller))
    /\ net' = NoNet
    /\ closed' = closed \cup {epoch}
    /\ UNCHANGED <<running, lost, results, surplus, calls>> /\ AppOnly

\* MQTTClient_receive
Receive ==
    /\ Calls /\ ~callbacks /\ m.connected
    /\ Goes("app", CallerAt("receiving"))
    /\ UNCHANGED <<client, net, lost, closed, results, surplus>> /\ AppOnly

\* MQTTClient_deliverMessage, or the time is over
ReceiveEnds ==
    /\ At("app", "receiving")
    /\ m' = [m EXCEPT !.messageQueue = IF @ = <<>> THEN @ ELSE Tail(@)]
    /\ Returns
    /\ UNCHANGED <<running, tostop, net, lost, closed, results, surplus,
                   calls>>
    /\ AppOnly

\* MQTTClient_yield without a background thread, and the cycle of MQTTClient_receive;
\* an error ends the connection, unless a disconnect is about to
Yields ==
    /\ \E place \in {"blocked", "completing", "draining", "receiving"} : At("app", place)
    /\ ~running /\ Ready
    /\ IF Cycled.rc = 0 \/ m.connect_state = -2
       THEN /\ m' = Cycled.m /\ net' = Cycled.net /\ Cycled.rc = 0
            /\ UNCHANGED <<running, tostop, lost, caller>>
       ELSE Disconnects(m, TRUE, TRUE, [caller EXCEPT !["app"] =
                 IF @.at = "receiving" THEN IdleCaller ELSE @])
    /\ UNCHANGED <<closed, results, surplus, calls>> /\ AppOnly

Begins == \/ \E sem \in Requests : Subscribe(sem)
          \/ Publish \/ WaitForCompletion \/ Disconnect \/ Receive
AppStep == \/ Subscribed \/ Drop \/ PublishGoesOn \/ Completed \/ DisconnectEnds
           \/ ReceiveEnds \/ Yields
CallerStep(t) == Stopped(t) \/ WaitStep(t) \/ ConnectStep(t)

-----------------------------------------------------------------------------
(* The network and the broker (external).                                  *)

NetOnly == UNCHANGED <<fixed, client, threads, epoch, calls, overdue, up, closed, lost, results, marks>>

TcpUp == /\ net.is = "connecting" /\ net' = [net EXCEPT !.is = "up"]
         /\ UNCHANGED <<incoming, troubles, accepted, acked>> /\ NetOnly

Breaks == /\ net.is \in {"connecting", "up"} /\ Trouble
          /\ net' = [net EXCEPT !.is = "broken", !.to_broker = <<>>]
          /\ UNCHANGED <<incoming, accepted, acked>> /\ NetOnly

BrokerAnswers(ok) ==
    /\ net.is = "up" /\ net.to_broker # <<>>
    /\ LET p == Head(net.to_broker)
           answer == CASE p.type = "CONNECT" -> [type |-> "CONNACK", accepted |-> ok, epoch |-> epoch]
                       [] p.type = "PUBLISH" -> [type |-> "PUBACK", id |-> p.id]
                       [] OTHER -> p
       IN /\ IF ok THEN UNCHANGED troubles ELSE p.type = "CONNECT" /\ Trouble
          /\ net' = [net EXCEPT !.to_broker = Tail(@), !.to_client = Append(@, answer)]
          /\ accepted' = IF p.type = "CONNECT" /\ ok THEN accepted \cup {epoch} ELSE accepted
          /\ acked' = IF p.type = "PUBLISH" THEN acked \cup {p.msg} ELSE acked
    /\ UNCHANGED incoming /\ NetOnly

BrokerPublishes ==
    /\ net.is = "up" /\ epoch \in accepted /\ incoming < MaxIncoming
    /\ incoming' = incoming + 1
    /\ net' = [net EXCEPT !.to_client = Append(@, [type |-> "PUBLISH", msg |-> incoming'])]
    /\ UNCHANGED <<troubles, accepted, acked>> /\ NetOnly

-----------------------------------------------------------------------------
Next ==
    \/ RunStep \/ RunReturns(FALSE) \/ KeepaliveFails
    \/ Begins \/ AppStep \/ LostReturns
    \/ \E t \in Caller : Connect(t) \/ CallerStep(t)
    \/ TcpUp \/ Breaks \/ BrokerPublishes
    \/ \E ok \in BOOLEAN : BrokerAnswers(ok)

(***************************************************************************)
(* The threads go on - messageArrived returns, connectionLost too -, time  *)
(* passes, and a TCP connect and a request to the broker are answered in   *)
(* the end, as long as the connection lasts.                               *)
(***************************************************************************)
Spec == /\ Init /\ [][Next]_vars
        /\ WF_vars(RunStep) /\ WF_vars(AppStep) /\ WF_vars(LostReturns)
        /\ \A t \in Caller : WF_vars(CallerStep(t))
        /\ WF_vars(TcpUp) /\ WF_vars(BrokerAnswers(TRUE))

-----------------------------------------------------------------------------
\* The types; a thread is only told to stop if it runs
SyncTypeOK ==
    /\ m.connect_state \in {0, 1, 3, -2} /\ m.msgID \in Nat
    /\ \A s \in Semaphores : m.sem[s] \in Nat
    /\ run.at = "off" <=> ~running
    /\ tostop => running

(***************************************************************************)
(* A client is connected only on a connection whose CONNECT the broker     *)
(* accepted, whatever packets and errors come as a wait times out - unless *)
(* a packet left from such a wait is taken for the CONNACK.                *)
(***************************************************************************)
ConnectedIsAccepted == m.connected /\ ~surplus => epoch \in accepted

(***************************************************************************)
(* What a subscribe returns is the answer to it, not to an earlier one     *)
(* that timed out, though no message id is compared - unless another       *)
(* thread connected while it waited, or a packet outlived its connection.  *)
(***************************************************************************)
AnswersAreOwn ==
    ~mixed /\ ~outrun /\ ~surplus => \A a \in answered : a.pack.call = a.call

\* A subscribe that is woken on a connection that lasts has its answer, except
\* after a wait that was answered as it timed out, as above.
WokenWithAnswer == ~mixed /\ ~outrun /\ ~surplus => failures = {}

(***************************************************************************)
(* MQTTClient_waitForCompletion returns success only for a message that    *)
(* the broker has acknowledged - for a session that is kept, also if the   *)
(* connection ends and is made again meanwhile.                            *)
(***************************************************************************)
CompletedIsAcked == ~cleansession => completed \subseteq acked

\* The same for every session: "MQTTCLIENT_SUCCESS if the message was
\* successfully delivered".
SuccessIsDelivery == completed \subseteq acked

(***************************************************************************)
(* A connection that was up and ends was closed by the application, or     *)
(* connectionLost is called for it, once: two threads may find it broken.  *)
(***************************************************************************)
LossIsReported ==
    /\ \A i, j \in DOMAIN lost : lost[i] = lost[j] => i = j
    /\ \A i \in DOMAIN lost : lost[i] \in up
    /\ callbacks => \A e \in up : e < epoch \/ ~m.connected => e \in closed \/ Contains(lost, e)

\* No wait on a new connection begins with what was posted on an old one,
\* except what messageArrived delayed.
SemaphoresAreDown == ~outrun /\ ~IsOpen(m) => m.sem = Released

\* Every call returns: a publish that waits for room, a wait for an answer that
\* never comes, a disconnect that waits for the background thread.
CallsEnd == []<>(\A t \in Caller : At(t, "idle"))

\* What a call that waited returns is true of the connection it waited on, a
\* loss is reported once, and nothing posted on one connection is taken on the
\* next - but for waits answered as they time out, as the parts say.
WaitsAreTrue ==
    /\ SyncTypeOK /\ ConnectedIsAccepted /\ AnswersAreOwn /\ WokenWithAnswer
    /\ CompletedIsAcked /\ LossIsReported /\ SemaphoresAreDown
=============================================================================

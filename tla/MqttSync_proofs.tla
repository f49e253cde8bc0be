-------------------------- MODULE MqttSync_proofs ---------------------------
(***************************************************************************)
(* What a call of the synchronous client returns is true of the connection *)
(* it waited on, and a loss is reported once (MQTTClient.c).               *)
(*                                                                         *)
(* The inductive invariant, SyncInv, has a part for each question:         *)
(*   Base, ControlInv  the types, where each thread can be, and what the   *)
(*                     client is then                                      *)
(*   StopInv           a background thread that is not told to stop has a  *)
(*                     connection, or a connect, to run for                *)
(*   LossInv           which connections were up, and which were reported  *)
(*   PacksInv          of which connection a packet is, wherever it is     *)
(*   ConInv            one CONNECT or CONNACK of a connection at most      *)
(*   AnswerInv         one answer at most, to the call that waits          *)
(*   AckInv            a message id stands for one message                 *)
(*   SemaphoresAreDown what is posted ends with the connection             *)
(* StepKinds sorts the steps by what they do to all of this but messages.  *)
(***************************************************************************)
EXTENDS MqttSync, FiniteSetTheorems, SequenceTheorems, TLAPS

-----------------------------------------------------------------------------
(* Types.                                                                  *)

Answers == [type : {"SUBACK", "UNSUBACK"}, call : Nat, epoch : Nat]
Connacks == [type : {"CONNACK"}, accepted : BOOLEAN, epoch : Nat]
Packs == {NoPack} \cup Connacks \cup Answers
ToBroker == [type : {"CONNECT"}] \cup [type : {"PUBLISH"}, id : Nat, msg : Nat] \cup Answers
ToClient == [type : {"PUBACK"}, id : Nat] \cup [type : {"PUBLISH"}, msg : Nat]
            \cup Connacks \cup Answers
Messages == [id : Nat, msg : Nat]

\* Where a call that waits is, and the other places
Wait == {"waitfor", "waiting", "cycling", "woken", "resume"}
Quiet == {"idle", "begin", "drop", "blocked", "completing", "draining", "receiving"}
Places == Wait \cup Quiet \cup {"failed", "attempt", "stopping"}

Callers == [at : Places, next : {"idle", "failed"}, version : {0, 3, 4}, late : BOOLEAN,
            sem : Semaphores, rc : {0, -1}, pack : Packs,
            call : Nat, epoch : Nat, id : Nat, msg : Nat]
Nets == [is : {"none", "connecting", "up", "broken"},
         to_broker : Seq(ToBroker), to_client : Seq(ToClient)]

\* What is queued for the application does not matter here
Clients(queue) == [connected : BOOLEAN, connect_state : {0, 1, 3, -2}, socket : BOOLEAN,
                   outboundMsgs : SUBSET Messages, messageQueue : {queue}, msgID : Nat,
                   sem : [Semaphores -> Nat], rc : {0, -1}, pack : Packs]
Runs(msg) == [at : {"off", "cycle", "read", "handle", "callback", "drop"}, rc : {0, -1},
              pack : Packs, msg : {msg}, epoch : Nat]

IsClient(c) == c \in Clients(c.messageQueue) /\ IsFiniteSet(c.outboundMsgs)
MType == IsClient(m)
RunType == run \in Runs(run.msg)
CallerType == caller \in [Caller -> Callers]
NetType == net \in Nets
RestType == /\ callbacks \in BOOLEAN /\ cleansession \in BOOLEAN
            /\ running \in BOOLEAN /\ tostop \in BOOLEAN
            /\ epoch \in Nat /\ calls \in Nat /\ incoming \in Nat
            /\ accepted \subseteq Nat /\ up \subseteq Nat /\ closed \subseteq Nat
            /\ lost \in Seq(Nat)
            /\ mixed \in BOOLEAN /\ outrun \in BOOLEAN /\ surplus \in BOOLEAN
TypeInv == MType /\ RunType /\ CallerType /\ NetType /\ RestType

LEMMA TypesInit == Init => TypeInv
<1>. SUFFICES ASSUME Init PROVE TypeInv
  OBVIOUS
<1>. USE DEF Init
<1>1. MType
  BY FS_EmptySet DEF MType, IsClient, Clients, Released, Semaphores, NoPack, Packs
<1>2. RunType
  BY DEF RunType, Runs, RunAt, Packs
<1>3. CallerType
  BY DEF CallerType, Callers, IdleCaller, Packs, Semaphores, Places, Quiet
<1>4. NetType
  BY DEF NetType, Nets, NoNet
<1>5. RestType
  <2>1. callbacks \in BOOLEAN /\ cleansession \in BOOLEAN
    BY SyncAssumption
  <2>2. lost \in Seq(Nat)
    OBVIOUS
  <2>. QED
    BY <2>1, <2>2 DEF RestType
<1>. QED
  BY <1>1, <1>2, <1>3, <1>4, <1>5 DEF TypeInv

-----------------------------------------------------------------------------
(* What the parts of an action do.                                         *)

LEMMA CallerAtType == \A place \in Places : CallerAt(place) \in Callers /\ CallerAt(place).at = place
                                            /\ CallerAt(place).version = 0
  BY DEF CallerAt, IdleCaller, Callers, Packs, Semaphores, Quiet

LEMMA IdleType == IdleCaller \in Callers
  BY DEF IdleCaller, Callers, Packs, Semaphores, Places, Quiet

\* A caller whose attempt has failed: only version and late are kept
LEMMA FailedType ==
    ASSUME NEW t, caller[t] \in Callers
    PROVE  Ends(t) \in Callers /\ Ends(t).at = "failed"
<1>1. caller[t].version \in {0, 3, 4} /\ caller[t].late \in BOOLEAN
  BY DEF Callers
<1>2. /\ "failed" \in Places /\ "idle" \in {"idle", "failed"} /\ "connect_sem" \in Semaphores
      /\ NoPack \in Packs
  BY DEF Places, Semaphores, Packs
<1>. QED
  BY <1>1, <1>2 DEF Ends, IdleCaller, Callers

LEMMA RunAtType ==
    \A place \in {"off", "cycle", "read", "handle", "drop"} :
        RunAt(place) \in Runs(0) /\ RunAt(place).at = place /\ RunAt(place).pack = NoPack
  BY DEF RunAt, Runs, Packs

\* A session that is closed
LEMMA ClosedProps ==
    ASSUME NEW c, IsClient(c), cleansession \in BOOLEAN
    PROVE  LET d == SessionClosed(c)
           IN /\ IsClient(d) /\ ~d.connected /\ d.connect_state = 0 /\ ~d.socket
              /\ d.pack = c.pack /\ d.sem = c.sem /\ d.rc = c.rc
              /\ ~cleansession => d.outboundMsgs = c.outboundMsgs /\ d.msgID = c.msgID
              /\ d.outboundMsgs \subseteq c.outboundMsgs
  BY FS_EmptySet DEF SessionClosed, Cleaned, IsClient, Clients

LEMMA CleanedProps ==
    ASSUME NEW c, IsClient(c), cleansession \in BOOLEAN
    PROVE  LET d == Cleaned(c)
           IN /\ IsClient(d) /\ d.connected = c.connected /\ d.connect_state = c.connect_state
              /\ d.socket = c.socket /\ d.pack = c.pack /\ d.sem = c.sem /\ d.rc = c.rc
              /\ ~cleansession => d.outboundMsgs = c.outboundMsgs /\ d.msgID = c.msgID
              /\ d.outboundMsgs \subseteq c.outboundMsgs
  BY FS_EmptySet DEF Cleaned, IsClient, Clients

LEMMA DrainedProps ==
    ASSUME NEW c, IsClient(c)
    PROVE  LET d == Drained(c)
           IN /\ IsClient(d) /\ d.connected = c.connected /\ d.connect_state = c.connect_state
              /\ d.socket = c.socket /\ d.pack = c.pack /\ d.sem = Released /\ d.rc = c.rc
              /\ d.outboundMsgs = c.outboundMsgs /\ d.msgID = c.msgID
  BY DEF Drained, IsClient, Clients, Released


\* A session that is ended, or was, by MQTTClient_disconnect1
Disconnected(c, internal, stop, callers) ==
    /\ IsClient(m') /\ ~m'.connected /\ m'.connect_state = 0 /\ ~m'.socket
    /\ m'.pack = c.pack /\ m'.rc = c.rc
    /\ m'.sem = IF IsOpen(c) THEN Released ELSE c.sem
    /\ m'.outboundMsgs \subseteq c.outboundMsgs
    /\ ~cleansession => m'.outboundMsgs = c.outboundMsgs /\ m'.msgID = c.msgID
    /\ net' = IF IsOpen(c) THEN NoNet ELSE net
    /\ running' = running /\ tostop' = (tostop \/ (stop /\ running))
    /\ lost' = IF internal /\ callbacks /\ c.connected THEN Append(lost, epoch) ELSE lost
    /\ caller' = LostBegins(callers, internal /\ callbacks /\ c.connected)

LEMMA DisconnectsProps ==
    ASSUME NEW c, IsClient(c), cleansession \in BOOLEAN, running \in BOOLEAN, tostop \in BOOLEAN,
           c.socket => IsOpen(c),
           NEW internal \in BOOLEAN, NEW stop \in BOOLEAN, NEW callers,
           Disconnects(c, internal, stop, callers)
    PROVE  Disconnected(c, internal, stop, callers)
<1>. DEFINE d == SessionClosed(c)
<1>1. /\ IsClient(d) /\ ~d.connected /\ d.connect_state = 0 /\ ~d.socket
      /\ d.pack = c.pack /\ d.sem = c.sem /\ d.rc = c.rc
      /\ ~cleansession => d.outboundMsgs = c.outboundMsgs /\ d.msgID = c.msgID
      /\ d.outboundMsgs \subseteq c.outboundMsgs
  BY ClosedProps
<1>. DEFINE e == Drained(d)
<1>2. /\ IsClient(e) /\ ~e.connected /\ e.connect_state = 0 /\ ~e.socket
      /\ e.pack = c.pack /\ e.sem = Released /\ e.rc = c.rc
      /\ ~cleansession => e.outboundMsgs = c.outboundMsgs /\ e.msgID = c.msgID
      /\ e.outboundMsgs \subseteq c.outboundMsgs
  <2>. HIDE DEF d
  <2>. QED
    BY <1>1, DrainedProps
<1>3. /\ m' = IF IsOpen(c) THEN e ELSE c
      /\ net' = IF IsOpen(c) THEN NoNet ELSE net
      /\ tostop' = (tostop \/ (stop /\ Stops(m')))
      /\ lost' = IF Reported(internal, c) THEN Append(lost, epoch) ELSE lost
      /\ caller' = LostBegins(callers, Reported(internal, c))
      /\ UNCHANGED running
  BY DEF Disconnects
<1>. HIDE DEF d, e
<1>4. /\ IsClient(m') /\ ~m'.connected /\ m'.connect_state = 0 /\ ~m'.socket
      /\ m'.pack = c.pack /\ m'.rc = c.rc
      /\ m'.sem = IF IsOpen(c) THEN Released ELSE c.sem
      /\ m'.outboundMsgs \subseteq c.outboundMsgs
      /\ ~cleansession => m'.outboundMsgs = c.outboundMsgs /\ m'.msgID = c.msgID
  <2>1. CASE IsOpen(c)
    BY <2>1, <1>2, <1>3
  <2>2. CASE ~IsOpen(c)
    <3>1. ~c.connected /\ c.connect_state = 0 /\ ~c.socket
      BY <2>2 DEF IsOpen, IsClient, Clients
    <3>. QED
      BY <2>2, <3>1, <1>3
  <2>. QED
    BY <2>1, <2>2
<1>5. tostop' = (tostop \/ (stop /\ running))
  BY <1>3, <1>4 DEF Stops
<1>. QED
  BY <1>3, <1>4, <1>5 DEF Disconnected, Reported

LEMMA LostBeginsProps ==
    ASSUME NEW callers \in [Caller -> Callers], NEW begins \in BOOLEAN
    PROVE  /\ LostBegins(callers, begins) \in [Caller -> Callers]
           /\ LostBegins(callers, begins)["app"] = callers["app"]
           /\ LostBegins(callers, begins)["lost"] \in {callers["lost"], CallerAt("begin")}
           /\ callers["lost"].at # "idle" => LostBegins(callers, begins)["lost"] = callers["lost"]
<1>1. CallerAt("begin") \in Callers
  BY CallerAtType DEF Places, Quiet
<1>. QED
  BY <1>1 DEF LostBegins, Caller

LEMMA AfterStopProps ==
    ASSUME NEW stopped \in BOOLEAN, NEW place \in Callers, place.at \in {"idle", "failed", "attempt"},
           stopped => place.at # "attempt"
    PROVE  LET d == AfterStop(stopped, place)
           IN /\ d \in Callers /\ d.version = place.version /\ d.pack = place.pack
              /\ d.late = place.late
              /\ stopped => d.at = "stopping" /\ d.next = place.at
              /\ ~stopped => d = place
  BY DEF AfterStop, Callers, Places

\* What a cycle reads
CycleReads(p) ==
    /\ m.socket /\ m.connect_state # 1 /\ net.to_client # <<>> /\ p = Head(net.to_client)
    /\ Cycled.net = [net EXCEPT !.to_client = Tail(net.to_client)] /\ Cycled.rc = 0
    /\ \/ /\ p.type = "PUBACK" /\ Cycled.pack = NoPack
          /\ Cycled.m = [m EXCEPT !.outboundMsgs = {e \in m.outboundMsgs : e.id # p.id}]
       \/ /\ p.type = "PUBLISH" /\ Cycled.pack = NoPack
          /\ Cycled.m = [m EXCEPT !.messageQueue = Append(m.messageQueue, p.msg)]
       \/ p.type \notin {"PUBACK", "PUBLISH"} /\ Cycled.m = m /\ Cycled.pack = p

CycleFinds == Cycled.m = m /\ Cycled.net = net /\ Cycled.rc \in {0, -1} /\ Cycled.pack = NoPack

LEMMA CycledProps ==
    ASSUME MType, NetType
    PROVE  CycleFinds \/ \E p \in ToClient : CycleReads(p)
<1>1. CASE ~m.socket
  BY <1>1 DEF Cycled, CycleFinds
<1>2. CASE m.socket /\ m.connect_state = 1
  BY <1>2 DEF Cycled, CycleFinds
<1>3. CASE m.socket /\ m.connect_state # 1 /\ net.to_client = <<>>
  <2>1. Cycled = [m |-> m, net |-> net, rc |-> IF net.is = "broken" THEN -1 ELSE 0, pack |-> NoPack]
    BY <1>3 DEF Cycled
  <2>. QED
    BY <2>1 DEF CycleFinds
<1>4. CASE m.socket /\ m.connect_state # 1 /\ net.to_client # <<>>
  <2>. DEFINE p == Head(net.to_client)
              rest == [net EXCEPT !.to_client = Tail(net.to_client)]
              gone == [m EXCEPT !.outboundMsgs = {e \in m.outboundMsgs : e.id # p.id}]
              more == [m EXCEPT !.messageQueue = Append(m.messageQueue, p.msg)]
  <2>1. p \in ToClient
    <3>1. net.to_client \in Seq(ToClient)
      BY DEF NetType, Nets
    <3>. HIDE DEF p
    <3>. QED
      BY <1>4, <3>1 DEF p
  <2>2. Cycled = CASE p.type = "PUBACK" -> [m |-> gone, net |-> rest, rc |-> 0, pack |-> NoPack]
                   [] p.type = "PUBLISH" -> [m |-> more, net |-> rest, rc |-> 0, pack |-> NoPack]
                   [] OTHER -> [m |-> m, net |-> rest, rc |-> 0, pack |-> p]
    <3>1. m = [m EXCEPT !.outboundMsgs = m.outboundMsgs] /\ net = [net EXCEPT !.is = net.is]
      BY DEF MType, IsClient, Clients, NetType, Nets
    <3>. QED
      BY <1>4, <3>1 DEF Cycled
  <2>3. CycleReads(p)
    <3>. HIDE DEF p
    <3>1. p = Head(net.to_client)
      BY DEF p
    <3>2. CASE p.type = "PUBACK"
      BY <2>2, <1>4, <3>1, <3>2 DEF CycleReads
    <3>3. CASE p.type = "PUBLISH"
      BY <2>2, <1>4, <3>1, <3>3 DEF CycleReads
    <3>4. CASE p.type \notin {"PUBACK", "PUBLISH"}
      BY <2>2, <1>4, <3>1, <3>4 DEF CycleReads
    <3>. QED
      BY <3>2, <3>3, <3>4
  <2>. QED
    BY <2>1, <2>3
<1>. QED
  BY <1>1, <1>2, <1>3, <1>4 DEF MType, IsClient, Clients

\* Whom a packet wakes
Wakes(c, pack, s) ==
    /\ Woken(c, pack).sem = [c.sem EXCEPT ![s] = c.sem[s] + 1]
    /\ \/ s = "connack_sem" /\ pack.type = "CONNACK" /\ c.sem[s] = 0 /\ Woken(c, pack).pack = pack
       \/ s = "suback_sem" /\ pack.type = "SUBACK" /\ Woken(c, pack).pack = pack
       \/ s = "unsuback_sem" /\ pack.type = "UNSUBACK" /\ Woken(c, pack).pack = pack
       \/ s = "connect_sem" /\ pack.type = "none" /\ c.connect_state = 1 /\ Woken(c, pack).pack = c.pack

LEMMA WokenProps ==
    ASSUME NEW c, IsClient(c), NEW pack \in Packs, NetType
    PROVE  LET d == Woken(c, pack)
           IN /\ IsClient(d) /\ d.connected = c.connected /\ d.connect_state = c.connect_state
              /\ d.socket = c.socket /\ d.outboundMsgs = c.outboundMsgs /\ d.msgID = c.msgID
              /\ \/ d = c /\ pack.type \notin {"SUBACK", "UNSUBACK"}
                 \/ \E s \in Semaphores : Wakes(c, pack, s)
<1>. DEFINE post(s) == [[c EXCEPT !.pack = pack] EXCEPT !.sem[s] = c.sem[s] + 1]
<1>1. \A s \in Semaphores : LET d == post(s) IN
          /\ IsClient(d) /\ d.connected = c.connected /\ d.connect_state = c.connect_state
          /\ d.socket = c.socket /\ d.outboundMsgs = c.outboundMsgs /\ d.msgID = c.msgID
          /\ d.pack = pack /\ d.sem = [c.sem EXCEPT ![s] = c.sem[s] + 1]
  <2>. TAKE s \in Semaphores
  <2>. DEFINE more == [c.sem EXCEPT ![s] = c.sem[s] + 1]
  <2>1. more \in [Semaphores -> Nat]
    BY DEF IsClient, Clients
  <2>2. post(s) = [[c EXCEPT !.pack = pack] EXCEPT !.sem = more]
    BY DEF IsClient, Clients
  <2>. HIDE DEF more
  <2>3. LET d == [[c EXCEPT !.pack = pack] EXCEPT !.sem = more] IN
          /\ IsClient(d) /\ d.connected = c.connected /\ d.connect_state = c.connect_state
          /\ d.socket = c.socket /\ d.outboundMsgs = c.outboundMsgs /\ d.msgID = c.msgID
          /\ d.pack = pack /\ d.sem = more
    BY <2>1 DEF IsClient, Clients
  <2>. QED
    BY <2>2, <2>3 DEF more
<1>2. Semaphores = {"connect_sem", "connack_sem", "suback_sem", "unsuback_sem"}
  BY DEF Semaphores
<1>3. CASE pack.type = "CONNACK" /\ c.sem["connack_sem"] > 0
  BY <1>3 DEF Woken
<1>4. CASE pack.type = "CONNACK" /\ ~(c.sem["connack_sem"] > 0)
  <2>1. Woken(c, pack) = post("connack_sem")
    BY <1>4 DEF Woken, Posted, IsClient, Clients
  <2>2. c.sem["connack_sem"] = 0
    BY <1>4, <1>2 DEF IsClient, Clients
  <2>. QED
    BY <1>1, <1>2, <1>4, <2>1, <2>2 DEF Wakes
<1>5. CASE pack.type = "SUBACK"
  <2>1. Woken(c, pack) = post("suback_sem")
    BY <1>5 DEF Woken, Posted, IsClient, Clients
  <2>. QED
    BY <1>1, <1>2, <1>5, <2>1 DEF Wakes
<1>6. CASE pack.type = "UNSUBACK"
  <2>1. Woken(c, pack) = post("unsuback_sem")
    BY <1>6 DEF Woken, Posted, IsClient, Clients
  <2>. QED
    BY <1>1, <1>2, <1>6, <2>1 DEF Wakes
<1>7. CASE pack.type = "none" /\ c.connect_state = 1 /\ c.sem["connect_sem"] = 0
  <2>. DEFINE d == Woken(c, pack)
  <2>1. d = [[c EXCEPT !.rc = SocketError] EXCEPT !.sem["connect_sem"] = c.sem["connect_sem"] + 1]
    BY <1>7 DEF Woken, Posted, IsClient, Clients
  <2>2. SocketError \in {0, -1}
    BY DEF SocketError
  <2>. HIDE DEF d
  <2>3. /\ IsClient(d) /\ d.connected = c.connected /\ d.connect_state = c.connect_state
        /\ d.socket = c.socket /\ d.outboundMsgs = c.outboundMsgs /\ d.msgID = c.msgID
        /\ d.pack = c.pack /\ d.sem = [c.sem EXCEPT !["connect_sem"] = c.sem["connect_sem"] + 1]
    <3>. DEFINE more == [c.sem EXCEPT !["connect_sem"] = c.sem["connect_sem"] + 1]
    <3>1. more \in [Semaphores -> Nat]
      BY <1>2 DEF IsClient, Clients
    <3>2. d = [[c EXCEPT !.rc = SocketError] EXCEPT !.sem = more]
      BY <2>1 DEF IsClient, Clients
    <3>. HIDE DEF more
    <3>3. /\ IsClient(d) /\ d.connected = c.connected /\ d.connect_state = c.connect_state
          /\ d.socket = c.socket /\ d.outboundMsgs = c.outboundMsgs /\ d.msgID = c.msgID
          /\ d.pack = c.pack /\ d.sem = more
      BY <2>2, <3>1, <3>2 DEF IsClient, Clients
    <3>. QED
      BY <3>3 DEF more
  <2>. QED
    BY <2>3, <1>2, <1>7 DEF Wakes, d
<1>8. CASE pack.type \notin {"CONNACK", "SUBACK", "UNSUBACK"}
           /\ ~(pack.type = "none" /\ c.connect_state = 1 /\ c.sem["connect_sem"] = 0)
  BY <1>8 DEF Woken
<1>. QED
  BY <1>3, <1>4, <1>5, <1>6, <1>7, <1>8


-----------------------------------------------------------------------------
(* Types of a step.                                                        *)

\* No socket without a connection, which an end of it relies on
Base == TypeInv /\ (m.socket => IsOpen(m))

USE DEF client, threads, bounds, results, marks, history, fixed, RunOnly, WaitOnly, CallOnly,
        NothingEnds, AppOnly, NetOnly, Trouble, At, Goes, Calls, Returns, Resumes

\* An action ends a connection, c, by MQTTClient_disconnect1
EndsBy(c, internal, stop, callers) ==
    /\ IsClient(c) /\ Disconnected(c, internal, stop, callers)
    /\ callers \in [Caller -> Callers]

\* A session that is closed for caller t
StopsFor(t, stop, place) ==
    [caller EXCEPT ![t] = AfterStop(stop /\ running /\ ~tostop, place)]

LEMMA DisconnectsForProps ==
    ASSUME Base, NEW c, IsClient(c), c.socket => IsOpen(c), NEW t \in Caller,
           NEW internal \in BOOLEAN, NEW stop \in BOOLEAN, NEW place \in Callers,
           place.at \in {"idle", "failed", "attempt"}, stop => place.at # "attempt",
           DisconnectsFor(t, c, internal, stop, place)
    PROVE  /\ EndsBy(c, internal, stop, StopsFor(t, stop, place))
           /\ AfterStop(stop /\ running /\ ~tostop, place) \in Callers
<1>. DEFINE after == IF IsOpen(c) THEN SessionClosed(c) ELSE c
            callers == [caller EXCEPT ![t] = AfterStop(stop /\ Stops(after), place)]
<1>0. cleansession \in BOOLEAN /\ running \in BOOLEAN /\ tostop \in BOOLEAN
      /\ caller \in [Caller -> Callers]
  BY DEF Base, TypeInv, RestType, CallerType
<1>1. Disconnects(c, internal, stop, callers)
  BY DEF DisconnectsFor
<1>2. ~after.connected /\ after.connect_state = 0
  <2>1. CASE IsOpen(c)
    BY <2>1, <1>0, ClosedProps
  <2>2. CASE ~IsOpen(c)
    BY <2>2 DEF IsOpen, IsClient, Clients
  <2>. QED
    BY <2>1, <2>2
<1>3. Stops(after) = (running /\ ~tostop)
  <2>. HIDE DEF after
  <2>. QED
    BY <1>2, <1>0 DEF Stops
<1>4. callers = StopsFor(t, stop, place)
  <2>. HIDE DEF after
  <2>. QED
    BY <1>3 DEF StopsFor
<1>. HIDE DEF callers, after
<1>5. Disconnected(c, internal, stop, callers)
  BY <1>0, <1>1, DisconnectsProps
<1>6. AfterStop(stop /\ running /\ ~tostop, place) \in Callers
  BY <1>0, AfterStopProps
<1>7. callers \in [Caller -> Callers]
  BY <1>0, <1>4, <1>6 DEF StopsFor
<1>. QED
  BY <1>4, <1>5, <1>6, <1>7 DEF EndsBy

LEMMA EndsType ==
    ASSUME RestType, NetType, NEW c, NEW internal \in BOOLEAN, NEW stop \in BOOLEAN, NEW callers,
           EndsBy(c, internal, stop, callers)
    PROVE  /\ MType' /\ CallerType' /\ NetType' /\ (m.socket => IsOpen(m))'
           /\ running' = running /\ tostop' \in BOOLEAN /\ lost' \in Seq(Nat)
<1>1. MType' /\ (m.socket => IsOpen(m))'
  BY DEF EndsBy, Disconnected, MType
<1>2. CallerType'
  BY LostBeginsProps DEF EndsBy, Disconnected, CallerType, RestType
<1>3. NetType'
  BY DEF EndsBy, Disconnected, NetType, Nets, NoNet
<1>4. running' = running /\ tostop' \in BOOLEAN
  BY DEF EndsBy, Disconnected, RestType
<1>5. lost' \in Seq(Nat)
  BY DEF EndsBy, Disconnected, RestType
<1>. QED
  BY <1>1, <1>2, <1>3, <1>4, <1>5


\* What an action does to the client, when it ends nothing
LEMMA ClientEdits ==
    ASSUME NEW c, IsClient(c)
    PROVE  /\ \A state \in {0, 1, 3, -2} : IsClient([c EXCEPT !.connect_state = state, !.socket = TRUE])
           /\ \A id \in Nat, e \in Messages :
                  IsClient([c EXCEPT !.msgID = id, !.outboundMsgs = c.outboundMsgs \cup {e}])
<1>1. ASSUME NEW state \in {0, 1, 3, -2}
      PROVE  IsClient([c EXCEPT !.connect_state = state, !.socket = TRUE])
  BY DEF IsClient, Clients
<1>2. ASSUME NEW id \in Nat, NEW e \in Messages
      PROVE  IsClient([c EXCEPT !.msgID = id, !.outboundMsgs = c.outboundMsgs \cup {e}])
  <2>. DEFINE more == c.outboundMsgs \cup {e}
  <2>1. IsFiniteSet(more) /\ more \in SUBSET Messages
    BY FS_AddElement DEF IsClient, Clients
  <2>. HIDE DEF more
  <2>2. IsClient([c EXCEPT !.msgID = id, !.outboundMsgs = more])
    BY <2>1 DEF IsClient, Clients
  <2>. QED
    BY <2>2 DEF more
<1>. QED
  BY <1>1, <1>2


LEMMA RunSelectsTypes ==
    ASSUME Base, RunSelects
    PROVE  Base'
<1>. USE DEF Base, TypeInv, RunSelects
<1>1. MType' /\ (m.socket => IsOpen(m))'
  BY DEF MType, IsClient, Clients, IsOpen
<1>2. RunType'
  BY RunAtType DEF RunType, Runs
<1>3. CallerType'
  BY CallerAtType, IdleType DEF CallerType
<1>4. NetType'
  BY DEF NetType, Nets
<1>5. RestType'
  BY DEF RestType
<1>. QED
  BY <1>1, <1>2, <1>3, <1>4, <1>5

LEMMA RunEndsTypes ==
    ASSUME Base, RunEnds
    PROVE  Base'
<1>. USE DEF Base, TypeInv, RunEnds
<1>1. MType' /\ (m.socket => IsOpen(m))'
  BY DEF MType, IsClient, Clients, IsOpen
<1>2. RunType'
  BY RunAtType DEF RunType, Runs
<1>3. CallerType'
  BY CallerAtType, IdleType DEF CallerType
<1>4. NetType'
  BY DEF NetType, Nets
<1>5. RestType'
  BY DEF RestType
<1>. QED
  BY <1>1, <1>2, <1>3, <1>4, <1>5

LEMMA RunPassesTypes ==
    ASSUME Base, RunPasses
    PROVE  Base'
<1>. USE DEF Base, TypeInv, RunPasses
<1>1. MType' /\ (m.socket => IsOpen(m))'
  BY DEF MType, IsClient, Clients, IsOpen
<1>2. RunType'
  BY RunAtType DEF RunType, Runs
<1>3. CallerType'
  BY CallerAtType, IdleType DEF CallerType
<1>4. NetType'
  BY DEF NetType, Nets
<1>5. RestType'
  BY DEF RestType
<1>. QED
  BY <1>1, <1>2, <1>3, <1>4, <1>5

LEMMA RunFindsErrorTypes ==
    ASSUME Base, RunFindsError
    PROVE  Base'
<1>. USE DEF Base, TypeInv, RunFindsError, Posted
<1>1. MType' /\ (m.socket => IsOpen(m))'
  BY DEF MType, IsClient, Clients, IsOpen
<1>2. RunType'
  BY RunAtType DEF RunType, Runs
<1>3. CallerType'
  BY CallerAtType, IdleType DEF CallerType
<1>4. NetType'
  BY DEF NetType, Nets
<1>5. RestType'
  BY DEF RestType
<1>. QED
  BY <1>1, <1>2, <1>3, <1>4, <1>5

LEMMA RunCallsTypes ==
    ASSUME Base, RunCalls
    PROVE  Base'
<1>. USE DEF Base, TypeInv, RunCalls
<1>1. MType' /\ (m.socket => IsOpen(m))'
  BY DEF MType, IsClient, Clients, IsOpen
<1>2. RunType'
  <2>1. run' = [run EXCEPT !.at = "callback", !.msg = Head(m.messageQueue), !.epoch = epoch]
    OBVIOUS
  <2>. QED
    BY <2>1 DEF RunType, Runs, RestType
<1>3. CallerType'
  BY CallerAtType, IdleType DEF CallerType
<1>4. NetType'
  BY DEF NetType, Nets
<1>5. RestType'
  BY DEF RestType
<1>. QED
  BY <1>1, <1>2, <1>3, <1>4, <1>5

LEMMA LostReturnsTypes ==
    ASSUME Base, LostReturns
    PROVE  Base'
<1>. USE DEF Base, TypeInv, LostReturns
<1>1. MType' /\ (m.socket => IsOpen(m))'
  BY DEF MType, IsClient, Clients, IsOpen
<1>2. RunType'
  BY RunAtType DEF RunType, Runs
<1>3. CallerType'
  BY CallerAtType, IdleType DEF CallerType
<1>4. NetType'
  BY DEF NetType, Nets
<1>5. RestType'
  BY DEF RestType
<1>. QED
  BY <1>1, <1>2, <1>3, <1>4, <1>5

LEMMA WaitBeginsTypes ==
    ASSUME Base, NEW t \in Caller, WaitBegins(t)
    PROVE  Base'
<1>. USE DEF Base, TypeInv, WaitBegins
<1>1. MType' /\ (m.socket => IsOpen(m))'
  BY DEF MType, IsClient, Clients, IsOpen
<1>2. RunType'
  BY RunAtType DEF RunType, Runs
<1>3. CallerType'
  <2>1. caller[t] \in Callers
    BY DEF CallerType
  <2>2. [caller[t] EXCEPT !.at = IF running THEN "waiting" ELSE "cycling"] \in Callers
    BY <2>1, CallerAtType, IdleType DEF Callers, Places, Quiet, Wait
  <2>3. Goes(t, [caller[t] EXCEPT !.at = IF running THEN "waiting" ELSE "cycling"])
    OBVIOUS
  <2>. QED
    BY <2>1, <2>2, <2>3 DEF CallerType, Caller
<1>4. NetType'
  BY DEF NetType, Nets
<1>5. RestType'
  BY DEF RestType
<1>. QED
  BY <1>1, <1>2, <1>3, <1>4, <1>5

LEMMA WaitEndsTypes ==
    ASSUME Base, NEW t \in Caller, WaitEnds(t)
    PROVE  Base'
<1>. USE DEF Base, TypeInv, WaitEnds
<1>1. MType' /\ (m.socket => IsOpen(m))'
  BY DEF MType, IsClient, Clients, IsOpen
<1>2. RunType'
  BY RunAtType DEF RunType, Runs
<1>3. CallerType'
  <2>1. caller[t] \in Callers
    BY DEF CallerType
  <2>2. [caller[t] EXCEPT !.at = "woken", !.rc = IF caller[t].sem = "connect_sem" THEN m.rc ELSE 0] \in Callers
    BY <2>1, CallerAtType, IdleType DEF Callers, Places, Quiet, Wait, MType, IsClient, Clients, Semaphores, IdleCaller
  <2>3. Goes(t, [caller[t] EXCEPT !.at = "woken", !.rc = IF caller[t].sem = "connect_sem" THEN m.rc ELSE 0])
    OBVIOUS
  <2>. QED
    BY <2>1, <2>2, <2>3 DEF CallerType, Caller
<1>4. NetType'
  BY DEF NetType, Nets
<1>5. RestType'
  BY DEF RestType
<1>. QED
  BY <1>1, <1>2, <1>3, <1>4, <1>5

LEMMA WaitTimesOutTypes ==
    ASSUME Base, NEW t \in Caller, WaitTimesOut(t)
    PROVE  Base'
<1>. USE DEF Base, TypeInv, WaitTimesOut, TimedOut
<1>1. MType' /\ (m.socket => IsOpen(m))'
  BY DEF MType, IsClient, Clients, IsOpen
<1>2. RunType'
  BY RunAtType DEF RunType, Runs
<1>3. CallerType'
  <2>1. caller[t] \in Callers
    BY DEF CallerType
  <2>2. TimedOut(t, "woken", -1) \in Callers
    BY <2>1, CallerAtType, IdleType DEF Callers, Places, Quiet, Wait, Packs
  <2>3. Goes(t, TimedOut(t, "woken", -1))
    OBVIOUS
  <2>. QED
    BY <2>1, <2>2, <2>3 DEF CallerType, Caller
<1>4. NetType'
  BY DEF NetType, Nets
<1>5. RestType'
  BY DEF RestType
<1>. QED
  BY <1>1, <1>2, <1>3, <1>4, <1>5

LEMMA PackIsReadTypes ==
    ASSUME Base, NEW t \in Caller, PackIsRead(t)
    PROVE  Base'
<1>. USE DEF Base, TypeInv, PackIsRead
<1>1. MType' /\ (m.socket => IsOpen(m))'
  BY DEF MType, IsClient, Clients, IsOpen
<1>2. RunType'
  BY RunAtType DEF RunType, Runs
<1>3. CallerType'
  <2>1. caller[t] \in Callers
    BY DEF CallerType
  <2>2. [caller[t] EXCEPT !.at = "resume", !.pack = m.pack] \in Callers
    BY <2>1, CallerAtType, IdleType DEF Callers, Places, Quiet, Wait, MType, IsClient, Clients
  <2>3. Goes(t, [caller[t] EXCEPT !.at = "resume", !.pack = m.pack])
    OBVIOUS
  <2>. QED
    BY <2>1, <2>2, <2>3 DEF CallerType, Caller
<1>4. NetType'
  BY DEF NetType, Nets
<1>5. RestType'
  BY DEF RestType
<1>. QED
  BY <1>1, <1>2, <1>3, <1>4, <1>5

LEMMA CycleTimesOutTypes ==
    ASSUME Base, NEW t \in Caller, CycleTimesOut(t)
    PROVE  Base'
<1>. USE DEF Base, TypeInv, CycleTimesOut, TimedOut
<1>1. MType' /\ (m.socket => IsOpen(m))'
  BY DEF MType, IsClient, Clients, IsOpen
<1>2. RunType'
  BY RunAtType DEF RunType, Runs
<1>3. CallerType'
  <2>1. caller[t] \in Callers
    BY DEF CallerType
  <2>2. TimedOut(t, "resume", 0) \in Callers
    BY <2>1, CallerAtType, IdleType DEF Callers, Places, Quiet, Wait, Packs
  <2>3. Goes(t, TimedOut(t, "resume", 0))
    OBVIOUS
  <2>. QED
    BY <2>1, <2>2, <2>3 DEF CallerType, Caller
<1>4. NetType'
  BY DEF NetType, Nets
<1>5. RestType'
  BY DEF RestType
<1>. QED
  BY <1>1, <1>2, <1>3, <1>4, <1>5

LEMMA ConnectAgainTypes ==
    ASSUME Base, NEW t \in Caller, ConnectAgain(t)
    PROVE  Base'
<1>. USE DEF Base, TypeInv, ConnectAgain, Attempts
<1>1. MType' /\ (m.socket => IsOpen(m))'
  <2>1. IsClient([m EXCEPT !.connect_state = 1, !.socket = TRUE])
    BY ClientEdits DEF MType
  <2>2. IsClient([m EXCEPT !.connect_state = 3, !.socket = TRUE])
    BY ClientEdits DEF MType
  <2>3. m' = m \/ m' = [m EXCEPT !.connect_state = 1, !.socket = TRUE] \/ m' = [m EXCEPT !.connect_state = 3, !.socket = TRUE]
    OBVIOUS
  <2>4. MType'
    BY <2>1, <2>2, <2>3 DEF MType
  <2>5. (m.socket => IsOpen(m))'
    <3>1. \A state \in {1, 3} : [m EXCEPT !.connect_state = state, !.socket = TRUE].connect_state = state
      BY DEF MType, IsClient, Clients
    <3>2. m' = m \/ m'.connect_state \in {1, 3}
      BY <2>3, <3>1
    <3>. HIDE DEF Connect, ConnectAgain, Attempts
    <3>. QED
      BY <3>2 DEF IsOpen
  <2>. QED
    BY <2>4, <2>5
<1>2. RunType'
  BY RunAtType DEF RunType, Runs
<1>3. CallerType'
  <2>1. caller[t] \in Callers
    BY DEF CallerType
  <2>2. [[IdleCaller EXCEPT !.version = caller[t].version, !.late = caller[t].late] EXCEPT !.at = "waitfor", !.sem = "connect_sem"] \in Callers
    BY <2>1, CallerAtType, IdleType DEF Callers, Places, Quiet, Wait, Packs, Semaphores, IdleCaller
  <2>3. [[IdleCaller EXCEPT !.version = caller[t].version, !.late = caller[t].late] EXCEPT !.at = "waitfor", !.sem = "connack_sem"] \in Callers
    BY <2>1, CallerAtType, IdleType DEF Callers, Places, Quiet, Wait, Packs, Semaphores, IdleCaller
  <2>4. [[IdleCaller EXCEPT !.version = caller[t].version, !.late = caller[t].late] EXCEPT !.at = "failed"] \in Callers
    BY <2>1, CallerAtType, IdleType DEF Callers, Places, Quiet, Wait, Packs, Semaphores, IdleCaller
  <2>5. \/ Goes(t, [[IdleCaller EXCEPT !.version = caller[t].version, !.late = caller[t].late] EXCEPT !.at = "waitfor", !.sem = "connect_sem"])
        \/ Goes(t, [[IdleCaller EXCEPT !.version = caller[t].version, !.late = caller[t].late] EXCEPT !.at = "waitfor", !.sem = "connack_sem"])
        \/ Goes(t, [[IdleCaller EXCEPT !.version = caller[t].version, !.late = caller[t].late] EXCEPT !.at = "failed"])
    OBVIOUS
  <2>. QED
    BY <2>1, <2>2, <2>3, <2>4, <2>5 DEF CallerType, Caller
<1>4. NetType'
  <2>0. <<>> \in Seq(ToBroker) /\ <<>> \in Seq(ToClient)
    OBVIOUS
  <2>1. [NoNet EXCEPT !.is = "connecting"] \in Nets
    BY <2>0 DEF Nets, NoNet
  <2>2. <<[type |-> "CONNECT"]>> \in Seq(ToBroker)
    BY DEF ToBroker
  <2>3. [NoNet EXCEPT !.is = "up", !.to_broker = <<[type |-> "CONNECT"]>>] \in Nets
    BY <2>0, <2>2 DEF Nets, NoNet
  <2>. QED
    BY <2>1, <2>3 DEF NetType
<1>5. RestType'
  BY DEF RestType
<1>. QED
  BY <1>1, <1>2, <1>3, <1>4, <1>5

LEMMA ConnectTypes ==
    ASSUME Base, NEW t \in Caller, Connect(t)
    PROVE  Base'
<1>. USE DEF Base, TypeInv, Connect, Attempts
<1>1. MType' /\ (m.socket => IsOpen(m))'
  <2>1. IsClient([m EXCEPT !.connect_state = 1, !.socket = TRUE])
    BY ClientEdits DEF MType
  <2>2. IsClient([m EXCEPT !.connect_state = 3, !.socket = TRUE])
    BY ClientEdits DEF MType
  <2>3. m' = m \/ m' = [m EXCEPT !.connect_state = 1, !.socket = TRUE] \/ m' = [m EXCEPT !.connect_state = 3, !.socket = TRUE]
    OBVIOUS
  <2>4. MType'
    BY <2>1, <2>2, <2>3 DEF MType
  <2>5. (m.socket => IsOpen(m))'
    <3>1. \A state \in {1, 3} : [m EXCEPT !.connect_state = state, !.socket = TRUE].connect_state = state
      BY DEF MType, IsClient, Clients
    <3>2. m' = m \/ m'.connect_state \in {1, 3}
      BY <2>3, <3>1
    <3>. HIDE DEF Connect, ConnectAgain, Attempts
    <3>. QED
      BY <3>2 DEF IsOpen
  <2>. QED
    BY <2>4, <2>5
<1>2. RunType'
  BY RunAtType DEF RunType, Runs
<1>3. CallerType'
  <2>1. caller[t] \in Callers
    BY DEF CallerType
  <2>2. [[IdleCaller EXCEPT !.version = 4, !.late = FALSE] EXCEPT !.at = "waitfor", !.sem = "connect_sem"] \in Callers
    BY <2>1, CallerAtType, IdleType DEF Callers, Places, Quiet, Wait, Packs, Semaphores, IdleCaller
  <2>3. [[IdleCaller EXCEPT !.version = 4, !.late = FALSE] EXCEPT !.at = "waitfor", !.sem = "connack_sem"] \in Callers
    BY <2>1, CallerAtType, IdleType DEF Callers, Places, Quiet, Wait, Packs, Semaphores, IdleCaller
  <2>4. [[IdleCaller EXCEPT !.version = 4, !.late = FALSE] EXCEPT !.at = "failed"] \in Callers
    BY <2>1, CallerAtType, IdleType DEF Callers, Places, Quiet, Wait, Packs, Semaphores, IdleCaller
  <2>5. \/ Goes(t, [[IdleCaller EXCEPT !.version = 4, !.late = FALSE] EXCEPT !.at = "waitfor", !.sem = "connect_sem"])
        \/ Goes(t, [[IdleCaller EXCEPT !.version = 4, !.late = FALSE] EXCEPT !.at = "waitfor", !.sem = "connack_sem"])
        \/ Goes(t, [[IdleCaller EXCEPT !.version = 4, !.late = FALSE] EXCEPT !.at = "failed"])
    OBVIOUS
  <2>. QED
    BY <2>1, <2>2, <2>3, <2>4, <2>5 DEF CallerType, Caller
<1>4. NetType'
  <2>0. <<>> \in Seq(ToBroker) /\ <<>> \in Seq(ToClient)
    OBVIOUS
  <2>1. [NoNet EXCEPT !.is = "connecting"] \in Nets
    BY <2>0 DEF Nets, NoNet
  <2>2. <<[type |-> "CONNECT"]>> \in Seq(ToBroker)
    BY DEF ToBroker
  <2>3. [NoNet EXCEPT !.is = "up", !.to_broker = <<[type |-> "CONNECT"]>>] \in Nets
    BY <2>0, <2>2 DEF Nets, NoNet
  <2>. QED
    BY <2>1, <2>3 DEF NetType
<1>5. RestType'
  BY DEF RestType
<1>. QED
  BY <1>1, <1>2, <1>3, <1>4, <1>5

LEMMA TcpConnectedTypes ==
    ASSUME Base, NEW t \in Caller, TcpConnected(t)
    PROVE  Base'
<1>. USE DEF Base, TypeInv, TcpConnected, Sends, Ends, CanSend
<1>1. MType' /\ (m.socket => IsOpen(m))'
  BY DEF MType, IsClient, Clients, IsOpen
<1>2. RunType'
  BY RunAtType DEF RunType, Runs
<1>3. CallerType'
  <2>1. caller[t] \in Callers
    BY DEF CallerType
  <2>2. Ends(t) \in Callers
    BY <2>1, CallerAtType, IdleType DEF Callers, Places, Quiet, Wait, Packs, Semaphores, IdleCaller
  <2>3. [Ends(t) EXCEPT !.at = "waitfor", !.sem = "connack_sem"] \in Callers
    BY <2>1, CallerAtType, IdleType DEF Callers, Places, Quiet, Wait, Packs, Semaphores, IdleCaller
  <2>4. \/ Goes(t, Ends(t))
        \/ Goes(t, [Ends(t) EXCEPT !.at = "waitfor", !.sem = "connack_sem"])
    OBVIOUS
  <2>. QED
    BY <2>1, <2>2, <2>3, <2>4 DEF CallerType, Caller
<1>4. NetType'
  <2>. DEFINE sent(p) == [net EXCEPT !.to_broker = Append(net.to_broker, p)]
  <2>1. ASSUME NEW p \in ToBroker PROVE sent(p) \in Nets
    <3>1. Append(net.to_broker, p) \in Seq(ToBroker)
      BY DEF NetType, Nets
    <3>. QED
      BY <3>1 DEF NetType, Nets
  <2>2. [type |-> "CONNECT"] \in ToBroker
    BY DEF ToBroker
  <2>3. net' = net \/ \E p \in ToBroker : net' = sent(p)
    BY <2>2
  <2>. QED
    BY <2>1, <2>3 DEF NetType
<1>5. RestType'
  BY DEF RestType
<1>. QED
  BY <1>1, <1>2, <1>3, <1>4, <1>5

LEMMA NoConnackTypes ==
    ASSUME Base, NEW t \in Caller, NoConnack(t)
    PROVE  Base'
<1>. USE DEF Base, TypeInv, NoConnack
<1>1. MType' /\ (m.socket => IsOpen(m))'
  BY DEF MType, IsClient, Clients, IsOpen
<1>2. RunType'
  BY RunAtType DEF RunType, Runs
<1>3. CallerType'
  <2>1. caller[t] \in Callers
    BY DEF CallerType
  <2>2. Ends(t) \in Callers
    BY <2>1, FailedType
  <2>3. Goes(t, Ends(t))
    OBVIOUS
  <2>. QED
    BY <2>1, <2>2, <2>3 DEF CallerType, Caller
<1>4. NetType'
  BY DEF NetType, Nets
<1>5. RestType'
  BY DEF RestType
<1>. QED
  BY <1>1, <1>2, <1>3, <1>4, <1>5

LEMMA StoppedTypes ==
    ASSUME Base, NEW t \in Caller, Stopped(t)
    PROVE  Base'
<1>. USE DEF Base, TypeInv, Stopped
<1>1. MType' /\ (m.socket => IsOpen(m))'
  BY DEF MType, IsClient, Clients, IsOpen
<1>2. RunType'
  BY RunAtType DEF RunType, Runs
<1>3. CallerType'
  <2>1. caller[t] \in Callers
    BY DEF CallerType
  <2>2. [caller[t] EXCEPT !.at = caller[t].next, !.next = "idle"] \in Callers
    BY <2>1, CallerAtType, IdleType DEF Callers, Places, Quiet, Wait
  <2>3. Goes(t, [caller[t] EXCEPT !.at = caller[t].next, !.next = "idle"])
    OBVIOUS
  <2>. QED
    BY <2>1, <2>2, <2>3 DEF CallerType, Caller
<1>4. NetType'
  BY DEF NetType, Nets
<1>5. RestType'
  BY DEF RestType
<1>. QED
  BY <1>1, <1>2, <1>3, <1>4, <1>5

LEMMA SubscribeTypes ==
    ASSUME Base, NEW sem \in Requests, Subscribe(sem)
    PROVE  Base'
<1>. USE DEF Base, TypeInv, Subscribe, Sends, CallerAt, IdleCaller
<1>1. MType' /\ (m.socket => IsOpen(m))'
  BY DEF MType, IsClient, Clients, IsOpen
<1>2. RunType'
  BY RunAtType DEF RunType, Runs
<1>3. CallerType'
  <2>1. CallerAt("drop") \in Callers
    BY CallerAtType, IdleType DEF Places, Quiet
  <2>2. [CallerAt("waitfor") EXCEPT !.sem = sem, !.call = calls', !.epoch = epoch] \in Callers
    <3>1. calls' \in Nat /\ epoch \in Nat /\ sem \in Semaphores
      BY SyncAssumption DEF RestType, Semaphores
    <3>. QED
      BY <3>1 DEF CallerAt, IdleCaller, Callers, Places, Wait, Packs, Semaphores
  <2>3. \/ Goes("app", CallerAt("drop"))
        \/ Goes("app", [CallerAt("waitfor") EXCEPT !.sem = sem, !.call = calls', !.epoch = epoch])
    OBVIOUS
  <2>. QED
    BY <2>1, <2>2, <2>3 DEF CallerType, Caller
<1>4. NetType'
  <2>. DEFINE sent(p) == [net EXCEPT !.to_broker = Append(net.to_broker, p)]
  <2>1. ASSUME NEW p \in ToBroker PROVE sent(p) \in Nets
    <3>1. Append(net.to_broker, p) \in Seq(ToBroker)
      BY DEF NetType, Nets
    <3>. QED
      BY <3>1 DEF NetType, Nets
  <2>2. [type |-> IF sem = "suback_sem" THEN "SUBACK" ELSE "UNSUBACK", call |-> calls', epoch |-> epoch] \in ToBroker
    BY DEF ToBroker, Answers, RestType
  <2>3. net' = net \/ \E p \in ToBroker : net' = sent(p)
    BY <2>2
  <2>. QED
    BY <2>1, <2>3 DEF NetType
<1>5. RestType'
  BY DEF RestType
<1>. QED
  BY <1>1, <1>2, <1>3, <1>4, <1>5

LEMMA SubscribedTypes ==
    ASSUME Base, Subscribed
    PROVE  Base'
<1>. USE DEF Base, TypeInv, Subscribed
<1>1. MType' /\ (m.socket => IsOpen(m))'
  <2>1. IsClient([m EXCEPT !.pack = NoPack])
    BY ClientEdits DEF MType, IsClient, Clients, Packs
  <2>2. m' = m \/ m' = [m EXCEPT !.pack = NoPack]
    OBVIOUS
  <2>. QED
    BY <2>1, <2>2 DEF MType, IsOpen, IsClient, Clients
<1>2. RunType'
  BY RunAtType DEF RunType, Runs
<1>3. CallerType'
  <2>1. CallerAt("drop") \in Callers
    BY CallerAtType, IdleType DEF Places, Quiet
  <2>2. IdleCaller \in Callers
    BY CallerAtType, IdleType DEF Callers, Places, Quiet, Wait, Packs, Semaphores, IdleCaller
  <2>3. \/ Goes("app", CallerAt("drop"))
        \/ Goes("app", IdleCaller)
    OBVIOUS
  <2>. QED
    BY <2>1, <2>2, <2>3 DEF CallerType, Caller
<1>4. NetType'
  BY DEF NetType, Nets
<1>5. RestType'
  BY DEF RestType
<1>. QED
  BY <1>1, <1>2, <1>3, <1>4, <1>5

LEMMA PublishTypes ==
    ASSUME Base, Publish
    PROVE  Base'
<1>. USE DEF Base, TypeInv, Publish, StartPublish, Sends, CallerAt, IdleCaller
<1>1. MType' /\ (m.socket => IsOpen(m))'
  <2>. DEFINE Adds(msg) == [m EXCEPT !.msgID = m.msgID + 1,
                                     !.outboundMsgs = m.outboundMsgs \cup {[id |-> m.msgID + 1, msg |-> msg]}]
  <2>1. ASSUME NEW msg \in Nat
        PROVE  IsClient(Adds(msg)) /\ (Adds(msg).socket => IsOpen(Adds(msg)))
    <3>1. [id |-> m.msgID + 1, msg |-> msg] \in Messages
      BY DEF MType, IsClient, Clients, Messages
    <3>2. m.msgID + 1 \in Nat /\ IsClient(m)
      BY DEF MType, IsClient, Clients
    <3>3. IsClient(Adds(msg))
      BY <3>1, <3>2, ClientEdits
    <3>4. Adds(msg).socket => IsOpen(Adds(msg))
      BY DEF IsOpen, MType, IsClient, Clients
    <3>. QED
      BY <3>3, <3>4
  <2>2. calls + 1 \in Nat /\ caller["app"].msg \in Nat
    BY DEF RestType, CallerType, Caller, Callers
  <2>3. m' = m \/ \E msg \in Nat : m' = Adds(msg)
    BY <2>2 DEF StartPublish
  <2>. QED
    BY <2>1, <2>3 DEF MType, IsOpen, IsClient
<1>2. RunType'
  BY RunAtType DEF RunType, Runs
<1>3. CallerType'
  <2>1. CallerAt("drop") \in Callers
    BY CallerAtType, IdleType DEF Places, Quiet
  <2>2. IdleCaller \in Callers
    BY CallerAtType, IdleType DEF Callers, Places, Quiet, Wait, Packs, Semaphores, IdleCaller
  <2>3. [CallerAt("blocked") EXCEPT !.msg = calls'] \in Callers
    <3>1. calls' \in Nat
      BY DEF RestType
    <3>. QED
      BY <3>1 DEF CallerAt, IdleCaller, Callers, Places, Quiet, Packs, Semaphores
  <2>4. \/ Goes("app", CallerAt("drop"))
        \/ Goes("app", IdleCaller)
        \/ Goes("app", [CallerAt("blocked") EXCEPT !.msg = calls'])
    OBVIOUS
  <2>. QED
    BY <2>1, <2>2, <2>3, <2>4 DEF CallerType, Caller
<1>4. NetType'
  <2>. DEFINE sent(p) == [net EXCEPT !.to_broker = Append(net.to_broker, p)]
  <2>1. ASSUME NEW p \in ToBroker PROVE sent(p) \in Nets
    <3>1. Append(net.to_broker, p) \in Seq(ToBroker)
      BY DEF NetType, Nets
    <3>. QED
      BY <3>1 DEF NetType, Nets
  <2>2. \A msg \in Nat : [type |-> "PUBLISH", id |-> m.msgID + 1, msg |-> msg] \in ToBroker
    BY DEF ToBroker, MType, IsClient, Clients
  <2>4. calls + 1 \in Nat /\ caller["app"].msg \in Nat
    BY DEF RestType, CallerType, Caller, Callers
  <2>3. net' = net \/ \E p \in ToBroker : net' = sent(p)
    BY <2>2, <2>4
  <2>. QED
    BY <2>1, <2>3 DEF NetType
<1>5. RestType'
  BY DEF RestType
<1>. QED
  BY <1>1, <1>2, <1>3, <1>4, <1>5

LEMMA PublishGoesOnTypes ==
    ASSUME Base, PublishGoesOn
    PROVE  Base'
<1>. USE DEF Base, TypeInv, PublishGoesOn, StartPublish, Sends, CallerAt, IdleCaller
<1>1. MType' /\ (m.socket => IsOpen(m))'
  <2>. DEFINE Adds(msg) == [m EXCEPT !.msgID = m.msgID + 1,
                                     !.outboundMsgs = m.outboundMsgs \cup {[id |-> m.msgID + 1, msg |-> msg]}]
  <2>1. ASSUME NEW msg \in Nat
        PROVE  IsClient(Adds(msg)) /\ (Adds(msg).socket => IsOpen(Adds(msg)))
    <3>1. [id |-> m.msgID + 1, msg |-> msg] \in Messages
      BY DEF MType, IsClient, Clients, Messages
    <3>2. m.msgID + 1 \in Nat /\ IsClient(m)
      BY DEF MType, IsClient, Clients
    <3>3. IsClient(Adds(msg))
      BY <3>1, <3>2, ClientEdits
    <3>4. Adds(msg).socket => IsOpen(Adds(msg))
      BY DEF IsOpen, MType, IsClient, Clients
    <3>. QED
      BY <3>3, <3>4
  <2>2. calls + 1 \in Nat /\ caller["app"].msg \in Nat
    BY DEF RestType, CallerType, Caller, Callers
  <2>3. m' = m \/ \E msg \in Nat : m' = Adds(msg)
    BY <2>2 DEF StartPublish
  <2>. QED
    BY <2>1, <2>3 DEF MType, IsOpen, IsClient
<1>2. RunType'
  BY RunAtType DEF RunType, Runs
<1>3. CallerType'
  <2>1. CallerAt("drop") \in Callers
    BY CallerAtType, IdleType DEF Places, Quiet
  <2>2. IdleCaller \in Callers
    BY CallerAtType, IdleType DEF Callers, Places, Quiet, Wait, Packs, Semaphores, IdleCaller
  <2>3. \/ Goes("app", CallerAt("drop"))
        \/ Goes("app", IdleCaller)
    OBVIOUS
  <2>. QED
    BY <2>1, <2>2, <2>3 DEF CallerType, Caller
<1>4. NetType'
  <2>. DEFINE sent(p) == [net EXCEPT !.to_broker = Append(net.to_broker, p)]
  <2>1. ASSUME NEW p \in ToBroker PROVE sent(p) \in Nets
    <3>1. Append(net.to_broker, p) \in Seq(ToBroker)
      BY DEF NetType, Nets
    <3>. QED
      BY <3>1 DEF NetType, Nets
  <2>2. \A msg \in Nat : [type |-> "PUBLISH", id |-> m.msgID + 1, msg |-> msg] \in ToBroker
    BY DEF ToBroker, MType, IsClient, Clients
  <2>4. calls + 1 \in Nat /\ caller["app"].msg \in Nat
    BY DEF RestType, CallerType, Caller, Callers
  <2>3. net' = net \/ \E p \in ToBroker : net' = sent(p)
    BY <2>2, <2>4
  <2>. QED
    BY <2>1, <2>3 DEF NetType
<1>5. RestType'
  BY DEF RestType
<1>. QED
  BY <1>1, <1>2, <1>3, <1>4, <1>5

LEMMA WaitForCompletionTypes ==
    ASSUME Base, WaitForCompletion
    PROVE  Base'
<1>. USE DEF Base, TypeInv, WaitForCompletion, CallerAt, IdleCaller
<1>1. MType' /\ (m.socket => IsOpen(m))'
  BY DEF MType, IsClient, Clients, IsOpen
<1>2. RunType'
  BY RunAtType DEF RunType, Runs
<1>3. CallerType'
  <2>1. \A e \in Messages : [CallerAt("completing") EXCEPT !.id = e.id, !.msg = e.msg] \in Callers
    BY CallerAtType DEF Callers, Places, Quiet, Messages
  <2>2. \E e \in Messages : caller' = [caller EXCEPT !["app"] = [CallerAt("completing") EXCEPT !.id = e.id, !.msg = e.msg]]
    BY DEF MType, IsClient, Clients
  <2>3. PICK e \in Messages :
            caller' = [caller EXCEPT !["app"] = [CallerAt("completing") EXCEPT !.id = e.id, !.msg = e.msg]]
    BY <2>2
  <2>4. [CallerAt("completing") EXCEPT !.id = e.id, !.msg = e.msg] \in Callers
    BY <2>1
  <2>. HIDE DEF WaitForCompletion, CallerAt
  <2>. QED
    BY <2>3, <2>4 DEF CallerType, Caller
<1>4. NetType'
  BY DEF NetType, Nets
<1>5. RestType'
  BY DEF RestType
<1>. QED
  BY <1>1, <1>2, <1>3, <1>4, <1>5

LEMMA CompletedTypes ==
    ASSUME Base, Completed
    PROVE  Base'
<1>. USE DEF Base, TypeInv, Completed
<1>1. MType' /\ (m.socket => IsOpen(m))'
  BY DEF MType, IsClient, Clients, IsOpen
<1>2. RunType'
  BY RunAtType DEF RunType, Runs
<1>3. CallerType'
  BY CallerAtType, IdleType DEF CallerType
<1>4. NetType'
  BY DEF NetType, Nets
<1>5. RestType'
  BY DEF RestType
<1>. QED
  BY <1>1, <1>2, <1>3, <1>4, <1>5

LEMMA DisconnectTypes ==
    ASSUME Base, Disconnect
    PROVE  Base'
<1>. USE DEF Base, TypeInv, Disconnect, CallerAt, IdleCaller
<1>1. MType' /\ (m.socket => IsOpen(m))'
  BY DEF MType, IsClient, Clients, IsOpen
<1>2. RunType'
  BY RunAtType DEF RunType, Runs
<1>3. CallerType'
  <2>1. CallerAt("draining") \in Callers
    BY CallerAtType, IdleType DEF Callers, Places, Quiet, Wait, Packs
  <2>2. Goes("app", CallerAt("draining"))
    OBVIOUS
  <2>. QED
    BY <2>1, <2>2 DEF CallerType, Caller
<1>4. NetType'
  BY DEF NetType, Nets
<1>5. RestType'
  BY DEF RestType
<1>. QED
  BY <1>1, <1>2, <1>3, <1>4, <1>5

LEMMA ReceiveTypes ==
    ASSUME Base, Receive
    PROVE  Base'
<1>. USE DEF Base, TypeInv, Receive, CallerAt, IdleCaller
<1>1. MType' /\ (m.socket => IsOpen(m))'
  BY DEF MType, IsClient, Clients, IsOpen
<1>2. RunType'
  BY RunAtType DEF RunType, Runs
<1>3. CallerType'
  <2>1. CallerAt("receiving") \in Callers
    BY CallerAtType, IdleType DEF Callers, Places, Quiet, Wait, Packs
  <2>2. Goes("app", CallerAt("receiving"))
    OBVIOUS
  <2>. QED
    BY <2>1, <2>2 DEF CallerType, Caller
<1>4. NetType'
  BY DEF NetType, Nets
<1>5. RestType'
  BY DEF RestType
<1>. QED
  BY <1>1, <1>2, <1>3, <1>4, <1>5

LEMMA ReceiveEndsTypes ==
    ASSUME Base, ReceiveEnds
    PROVE  Base'
<1>. USE DEF Base, TypeInv, ReceiveEnds
<1>1. MType' /\ (m.socket => IsOpen(m))'
  BY DEF MType, IsClient, Clients, IsOpen
<1>2. RunType'
  BY RunAtType DEF RunType, Runs
<1>3. CallerType'
  BY CallerAtType, IdleType DEF CallerType
<1>4. NetType'
  BY DEF NetType, Nets
<1>5. RestType'
  BY DEF RestType
<1>. QED
  BY <1>1, <1>2, <1>3, <1>4, <1>5

LEMMA TcpUpTypes ==
    ASSUME Base, TcpUp
    PROVE  Base'
<1>. USE DEF Base, TypeInv, TcpUp
<1>1. MType' /\ (m.socket => IsOpen(m))'
  BY DEF MType, IsClient, Clients, IsOpen
<1>2. RunType'
  BY RunAtType DEF RunType, Runs
<1>3. CallerType'
  BY CallerAtType, IdleType DEF CallerType
<1>4. NetType'
  BY DEF NetType, Nets
<1>5. RestType'
  BY DEF RestType
<1>. QED
  BY <1>1, <1>2, <1>3, <1>4, <1>5

LEMMA BreaksTypes ==
    ASSUME Base, Breaks
    PROVE  Base'
<1>. USE DEF Base, TypeInv, Breaks
<1>1. MType' /\ (m.socket => IsOpen(m))'
  BY DEF MType, IsClient, Clients, IsOpen
<1>2. RunType'
  BY RunAtType DEF RunType, Runs
<1>3. CallerType'
  BY CallerAtType, IdleType DEF CallerType
<1>4. NetType'
  <2>1. net' = [net EXCEPT !.is = "broken", !.to_broker = <<>>] /\ <<>> \in Seq(ToBroker)
    OBVIOUS
  <2>. QED
    BY <2>1 DEF NetType, Nets
<1>5. RestType'
  BY DEF RestType
<1>. QED
  BY <1>1, <1>2, <1>3, <1>4, <1>5

LEMMA BrokerAnswersTypes ==
    ASSUME Base, NEW ok \in BOOLEAN, BrokerAnswers(ok)
    PROVE  Base'
<1>. USE DEF Base, TypeInv, BrokerAnswers
<1>1. MType' /\ (m.socket => IsOpen(m))'
  BY DEF MType, IsClient, Clients, IsOpen
<1>2. RunType'
  BY RunAtType DEF RunType, Runs
<1>3. CallerType'
  BY CallerAtType, IdleType DEF CallerType
<1>4. NetType'
  <2>. DEFINE p == Head(net.to_broker)
              answer == CASE p.type = "CONNECT" -> [type |-> "CONNACK", accepted |-> ok, epoch |-> epoch]
                          [] p.type = "PUBLISH" -> [type |-> "PUBACK", id |-> p.id]
                          [] OTHER -> p
  <2>1. net.to_broker \in Seq(ToBroker) /\ net.to_client \in Seq(ToClient)
    BY DEF NetType, Nets
  <2>2. p \in ToBroker /\ Tail(net.to_broker) \in Seq(ToBroker)
    BY <2>1
  <2>3. net' = [net EXCEPT !.to_broker = Tail(net.to_broker), !.to_client = Append(net.to_client, answer)]
    OBVIOUS
  <2>. HIDE DEF p
  <2>4. answer \in ToClient
    BY <2>2 DEF ToBroker, ToClient, Answers, Connacks, RestType
  <2>. HIDE DEF answer
  <2>5. Append(net.to_client, answer) \in Seq(ToClient)
    BY <2>1, <2>4
  <2>. QED
    BY <2>2, <2>3, <2>5 DEF NetType, Nets
<1>5. RestType'
  BY DEF RestType
<1>. QED
  BY <1>1, <1>2, <1>3, <1>4, <1>5

LEMMA BrokerPublishesTypes ==
    ASSUME Base, BrokerPublishes
    PROVE  Base'
<1>. USE DEF Base, TypeInv, BrokerPublishes
<1>1. MType' /\ (m.socket => IsOpen(m))'
  BY DEF MType, IsClient, Clients, IsOpen
<1>2. RunType'
  BY RunAtType DEF RunType, Runs
<1>3. CallerType'
  BY CallerAtType, IdleType DEF CallerType
<1>4. NetType'
  <2>1. net' = [net EXCEPT !.to_client = Append(net.to_client, [type |-> "PUBLISH", msg |-> incoming'])]
    OBVIOUS
  <2>2. [type |-> "PUBLISH", msg |-> incoming'] \in ToClient
    BY DEF ToClient, RestType
  <2>3. Append(net.to_client, [type |-> "PUBLISH", msg |-> incoming']) \in Seq(ToClient)
    BY <2>2 DEF NetType, Nets
  <2>. QED
    BY <2>1, <2>3 DEF NetType, Nets
<1>5. RestType'
  BY DEF RestType
<1>. QED
  BY <1>1, <1>2, <1>3, <1>4, <1>5


\* A cycle changes what it read, and nothing else of the client
LEMMA CycledType ==
    ASSUME MType, NetType
    PROVE  /\ IsClient(Cycled.m) /\ Cycled.m.outboundMsgs \subseteq m.outboundMsgs
           /\ Cycled.m.connected = m.connected /\ Cycled.m.connect_state = m.connect_state
           /\ Cycled.m.socket = m.socket /\ Cycled.m.sem = m.sem /\ Cycled.m.pack = m.pack
           /\ Cycled.m.msgID = m.msgID /\ Cycled.m.rc = m.rc
           /\ Cycled.net \in Nets /\ Cycled.net.is = net.is
           /\ Cycled.net.to_broker = net.to_broker
           /\ Cycled.rc \in {0, -1} /\ Cycled.pack \in Packs
<1>1. CASE CycleFinds
  BY <1>1 DEF CycleFinds, MType, NetType, Packs
<1>2. ASSUME NEW p \in ToClient, CycleReads(p)
      PROVE  /\ IsClient(Cycled.m) /\ Cycled.m.outboundMsgs \subseteq m.outboundMsgs
             /\ Cycled.m.connected = m.connected /\ Cycled.m.connect_state = m.connect_state
             /\ Cycled.m.socket = m.socket /\ Cycled.m.sem = m.sem /\ Cycled.m.pack = m.pack
             /\ Cycled.m.msgID = m.msgID /\ Cycled.m.rc = m.rc
             /\ Cycled.net \in Nets /\ Cycled.net.is = net.is
             /\ Cycled.net.to_broker = net.to_broker
             /\ Cycled.rc \in {0, -1} /\ Cycled.pack \in Packs
  <2>1. Tail(net.to_client) \in Seq(ToClient)
    BY <1>2 DEF NetType, Nets, CycleReads
  <2>2. Cycled.net \in Nets /\ Cycled.net.is = net.is /\ Cycled.net.to_broker = net.to_broker
    BY <1>2, <2>1 DEF NetType, Nets, CycleReads
  <2>3. Cycled.rc \in {0, -1} /\ Cycled.pack \in Packs
    BY <1>2 DEF CycleReads, Packs, ToClient
  <2>. DEFINE left == {e \in m.outboundMsgs : e.id # p.id}
  <2>4. IsFiniteSet(left) /\ left \subseteq m.outboundMsgs
    BY FS_Subset DEF MType, IsClient
  <2>. HIDE DEF left
  <2>5. CASE p.type = "PUBACK"
    <3>1. Cycled.m = [m EXCEPT !.outboundMsgs = left]
      BY <1>2, <2>5 DEF CycleReads, left
    <3>2. /\ IsClient(Cycled.m) /\ Cycled.m.outboundMsgs \subseteq m.outboundMsgs
          /\ Cycled.m.connected = m.connected /\ Cycled.m.connect_state = m.connect_state
          /\ Cycled.m.socket = m.socket /\ Cycled.m.sem = m.sem /\ Cycled.m.pack = m.pack
          /\ Cycled.m.msgID = m.msgID /\ Cycled.m.rc = m.rc
      BY <2>4, <3>1 DEF MType, IsClient, Clients
    <3>. QED
      BY <2>2, <2>3, <3>2
  <2>6. CASE p.type = "PUBLISH"
    <3>1. Cycled.m = [m EXCEPT !.messageQueue = Append(m.messageQueue, p.msg)]
      BY <1>2, <2>6 DEF CycleReads
    <3>2. /\ IsClient(Cycled.m) /\ Cycled.m.outboundMsgs \subseteq m.outboundMsgs
          /\ Cycled.m.connected = m.connected /\ Cycled.m.connect_state = m.connect_state
          /\ Cycled.m.socket = m.socket /\ Cycled.m.sem = m.sem /\ Cycled.m.pack = m.pack
          /\ Cycled.m.msgID = m.msgID /\ Cycled.m.rc = m.rc
      BY <3>1 DEF MType, IsClient, Clients
    <3>. QED
      BY <2>2, <2>3, <3>2
  <2>7. CASE p.type \notin {"PUBACK", "PUBLISH"}
    <3>1. Cycled.m = m
      BY <1>2, <2>7 DEF CycleReads
    <3>. QED
      BY <2>2, <2>3, <3>1 DEF MType
  <2>. QED
    BY <2>5, <2>6, <2>7
<1>. QED
  BY <1>1, <1>2, CycledProps

LEMMA RunReadsTypes ==
    ASSUME Base, RunReads
    PROVE  Base'
<1>. USE DEF Base, TypeInv
<1>0. /\ IsClient(Cycled.m) /\ Cycled.m.connected = m.connected
      /\ Cycled.m.connect_state = m.connect_state /\ Cycled.m.socket = m.socket
      /\ Cycled.net \in Nets /\ Cycled.rc \in {0, -1} /\ Cycled.pack \in Packs
  BY CycledType
<1>1. /\ m' = Cycled.m /\ net' = Cycled.net
      /\ run' = [RunAt("handle") EXCEPT !.rc = Cycled.rc, !.pack = Cycled.pack]
      /\ UNCHANGED caller
  BY DEF RunReads
<1>2. MType' /\ (m.socket => IsOpen(m))' /\ NetType' /\ CallerType'
  BY <1>0, <1>1 DEF MType, IsOpen, NetType, CallerType
<1>3. RunType'
  BY <1>0, <1>1 DEF RunType, Runs, RunAt
<1>4. RestType'
  BY DEF RunReads, RestType
<1>. QED
  BY <1>2, <1>3, <1>4

LEMMA CallCyclesTypes ==
    ASSUME Base, NEW t \in Caller, CallCycles(t)
    PROVE  Base'
<1>. USE DEF Base, TypeInv
<1>0. /\ IsClient(Cycled.m) /\ Cycled.m.connected = m.connected
      /\ Cycled.m.connect_state = m.connect_state /\ Cycled.m.socket = m.socket
      /\ Cycled.net \in Nets /\ Cycled.rc \in {0, -1} /\ Cycled.pack \in Packs
  BY CycledType
<1>. DEFINE to == [caller[t] EXCEPT !.at = "resume", !.pack = Cycled.pack,
                                    !.rc = IF Cycled.rc = 0 THEN SocketError ELSE -1]
<1>1. /\ m' = Cycled.m /\ net' = Cycled.net /\ UNCHANGED run
      /\ caller' = caller \/ caller' = [caller EXCEPT ![t] = to]
  BY DEF CallCycles
<1>2. MType' /\ (m.socket => IsOpen(m))' /\ NetType' /\ RunType'
  BY <1>0, <1>1 DEF MType, IsOpen, NetType, RunType
<1>3. CallerType'
  <2>1. caller[t] \in Callers
    BY DEF CallerType
  <2>2. to \in Callers
    BY <1>0, <2>1 DEF Callers, Places, Wait, SocketError
  <2>. HIDE DEF to
  <2>. QED
    BY <1>1, <2>2 DEF CallerType
<1>4. RestType'
  BY DEF CallCycles, RestType
<1>. QED
  BY <1>2, <1>3, <1>4

LEMMA YieldsTypes ==
    ASSUME Base, Yields
    PROVE  Base'
<1>. USE DEF Base, TypeInv
<1>1. CASE /\ m' = Cycled.m /\ net' = Cycled.net
           /\ UNCHANGED <<running, tostop, lost, caller>>
  <2>0. /\ IsClient(Cycled.m) /\ Cycled.m.connected = m.connected
        /\ Cycled.m.connect_state = m.connect_state /\ Cycled.m.socket = m.socket
        /\ Cycled.net \in Nets
    BY CycledType
  <2>1. MType' /\ (m.socket => IsOpen(m))' /\ NetType' /\ CallerType'
    BY <1>1, <2>0 DEF MType, IsOpen, NetType, CallerType
  <2>2. RunType' /\ RestType'
    BY <1>1 DEF Yields, RunType, RestType
  <2>. QED
    BY <2>1, <2>2
<1>2. ASSUME NEW callers,
             callers = [caller EXCEPT !["app"] = IF @.at = "receiving" THEN IdleCaller ELSE @],
             Disconnects(m, TRUE, TRUE, callers)
      PROVE  Base'
  <2>1. callers \in [Caller -> Callers]
    BY <1>2, IdleType DEF CallerType, Caller
  <2>2. Disconnected(m, TRUE, TRUE, callers)
    BY <1>2, DisconnectsProps DEF RestType, MType
  <2>3. MType' /\ CallerType' /\ NetType' /\ (m.socket => IsOpen(m))'
        /\ running' = running /\ tostop' \in BOOLEAN /\ lost' \in Seq(Nat)
    BY <2>1, <2>2, EndsType DEF EndsBy, MType
  <2>4. RunType' /\ RestType'
    BY <2>3 DEF Yields, RunType, RestType
  <2>. QED
    BY <2>3, <2>4
<1>. QED
  BY <1>1, <1>2 DEF Yields

LEMMA KeepaliveTypes ==
    ASSUME Base, KeepaliveFails \/ RunDrops
    PROVE  Base' /\ EndsBy(m, TRUE, TRUE, caller)
<1>. USE DEF Base, TypeInv
<1>1. Disconnects(m, TRUE, TRUE, caller)
  BY DEF KeepaliveFails, RunDrops
<1>2. EndsBy(m, TRUE, TRUE, caller)
  BY <1>1, DisconnectsProps DEF RestType, MType, CallerType, EndsBy
<1>3. MType' /\ CallerType' /\ NetType' /\ (m.socket => IsOpen(m))'
      /\ running' = running /\ tostop' \in BOOLEAN /\ lost' \in Seq(Nat)
  BY <1>2, EndsType
<1>4. RunType'
  BY RunAtType DEF KeepaliveFails, RunDrops, RunType, Runs
<1>5. RestType'
  BY <1>3 DEF KeepaliveFails, RunDrops, RestType
<1>. QED
  BY <1>2, <1>3, <1>4, <1>5

LEMMA RunHandlesTypes ==
    ASSUME Base, RunHandles
    PROVE  Base'
<1>. USE DEF Base, TypeInv
<1>1. m' = Woken(m, run.pack) /\ run' = RunAt("cycle") /\ UNCHANGED <<net, caller>>
  BY DEF RunHandles
<1>2. run.pack \in Packs
  BY DEF RunType, Runs
<1>3. IsClient(m') /\ m'.connected = m.connected /\ m'.connect_state = m.connect_state
      /\ m'.socket = m.socket
  BY <1>1, <1>2, WokenProps DEF MType
<1>4. MType' /\ (m.socket => IsOpen(m))' /\ NetType' /\ CallerType'
  BY <1>1, <1>3 DEF MType, IsOpen, NetType, CallerType
<1>5. RunType' /\ RestType'
  BY <1>1, RunAtType DEF RunHandles, RunType, RestType, Runs
<1>. QED
  BY <1>4, <1>5

\* What RunReturns wakes a call with
LEMMA ReturnsProps ==
    ASSUME Base, NEW ok \in BOOLEAN, RunReturns(ok)
    PROVE  \E c : /\ IsClient(c) /\ c.connected = m.connected /\ c.connect_state = m.connect_state
                  /\ c.socket = m.socket /\ c.sem = m.sem /\ c.pack = m.pack
                  /\ c.outboundMsgs = m.outboundMsgs /\ c.msgID = m.msgID
                  /\ m' = Woken(c, run.pack)
<1>. DEFINE rest == [m EXCEPT !.messageQueue = Remove(m.messageQueue, run.msg)]
            c == IF ok THEN rest ELSE m
<1>1. m' = Woken(c, run.pack)
  BY DEF RunReturns
<1>2. /\ IsClient(rest) /\ rest.connected = m.connected /\ rest.connect_state = m.connect_state
      /\ rest.socket = m.socket /\ rest.sem = m.sem /\ rest.pack = m.pack
      /\ rest.outboundMsgs = m.outboundMsgs /\ rest.msgID = m.msgID
  BY DEF Base, TypeInv, MType, IsClient, Clients
<1>3. IsClient(m)
  BY DEF Base, TypeInv, MType
<1>. HIDE DEF rest
<1>. WITNESS c
<1>. QED
  BY <1>1, <1>2, <1>3

LEMMA RunReturnsTypes ==
    ASSUME Base, NEW ok \in BOOLEAN, RunReturns(ok)
    PROVE  Base'
<1>. USE DEF Base, TypeInv
<1>1. PICK c : /\ IsClient(c) /\ c.connected = m.connected /\ c.connect_state = m.connect_state
               /\ c.socket = m.socket /\ m' = Woken(c, run.pack)
  BY ReturnsProps
<1>2. run.pack \in Packs
  BY DEF RunType, Runs
<1>3. IsClient(m') /\ m'.connected = m.connected /\ m'.connect_state = m.connect_state
      /\ m'.socket = m.socket
  BY <1>1, <1>2, WokenProps DEF MType
<1>4. MType' /\ (m.socket => IsOpen(m))' /\ NetType' /\ CallerType'
  BY <1>3 DEF RunReturns, MType, IsOpen, NetType, CallerType
<1>5. RunType' /\ RestType'
  BY RunAtType DEF RunReturns, RunType, RestType, Runs
<1>. QED
  BY <1>4, <1>5

LEMMA AttemptFailsTypes ==
    ASSUME Base, NEW t \in Caller, AttemptFails(t)
    PROVE  /\ Base'
           /\ \/ /\ caller[t].version = 4
                 /\ EndsBy(m, FALSE, FALSE,
                           [caller EXCEPT ![t] = [Ends(t) EXCEPT !.at = "attempt", !.version = 3]])
              \/ /\ caller[t].version # 4
                 /\ EndsBy(m, FALSE, TRUE, StopsFor(t, TRUE, IdleCaller))
<1>. DEFINE next == [Ends(t) EXCEPT !.at = "attempt", !.version = 3]
<1>. USE DEF Base, TypeInv
<1>1. next \in Callers /\ next.at = "attempt" /\ IdleCaller.at = "idle"
  BY DEF CallerType, Callers, Ends, IdleCaller, Places, Packs, Semaphores
<1>2. IsClient(m)
  BY DEF MType
<1>. HIDE DEF next
<1>3. CASE caller[t].version = 4
  <2>1. DisconnectsFor(t, m, FALSE, FALSE, next)
    BY <1>3 DEF AttemptFails, next
  <2>2. EndsBy(m, FALSE, FALSE, StopsFor(t, FALSE, next))
    BY <1>1, <1>2, <2>1, DisconnectsForProps
  <2>3. StopsFor(t, FALSE, next) = [caller EXCEPT ![t] = next]
    BY DEF StopsFor, AfterStop
  <2>. QED
    BY <1>3, <2>2, <2>3, EndsType DEF AttemptFails, RunType, RestType, next
<1>4. CASE caller[t].version # 4
  <2>1. DisconnectsFor(t, m, FALSE, TRUE, IdleCaller)
    BY <1>4 DEF AttemptFails
  <2>2. EndsBy(m, FALSE, TRUE, StopsFor(t, TRUE, IdleCaller))
    BY <1>1, <1>2, <2>1, IdleType, DisconnectsForProps
  <2>. QED
    BY <1>4, <2>2, EndsType DEF AttemptFails, RunType, RestType
<1>. QED
  BY <1>3, <1>4

LEMMA DropTypes ==
    ASSUME Base, Drop
    PROVE  Base' /\ EndsBy(m, TRUE, TRUE, StopsFor("app", TRUE, IdleCaller))
<1>. USE DEF Base, TypeInv
<1>1. IdleCaller.at = "idle" /\ "app" \in Caller /\ IsClient(m)
  BY DEF IdleCaller, Caller, MType
<1>2. DisconnectsFor("app", m, TRUE, TRUE, IdleCaller)
  BY DEF Drop
<1>3. EndsBy(m, TRUE, TRUE, StopsFor("app", TRUE, IdleCaller))
  BY <1>1, <1>2, IdleType, DisconnectsForProps
<1>. QED
  BY <1>3, EndsType DEF Drop, RunType, RestType

\* A disconnect of the application ends as the others do, but is not reported
LEMMA DisconnectEndsProps ==
    ASSUME Base, DisconnectEnds
    PROVE  /\ IsClient(m') /\ ~m'.connected /\ m'.connect_state = 0 /\ ~m'.socket
           /\ m'.pack = m.pack /\ m'.sem = Released
           /\ m'.outboundMsgs \subseteq m.outboundMsgs
           /\ ~cleansession => m'.outboundMsgs = m.outboundMsgs /\ m'.msgID = m.msgID
           /\ net' = NoNet /\ running' = running /\ tostop' = (tostop \/ running)
           /\ caller' = StopsFor("app", TRUE, IdleCaller)
           /\ AfterStop(running /\ ~tostop, IdleCaller) \in Callers
<1>. DEFINE c == Drained(SessionClosed(m))
<1>0. cleansession \in BOOLEAN /\ running \in BOOLEAN /\ tostop \in BOOLEAN /\ IsClient(m)
  BY DEF Base, TypeInv, RestType, MType
<1>1. /\ IsClient(SessionClosed(m)) /\ ~SessionClosed(m).connected
      /\ SessionClosed(m).connect_state = 0 /\ ~SessionClosed(m).socket
      /\ SessionClosed(m).pack = m.pack
      /\ ~cleansession => /\ SessionClosed(m).outboundMsgs = m.outboundMsgs
                          /\ SessionClosed(m).msgID = m.msgID
      /\ SessionClosed(m).outboundMsgs \subseteq m.outboundMsgs
  BY <1>0, ClosedProps
<1>2. /\ IsClient(c) /\ ~c.connected /\ c.connect_state = 0 /\ ~c.socket
      /\ c.pack = m.pack /\ c.sem = Released
      /\ ~cleansession => c.outboundMsgs = m.outboundMsgs /\ c.msgID = m.msgID
      /\ c.outboundMsgs \subseteq m.outboundMsgs
  BY <1>1, DrainedProps
<1>3. /\ m' = c /\ tostop' = (tostop \/ Stops(c))
      /\ caller' = [caller EXCEPT !["app"] = AfterStop(Stops(c), IdleCaller)]
      /\ net' = NoNet /\ running' = running
  BY DEF DisconnectEnds
<1>. HIDE DEF c
<1>4. Stops(c) = (running /\ ~tostop)
  BY <1>0, <1>2 DEF Stops
<1>5. tostop' = (tostop \/ running)
  BY <1>0, <1>3, <1>4
<1>6. caller' = StopsFor("app", TRUE, IdleCaller)
  BY <1>3, <1>4 DEF StopsFor
<1>7. AfterStop(running /\ ~tostop, IdleCaller) \in Callers
  BY <1>0, IdleType, AfterStopProps DEF IdleCaller
<1>. QED
  BY <1>2, <1>3, <1>5, <1>6, <1>7

LEMMA DisconnectEndsTypes ==
    ASSUME Base, DisconnectEnds
    PROVE  Base'
<1>. USE DEF Base, TypeInv
<1>1. MType' /\ (m.socket => IsOpen(m))'
  BY DisconnectEndsProps DEF MType
<1>2. CallerType'
  BY DisconnectEndsProps DEF CallerType, StopsFor, Caller
<1>3. NetType'
  <2>1. <<>> \in Seq(ToBroker) /\ <<>> \in Seq(ToClient)
    OBVIOUS
  <2>2. NoNet \in Nets
    BY <2>1 DEF Nets, NoNet
  <2>. QED
    BY <2>2, DisconnectEndsProps DEF NetType
<1>4. tostop' \in BOOLEAN /\ running' = running
  BY DisconnectEndsProps DEF RestType
<1>5. RunType' /\ RestType'
  BY <1>4 DEF DisconnectEnds, RunType, RestType
<1>. QED
  BY <1>1, <1>2, <1>3, <1>5

\* The client of a connect that is accepted
Accepted == Cleaned([m EXCEPT !.connected = TRUE, !.connect_state = 0, !.pack = NoPack])

LEMMA AcceptedProps ==
    ASSUME Base
    PROVE  /\ IsClient(Accepted) /\ Accepted.connected /\ Accepted.connect_state = 0
           /\ Accepted.socket = m.socket /\ Accepted.pack = NoPack /\ Accepted.sem = m.sem
           /\ Accepted.outboundMsgs \subseteq m.outboundMsgs
           /\ ~cleansession => Accepted.outboundMsgs = m.outboundMsgs /\ Accepted.msgID = m.msgID
<1>. DEFINE c == [m EXCEPT !.connected = TRUE, !.connect_state = 0, !.pack = NoPack]
<1>1. /\ IsClient(c) /\ c.connected /\ c.connect_state = 0
      /\ c.socket = m.socket /\ c.pack = NoPack /\ c.sem = m.sem
      /\ c.outboundMsgs = m.outboundMsgs /\ c.msgID = m.msgID
  BY DEF Base, TypeInv, MType, IsClient, Clients, Packs
<1>2. cleansession \in BOOLEAN
  BY DEF Base, TypeInv, RestType
<1>. HIDE DEF c
<1>3. Accepted = Cleaned(c)
  BY DEF Accepted, c
<1>. QED
  BY <1>1, <1>2, <1>3, CleanedProps

\* What is sent again is as it was
LEMMA AgainProps ==
    ASSUME Base
    PROVE  /\ Again \in Seq([type : {"PUBLISH"}, id : Nat, msg : Nat])
           /\ \A i \in DOMAIN Again : \E e \in m.outboundMsgs :
                  Again[i] = [type |-> "PUBLISH", id |-> e.id, msg |-> e.msg]
<1>. DEFINE S == m.outboundMsgs
            msgs == SetToSeq(S)
<1>1. IsFiniteSet(S) /\ S \subseteq Messages
  BY DEF Base, TypeInv, MType, IsClient, Clients
<1>. HIDE DEF S
<1>2. Cardinality(S) \in Nat /\ \E f \in [1..Cardinality(S) -> S] : IsInjective(f)
  <2>1. Cardinality(S) \in Nat /\ ExistsBijection(1..Cardinality(S), S)
    BY <1>1, FS_CardinalityType
  <2>2. PICK f \in Bijection(1..Cardinality(S), S) : TRUE
    BY <2>1 DEF ExistsBijection
  <2>3. f \in [1..Cardinality(S) -> S] /\ IsInjective(f)
    BY <2>2 DEF Bijection, Injection, IsInjective
  <2>. QED
    BY <2>1, <2>3
<1>3. msgs \in [1..Cardinality(S) -> S]
  BY <1>2 DEF SetToSeq
<1>. HIDE DEF msgs
<1>4. DOMAIN msgs = 1..Cardinality(S) /\ \A i \in DOMAIN msgs : msgs[i] \in S
  BY <1>3
<1>5. Again = [i \in DOMAIN msgs |-> [type |-> "PUBLISH", id |-> msgs[i].id, msg |-> msgs[i].msg]]
  BY DEF Again, msgs, S
<1>6. \A i \in DOMAIN msgs : [type |-> "PUBLISH", id |-> msgs[i].id, msg |-> msgs[i].msg]
                             \in [type : {"PUBLISH"}, id : Nat, msg : Nat]
  BY <1>1, <1>4 DEF Messages
<1>7. Again \in [1..Cardinality(S) -> [type : {"PUBLISH"}, id : Nat, msg : Nat]]
  BY <1>4, <1>5, <1>6
<1>8. Again \in Seq([type : {"PUBLISH"}, id : Nat, msg : Nat])
  <2>. DEFINE T == [type : {"PUBLISH"}, id : Nat, msg : Nat]
  <2>1. PICK n \in Nat : Again \in [1..n -> T]
    BY <1>2, <1>7
  <2>. HIDE DEF T
  <2>2. Again \in Seq(T)
    BY <2>1, SeqDef
  <2>. QED
    BY <2>2 DEF T
<1>. QED
  BY <1>4, <1>5, <1>8 DEF S

\* How the second half of a connect can go: it fails at once, because what is to be
\* sent again cannot be, or it is done, or it is refused
AcceptedFails(t) ==
    /\ TRUE \in Accepts(caller[t].pack) /\ up' = up \cup {epoch}
    /\ EndsBy(Accepted, TRUE, TRUE, StopsFor(t, TRUE, Ends(t)))
    /\ AfterStop(running /\ ~tostop, Ends(t)) \in Callers
AcceptedWorks(t) ==
    /\ TRUE \in Accepts(caller[t].pack) /\ up' = up \cup {epoch}
    /\ m' = Accepted /\ caller' = [caller EXCEPT ![t] = IdleCaller]
    /\ \/ net' = net
       \/ net' = [net EXCEPT !.to_broker = net.to_broker \o Again] /\ CanSend
    /\ UNCHANGED <<running, tostop, lost>>
IsRefused(t) ==
    /\ FALSE \in Accepts(caller[t].pack)
    /\ m' = [m EXCEPT !.pack = NoPack] /\ caller' = [caller EXCEPT ![t] = Ends(t)]
    /\ UNCHANGED <<running, tostop, net, lost, up>>

LEMMA EndsInCallers ==
    ASSUME CallerType, NEW t \in Caller
    PROVE  /\ Ends(t) \in Callers /\ Ends(t).at = "failed" /\ Ends(t).version = caller[t].version
           /\ Ends(t).pack = NoPack
  BY DEF CallerType, Ends, IdleCaller, Callers, Places, Packs, Semaphores

LEMMA MqttConnectedCases ==
    ASSUME Base, NEW t \in Caller, MqttConnected(t)
    PROVE  AcceptedFails(t) \/ AcceptedWorks(t) \/ IsRefused(t)
<1>1. Ends(t) \in Callers /\ Ends(t).at = "failed"
  BY EndsInCallers DEF Base, TypeInv
<1>2. Accepted = Cleaned([m EXCEPT !.connected = TRUE, !.connect_state = 0, !.pack = NoPack])
  BY DEF Accepted
<1>3. IsClient(Accepted) /\ (Accepted.socket => IsOpen(Accepted))
  BY AcceptedProps DEF IsOpen
<1>4. CASE /\ TRUE \in Accepts(caller[t].pack) /\ up' = up \cup {epoch}
           /\ DisconnectsFor(t, Accepted, TRUE, TRUE, Ends(t))
  BY <1>1, <1>3, <1>4, DisconnectsForProps DEF AcceptedFails
<1>5. \/ /\ TRUE \in Accepts(caller[t].pack) /\ up' = up \cup {epoch}
         /\ DisconnectsFor(t, Accepted, TRUE, TRUE, Ends(t))
      \/ AcceptedWorks(t) \/ IsRefused(t)
  BY <1>2 DEF MqttConnected, AcceptedWorks, IsRefused
<1>. QED
  BY <1>4, <1>5

LEMMA MqttConnectedTypes ==
    ASSUME Base, NEW t \in Caller, MqttConnected(t)
    PROVE  Base'
<1>. USE DEF Base, TypeInv
<1>1. RunType'
  BY DEF MqttConnected, RunType
<1>2. RestType /\ up' \in {up, up \cup {epoch}} /\ running' = running /\ tostop' \in BOOLEAN
      /\ lost' \in Seq(Nat) => RestType'
  BY DEF MqttConnected, RestType
<1>3. CASE AcceptedFails(t)
  BY <1>1, <1>2, <1>3, EndsType DEF AcceptedFails
<1>4. CASE AcceptedWorks(t)
  <2>1. MType' /\ (m.socket => IsOpen(m))'
    BY <1>4, AcceptedProps DEF AcceptedWorks, MType, IsOpen
  <2>2. CallerType'
    BY <1>4, IdleType DEF AcceptedWorks, CallerType
  <2>3. NetType'
    <3>1. net.to_broker \in Seq(ToBroker) /\ Again \in Seq(ToBroker)
      <4>1. [type : {"PUBLISH"}, id : Nat, msg : Nat] \subseteq ToBroker
        BY DEF ToBroker
      <4>2. Again \in Seq(ToBroker)
        BY <4>1, AgainProps, SeqMonotonic
      <4>. QED
        BY <4>2 DEF NetType, Nets
    <3>2. net.to_broker \o Again \in Seq(ToBroker)
      BY <3>1
    <3>. QED
      BY <1>4, <3>2 DEF AcceptedWorks, NetType, Nets
  <2>4. RestType'
    BY <1>2, <1>4 DEF AcceptedWorks, RestType
  <2>. QED
    BY <1>1, <2>1, <2>2, <2>3, <2>4
<1>5. CASE IsRefused(t)
  <2>1. MType' /\ (m.socket => IsOpen(m))'
    BY <1>5 DEF IsRefused, MType, IsClient, Clients, IsOpen, Packs
  <2>2. CallerType'
    BY <1>5, EndsInCallers DEF IsRefused, CallerType
  <2>3. NetType' /\ RestType'
    BY <1>2, <1>5 DEF IsRefused, NetType, RestType
  <2>. QED
    BY <1>1, <2>1, <2>2, <2>3
<1>. QED
  BY <1>3, <1>4, <1>5, MqttConnectedCases

LEMMA BaseInit == Init => Base
<1>1. Init => ~m.socket
  BY DEF Init
<1>. QED
  BY <1>1, TypesInit DEF Base

LEMMA BaseNext ==
    ASSUME Base, [Next]_vars
    PROVE  Base'
<1>1. CASE UNCHANGED vars
  BY <1>1 DEF vars, Base, TypeInv, MType, RunType, CallerType, NetType, RestType, IsOpen
<1>2. CASE RunStep \/ RunReturns(FALSE) \/ KeepaliveFails
  BY <1>2, RunSelectsTypes, RunReadsTypes, RunEndsTypes, RunPassesTypes, RunFindsErrorTypes,
     KeepaliveTypes, RunHandlesTypes, RunCallsTypes, RunReturnsTypes DEF RunStep
<1>3. CASE Begins
  BY <1>3, SubscribeTypes, PublishTypes, WaitForCompletionTypes, DisconnectTypes, ReceiveTypes
     DEF Begins
<1>4. CASE AppStep
  BY <1>4, SubscribedTypes, DropTypes, PublishGoesOnTypes, CompletedTypes, DisconnectEndsTypes,
     ReceiveEndsTypes, YieldsTypes DEF AppStep
<1>5. CASE LostReturns
  BY <1>5, LostReturnsTypes
<1>6. ASSUME NEW t \in Caller, Connect(t) \/ Stopped(t)
      PROVE  Base'
  BY <1>6, ConnectTypes, StoppedTypes
<1>7. ASSUME NEW t \in Caller, WaitStep(t)
      PROVE  Base'
  BY <1>7, WaitBeginsTypes, WaitEndsTypes, WaitTimesOutTypes, PackIsReadTypes, CallCyclesTypes,
     CycleTimesOutTypes DEF WaitStep
<1>8. ASSUME NEW t \in Caller, ConnectStep(t)
      PROVE  Base'
  BY <1>8, ConnectAgainTypes, TcpConnectedTypes, MqttConnectedTypes, NoConnackTypes,
     AttemptFailsTypes DEF ConnectStep
<1>9. CASE TcpUp \/ Breaks \/ BrokerPublishes \/ \E ok \in BOOLEAN : BrokerAnswers(ok)
  BY <1>9, TcpUpTypes, BreaksTypes, BrokerPublishesTypes, BrokerAnswersTypes
<1>. QED
  BY <1>1, <1>2, <1>3, <1>4, <1>5, <1>6, <1>7, <1>8, <1>9 DEF Next, CallerStep


-----------------------------------------------------------------------------
(* Where the callers are.                                                  *)

\* What thread t waits for, and that only a connect has a version
CallerOK(t, c) ==
    /\ c.at \in Wait /\ c.version # 0 => c.sem \in {"connect_sem", "connack_sem"}
    /\ c.at \in Wait /\ c.version = 0 => t = "app" /\ c.sem \in {"suback_sem", "unsuback_sem"}
    /\ c.at \in {"failed", "attempt"} => c.version # 0
    /\ c.at = "stopping" => (c.next = "failed" <=> c.version # 0)
    /\ c.at \in Quiet => c.version = 0
    /\ t = "lost" => c.at \in Wait \cup {"idle", "begin", "failed", "attempt", "stopping"}
    /\ t = "app" => c.at # "begin"
    /\ c.at \in Wait \ {"resume"} => c.pack = NoPack

CallersInv == \A t \in Caller : CallerOK(t, caller[t])

LEMMA CallersGo ==
    ASSUME CallerType, CallersInv, NEW t \in Caller, NEW to, CallerOK(t, to),
           caller' = [caller EXCEPT ![t] = to]
    PROVE  CallersInv'
<1>1. ASSUME NEW u \in Caller
      PROVE  CallerOK(u, caller'[u])
  BY <1>1 DEF CallerType, CallersInv
<1>2. \A u \in Caller : CallerOK(u, caller'[u])
  BY <1>1
<1>. QED
  BY <1>2 DEF CallersInv, CallerOK

LEMMA CallersEnd ==
    ASSUME RestType, NEW c, NEW internal \in BOOLEAN, NEW stop \in BOOLEAN, NEW callers,
           EndsBy(c, internal, stop, callers), \A t \in Caller : CallerOK(t, callers[t])
    PROVE  CallersInv'
<1>. DEFINE begins == internal /\ callbacks /\ c.connected
<1>1. caller' = LostBegins(callers, begins) /\ begins \in BOOLEAN
      /\ callers \in [Caller -> Callers]
  BY DEF EndsBy, Disconnected, RestType
<1>2. CallerOK("lost", CallerAt("begin"))
  BY DEF CallerOK, CallerAt, IdleCaller, Quiet, Wait
<1>. HIDE DEF begins
<1>3. ASSUME NEW t \in Caller
      PROVE  CallerOK(t, caller'[t])
  <2>1. CASE t = "app"
    BY <1>1, <2>1, LostBeginsProps
  <2>2. CASE t = "lost"
    BY <1>1, <1>2, <2>2, LostBeginsProps
  <2>. QED
    BY <2>1, <2>2 DEF Caller
<1>4. \A t \in Caller : CallerOK(t, caller'[t])
  BY <1>3
<1>. QED
  BY <1>4 DEF CallersInv, CallerOK

LEMMA CallersStop ==
    ASSUME CallerType, CallersInv, NEW t \in Caller, NEW stop \in BOOLEAN, NEW place \in Callers,
           CallerOK(t, place), place.at \in {"idle", "failed"}
    PROVE  \A u \in Caller : CallerOK(u, StopsFor(t, stop, place)[u])
<1>. DEFINE s == stop /\ running /\ ~tostop
<1>1. CallerOK(t, AfterStop(s, place))
  BY DEF AfterStop, CallerOK, Callers, Quiet, Wait
<1>. HIDE DEF s
<1>2. StopsFor(t, stop, place) = [caller EXCEPT ![t] = AfterStop(s, place)]
  BY DEF StopsFor, s
<1>. QED
  BY <1>1, <1>2 DEF CallersInv, CallerType

LEMMA CallersInit == Init => CallersInv
  BY DEF Init, CallersInv, CallerOK, IdleCaller, Wait, Quiet

LEMMA CallersNext ==
    ASSUME Base, CallersInv, [Next]_vars
    PROVE  CallersInv'
<1>. USE DEF Base, TypeInv
<1>0. \A t \in Caller : caller[t] \in Callers /\ CallerOK(t, caller[t])
  BY DEF CallersInv, CallerType
<1>1. CASE UNCHANGED caller
  BY <1>1 DEF CallersInv, CallerOK
<1>2. RunSelects \/ RunReads \/ RunEnds \/ RunPasses \/ RunFindsError \/ RunHandles \/ RunCalls
      \/ (\E ok \in BOOLEAN : RunReturns(ok)) => UNCHANGED caller
  BY DEF RunSelects, RunReads, RunEnds, RunPasses, RunFindsError, RunHandles, RunCalls, RunReturns
<1>3. TcpUp \/ Breaks \/ BrokerPublishes \/ (\E ok \in BOOLEAN : BrokerAnswers(ok))
      => UNCHANGED caller
  BY DEF TcpUp, Breaks, BrokerPublishes, BrokerAnswers
<1>4. CallerOK("app", IdleCaller) /\ CallerOK("lost", IdleCaller) /\ IdleCaller.at = "idle"
      /\ \A place \in {"drop", "blocked", "completing", "draining", "receiving"} :
             CallerOK("app", CallerAt(place))
  BY DEF CallerOK, IdleCaller, CallerAt, Wait, Quiet
<1>5. "app" \in Caller /\ "lost" \in Caller /\ \A t \in Caller : t = "app" \/ t = "lost"
  BY DEF Caller
<1>6. \A t \in Caller : CallerOK(t, IdleCaller)
  BY <1>4, <1>5
<1>10. CASE KeepaliveFails \/ RunDrops
  BY <1>10, <1>0, KeepaliveTypes, CallersEnd
<1>11. CASE LostReturns
  BY <1>11, <1>4, <1>5, CallersGo DEF LostReturns
<1>12. ASSUME NEW t \in Caller, WaitBegins(t)
       PROVE  CallersInv'
  <2>. DEFINE to == [caller[t] EXCEPT !.at = IF running THEN "waiting" ELSE "cycling"]
  <2>1. CallerOK(t, to)
    BY <1>0, <1>12 DEF WaitBegins, CallerOK, Callers, Wait, Quiet
  <2>. QED
    BY <1>12, <2>1, CallersGo DEF WaitBegins
<1>13. ASSUME NEW t \in Caller, WaitEnds(t)
       PROVE  CallersInv'
  <2>. DEFINE to == [caller[t] EXCEPT !.at = "woken",
                                      !.rc = IF caller[t].sem = "connect_sem" THEN m.rc ELSE 0]
  <2>1. CallerOK(t, to)
    BY <1>0, <1>13 DEF WaitEnds, CallerOK, Callers, Wait, Quiet
  <2>. QED
    BY <1>13, <2>1, CallersGo DEF WaitEnds
<1>14. ASSUME NEW t \in Caller, WaitTimesOut(t)
       PROVE  CallersInv'
  <2>1. CallerOK(t, TimedOut(t, "woken", -1))
    BY <1>0, <1>14 DEF WaitTimesOut, CallerOK, Callers, TimedOut, Wait, Quiet
  <2>. QED
    BY <1>14, <2>1, CallersGo DEF WaitTimesOut
<1>15. ASSUME NEW t \in Caller, PackIsRead(t)
       PROVE  CallersInv'
  <2>1. CallerOK(t, [caller[t] EXCEPT !.at = "resume", !.pack = m.pack])
    BY <1>0, <1>15 DEF PackIsRead, CallerOK, Callers, Wait, Quiet
  <2>. QED
    BY <1>15, <2>1, CallersGo DEF PackIsRead
<1>16. ASSUME NEW t \in Caller, CallCycles(t)
       PROVE  CallersInv'
  <2>. DEFINE to == [caller[t] EXCEPT !.at = "resume", !.pack = Cycled.pack,
                                      !.rc = IF Cycled.rc = 0 THEN SocketError ELSE -1]
  <2>1. CallerOK(t, to)
    BY <1>0, <1>16 DEF CallCycles, CallerOK, Callers, Wait, Quiet
  <2>2. UNCHANGED caller \/ caller' = [caller EXCEPT ![t] = to]
    BY <1>16 DEF CallCycles
  <2>. QED
    BY <1>1, <2>1, <2>2, CallersGo
<1>17. ASSUME NEW t \in Caller, CycleTimesOut(t)
       PROVE  CallersInv'
  <2>1. CallerOK(t, TimedOut(t, "resume", 0))
    BY <1>0, <1>17 DEF CycleTimesOut, CallerOK, Callers, TimedOut, Wait, Quiet
  <2>. QED
    BY <1>17, <2>1, CallersGo DEF CycleTimesOut
<1>18. ASSUME NEW t \in Caller, NEW version \in {3, 4}, NEW late \in BOOLEAN, Attempts(t, version, late)
       PROVE  CallersInv'
  <2>. DEFINE attempt == [IdleCaller EXCEPT !.version = version, !.late = late]
  <2>1. /\ CallerOK(t, [attempt EXCEPT !.at = "waitfor", !.sem = "connect_sem"])
        /\ CallerOK(t, [attempt EXCEPT !.at = "waitfor", !.sem = "connack_sem"])
        /\ CallerOK(t, [attempt EXCEPT !.at = "failed"])
    BY DEF CallerOK, IdleCaller, Wait, Quiet
  <2>2. \/ caller' = [caller EXCEPT ![t] = [attempt EXCEPT !.at = "waitfor", !.sem = "connect_sem"]]
        \/ caller' = [caller EXCEPT ![t] = [attempt EXCEPT !.at = "waitfor", !.sem = "connack_sem"]]
        \/ caller' = [caller EXCEPT ![t] = [attempt EXCEPT !.at = "failed"]]
    BY <1>18 DEF Attempts
  <2>. HIDE DEF attempt
  <2>. QED
    BY <2>1, <2>2, CallersGo
<1>19. ASSUME NEW t \in Caller, Connect(t)
       PROVE  CallersInv'
  BY <1>18, <1>19 DEF Connect
<1>20. ASSUME NEW t \in Caller, ConnectAgain(t)
       PROVE  CallersInv'
  <2>1. caller[t].version \in {3, 4} /\ caller[t].late \in BOOLEAN
    BY <1>0, <1>20 DEF ConnectAgain, CallerOK, Callers
  <2>. QED
    BY <1>18, <1>20, <2>1 DEF ConnectAgain
<1>21. ASSUME NEW t \in Caller, caller[t].at = "resume", caller[t].sem \in {"connect_sem", "connack_sem"}
       PROVE  /\ CallerOK(t, Ends(t)) /\ Ends(t) \in Callers /\ Ends(t).at = "failed"
              /\ CallerOK(t, [Ends(t) EXCEPT !.at = "waitfor", !.sem = "connack_sem"])
  <2>1. caller[t] \in Callers /\ CallerOK(t, caller[t])
    BY <1>0
  <2>2. Ends(t) \in Callers /\ Ends(t).at = "failed"
    BY <2>1, FailedType
  <2>. QED
    BY <1>21, <2>1, <2>2 DEF CallerOK, Callers, Ends, IdleCaller, Wait, Quiet
<1>22. ASSUME NEW t \in Caller, TcpConnected(t) \/ NoConnack(t)
       PROVE  CallersInv'
  <2>1. /\ caller[t].at = "resume" /\ caller[t].sem \in {"connect_sem", "connack_sem"}
        /\ \/ caller' = [caller EXCEPT ![t] = Ends(t)]
           \/ caller' = [caller EXCEPT ![t] = [Ends(t) EXCEPT !.at = "waitfor", !.sem = "connack_sem"]]
    BY <1>22 DEF TcpConnected, NoConnack
  <2>. QED
    BY <1>21, <2>1, CallersGo
<1>23. ASSUME NEW t \in Caller, MqttConnected(t)
       PROVE  CallersInv'
  <2>1. CallerOK(t, Ends(t)) /\ Ends(t) \in Callers /\ Ends(t).at = "failed"
    BY <1>21, <1>23 DEF MqttConnected
  <2>2. CASE AcceptedFails(t)
    BY <2>1, <2>2, CallersStop, CallersEnd DEF AcceptedFails
  <2>3. CASE AcceptedWorks(t) \/ IsRefused(t)
    BY <1>6, <2>1, <2>3, CallersGo DEF AcceptedWorks, IsRefused
  <2>. QED
    BY <1>23, <2>2, <2>3, MqttConnectedCases
<1>24. ASSUME NEW t \in Caller, AttemptFails(t)
       PROVE  CallersInv'
  <2>. DEFINE to == [Ends(t) EXCEPT !.at = "attempt", !.version = 3]
  <2>1. CallerOK(t, to)
    BY DEF CallerOK, Ends, IdleCaller, Wait, Quiet
  <2>2. \A u \in Caller : CallerOK(u, [caller EXCEPT ![t] = to][u])
    BY <1>0, <2>1 DEF CallerType
  <2>3. \A u \in Caller : CallerOK(u, StopsFor(t, TRUE, IdleCaller)[u])
    BY <1>4, <1>6, IdleType, CallersStop
  <2>. QED
    BY <1>24, <2>2, <2>3, AttemptFailsTypes, CallersEnd
<1>25. ASSUME NEW t \in Caller, Stopped(t)
       PROVE  CallersInv'
  <2>1. CallerOK(t, [caller[t] EXCEPT !.at = caller[t].next, !.next = "idle"])
    BY <1>0, <1>25 DEF Stopped, CallerOK, Callers, Wait, Quiet
  <2>. QED
    BY <1>25, <2>1, CallersGo DEF Stopped
<1>26. ASSUME NEW sem \in Requests, Subscribe(sem)
       PROVE  CallersInv'
  <2>1. CallerOK("app", [CallerAt("waitfor") EXCEPT !.sem = sem, !.call = calls', !.epoch = epoch])
    BY SyncAssumption DEF CallerOK, CallerAt, IdleCaller, Wait, Quiet
  <2>. QED
    BY <1>4, <1>5, <1>26, <2>1, CallersGo DEF Subscribe
<1>27. CASE Subscribed \/ Completed \/ ReceiveEnds \/ Disconnect \/ Receive
  BY <1>4, <1>5, <1>27, CallersGo DEF Subscribed, Completed, ReceiveEnds, Disconnect, Receive
<1>28. CASE Drop
  BY <1>4, <1>5, <1>28, IdleType, CallersStop, DropTypes, CallersEnd
<1>29. CASE DisconnectEnds
  <2>1. \A u \in Caller : CallerOK(u, StopsFor("app", TRUE, IdleCaller)[u])
    BY <1>4, <1>5, IdleType, CallersStop
  <2>2. \A u \in Caller : CallerOK(u, caller'[u])
    BY <1>29, <2>1, DisconnectEndsProps
  <2>. QED
    BY <2>2 DEF CallersInv, CallerOK
<1>30. CASE Publish
  <2>1. CallerOK("app", [CallerAt("blocked") EXCEPT !.msg = calls'])
    BY DEF CallerOK, CallerAt, IdleCaller, Wait, Quiet
  <2>. QED
    BY <1>4, <1>5, <1>30, <2>1, CallersGo DEF Publish, StartPublish
<1>31. CASE PublishGoesOn
  BY <1>4, <1>5, <1>31, CallersGo DEF PublishGoesOn, StartPublish
<1>32. CASE WaitForCompletion
  <2>1. PICK e : caller' = [caller EXCEPT !["app"] = [CallerAt("completing") EXCEPT !.id = e.id, !.msg = e.msg]]
    BY <1>32 DEF WaitForCompletion
  <2>2. CallerOK("app", [CallerAt("completing") EXCEPT !.id = e.id, !.msg = e.msg])
    BY DEF CallerOK, CallerAt, IdleCaller, Wait, Quiet
  <2>. QED
    BY <1>5, <2>1, <2>2, CallersGo
<1>33. CASE Yields
  <2>. DEFINE callers == [caller EXCEPT !["app"] = IF @.at = "receiving" THEN IdleCaller ELSE @]
  <2>1. UNCHANGED caller \/ Disconnects(m, TRUE, TRUE, callers)
    BY <1>33 DEF Yields
  <2>2. callers \in [Caller -> Callers] /\ \A t \in Caller : CallerOK(t, callers[t])
    BY <1>0, <1>4, <1>5, IdleType DEF CallerType
  <2>. HIDE DEF callers
  <2>3. Disconnects(m, TRUE, TRUE, callers) => EndsBy(m, TRUE, TRUE, callers)
    BY <2>2, DisconnectsProps DEF EndsBy, MType, RestType
  <2>. QED
    BY <1>1, <2>1, <2>2, <2>3, CallersEnd
<1>34. UNCHANGED vars => UNCHANGED caller
  BY DEF vars
<1>. QED
  BY <1>1, <1>2, <1>3, <1>10, <1>11, <1>12, <1>13, <1>14, <1>15, <1>16, <1>17, <1>19, <1>20, <1>22,
     <1>23, <1>24, <1>25, <1>26, <1>27, <1>28, <1>29, <1>30, <1>31, <1>32, <1>33, <1>34
     DEF Next, RunStep, Begins, AppStep, CallerStep, WaitStep, ConnectStep


-----------------------------------------------------------------------------
(* The connection and the connect that makes it.                           *)

Connecting(t) == caller[t].version # 0

ThreadInv == (run.at = "off" <=> ~running) /\ (tostop => running)

\* Only one thread connects, and only while there is no connection
OpenInv ==
    /\ ~IsOpen(m) => net = NoNet
    /\ m.connect_state \in {1, 3} => \E t \in Caller : Connecting(t)
    /\ m.connect_state = -2 => m.connected
    /\ \A t \in Caller : Connecting(t) => ~m.connected
    /\ Connecting("app") => ~Connecting("lost")
    /\ \A t \in Caller : caller[t].at = "cycling" /\ Connecting(t) => ~running

ControlInv == ThreadInv /\ CallersInv /\ OpenInv

LEMMA YieldsCases ==
    ASSUME Base, Yields
    PROVE  LET callers == [caller EXCEPT !["app"] = IF @.at = "receiving" THEN IdleCaller ELSE @]
           IN \/ /\ m' = Cycled.m /\ net' = Cycled.net /\ Cycled.rc = 0
                 /\ UNCHANGED <<running, tostop, lost, caller>>
              \/ EndsBy(m, TRUE, TRUE, callers)
<1>. DEFINE callers == [caller EXCEPT !["app"] = IF @.at = "receiving" THEN IdleCaller ELSE @]
<1>1. \/ /\ m' = Cycled.m /\ net' = Cycled.net /\ Cycled.rc = 0
         /\ UNCHANGED <<running, tostop, lost, caller>>
      \/ Disconnects(m, TRUE, TRUE, callers)
  BY DEF Yields
<1>2. callers \in [Caller -> Callers]
  BY IdleType DEF Base, TypeInv, CallerType, Caller
<1>. HIDE DEF callers
<1>3. Disconnects(m, TRUE, TRUE, callers) => EndsBy(m, TRUE, TRUE, callers)
  BY <1>2, DisconnectsProps DEF EndsBy, Base, TypeInv, MType, RestType
<1>4. \/ /\ m' = Cycled.m /\ net' = Cycled.net /\ Cycled.rc = 0
         /\ UNCHANGED <<running, tostop, lost, caller>>
      \/ EndsBy(m, TRUE, TRUE, callers)
  BY <1>1, <1>3
<1>. QED
  BY <1>4 DEF callers

LEMMA ThreadNext ==
    ASSUME Base, ThreadInv, [Next]_vars
    PROVE  ThreadInv'
<1>. USE DEF Base, TypeInv, RestType, ThreadInv
<1>1. CASE UNCHANGED <<run, running, tostop>>
  BY <1>1
<1>2. UNCHANGED vars => UNCHANGED <<run, running, tostop>>
  BY DEF vars
<1>3. TcpUp \/ Breaks \/ BrokerPublishes \/ (\E ok \in BOOLEAN : BrokerAnswers(ok))
      => UNCHANGED <<run, running, tostop>>
  BY DEF TcpUp, Breaks, BrokerPublishes, BrokerAnswers
<1>4. LostReturns \/ Begins => UNCHANGED <<run, running, tostop>>
  BY DEF LostReturns, Begins, Subscribe, Publish, WaitForCompletion, Disconnect, Receive
<1>5. \A t \in Caller : Stopped(t) \/ WaitStep(t) => UNCHANGED <<run, running, tostop>>
  BY DEF Stopped, WaitStep, WaitBegins, WaitEnds, WaitTimesOut, PackIsRead, CallCycles, CycleTimesOut
<1>6. ASSUME NEW c, NEW internal \in BOOLEAN, NEW stop \in BOOLEAN, NEW callers,
             EndsBy(c, internal, stop, callers), run' \in {run, RunAt("cycle")},
             run.at = "off" => run' = run
      PROVE  ThreadInv'
  <2>1. running' = running /\ tostop' = (tostop \/ (stop /\ running))
    BY <1>6 DEF EndsBy, Disconnected
  <2>2. run'.at = "off" <=> run.at = "off"
    BY <1>6, RunAtType
  <2>. QED
    BY <2>1, <2>2
<1>7. CASE KeepaliveFails \/ RunDrops
  <2>1. run' \in {run, RunAt("cycle")} /\ (run.at = "off" => run' = run)
    BY <1>7 DEF KeepaliveFails, RunDrops
  <2>. QED
    BY <1>6, <1>7, <2>1, KeepaliveTypes
<1>8. RunSelects \/ RunReads \/ RunPasses \/ RunFindsError \/ RunHandles \/ RunCalls
      \/ (\E ok \in BOOLEAN : RunReturns(ok))
      => run.at # "off" /\ run'.at # "off" /\ UNCHANGED <<running, tostop>>
  <2>1. RunSelects \/ RunPasses \/ RunFindsError \/ RunHandles
        \/ (\E ok \in BOOLEAN : RunReturns(ok))
        => run.at # "off" /\ run'.at # "off" /\ UNCHANGED <<running, tostop>>
    BY RunAtType DEF RunSelects, RunPasses, RunFindsError, RunHandles, RunReturns
  <2>2. RunReads => run.at # "off" /\ run'.at # "off" /\ UNCHANGED <<running, tostop>>
    BY DEF RunReads, RunAt
  <2>3. RunCalls => run.at # "off" /\ run'.at # "off" /\ UNCHANGED <<running, tostop>>
    BY DEF RunCalls, RunType, Runs
  <2>. QED
    BY <2>1, <2>2, <2>3
<1>9. CASE RunEnds
  BY <1>9, RunAtType DEF RunEnds
<1>10. ASSUME NEW t \in Caller, Connect(t) \/ ConnectAgain(t)
       PROVE  ThreadInv'
  <2>1. /\ running' = (running \/ (callbacks /\ ~running)) /\ tostop' = tostop
        /\ run' = IF callbacks /\ ~running THEN RunAt("cycle") ELSE run
    BY <1>10 DEF Connect, ConnectAgain, Attempts
  <2>. QED
    BY <2>1, RunAtType
<1>11. ASSUME NEW t \in Caller, MqttConnected(t)
       PROVE  ThreadInv'
  <2>1. run' = run
    BY <1>11 DEF MqttConnected
  <2>2. AcceptedFails(t) \/ UNCHANGED <<running, tostop>>
    BY <1>11, MqttConnectedCases DEF AcceptedWorks, IsRefused
  <2>. QED
    BY <1>1, <1>6, <2>1, <2>2 DEF AcceptedFails
<1>12. ASSUME NEW t \in Caller, AttemptFails(t)
       PROVE  ThreadInv'
  <2>1. run' = run
    BY <1>12 DEF AttemptFails
  <2>. QED
    BY <1>6, <1>12, <2>1, AttemptFailsTypes
<1>13. ASSUME NEW t \in Caller, TcpConnected(t) \/ NoConnack(t)
       PROVE  UNCHANGED <<run, running, tostop>>
  BY <1>13 DEF TcpConnected, NoConnack
<1>14. CASE Drop
  BY <1>6, <1>14, DropTypes DEF Drop
<1>15. CASE DisconnectEnds
  BY <1>15, DisconnectEndsProps DEF DisconnectEnds
<1>16. CASE Yields
  <2>1. run' = run
    BY <1>16 DEF Yields
  <2>. QED
    BY <1>1, <1>6, <1>16, <2>1, YieldsCases
<1>17. Subscribed \/ PublishGoesOn \/ Completed \/ ReceiveEnds => UNCHANGED <<run, running, tostop>>
  BY DEF Subscribed, PublishGoesOn, Completed, ReceiveEnds
<1>. QED
  BY <1>1, <1>2, <1>3, <1>4, <1>5, <1>7, <1>8, <1>9, <1>10, <1>11, <1>12, <1>13, <1>14, <1>15,
     <1>16, <1>17 DEF Next, RunStep, AppStep, CallerStep, ConnectStep


\* A step that neither makes nor ends a connection
OpenKept ==
    /\ m'.connected = m.connected /\ m'.connect_state = m.connect_state
    /\ ~IsOpen(m) /\ net = NoNet => net' = NoNet
    /\ \A t \in Caller : caller'[t].version = caller[t].version
    /\ \A t \in Caller : caller'[t].at = "cycling" => caller[t].at = "cycling" \/ ~running
    /\ running' => running

LEMMA OpenKeeps == ASSUME OpenInv, OpenKept PROVE OpenInv'
<1>. USE DEF OpenKept
<1>1. (IsOpen(m) <=> m'.connected \/ m'.connect_state # 0) /\ \A t \in Caller : Connecting(t) <=> caller'[t].version # 0
  BY DEF IsOpen, Connecting
<1>2. (~IsOpen(m) => net = NoNet)'
  BY <1>1 DEF OpenInv, IsOpen
<1>3. (m.connect_state \in {1, 3} => \E t \in Caller : Connecting(t))'
  BY <1>1 DEF OpenInv, Connecting
<1>4. (m.connect_state = -2 => m.connected)' /\ (\A t \in Caller : Connecting(t) => ~m.connected)'
  BY <1>1 DEF OpenInv, Connecting
<1>5. (Connecting("app") => ~Connecting("lost"))'
  BY <1>1 DEF OpenInv, Connecting, Caller
<1>6. (\A t \in Caller : caller[t].at = "cycling" /\ Connecting(t) => ~running)'
  BY <1>1 DEF OpenInv, Connecting
<1>. QED
  BY <1>2, <1>3, <1>4, <1>5, <1>6 DEF OpenInv

LEMMA OpenEnds ==
    ASSUME Base, OpenInv, NEW c, NEW internal \in BOOLEAN, NEW stop \in BOOLEAN, NEW callers,
           EndsBy(c, internal, stop, callers), IsOpen(c) \/ net = NoNet,
           \A t \in Caller : callers[t].version # 0 => Connecting(t),
           \A t \in Caller : callers[t].at = "cycling" => callers[t] = caller[t]
    PROVE  OpenInv'
<1>. DEFINE begins == internal /\ callbacks /\ c.connected
<1>1. /\ ~m'.connected /\ m'.connect_state = 0 /\ net' = NoNet /\ running' = running
      /\ caller' = LostBegins(callers, begins) /\ callers \in [Caller -> Callers]
      /\ begins \in BOOLEAN
  BY DEF EndsBy, Disconnected, Base, TypeInv, RestType
<1>. HIDE DEF begins
<1>2. CallerAt("begin").version = 0 /\ CallerAt("begin").at = "begin"
  BY CallerAtType DEF Places, Quiet
<1>3. \A t \in Caller : /\ caller'[t].version # 0 => Connecting(t)
                        /\ caller'[t].at = "cycling" => caller'[t] = caller[t]
  BY <1>1, <1>2, LostBeginsProps DEF Caller
<1>. QED
  BY <1>1, <1>3 DEF OpenInv, Connecting, Caller, IsOpen

\* Who connects and where, after the session was closed for caller t
LEMMA StopsForIs ==
    ASSUME Base, NEW t \in Caller, NEW stop \in BOOLEAN, NEW place \in Callers,
           place.at \in {"idle", "failed"}
    PROVE  /\ \A u \in Caller \ {t} : StopsFor(t, stop, place)[u] = caller[u]
           /\ StopsFor(t, stop, place)[t].version = place.version
           /\ StopsFor(t, stop, place)[t].pack = place.pack
           /\ StopsFor(t, stop, place)[t].at \in {"idle", "failed", "stopping"}
<1>. DEFINE s == stop /\ running /\ ~tostop
<1>1. s \in BOOLEAN
  BY DEF Base, TypeInv, RestType
<1>. HIDE DEF s
<1>2. /\ AfterStop(s, place).version = place.version /\ AfterStop(s, place).pack = place.pack
      /\ AfterStop(s, place).at \in {"idle", "failed", "stopping"}
  BY <1>1, AfterStopProps
<1>. QED
  BY <1>2 DEF StopsFor, s, Base, TypeInv, CallerType

\* Where a caller is that begins a connection, or fails to
LEMMA AttemptsProps ==
    ASSUME NEW t \in Caller, NEW version, NEW late, Attempts(t, version, late)
    PROVE  \E to : /\ caller' = [caller EXCEPT ![t] = to]
                   /\ to.version = version /\ to.pack = NoPack /\ to.rc = 0
                   /\ \/ to.at = "failed" /\ UNCHANGED <<m, net, epoch>>
                      \/ /\ to.at = "waitfor" /\ to.sem = "connect_sem" /\ epoch' = epoch + 1
                         /\ m' = [m EXCEPT !.connect_state = 1, !.socket = TRUE]
                         /\ net' = [NoNet EXCEPT !.is = "connecting"]
                      \/ /\ to.at = "waitfor" /\ to.sem = "connack_sem" /\ epoch' = epoch + 1
                         /\ m' = [m EXCEPT !.connect_state = 3, !.socket = TRUE]
                         /\ net' = [NoNet EXCEPT !.is = "up", !.to_broker = <<[type |-> "CONNECT"]>>]
<1>. DEFINE attempt == [IdleCaller EXCEPT !.version = version, !.late = late]
            place(at, sem) == [attempt EXCEPT !.at = at, !.sem = sem]
            failed == [attempt EXCEPT !.at = "failed"]
<1>1. \A at, sem : /\ place(at, sem).version = version /\ place(at, sem).pack = NoPack
                   /\ place(at, sem).rc = 0 /\ place(at, sem).at = at /\ place(at, sem).sem = sem
  BY DEF IdleCaller
<1>2. /\ failed.version = version /\ failed.pack = NoPack /\ failed.rc = 0 /\ failed.at = "failed"
  BY DEF IdleCaller
<1>3. \/ /\ caller' = [caller EXCEPT ![t] = failed] /\ UNCHANGED <<m, net, epoch>>
      \/ /\ caller' = [caller EXCEPT ![t] = place("waitfor", "connect_sem")] /\ epoch' = epoch + 1
         /\ m' = [m EXCEPT !.connect_state = 1, !.socket = TRUE]
         /\ net' = [NoNet EXCEPT !.is = "connecting"]
      \/ /\ caller' = [caller EXCEPT ![t] = place("waitfor", "connack_sem")] /\ epoch' = epoch + 1
         /\ m' = [m EXCEPT !.connect_state = 3, !.socket = TRUE]
         /\ net' = [NoNet EXCEPT !.is = "up", !.to_broker = <<[type |-> "CONNECT"]>>]
  BY DEF Attempts
<1>. HIDE DEF place, failed
<1>4. CASE caller' = [caller EXCEPT ![t] = failed] /\ UNCHANGED <<m, net, epoch>>
  <2>. WITNESS failed
  <2>. QED
    BY <1>2, <1>4
<1>5. CASE /\ caller' = [caller EXCEPT ![t] = place("waitfor", "connect_sem")] /\ epoch' = epoch + 1
           /\ m' = [m EXCEPT !.connect_state = 1, !.socket = TRUE]
           /\ net' = [NoNet EXCEPT !.is = "connecting"]
  <2>. WITNESS place("waitfor", "connect_sem")
  <2>. QED
    BY <1>1, <1>5
<1>6. CASE /\ caller' = [caller EXCEPT ![t] = place("waitfor", "connack_sem")] /\ epoch' = epoch + 1
           /\ m' = [m EXCEPT !.connect_state = 3, !.socket = TRUE]
           /\ net' = [NoNet EXCEPT !.is = "up", !.to_broker = <<[type |-> "CONNECT"]>>]
  <2>. WITNESS place("waitfor", "connack_sem")
  <2>. QED
    BY <1>1, <1>6
<1>. QED
  BY <1>3, <1>4, <1>5, <1>6

LEMMA OpenNext ==
    ASSUME Base, ControlInv, [Next]_vars
    PROVE  OpenInv'
<1>. USE DEF ControlInv
<1>0. /\ \A t \in Caller : caller[t] \in Callers /\ CallerOK(t, caller[t])
      /\ caller \in [Caller -> Callers] /\ "app" \in Caller /\ IsClient(m) /\ IsClient(m')
  BY BaseNext DEF CallersInv, Base, TypeInv, CallerType, Caller, MType
<1>. HIDE DEF ControlInv
<1>a. OpenInv
  BY DEF ControlInv
<1>c. IsOpen(m) \/ net = NoNet
  BY <1>a DEF OpenInv
<1>1. CASE UNCHANGED <<m, net, caller, running>>
  BY <1>1, <1>a, OpenKeeps DEF OpenKept
<1>2. UNCHANGED vars \/ RunSelects \/ RunPasses \/ RunCalls => UNCHANGED <<m, net, caller, running>>
  BY DEF vars, RunSelects, RunPasses, RunCalls
<1>3. CASE RunEnds
  BY <1>3, <1>a, OpenKeeps DEF RunEnds, OpenKept
<1>4. CASE RunReads
  <2>1. /\ m'.connected = m.connected /\ m'.connect_state = m.connect_state
        /\ UNCHANGED <<caller, running>>
        /\ m.socket \/ net' = net
    <3>1. Cycled.net = net \/ m.socket
      BY CycledProps DEF CycleFinds, CycleReads, Base, TypeInv
    <3>. QED
      BY <1>4, <3>1, CycledType DEF RunReads, Base, TypeInv
  <2>. QED
    BY <2>1, <1>a, OpenKeeps DEF OpenKept, Base
<1>5. CASE RunFindsError
  <2>1. m'.connected = m.connected /\ m'.connect_state = m.connect_state
        /\ UNCHANGED <<caller, running, net>>
    BY <1>5, <1>0 DEF RunFindsError, Posted, IsClient, Clients
  <2>. QED
    BY <2>1, <1>a, OpenKeeps DEF OpenKept
<1>6. CASE RunHandles
  <2>1. run.pack \in Packs
    BY DEF Base, TypeInv, RunType, Runs
  <2>2. m'.connected = m.connected /\ m'.connect_state = m.connect_state
        /\ UNCHANGED <<caller, running, net>>
    BY <1>6, <1>0, <2>1, WokenProps DEF RunHandles, Base, TypeInv
  <2>. QED
    BY <2>2, <1>a, OpenKeeps DEF OpenKept
<1>7. ASSUME NEW ok \in BOOLEAN, RunReturns(ok)
      PROVE  OpenInv'
  <2>1. run.pack \in Packs
    BY DEF Base, TypeInv, RunType, Runs
  <2>2. m'.connected = m.connected /\ m'.connect_state = m.connect_state
    <3>1. PICK c : IsClient(c) /\ c.connected = m.connected /\ c.connect_state = m.connect_state
                   /\ m' = Woken(c, run.pack)
      BY <1>7, ReturnsProps
    <3>. QED
      BY <3>1, <2>1, WokenProps DEF Base, TypeInv
  <2>3. UNCHANGED <<caller, running, net>>
    BY <1>7 DEF RunReturns
  <2>. QED
    BY <2>2, <2>3, <1>a, OpenKeeps DEF OpenKept
<1>8. CASE KeepaliveFails \/ RunDrops
  BY <1>8, <1>a, <1>c, KeepaliveTypes, OpenEnds DEF Connecting
<1>9. CASE LostReturns
  <2>1. caller["lost"].version = 0 /\ "lost" \in Caller
    BY <1>0, <1>9 DEF LostReturns, CallerOK, Quiet, Caller
  <2>2. caller' = [caller EXCEPT !["lost"] = IdleCaller] /\ UNCHANGED <<m, net, running>>
    BY <1>9 DEF LostReturns
  <2>. QED
    BY <2>1, <2>2, <1>0, <1>a, OpenKeeps DEF OpenKept, IdleCaller
<1>10. ASSUME NEW t \in Caller, WaitBegins(t) \/ WaitTimesOut(t) \/ PackIsRead(t) \/ CycleTimesOut(t)
                                \/ NoConnack(t) \/ Stopped(t)
       PROVE  OpenInv'
  <2>1. UNCHANGED <<m, net, running>>
    BY <1>10 DEF WaitBegins, WaitTimesOut, PackIsRead, CycleTimesOut, NoConnack, Stopped
  <2>2. PICK to : /\ caller' = [caller EXCEPT ![t] = to] /\ to.version = caller[t].version
                  /\ to.at = "cycling" => ~running
    <3>1. CASE WaitBegins(t)
      <4>. WITNESS [caller[t] EXCEPT !.at = IF running THEN "waiting" ELSE "cycling"]
      <4>. QED
        BY <1>0, <3>1 DEF WaitBegins, Callers
    <3>2. CASE WaitTimesOut(t)
      <4>. WITNESS TimedOut(t, "woken", -1)
      <4>. QED
        BY <1>0, <3>2 DEF WaitTimesOut, TimedOut, Callers
    <3>3. CASE PackIsRead(t)
      <4>. WITNESS [caller[t] EXCEPT !.at = "resume", !.pack = m.pack]
      <4>. QED
        BY <1>0, <3>3 DEF PackIsRead, Callers
    <3>4. CASE CycleTimesOut(t)
      <4>. WITNESS TimedOut(t, "resume", 0)
      <4>. QED
        BY <1>0, <3>4 DEF CycleTimesOut, TimedOut, Callers
    <3>5. CASE NoConnack(t)
      <4>. WITNESS Ends(t)
      <4>. QED
        BY <3>5 DEF NoConnack, Ends, IdleCaller
    <3>6. CASE Stopped(t)
      <4>. WITNESS [caller[t] EXCEPT !.at = caller[t].next, !.next = "idle"]
      <4>. QED
        BY <1>0, <3>6 DEF Stopped, Callers
    <3>. QED
      BY <1>10, <3>1, <3>2, <3>3, <3>4, <3>5, <3>6
  <2>. QED
    BY <2>1, <2>2, <1>0, <1>a, OpenKeeps DEF OpenKept
<1>11. ASSUME NEW t \in Caller, WaitEnds(t)
       PROVE  OpenInv'
  <2>1. m'.connected = m.connected /\ m'.connect_state = m.connect_state /\ UNCHANGED <<net, running>>
    BY <1>11, <1>0 DEF WaitEnds, IsClient, Clients
  <2>2. \A u \in Caller : caller'[u].version = caller[u].version
                          /\ (caller'[u].at = "cycling" => caller[u].at = "cycling")
    BY <1>11, <1>0 DEF WaitEnds, Callers
  <2>. QED
    BY <2>1, <2>2, <1>a, OpenKeeps DEF OpenKept
<1>12. ASSUME NEW t \in Caller, CallCycles(t)
       PROVE  OpenInv'
  <2>1. m'.connected = m.connected /\ m'.connect_state = m.connect_state /\ running' = running
    BY <1>12, CycledType DEF CallCycles, Base, TypeInv
  <2>. DEFINE to == [caller[t] EXCEPT !.at = "resume", !.pack = Cycled.pack,
                                      !.rc = IF Cycled.rc = 0 THEN SocketError ELSE -1]
  <2>4. caller' = [caller EXCEPT ![t] = to] \/ caller' = caller
    BY <1>12 DEF CallCycles
  <2>5. to.version = caller[t].version /\ to.at = "resume"
    BY <1>0 DEF Callers
  <2>. HIDE DEF to
  <2>2. \A u \in Caller : caller'[u].version = caller[u].version
                          /\ (caller'[u].at = "cycling" => caller[u].at = "cycling")
    BY <2>4, <2>5, <1>0
  <2>3. IsOpen(m)
    BY <1>12 DEF CallCycles, Ready, Base
  <2>. QED
    BY <2>1, <2>2, <2>3, <1>a, OpenKeeps DEF OpenKept
<1>13. ASSUME NEW t \in Caller, NEW version \in {3, 4}, NEW late, Attempts(t, version, late),
              ~m.connected, \A u \in Caller \ {t} : ~Connecting(u)
       PROVE  OpenInv'
  <2>1. /\ caller'[t].version # 0 /\ caller'[t].at # "cycling"
        /\ \A u \in Caller \ {t} : caller'[u] = caller[u]
    <3>1. PICK to : /\ caller' = [caller EXCEPT ![t] = to] /\ to.version = version
                    /\ to.at \in {"failed", "waitfor"}
      BY <1>13, AttemptsProps
    <3>. QED
      BY <1>13, <3>1, <1>0
  <2>2. \/ m' = m /\ net' = net
        \/ ~m'.connected /\ m'.connect_state \in {1, 3}
    BY <1>13, <1>0 DEF Attempts, IsClient, Clients
  <2>3. ~m'.connected /\ (m'.connect_state \in {1, 3} \/ (m' = m /\ net' = net))
    BY <1>13, <2>2
  <2>4. (m.connect_state = -2 => m.connected) /\ (~IsOpen(m) => net = NoNet)
        /\ (Connecting("app") => ~Connecting("lost"))
    BY <1>a DEF OpenInv
  <2>. QED
    BY <2>1, <2>3, <2>4, <1>13 DEF OpenInv, Connecting, IsOpen, Caller
<1>14. ASSUME NEW t \in Caller, Connect(t)
       PROVE  OpenInv'
  BY <1>13, <1>14 DEF Connect, IsOpen, Connecting
<1>15. ASSUME NEW t \in Caller, Connecting(t)
       PROVE  ~m.connected /\ \A u \in Caller \ {t} : ~Connecting(u)
  BY <1>15, <1>a DEF OpenInv, Caller
<1>16. ASSUME NEW t \in Caller, ConnectAgain(t)
       PROVE  OpenInv'
  <2>1. caller[t].version \in {3, 4} /\ Connecting(t)
    BY <1>0, <1>16 DEF ConnectAgain, CallerOK, Callers, Connecting
  <2>. QED
    BY <1>13, <1>15, <1>16, <2>1 DEF ConnectAgain
<1>17. ASSUME NEW t \in Caller, At(t, "resume"), caller[t].sem \in {"connect_sem", "connack_sem"}
       PROVE  Connecting(t)
  BY <1>0, <1>17 DEF CallerOK, Connecting, Wait
<1>18. ASSUME NEW t \in Caller, TcpConnected(t)
       PROVE  OpenInv'
  <2>1. Connecting(t) /\ ~m.connected
    BY <1>15, <1>17, <1>18 DEF TcpConnected
  <2>2. /\ \A u \in Caller : caller'[u].version = caller[u].version
        /\ \A u \in Caller : caller'[u].at = "cycling" => caller[u].at = "cycling"
    <3>1. PICK to \in {Ends(t), [Ends(t) EXCEPT !.at = "waitfor", !.sem = "connack_sem"]} :
             caller' = [caller EXCEPT ![t] = to]
      BY <1>18 DEF TcpConnected
    <3>2. to.version = caller[t].version /\ to.at # "cycling"
      BY DEF Ends, IdleCaller
    <3>. QED
      BY <3>1, <3>2, <1>0
  <2>3. /\ m'.connected = m.connected /\ m'.connect_state \in {3, m.connect_state}
        /\ m'.connect_state = 3 \/ net' = net
        /\ running' = running
    BY <1>18, <1>0 DEF TcpConnected, IsClient, Clients
  <2>4. (~IsOpen(m) => net = NoNet)' /\ (m.connect_state = -2 => m.connected)'
    BY <2>3, <1>a DEF IsOpen, OpenInv
  <2>5. (m.connect_state \in {1, 3} => \E u \in Caller : Connecting(u))'
    BY <2>1, <2>2 DEF Connecting
  <2>6. (\A u \in Caller : Connecting(u) => ~m.connected)' /\ (Connecting("app") => ~Connecting("lost"))'
    BY <2>1, <2>2, <2>3, <1>a DEF Connecting, OpenInv, Caller
  <2>7. (\A u \in Caller : caller[u].at = "cycling" /\ Connecting(u) => ~running)'
    BY <2>2, <2>3, <1>a DEF Connecting, OpenInv
  <2>. QED
    BY <2>4, <2>5, <2>6, <2>7 DEF OpenInv
<1>36. ASSUME NEW t \in Caller, NEW place \in Callers, place.at \in {"idle", "failed"},
              place.version # 0 => Connecting(t)
       PROVE  \A u \in Caller : /\ StopsFor(t, TRUE, place)[u].version # 0 => Connecting(u)
                                /\ StopsFor(t, TRUE, place)[u].at = "cycling"
                                       => StopsFor(t, TRUE, place)[u] = caller[u]
  <2>1. /\ \A u \in Caller \ {t} : StopsFor(t, TRUE, place)[u] = caller[u]
        /\ StopsFor(t, TRUE, place)[t].version = place.version
        /\ StopsFor(t, TRUE, place)[t].at \in {"idle", "failed", "stopping"}
    BY <1>36, StopsForIs
  <2>. QED
    BY <1>36, <2>1 DEF Connecting
<1>19. ASSUME NEW t \in Caller, MqttConnected(t)
       PROVE  OpenInv'
  <2>1. Connecting(t) /\ ~m.connected /\ \A u \in Caller \ {t} : ~Connecting(u)
    BY <1>15, <1>17, <1>19 DEF MqttConnected
  <2>2. Ends(t) \in Callers /\ Ends(t).at = "failed" /\ Ends(t).version = caller[t].version
    BY EndsInCallers DEF Base, TypeInv
  <2>3. CASE AcceptedFails(t)
    <3>1. IsOpen(Accepted)
      BY AcceptedProps DEF IsOpen
    <3>2. \A u \in Caller : /\ StopsFor(t, TRUE, Ends(t))[u].version # 0 => Connecting(u)
                            /\ StopsFor(t, TRUE, Ends(t))[u].at = "cycling"
                                   => StopsFor(t, TRUE, Ends(t))[u] = caller[u]
      BY <1>36, <2>1, <2>2
    <3>. QED
      BY <2>3, <3>1, <3>2, <1>a, OpenEnds DEF AcceptedFails
  <2>4. CASE AcceptedWorks(t)
    <3>1. m'.connected /\ m'.connect_state = 0
      BY <2>4, AcceptedProps DEF AcceptedWorks
    <3>2. \A u \in Caller : caller'[u].version = 0
      BY <2>1, <2>4, <1>0 DEF AcceptedWorks, Connecting, IdleCaller
    <3>. QED
      BY <3>1, <3>2 DEF OpenInv, Connecting, IsOpen, Caller
  <2>5. CASE IsRefused(t)
    <3>1. m'.connected = m.connected /\ m'.connect_state = m.connect_state /\ UNCHANGED <<net, running>>
      BY <2>5, <1>0 DEF IsRefused, IsClient, Clients
    <3>2. \A u \in Caller : caller'[u].version = caller[u].version
                            /\ (caller'[u].at = "cycling" => caller[u].at = "cycling")
      BY <2>2, <2>5, <1>0 DEF IsRefused
    <3>. QED
      BY <3>1, <3>2, <1>a, OpenKeeps DEF OpenKept
  <2>. QED
    BY <1>19, <2>3, <2>4, <2>5, MqttConnectedCases
<1>20. ASSUME NEW t \in Caller, AttemptFails(t)
       PROVE  OpenInv'
  <2>1. Connecting(t)
    BY <1>0, <1>20 DEF AttemptFails, CallerOK, Connecting
  <2>. DEFINE to == [Ends(t) EXCEPT !.at = "attempt", !.version = 3]
  <2>2. to.at = "attempt"
    BY DEF Ends, IdleCaller
  <2>3. \A u \in Caller : /\ [caller EXCEPT ![t] = to][u].version # 0 => Connecting(u)
                          /\ [caller EXCEPT ![t] = to][u].at = "cycling"
                                 => [caller EXCEPT ![t] = to][u] = caller[u]
    BY <1>0, <2>1, <2>2 DEF Connecting
  <2>4. IdleCaller.version = 0 /\ IdleCaller.at = "idle"
    BY DEF IdleCaller
  <2>5. \A u \in Caller : /\ StopsFor(t, TRUE, IdleCaller)[u].version # 0 => Connecting(u)
                          /\ StopsFor(t, TRUE, IdleCaller)[u].at = "cycling"
                                 => StopsFor(t, TRUE, IdleCaller)[u] = caller[u]
    BY <1>36, <2>4, IdleType
  <2>. HIDE DEF to
  <2>6. \/ EndsBy(m, FALSE, FALSE, [caller EXCEPT ![t] = to])
        \/ EndsBy(m, FALSE, TRUE, StopsFor(t, TRUE, IdleCaller))
    BY <1>20, AttemptFailsTypes DEF to
  <2>. QED
    BY <2>3, <2>5, <2>6, <1>a, <1>c, OpenEnds
<1>21. ASSUME NEW to, to.version = 0, to.at # "cycling", caller' = [caller EXCEPT !["app"] = to],
              caller["app"].version = 0, m'.connected = m.connected,
              m'.connect_state = m.connect_state, running' = running,
              IsOpen(m) \/ net' = net
       PROVE  OpenInv'
  BY <1>21, <1>0, <1>a, OpenKeeps DEF OpenKept
<1>22. \A place \in {"drop", "draining", "receiving", "waitfor", "completing", "blocked"} :
           CallerAt(place).version = 0 /\ CallerAt(place).at = place
  BY CallerAtType DEF Places, Quiet, Wait
<1>23. IdleCaller.version = 0 /\ IdleCaller.at = "idle"
  BY DEF IdleCaller
<1>24. caller["app"].at \in Quiet => caller["app"].version = 0
  BY <1>0 DEF CallerOK
<1>25. ASSUME NEW sem \in Requests, Subscribe(sem)
       PROVE  OpenInv'
  <2>. DEFINE to == [CallerAt("waitfor") EXCEPT !.sem = sem, !.call = calls', !.epoch = epoch]
  <2>1. to.version = 0 /\ to.at = "waitfor"
    BY DEF CallerAt, IdleCaller
  <2>2. caller' = [caller EXCEPT !["app"] = to] \/ caller' = [caller EXCEPT !["app"] = CallerAt("drop")]
    BY <1>25 DEF Subscribe
  <2>. HIDE DEF to
  <2>. QED
    BY <1>21, <1>22, <1>24, <1>25, <2>1, <2>2 DEF Subscribe, IsOpen, Quiet
<1>26. CASE Subscribed
  <2>1. caller["app"].version = 0
    BY <1>0, <1>26 DEF Subscribed, CallerOK, Wait
  <2>2. m'.connected = m.connected /\ m'.connect_state = m.connect_state /\ UNCHANGED <<running, net>>
    BY <1>26, <1>0 DEF Subscribed, IsClient, Clients
  <2>. QED
    BY <1>21, <1>22, <1>23, <1>26, <2>1, <2>2 DEF Subscribed
<1>27. CASE Publish \/ PublishGoesOn
  <2>. DEFINE to == [CallerAt("blocked") EXCEPT !.msg = calls']
  <2>1. to.version = 0 /\ to.at = "blocked"
    BY DEF CallerAt, IdleCaller
  <2>2. \/ caller' = [caller EXCEPT !["app"] = to]
        \/ caller' = [caller EXCEPT !["app"] = CallerAt("drop")]
        \/ caller' = [caller EXCEPT !["app"] = IdleCaller]
    BY <1>27 DEF Publish, PublishGoesOn, StartPublish
  <2>3. m'.connected = m.connected /\ m'.connect_state = m.connect_state /\ running' = running
    BY <1>27, <1>0 DEF Publish, PublishGoesOn, StartPublish, IsClient, Clients
  <2>4. m.connected \/ net' = net
    BY <1>27 DEF Publish, PublishGoesOn
  <2>5. caller["app"].at \in Quiet
    BY <1>27 DEF Publish, PublishGoesOn, Quiet
  <2>. HIDE DEF to
  <2>. QED
    BY <1>21, <1>22, <1>23, <1>24, <2>1, <2>2, <2>3, <2>4, <2>5 DEF IsOpen
<1>28. CASE WaitForCompletion
  <2>1. PICK e : caller' = [caller EXCEPT !["app"] = [CallerAt("completing") EXCEPT !.id = e.id, !.msg = e.msg]]
    BY <1>28 DEF WaitForCompletion
  <2>. DEFINE to == [CallerAt("completing") EXCEPT !.id = e.id, !.msg = e.msg]
  <2>2. to.version = 0 /\ to.at = "completing"
    BY DEF CallerAt, IdleCaller
  <2>. HIDE DEF to
  <2>3. caller' = [caller EXCEPT !["app"] = to]
    BY <2>1 DEF to
  <2>. QED
    BY <1>21, <1>24, <1>28, <2>2, <2>3 DEF WaitForCompletion, Quiet
<1>29. CASE Completed \/ Receive
  BY <1>21, <1>22, <1>23, <1>24, <1>29 DEF Completed, Receive, Quiet
<1>30. CASE ReceiveEnds
  <2>1. m'.connected = m.connected /\ m'.connect_state = m.connect_state /\ UNCHANGED <<running, net>>
    BY <1>30, <1>0 DEF ReceiveEnds, IsClient, Clients
  <2>. QED
    BY <1>21, <1>23, <1>24, <1>30, <2>1 DEF ReceiveEnds, Quiet
<1>31. CASE Disconnect
  <2>1. /\ m'.connected = m.connected /\ UNCHANGED <<net, running>>
        /\ m'.connect_state = m.connect_state \/ (m'.connect_state = -2 /\ m.connected)
        /\ caller' = [caller EXCEPT !["app"] = CallerAt("draining")]
    BY <1>31, <1>0 DEF Disconnect, IsClient, Clients
  <2>2. caller["app"].version = 0
    BY <1>24, <1>31 DEF Disconnect, Quiet
  <2>3. \A t \in Caller : caller'[t].version = caller[t].version
                          /\ (caller'[t].at = "cycling" => caller[t].at = "cycling")
    BY <1>0, <1>22, <2>1, <2>2
  <2>4. (~IsOpen(m) => net = NoNet)' /\ (m.connect_state = -2 => m.connected)'
    BY <2>1, <1>a DEF IsOpen, OpenInv
  <2>5. (m.connect_state \in {1, 3} => \E u \in Caller : Connecting(u))'
    BY <2>1, <2>3, <1>a DEF Connecting, OpenInv
  <2>6. (\A u \in Caller : Connecting(u) => ~m.connected)' /\ (Connecting("app") => ~Connecting("lost"))'
    BY <2>1, <2>3, <1>a DEF Connecting, OpenInv, Caller
  <2>7. (\A u \in Caller : caller[u].at = "cycling" /\ Connecting(u) => ~running)'
    BY <2>1, <2>3, <1>a DEF Connecting, OpenInv
  <2>. QED
    BY <2>4, <2>5, <2>6, <2>7 DEF OpenInv
<1>32. CASE Drop
  <2>1. \A u \in Caller : /\ StopsFor("app", TRUE, IdleCaller)[u].version # 0 => Connecting(u)
                          /\ StopsFor("app", TRUE, IdleCaller)[u].at = "cycling"
                                 => StopsFor("app", TRUE, IdleCaller)[u] = caller[u]
    BY <1>0, <1>23, <1>36, IdleType
  <2>. QED
    BY <1>32, <2>1, <1>a, <1>c, DropTypes, OpenEnds
<1>33. CASE DisconnectEnds
  <2>1. /\ ~m'.connected /\ m'.connect_state = 0 /\ net' = NoNet /\ running' = running
        /\ caller' = StopsFor("app", TRUE, IdleCaller)
    BY <1>33, DisconnectEndsProps
  <2>2. \A u \in Caller : /\ caller'[u].version # 0 => Connecting(u)
                          /\ caller'[u].at = "cycling" => caller'[u] = caller[u]
    BY <2>1, <1>0, <1>23, <1>36, IdleType
  <2>3. (~IsOpen(m) => net = NoNet)' /\ (m.connect_state = -2 => m.connected)'
        /\ (m.connect_state \in {1, 3} => \E u \in Caller : Connecting(u))'
    BY <2>1
  <2>4. (\A u \in Caller : Connecting(u) => ~m.connected)' /\ (Connecting("app") => ~Connecting("lost"))'
    BY <2>1, <2>2, <1>a DEF Connecting, OpenInv, Caller
  <2>5. (\A u \in Caller : caller[u].at = "cycling" /\ Connecting(u) => ~running)'
    BY <2>1, <2>2, <1>a DEF Connecting, OpenInv
  <2>. QED
    BY <2>3, <2>4, <2>5 DEF OpenInv
<1>34. CASE Yields
  <2>. DEFINE callers == [caller EXCEPT !["app"] = IF @.at = "receiving" THEN IdleCaller ELSE @]
  <2>1. CASE EndsBy(m, TRUE, TRUE, callers)
    <3>1. \A t \in Caller : /\ callers[t].version # 0 => Connecting(t)
                            /\ callers[t].at = "cycling" => callers[t] = caller[t]
      BY <1>0, <1>23 DEF Connecting
    <3>. HIDE DEF callers
    <3>. QED
      BY <1>a, <1>c, <2>1, <3>1, OpenEnds
  <2>2. CASE /\ m' = Cycled.m /\ net' = Cycled.net /\ UNCHANGED <<running, caller>>
    <3>1. m'.connected = m.connected /\ m'.connect_state = m.connect_state
      BY <2>2, CycledType DEF Base, TypeInv
    <3>2. IsOpen(m)
      BY <1>34 DEF Yields, Ready, Base
    <3>. QED
      BY <2>2, <3>1, <3>2, <1>a, OpenKeeps DEF OpenKept
  <2>. QED
    BY <1>34, <2>1, <2>2, YieldsCases
<1>35. CASE TcpUp \/ Breaks \/ BrokerPublishes \/ \E ok \in BOOLEAN : BrokerAnswers(ok)
  <2>0. NoNet.is = "none"
    BY DEF NoNet
  <2>1. UNCHANGED <<m, caller, running>> /\ net # NoNet
    BY <1>35, <2>0 DEF TcpUp, Breaks, BrokerPublishes, BrokerAnswers
  <2>. QED
    BY <2>1, <1>a, <1>c, OpenKeeps DEF OpenKept
<1>. QED
  BY <1>1, <1>2, <1>3, <1>4, <1>5, <1>6, <1>7, <1>8, <1>9, <1>10, <1>11, <1>12, <1>14, <1>16,
     <1>18, <1>19, <1>20, <1>25, <1>26, <1>27, <1>28, <1>29, <1>30, <1>31, <1>32, <1>33, <1>34,
     <1>35 DEF Next, RunStep, Begins, AppStep, CallerStep, WaitStep, ConnectStep


LEMMA ControlInit == Init => ControlInv
<1>1. Init => ThreadInv
  BY RunAtType DEF Init, ThreadInv
<1>2. ASSUME Init
      PROVE  OpenInv
  <2>1. ~IsOpen(m) /\ m.connect_state = 0 /\ net = NoNet
    BY <1>2 DEF Init, IsOpen
  <2>2. \A t \in Caller : ~Connecting(t)
    BY <1>2 DEF Init, Connecting, IdleCaller
  <2>. QED
    BY <2>1, <2>2 DEF OpenInv, Caller
<1>. QED
  BY <1>1, <1>2, CallersInit DEF ControlInv

LEMMA ControlNext ==
    ASSUME Base, ControlInv, [Next]_vars
    PROVE  ControlInv'
<1>1. CallersInv'
  BY CallersNext DEF ControlInv
<1>2. ThreadInv'
  BY ThreadNext DEF ControlInv
<1>. QED
  BY <1>1, <1>2, OpenNext DEF ControlInv


-----------------------------------------------------------------------------
(* The kinds of steps.                                                     *)

\* A connect that waits on the connection it began
Begun(t) == Connecting(t) /\ caller[t].at \in Wait

\* What is no answer to a call
Plain == {"PUBLISH", "PUBACK"}

\* s is r with what is no answer added, or without the first packet
Thins(s, r) ==
    \E k \in {0, 1} : \A i \in DOMAIN s :
        s[i].type \in Plain \/ (i + k \in DOMAIN r /\ s[i] = r[i + k])

LEMMA ThinsProps ==
    ASSUME NEW S, NEW r \in Seq(S)
    PROVE  /\ Thins(r, r) /\ Thins(<<>>, r)
           /\ r # <<>> => Thins(Tail(r), r)
           /\ \A p : p.type \in Plain => Thins(Append(r, p), r)
           /\ \A P : \A s \in Seq(P) : (\A i \in DOMAIN s : s[i].type \in Plain) => Thins(r \o s, r)
           /\ r # <<>> => \A p : p.type \in Plain => Thins(Append(Tail(r), p), r)
<1>1. Thins(r, r)
  BY DEF Thins
<1>2. Thins(<<>>, r)
  BY DEF Thins
<1>3. ASSUME r # <<>>
      PROVE  Thins(Tail(r), r)
  BY <1>3 DEF Thins
<1>4. ASSUME NEW p, p.type \in Plain
      PROVE  Thins(Append(r, p), r)
  BY <1>4 DEF Thins
<1>5. ASSUME NEW P, NEW s \in Seq(P), \A i \in DOMAIN s : s[i].type \in Plain
      PROVE  Thins(r \o s, r)
  <2>1. \A i \in DOMAIN (r \o s) : \/ i \in DOMAIN r /\ (r \o s)[i] = r[i]
                                   \/ i - Len(r) \in DOMAIN s /\ (r \o s)[i] = s[i - Len(r)]
    OBVIOUS
  <2>2. \A i \in DOMAIN r : i + 0 = i
    OBVIOUS
  <2>. HIDE DEF Plain
  <2>. QED
    BY <1>5, <2>1, <2>2 DEF Thins
<1>6. ASSUME NEW p, p.type \in Plain, r # <<>>
      PROVE  Thins(Append(Tail(r), p), r)
  BY <1>6 DEF Thins
<1>. QED
  BY <1>1, <1>2, <1>3, <1>4, <1>5, <1>6

\* The application goes from call to call, or packets are lost or added that are no
\* answers
QuietMove(c, d) ==
    \/ d = c
    \/ /\ c.at \in Quiet \ {"drop"} /\ d.at \in Quiet /\ d.version = 0 /\ d.pack = NoPack
       /\ d.at = "drop" => m.connected

QuietStep ==
    /\ m'.connected = m.connected /\ m'.socket = m.socket /\ m'.sem = m.sem /\ m'.pack = m.pack
    /\ m'.connect_state = m.connect_state \/ (m.connected /\ m'.connect_state = -2)
    /\ Thins(net'.to_broker, net.to_broker) /\ Thins(net'.to_client, net.to_client)
    /\ \A t \in Caller : QuietMove(caller[t], caller'[t])
    /\ UNCHANGED <<fixed, run, running, tostop, epoch, accepted, up, closed, lost, answered,
                   failures, marks>>

\* A connection is ended, whoever ends it
EndMove(c, d) ==
    \/ d = c
    \/ /\ c.version # 0 \/ c.at \in Quiet
       /\ d.at \in {"idle", "failed", "attempt", "stopping", "begin"} /\ d.pack = NoPack
       /\ d.version # 0 => c.version # 0

EndStep ==
    /\ ~m'.connected /\ m'.connect_state = 0 /\ ~m'.socket /\ net' = NoNet
    /\ m'.pack = m.pack \/ (m'.pack = NoPack /\ \E t \in Caller : Begun(t))
    /\ m'.sem = Released \/ (~IsOpen(m) /\ m'.sem = m.sem)
    /\ \A t \in Caller : EndMove(caller[t], caller'[t])
    /\ run' = run \/ (run.at = "drop" /\ run' = RunAt("cycle"))
    /\ running' = running
    /\ \/ tostop' = (tostop \/ running)
       \/ tostop' = tostop /\ \E t \in Caller : At(t, "failed") /\ Connecting(t) /\ Connecting(t)'
    /\ closed' \in {closed, closed \cup {epoch}}
    /\ \/ /\ up' = up
          /\ \/ lost' = lost /\ (~callbacks \/ ~m.connected \/ closed' = closed \cup {epoch})
             \/ lost' = Append(lost, epoch) /\ m.connected
       \/ /\ up' = up \cup {epoch} /\ \E t \in Caller : Begun(t) /\ caller'[t].at \notin Wait
          /\ lost' = IF callbacks THEN Append(lost, epoch) ELSE lost
    /\ UNCHANGED <<fixed, epoch, accepted, answered, failures, mixed, outrun>>
    /\ surplus => surplus'

\* Caller t goes on, and nothing else changes
MoveStep(t) ==
    /\ \E to \in Callers :
          /\ caller' = [caller EXCEPT ![t] = to]
          /\ to.version = caller[t].version /\ to.pack \in {caller[t].pack, NoPack}
          /\ to.at \in Wait <=> At(t, "waitfor") \/ At(t, "waiting") \/ At(t, "cycling")
          /\ to.at \in Wait => /\ to.sem = caller[t].sem /\ to.call = caller[t].call
                               /\ to.epoch = caller[t].epoch
          /\ to.at = "woken" => to.rc # 0
          /\ to.at = "resume" => to.late /\ to.pack = NoPack
          /\ to.at # "drop" /\ ~At(t, "drop") /\ to.at \notin {"completing"}
          /\ caller[t].at \in Wait /\ to.at \notin Wait => Connecting(t)
    /\ UNCHANGED <<fixed, client, run, net, epoch, accepted, up, closed, lost, results, marks>>

\* The background thread goes on, with nothing in its hands
RunRests ==
    /\ run'.pack = NoPack /\ run'.epoch = 0 /\ run'.at \in {"read", "off", "cycle"}
    /\ UNCHANGED <<running, tostop>> \/ run'.at = "off"
    /\ UNCHANGED <<fixed, m, net, caller, epoch, accepted, up, closed, lost, results, marks>>

\* What a cycle does to what is under way to the client
CycleTakes ==
    \/ Cycled.pack = NoPack /\ Thins(Cycled.net.to_client, net.to_client)
    \/ /\ Cycled.pack # NoPack /\ Cycled.pack.type \notin Plain /\ Cycled.rc = 0
       /\ m.socket /\ m.connect_state # 1 /\ net.to_client # <<>>
       /\ Cycled.pack = Head(net.to_client) /\ Cycled.net.to_client = Tail(net.to_client)
       /\ Cycled.m = m

LEMMA CycleTakesProps ==
    ASSUME Base
    PROVE  CycleTakes /\ Thins(Cycled.net.to_client, net.to_client)
<1>1. net.to_client \in Seq(ToClient)
  BY DEF Base, TypeInv, NetType, Nets
<1>2. CASE CycleFinds
  BY <1>1, <1>2, ThinsProps DEF CycleFinds, CycleTakes
<1>3. ASSUME NEW p \in ToClient, CycleReads(p)
      PROVE  CycleTakes /\ Thins(Cycled.net.to_client, net.to_client)
  <2>1. Cycled.net.to_client = Tail(net.to_client)
    BY <1>3 DEF CycleReads, Base, TypeInv, NetType, Nets
  <2>2. Thins(Cycled.net.to_client, net.to_client)
    BY <1>1, <1>3, <2>1, ThinsProps DEF CycleReads
  <2>3. NoPack.type = "none" /\ p.type # "none"
    BY DEF NoPack, ToClient, Connacks, Answers
  <2>. QED
    BY <1>3, <2>1, <2>2, <2>3 DEF CycleReads, CycleTakes, Plain
<1>. QED
  BY <1>2, <1>3, CycledProps DEF Base, TypeInv

\* The application between two calls, when nothing is lost that matters
LEMMA QuietApp ==
    ASSUME Base, ControlInv, NEW to, caller' = [caller EXCEPT !["app"] = to],
           caller["app"].at \in Quiet \ {"drop"}, to.at \in Quiet, to.version = 0, to.pack = NoPack,
           to.at = "drop" => m.connected
    PROVE  \A t \in Caller : QuietMove(caller[t], caller'[t])
  BY DEF QuietMove, Base, TypeInv, CallerType, Caller

LEMMA QuietSteps ==
    ASSUME Base, ControlInv,
           \/ UNCHANGED vars \/ WaitForCompletion \/ Disconnect \/ Receive \/ Publish
           \/ PublishGoesOn \/ Completed \/ ReceiveEnds \/ LostReturns \/ TcpUp \/ Breaks
           \/ BrokerPublishes
    PROVE  QuietStep
<1>0. /\ IsClient(m) /\ caller \in [Caller -> Callers] /\ "app" \in Caller /\ "lost" \in Caller
      /\ net \in Nets
  BY DEF Base, TypeInv, MType, CallerType, Caller, NetType
<1>1. net.to_broker \in Seq(ToBroker) /\ net.to_client \in Seq(ToClient)
  BY <1>0 DEF Nets
<1>2. Thins(net.to_broker, net.to_broker) /\ Thins(net.to_client, net.to_client)
  BY <1>1, ThinsProps
<1>3. \A t \in Caller : QuietMove(caller[t], caller[t])
  BY DEF QuietMove
<1>. USE DEF QuietStep
<1>4. CASE UNCHANGED vars
  BY <1>2, <1>3, <1>4 DEF vars
<1>5. \A place \in {"drop", "draining", "receiving", "completing", "blocked"} :
           CallerAt(place).version = 0 /\ CallerAt(place).at = place /\ CallerAt(place).pack = NoPack
  BY DEF CallerAt, IdleCaller
<1>6. IdleCaller.version = 0 /\ IdleCaller.at = "idle" /\ IdleCaller.pack = NoPack
  BY DEF IdleCaller
<1>7. CASE WaitForCompletion
  <2>1. PICK e : caller' = [caller EXCEPT !["app"] = [CallerAt("completing") EXCEPT !.id = e.id, !.msg = e.msg]]
    BY <1>7 DEF WaitForCompletion
  <2>. DEFINE to == [CallerAt("completing") EXCEPT !.id = e.id, !.msg = e.msg]
  <2>2. to.version = 0 /\ to.at = "completing" /\ to.pack = NoPack
    BY DEF CallerAt, IdleCaller
  <2>. HIDE DEF to
  <2>3. caller' = [caller EXCEPT !["app"] = to]
    BY <2>1 DEF to
  <2>4. \A t \in Caller : QuietMove(caller[t], caller'[t])
    BY <1>7, <2>2, <2>3, QuietApp DEF WaitForCompletion, Quiet
  <2>. QED
    BY <1>2, <1>7, <2>4 DEF WaitForCompletion
<1>8. CASE Receive \/ Completed
  <2>1. \A t \in Caller : QuietMove(caller[t], caller'[t])
    BY <1>5, <1>6, <1>8, QuietApp DEF Receive, Completed, Quiet
  <2>. QED
    BY <1>2, <1>8, <2>1 DEF Receive, Completed
<1>9. CASE ReceiveEnds
  <2>1. \A t \in Caller : QuietMove(caller[t], caller'[t])
    BY <1>6, <1>9, QuietApp DEF ReceiveEnds, Quiet
  <2>2. /\ m'.connected = m.connected /\ m'.socket = m.socket /\ m'.sem = m.sem /\ m'.pack = m.pack
        /\ m'.connect_state = m.connect_state
    BY <1>0, <1>9 DEF ReceiveEnds, IsClient, Clients
  <2>. QED
    BY <1>2, <1>9, <2>1, <2>2 DEF ReceiveEnds
<1>10. CASE Disconnect
  <2>1. \A t \in Caller : QuietMove(caller[t], caller'[t])
    BY <1>5, <1>10, QuietApp DEF Disconnect, Quiet
  <2>2. /\ m'.connected = m.connected /\ m'.socket = m.socket /\ m'.sem = m.sem /\ m'.pack = m.pack
        /\ m'.connect_state = m.connect_state \/ (m.connected /\ m'.connect_state = -2)
    BY <1>0, <1>10 DEF Disconnect, IsClient, Clients
  <2>. QED
    BY <1>2, <1>10, <2>1, <2>2 DEF Disconnect
<1>11. ASSUME NEW msg, StartPublish(msg)
       PROVE  /\ m'.connected = m.connected /\ m'.socket = m.socket /\ m'.sem = m.sem
              /\ m'.pack = m.pack /\ m'.connect_state = m.connect_state
              /\ Thins(net'.to_broker, net.to_broker) /\ Thins(net'.to_client, net.to_client)
              /\ \/ caller' = [caller EXCEPT !["app"] = IdleCaller]
                 \/ caller' = [caller EXCEPT !["app"] = CallerAt("drop")]
  <2>1. /\ m'.connected = m.connected /\ m'.socket = m.socket /\ m'.sem = m.sem
        /\ m'.pack = m.pack /\ m'.connect_state = m.connect_state
    BY <1>0, <1>11 DEF StartPublish, IsClient, Clients
  <2>. DEFINE p == [type |-> "PUBLISH", id |-> m.msgID + 1, msg |-> msg]
  <2>2. p.type \in Plain
    BY DEF Plain
  <2>3. \/ net' = net
        \/ net' = [net EXCEPT !.to_broker = Append(net.to_broker, p)]
    BY <1>11 DEF StartPublish, Sends
  <2>. HIDE DEF p
  <2>4. Thins(net'.to_broker, net.to_broker) /\ Thins(net'.to_client, net.to_client)
    <3>1. CASE net' = net
      BY <1>2, <3>1
    <3>2. CASE net' = [net EXCEPT !.to_broker = Append(net.to_broker, p)]
      <4>1. net'.to_broker = Append(net.to_broker, p) /\ net'.to_client = net.to_client
        BY <1>0, <3>2 DEF Nets
      <4>2. Thins(Append(net.to_broker, p), net.to_broker)
        BY <1>1, <2>2, ThinsProps
      <4>. QED
        BY <1>2, <4>1, <4>2
    <3>. QED
      BY <2>3, <3>1, <3>2
  <2>. QED
    BY <1>11, <2>1, <2>4 DEF StartPublish
<1>12. CASE Publish
  <2>. DEFINE to == [CallerAt("blocked") EXCEPT !.msg = calls']
  <2>1. to.version = 0 /\ to.at = "blocked" /\ to.pack = NoPack
    BY DEF CallerAt, IdleCaller
  <2>2. \/ StartPublish(calls')
        \/ caller' = [caller EXCEPT !["app"] = to] /\ UNCHANGED <<m, net>>
    BY <1>12 DEF Publish
  <2>. HIDE DEF to
  <2>3. \A t \in Caller : QuietMove(caller[t], caller'[t])
    BY <1>5, <1>6, <1>11, <1>12, <2>1, <2>2, QuietApp DEF Publish, Quiet
  <2>. QED
    BY <1>2, <1>11, <1>12, <2>2, <2>3 DEF Publish
<1>13. CASE PublishGoesOn
  <2>2. \/ StartPublish(caller["app"].msg) /\ m.connected
        \/ caller' = [caller EXCEPT !["app"] = IdleCaller] /\ UNCHANGED <<m, net>>
    BY <1>13 DEF PublishGoesOn
  <2>3. \A t \in Caller : QuietMove(caller[t], caller'[t])
    BY <1>5, <1>6, <1>11, <1>13, <2>2, QuietApp DEF PublishGoesOn, Quiet
  <2>. QED
    BY <1>2, <1>11, <1>13, <2>2, <2>3 DEF PublishGoesOn
<1>14. CASE LostReturns
  <2>1. \A t \in Caller : QuietMove(caller[t], caller'[t])
    BY <1>0, <1>6, <1>14 DEF LostReturns, QuietMove, Quiet
  <2>. QED
    BY <1>2, <1>14, <2>1 DEF LostReturns
<1>15. CASE TcpUp
  <2>1. net'.to_broker = net.to_broker /\ net'.to_client = net.to_client
    BY <1>0, <1>15 DEF TcpUp, Nets
  <2>. QED
    BY <1>2, <1>3, <1>15, <2>1 DEF TcpUp
<1>16. CASE Breaks
  <2>1. net'.to_broker = <<>> /\ net'.to_client = net.to_client
    BY <1>0, <1>16 DEF Breaks, Nets
  <2>2. Thins(net'.to_broker, net.to_broker)
    BY <1>1, <2>1, ThinsProps
  <2>. QED
    BY <1>2, <1>3, <1>16, <2>1, <2>2 DEF Breaks
<1>17. CASE BrokerPublishes
  <2>. DEFINE p == [type |-> "PUBLISH", msg |-> incoming']
  <2>1. net'.to_broker = net.to_broker /\ net'.to_client = Append(net.to_client, p)
    BY <1>0, <1>17 DEF BrokerPublishes, Nets
  <2>2. p.type \in Plain
    BY DEF Plain
  <2>. HIDE DEF p
  <2>3. Thins(net'.to_client, net.to_client)
    BY <1>1, <2>1, <2>2, ThinsProps
  <2>. QED
    BY <1>2, <1>3, <1>17, <2>1, <2>3 DEF BrokerPublishes
<1>. QED
  BY <1>4, <1>7, <1>8, <1>9, <1>10, <1>12, <1>13, <1>14, <1>15, <1>16, <1>17

\* What an end by MQTTClient_disconnect1 does, but for what only some ends do
LEMMA EndsProps ==
    ASSUME Base, ControlInv, NEW c, NEW internal \in BOOLEAN, NEW stop \in BOOLEAN, NEW callers,
           EndsBy(c, internal, stop, callers), c = m \/ (c = Accepted /\ internal),
           \A t \in Caller : EndMove(caller[t], callers[t])
    PROVE  /\ ~m'.connected /\ m'.connect_state = 0 /\ ~m'.socket /\ net' = NoNet
           /\ m'.pack \in {m.pack, NoPack} /\ (c = m => m'.pack = m.pack)
           /\ m'.sem = Released \/ (~IsOpen(m) /\ m'.sem = m.sem)
           /\ \A t \in Caller : EndMove(caller[t], caller'[t])
           /\ running' = running
           /\ stop => tostop' = (tostop \/ running)
           /\ ~stop => tostop' = tostop
           /\ lost' = IF internal /\ callbacks /\ c.connected THEN Append(lost, epoch) ELSE lost
           /\ \A t \in Caller : callers[t].at \notin Wait => caller'[t].at \notin Wait
           /\ callers["lost"].at = "idle" \/ caller'["lost"] = callers["lost"]
           /\ caller'["app"] = callers["app"]
<1>. DEFINE begins == internal /\ callbacks /\ c.connected
<1>0. /\ callers \in [Caller -> Callers] /\ begins \in BOOLEAN /\ tostop \in BOOLEAN
      /\ "app" \in Caller /\ "lost" \in Caller /\ IsClient(m)
  BY DEF EndsBy, IsClient, Clients, Base, TypeInv, RestType, MType, Caller
<1>1. /\ ~m'.connected /\ m'.connect_state = 0 /\ ~m'.socket
      /\ m'.pack = c.pack /\ m'.sem = IF IsOpen(c) THEN Released ELSE c.sem
      /\ net' = IF IsOpen(c) THEN NoNet ELSE net
      /\ running' = running /\ tostop' = (tostop \/ (stop /\ running))
      /\ lost' = IF begins THEN Append(lost, epoch) ELSE lost
      /\ caller' = LostBegins(callers, begins)
  BY DEF EndsBy, Disconnected
<1>. HIDE DEF begins
<1>2. ~IsOpen(m) => net = NoNet
  BY DEF ControlInv, OpenInv
<1>3. /\ m'.pack \in {m.pack, NoPack} /\ (c = m => m'.pack = m.pack) /\ net' = NoNet
      /\ m'.sem = Released \/ (~IsOpen(m) /\ m'.sem = m.sem)
  <2>1. CASE c = m
    BY <1>1, <1>2, <2>1
  <2>2. CASE c = Accepted
    BY <1>1, <2>2, AcceptedProps DEF IsOpen
  <2>. QED
    BY <2>1, <2>2
<1>4. CallerAt("begin").version = 0 /\ CallerAt("begin").at = "begin" /\ CallerAt("begin").pack = NoPack
  BY DEF CallerAt, IdleCaller
<1>5. \A t \in Caller : EndMove(caller[t], caller'[t])
  <2>0. caller'["app"] = callers["app"] /\ caller'["lost"] \in {callers["lost"], CallerAt("begin")}
    BY <1>0, <1>1, LostBeginsProps
  <2>1. CASE caller'["lost"] = callers["lost"]
    BY <2>0, <2>1 DEF Caller
  <2>2. CASE caller'["lost"] = CallerAt("begin") /\ callers["lost"].at = "idle"
    <3>1. caller["lost"].version # 0 \/ caller["lost"].at \in Quiet
      BY <1>0, <2>2 DEF EndMove, Quiet
    <3>2. EndMove(caller["lost"], caller'["lost"])
      BY <1>4, <2>2, <3>1 DEF EndMove
    <3>. QED
      BY <2>0, <3>2 DEF Caller
  <2>. QED
    BY <1>0, <1>1, <2>0, <2>1, <2>2, LostBeginsProps
<1>6. \A t \in Caller : callers[t].at \notin Wait => caller'[t].at \notin Wait
  BY <1>0, <1>1, <1>4, LostBeginsProps DEF Caller, Wait
<1>7. /\ callers["lost"].at = "idle" \/ caller'["lost"] = callers["lost"]
      /\ caller'["app"] = callers["app"]
  BY <1>0, <1>1, LostBeginsProps
<1>. QED
  BY <1>0, <1>1, <1>3, <1>5, <1>6, <1>7 DEF begins

\* Where caller t is when it has ended a connection
LEMMA StopsForMoves ==
    ASSUME Base, NEW t \in Caller, NEW place \in Callers, place.at \in {"idle", "failed"},
           place.pack = NoPack, place.version # 0 => caller[t].version # 0,
           caller[t].version # 0 \/ caller[t].at \in Quiet
    PROVE  \A u \in Caller : EndMove(caller[u], StopsFor(t, TRUE, place)[u])
<1>1. /\ \A u \in Caller \ {t} : StopsFor(t, TRUE, place)[u] = caller[u]
      /\ StopsFor(t, TRUE, place)[t].version = place.version
      /\ StopsFor(t, TRUE, place)[t].pack = place.pack
      /\ StopsFor(t, TRUE, place)[t].at \in {"idle", "failed", "stopping"}
  BY StopsForIs
<1>. QED
  BY <1>1 DEF EndMove

LEMMA EndSteps ==
    ASSUME Base, ControlInv,
           \/ KeepaliveFails \/ RunDrops \/ Drop \/ DisconnectEnds
           \/ \E t \in Caller : AttemptFails(t) \/ (MqttConnected(t) /\ AcceptedFails(t))
    PROVE  EndStep
<1>0. /\ IsClient(m) /\ caller \in [Caller -> Callers] /\ "app" \in Caller /\ "lost" \in Caller
      /\ running \in BOOLEAN /\ tostop \in BOOLEAN
      /\ \A t \in Caller : CallerOK(t, caller[t])
  BY DEF Base, TypeInv, MType, CallerType, Caller, RestType, ControlInv, CallersInv
<1>1. \A t \in Caller : EndMove(caller[t], caller[t])
  BY DEF EndMove
<1>2. IdleCaller.version = 0 /\ IdleCaller.at = "idle" /\ IdleCaller.pack = NoPack
  BY DEF IdleCaller
<1>3. ASSUME NEW callers, EndsBy(m, TRUE, TRUE, callers),
             \A t \in Caller : EndMove(caller[t], callers[t]),
             run' = run \/ (run.at = "drop" /\ run' = RunAt("cycle")),
             UNCHANGED <<fixed, epoch, accepted, up, closed, answered, failures, mixed, outrun, surplus>>
      PROVE  EndStep
  BY <1>3, EndsProps DEF EndStep
<1>4. CASE KeepaliveFails \/ RunDrops
  BY <1>1, <1>3, <1>4, KeepaliveTypes DEF KeepaliveFails, RunDrops
<1>5. CASE Drop
  <2>1. \A u \in Caller : EndMove(caller[u], StopsFor("app", TRUE, IdleCaller)[u])
    BY <1>0, <1>2, <1>5, StopsForMoves, IdleType DEF Drop, Quiet
  <2>. QED
    BY <1>3, <1>5, <2>1, DropTypes DEF Drop
<1>6. CASE DisconnectEnds
  <2>1. \A u \in Caller : EndMove(caller[u], StopsFor("app", TRUE, IdleCaller)[u])
    BY <1>0, <1>2, <1>6, StopsForMoves, IdleType DEF DisconnectEnds, Quiet
  <2>. QED
    BY <1>6, <2>1, DisconnectEndsProps DEF DisconnectEnds, EndStep
<1>7. ASSUME NEW t \in Caller, AttemptFails(t)
      PROVE  EndStep
  <2>1. Connecting(t) /\ ~m.connected /\ At(t, "failed")
    BY <1>0, <1>7 DEF AttemptFails, CallerOK, Connecting, ControlInv, OpenInv
  <2>. DEFINE next == [Ends(t) EXCEPT !.at = "attempt", !.version = 3]
  <2>2. next.at = "attempt" /\ next.pack = NoPack /\ next.version # 0
    BY DEF Ends, IdleCaller
  <2>. HIDE DEF next
  <2>3. \A u \in Caller : EndMove(caller[u], [caller EXCEPT ![t] = next][u])
    BY <1>0, <2>1, <2>2 DEF EndMove, Connecting
  <2>4. \A u \in Caller : EndMove(caller[u], StopsFor(t, TRUE, IdleCaller)[u])
    BY <1>2, <2>1, StopsForMoves, IdleType DEF Connecting
  <2>5. UNCHANGED <<fixed, run, epoch, accepted, up, closed, answered, failures, mixed, outrun, surplus>>
    BY <1>7 DEF AttemptFails
  <2>6. CASE EndsBy(m, FALSE, FALSE, [caller EXCEPT ![t] = next])
    <3>1. Connecting(t)'
      <4>1. caller'[t] = next
        <5>1. [caller EXCEPT ![t] = next][t] = next
          BY <1>0
        <5>2. t = "app" \/ t = "lost"
          BY DEF Caller
        <5>. QED
          BY <2>2, <2>3, <2>6, <5>1, <5>2, EndsProps
      <4>. QED
        BY <2>2, <4>1 DEF Connecting
    <3>. QED
      BY <2>1, <2>3, <2>5, <2>6, <3>1, EndsProps DEF EndStep
  <2>7. CASE EndsBy(m, FALSE, TRUE, StopsFor(t, TRUE, IdleCaller))
    BY <2>1, <2>4, <2>5, <2>7, EndsProps DEF EndStep
  <2>. QED
    BY <1>7, <2>6, <2>7, AttemptFailsTypes DEF next
<1>8. ASSUME NEW t \in Caller, MqttConnected(t), AcceptedFails(t)
      PROVE  EndStep
  <2>1. Connecting(t) /\ Begun(t)
    BY <1>0, <1>8 DEF MqttConnected, CallerOK, Connecting, Begun, Wait
  <2>2. Ends(t) \in Callers /\ Ends(t).at = "failed" /\ Ends(t).version = caller[t].version
        /\ Ends(t).pack = NoPack
    BY EndsInCallers DEF Base, TypeInv
  <2>3. \A u \in Caller : EndMove(caller[u], StopsFor(t, TRUE, Ends(t))[u])
    BY <2>1, <2>2, StopsForMoves DEF Connecting
  <2>4. EndsBy(Accepted, TRUE, TRUE, StopsFor(t, TRUE, Ends(t))) /\ up' = up \cup {epoch}
    BY <1>8 DEF AcceptedFails
  <2>5. Accepted.connected
    BY AcceptedProps
  <2>6. /\ UNCHANGED <<fixed, run, epoch, accepted, closed, answered, failures, mixed, outrun>>
        /\ surplus => surplus'
    BY <1>8 DEF MqttConnected
  <2>7. /\ ~m'.connected /\ m'.connect_state = 0 /\ ~m'.socket /\ net' = NoNet
        /\ m'.pack \in {m.pack, NoPack}
        /\ m'.sem = Released \/ (~IsOpen(m) /\ m'.sem = m.sem)
        /\ \A u \in Caller : EndMove(caller[u], caller'[u])
        /\ running' = running /\ tostop' = (tostop \/ running)
        /\ lost' = IF callbacks THEN Append(lost, epoch) ELSE lost
    BY <2>3, <2>4, <2>5, EndsProps
  <2>8. caller'[t].at \notin Wait
    <3>1. StopsFor(t, TRUE, Ends(t))[t].at \notin Wait
      BY <2>2, StopsForIs DEF Wait
    <3>. QED
      BY <2>3, <2>4, <3>1, EndsProps
  <2>. QED
    BY <2>1, <2>4, <2>6, <2>7, <2>8 DEF EndStep
<1>. QED
  BY <1>4, <1>5, <1>6, <1>7, <1>8

LEMMA YieldsSteps ==
    ASSUME Base, ControlInv, Yields
    PROVE  QuietStep \/ EndStep
<1>0. IsClient(m) /\ caller \in [Caller -> Callers] /\ "app" \in Caller /\ net \in Nets
  BY DEF Base, TypeInv, MType, CallerType, Caller, NetType
<1>. DEFINE callers == [caller EXCEPT !["app"] = IF @.at = "receiving" THEN IdleCaller ELSE @]
<1>1. CASE EndsBy(m, TRUE, TRUE, callers)
  <2>1. \A t \in Caller : EndMove(caller[t], callers[t])
    BY <1>0 DEF EndMove, Quiet, IdleCaller
  <2>2. UNCHANGED <<fixed, run, epoch, accepted, up, closed, answered, failures, mixed, outrun, surplus>>
    BY DEF Yields
  <2>. HIDE DEF callers
  <2>. QED
    BY <1>1, <2>1, <2>2, EndsProps DEF EndStep
<1>2. CASE m' = Cycled.m /\ net' = Cycled.net /\ UNCHANGED <<running, tostop, lost, caller>>
  <2>1. Thins(net.to_broker, net.to_broker)
    BY <1>0, ThinsProps DEF Nets
  <2>2. Thins(net'.to_broker, net.to_broker) /\ Thins(net'.to_client, net.to_client)
    BY <1>2, <2>1, CycledType, CycleTakesProps DEF Base, TypeInv
  <2>3. /\ m'.connected = m.connected /\ m'.socket = m.socket /\ m'.sem = m.sem /\ m'.pack = m.pack
        /\ m'.connect_state = m.connect_state
    BY <1>2, CycledType DEF Base, TypeInv
  <2>4. \A t \in Caller : QuietMove(caller[t], caller'[t])
    BY <1>2 DEF QuietMove
  <2>5. UNCHANGED <<fixed, run, epoch, accepted, up, closed, answered, failures, mixed, outrun, surplus>>
    BY DEF Yields
  <2>. QED
    BY <1>2, <2>2, <2>3, <2>4, <2>5 DEF QuietStep
<1>. QED
  BY <1>1, <1>2, YieldsCases

LEMMA MoveSteps ==
    ASSUME Base, ControlInv, NEW t \in Caller,
           \/ WaitBegins(t) \/ WaitTimesOut(t) \/ CycleTimesOut(t) \/ NoConnack(t) \/ Stopped(t)
    PROVE  MoveStep(t)
<1>0. caller[t] \in Callers /\ CallerOK(t, caller[t])
  BY DEF Base, TypeInv, CallerType, ControlInv, CallersInv
<1>. DEFINE Moved(to) ==
                /\ to.version = caller[t].version /\ to.pack \in {caller[t].pack, NoPack}
                /\ to.at \in Wait <=> At(t, "waitfor") \/ At(t, "waiting") \/ At(t, "cycling")
                /\ to.at \in Wait => /\ to.sem = caller[t].sem /\ to.call = caller[t].call
                                     /\ to.epoch = caller[t].epoch
                /\ to.at = "woken" => to.rc # 0
                /\ to.at = "resume" => to.late /\ to.pack = NoPack
                /\ to.at # "drop" /\ ~At(t, "drop") /\ to.at \notin {"completing"}
                /\ caller[t].at \in Wait /\ to.at \notin Wait => Connecting(t)
<1>1. UNCHANGED <<fixed, client, run, net, epoch, accepted, up, closed, lost, results, marks>>
  BY DEF WaitBegins, WaitTimesOut, CycleTimesOut, NoConnack, Stopped
<1>2. ASSUME NEW to \in Callers, caller' = [caller EXCEPT ![t] = to], Moved(to)
      PROVE  MoveStep(t)
  BY <1>1, <1>2 DEF MoveStep
<1>3. CASE WaitBegins(t)
  <2>. DEFINE to == [caller[t] EXCEPT !.at = IF running THEN "waiting" ELSE "cycling"]
  <2>1. to \in Callers /\ Moved(to)
    BY <1>0, <1>3 DEF WaitBegins, Callers, Places, Wait
  <2>2. caller' = [caller EXCEPT ![t] = to]
    BY <1>3 DEF WaitBegins
  <2>. HIDE DEF to, Moved
  <2>. QED
    BY <1>2, <2>1, <2>2
<1>4. CASE WaitTimesOut(t)
  <2>. DEFINE to == TimedOut(t, "woken", -1)
  <2>3. to \in Callers
    BY <1>0, <1>4 DEF WaitTimesOut, TimedOut, Callers, Places, Wait, Packs
  <2>4. /\ to.version = caller[t].version /\ to.pack = NoPack /\ to.at = "woken" /\ to.rc = -1
        /\ to.sem = caller[t].sem /\ to.call = caller[t].call /\ to.epoch = caller[t].epoch
    BY <1>0 DEF TimedOut, Callers
  <2>5. At(t, "waiting")
    BY <1>4 DEF WaitTimesOut
  <2>1. to \in Callers /\ Moved(to)
    <3>. HIDE DEF to
    <3>. QED
      BY <2>3, <2>4, <2>5 DEF Wait
  <2>2. caller' = [caller EXCEPT ![t] = to]
    BY <1>4 DEF WaitTimesOut
  <2>. HIDE DEF to, Moved
  <2>. QED
    BY <1>2, <2>1, <2>2
<1>5. CASE CycleTimesOut(t)
  <2>. DEFINE to == TimedOut(t, "resume", 0)
  <2>1. to \in Callers /\ Moved(to)
    BY <1>0, <1>5 DEF CycleTimesOut, TimedOut, Callers, Places, Wait, Packs
  <2>2. caller' = [caller EXCEPT ![t] = to]
    BY <1>5 DEF CycleTimesOut
  <2>. HIDE DEF to, Moved
  <2>. QED
    BY <1>2, <2>1, <2>2
<1>6. CASE NoConnack(t)
  <2>1. Ends(t) \in Callers /\ Ends(t).at = "failed" /\ Ends(t).version = caller[t].version
        /\ Ends(t).pack = NoPack
    BY EndsInCallers DEF Base, TypeInv
  <2>2. At(t, "resume") /\ Connecting(t)
    BY <1>0, <1>6 DEF NoConnack, CallerOK, Connecting, Wait
  <2>3. Moved(Ends(t))
    BY <2>1, <2>2 DEF Wait
  <2>4. caller' = [caller EXCEPT ![t] = Ends(t)]
    BY <1>6 DEF NoConnack
  <2>. HIDE DEF Moved
  <2>. QED
    BY <1>2, <2>1, <2>3, <2>4
<1>7. CASE Stopped(t)
  <2>. DEFINE to == [caller[t] EXCEPT !.at = caller[t].next, !.next = "idle"]
  <2>1. to \in Callers /\ to.at \in {"idle", "failed"}
    BY <1>0, <1>7 DEF Stopped, Callers, Places, Quiet
  <2>2. to.version = caller[t].version /\ to.pack = caller[t].pack
    BY <1>0 DEF Callers
  <2>3. At(t, "stopping") /\ caller' = [caller EXCEPT ![t] = to]
    BY <1>7 DEF Stopped
  <2>. HIDE DEF to
  <2>4. Moved(to)
    BY <2>1, <2>2, <2>3 DEF Wait
  <2>. HIDE DEF Moved
  <2>. QED
    BY <1>2, <2>1, <2>3, <2>4
<1>. QED
  BY <1>3, <1>4, <1>5, <1>6, <1>7

LEMMA RunRestsSteps ==
    ASSUME RunSelects \/ RunPasses \/ RunEnds
    PROVE  RunRests
  BY DEF RunSelects, RunPasses, RunEnds, RunAt, RunRests

\* Every step is of one of these kinds
LEMMA StepKinds ==
    ASSUME Base, ControlInv, [Next]_vars
    PROVE  \/ QuietStep \/ EndStep \/ RunRests \/ RunReads \/ RunFindsError \/ RunHandles
           \/ RunCalls \/ \E ok \in BOOLEAN : RunReturns(ok)
           \/ \E t \in Caller : \/ MoveStep(t) \/ WaitEnds(t) \/ PackIsRead(t) \/ CallCycles(t)
                                \/ Connect(t) \/ ConnectAgain(t) \/ TcpConnected(t)
                                \/ MqttConnected(t) /\ (AcceptedWorks(t) \/ IsRefused(t))
           \/ \E sem \in Requests : Subscribe(sem)
           \/ Subscribed \/ \E ok \in BOOLEAN : BrokerAnswers(ok)
<1>1. ASSUME NEW t \in Caller, MqttConnected(t)
      PROVE  AcceptedFails(t) \/ AcceptedWorks(t) \/ IsRefused(t)
  BY <1>1, MqttConnectedCases
<1>2. CASE \/ UNCHANGED vars \/ WaitForCompletion \/ Disconnect \/ Receive \/ Publish
           \/ PublishGoesOn \/ Completed \/ ReceiveEnds \/ LostReturns \/ TcpUp \/ Breaks
           \/ BrokerPublishes
  BY <1>2, QuietSteps
<1>3. CASE \/ KeepaliveFails \/ RunDrops \/ Drop \/ DisconnectEnds
           \/ \E t \in Caller : AttemptFails(t) \/ (MqttConnected(t) /\ AcceptedFails(t))
  BY <1>3, EndSteps
<1>4. ASSUME NEW t \in Caller,
             \/ WaitBegins(t) \/ WaitTimesOut(t) \/ CycleTimesOut(t) \/ NoConnack(t) \/ Stopped(t)
      PROVE  MoveStep(t)
  BY <1>4, MoveSteps
<1>5. CASE RunSelects \/ RunPasses \/ RunEnds
  BY <1>5, RunRestsSteps
<1>6. CASE Yields
  BY <1>6, YieldsSteps
<1>7. CASE RunStep \/ RunReturns(FALSE) \/ Begins \/ AppStep \/ \E ok \in BOOLEAN : BrokerAnswers(ok)
  BY <1>2, <1>3, <1>5, <1>6, <1>7 DEF RunStep, Begins, AppStep
<1>8. ASSUME NEW t \in Caller, Connect(t) \/ CallerStep(t)
      PROVE  \/ MoveStep(t) \/ WaitEnds(t) \/ PackIsRead(t) \/ CallCycles(t)
             \/ Connect(t) \/ ConnectAgain(t) \/ TcpConnected(t)
             \/ MqttConnected(t) /\ (AcceptedWorks(t) \/ IsRefused(t))
             \/ AttemptFails(t) \/ (MqttConnected(t) /\ AcceptedFails(t))
  BY <1>1, <1>4, <1>8 DEF CallerStep, WaitStep, ConnectStep
<1>. QED
  BY <1>2, <1>3, <1>7, <1>8 DEF Next


-----------------------------------------------------------------------------
(* What is posted.                                                         *)

LEMMA SemaphoresNext ==
    ASSUME Base, ControlInv, SemaphoresAreDown, [Next]_vars
    PROVE  SemaphoresAreDown'
<1>0. IsClient(m) /\ run.pack \in Packs
  BY DEF Base, TypeInv, MType, RunType, Runs
<1>1. ASSUME m'.sem = m.sem, IsOpen(m) => m'.connected \/ m'.connect_state # 0, outrun' = outrun
      PROVE  SemaphoresAreDown'
  BY <1>1 DEF SemaphoresAreDown, IsOpen
<1>2. ASSUME m'.connected \/ m'.connect_state # 0
      PROVE  SemaphoresAreDown'
  BY <1>2 DEF SemaphoresAreDown, IsOpen
<1>3. CASE QuietStep
  BY <1>1, <1>3 DEF QuietStep, marks, IsOpen
<1>4. CASE EndStep
  BY <1>4 DEF EndStep, SemaphoresAreDown
<1>5. CASE RunRests
  BY <1>1, <1>5 DEF RunRests, marks, IsOpen
<1>6. CASE RunReads
  BY <1>1, <1>6, CycledType DEF RunReads, IsOpen, Base, TypeInv
<1>7. CASE RunFindsError
  <2>1. m' = m \/ (m'.connect_state = 3 /\ m.connect_state = 3)
    BY <1>0, <1>7 DEF RunFindsError, Posted, IsClient, Clients
  <2>2. outrun' = outrun
    BY <1>7 DEF RunFindsError
  <2>. QED
    BY <1>1, <1>2, <2>1, <2>2 DEF IsOpen
<1>8. CASE RunHandles
  <2>1. m'.connected = m.connected /\ m'.connect_state = m.connect_state /\ IsOpen(m)
    BY <1>0, <1>8, WokenProps DEF RunHandles, Base, TypeInv
  <2>. QED
    BY <1>2, <2>1 DEF IsOpen
<1>9. CASE RunCalls
  BY <1>1, <1>9 DEF RunCalls, IsOpen
<1>10. ASSUME NEW ok \in BOOLEAN, RunReturns(ok)
       PROVE  SemaphoresAreDown'
  <2>1. m'.connected = m.connected /\ m'.connect_state = m.connect_state
    <3>1. PICK c : IsClient(c) /\ c.connected = m.connected /\ c.connect_state = m.connect_state
                   /\ m' = Woken(c, run.pack)
      BY <1>10, ReturnsProps
    <3>. QED
      BY <3>1, <1>0, WokenProps DEF Base, TypeInv
  <2>2. outrun' = (outrun \/ (m'.sem # m.sem /\ ~(m.socket /\ run.epoch = epoch)))
    BY <1>10 DEF RunReturns
  <2>3. m.socket => IsOpen(m)
    BY DEF Base
  <2>. QED
    BY <2>1, <2>2, <2>3 DEF SemaphoresAreDown, IsOpen
<1>11. ASSUME NEW t \in Caller, MoveStep(t) \/ PackIsRead(t)
       PROVE  SemaphoresAreDown'
  BY <1>1, <1>11 DEF MoveStep, PackIsRead, marks, IsOpen
<1>12. ASSUME NEW t \in Caller, WaitEnds(t)
       PROVE  SemaphoresAreDown'
  <2>1. m'.connected = m.connected /\ m'.connect_state = m.connect_state /\ m.sem # Released
        /\ outrun' = outrun
    <3>1. caller[t].sem \in Semaphores /\ m.sem[caller[t].sem] > 0
      BY <1>12 DEF WaitEnds, Base, TypeInv, CallerType, Callers
    <3>2. m.sem # Released
      BY <3>1 DEF Released
    <3>. QED
      BY <1>0, <1>12, <3>2 DEF WaitEnds, IsClient, Clients
  <2>. QED
    BY <2>1 DEF SemaphoresAreDown, IsOpen
<1>13. ASSUME NEW t \in Caller, CallCycles(t)
       PROVE  SemaphoresAreDown'
  BY <1>1, <1>13, CycledType DEF CallCycles, IsOpen, Base, TypeInv
<1>14. ASSUME NEW t \in Caller, Connect(t) \/ ConnectAgain(t)
       PROVE  SemaphoresAreDown'
  <2>1. PICK version, late : Attempts(t, version, late)
    BY <1>14 DEF Connect, ConnectAgain
  <2>2. \/ m' = m
        \/ m' = [m EXCEPT !.connect_state = 1, !.socket = TRUE]
        \/ m' = [m EXCEPT !.connect_state = 3, !.socket = TRUE]
    BY <1>14, <2>1, AttemptsProps
  <2>3. outrun' = outrun
    BY <2>1 DEF Attempts
  <2>4. m' = m \/ m'.connect_state # 0
    <3>1. CASE m' = [m EXCEPT !.connect_state = 1, !.socket = TRUE]
      BY <1>0, <3>1 DEF IsClient, Clients
    <3>2. CASE m' = [m EXCEPT !.connect_state = 3, !.socket = TRUE]
      BY <1>0, <3>2 DEF IsClient, Clients
    <3>. QED
      BY <2>2, <3>1, <3>2
  <2>. QED
    BY <1>1, <1>2, <2>3, <2>4 DEF IsOpen
<1>15. ASSUME NEW t \in Caller, TcpConnected(t)
       PROVE  SemaphoresAreDown'
  <2>1. m' = m \/ m'.connect_state = 3
    BY <1>0, <1>15 DEF TcpConnected, IsClient, Clients
  <2>. QED
    BY <1>1, <1>2, <1>15, <2>1 DEF IsOpen, TcpConnected
<1>16. ASSUME NEW t \in Caller, MqttConnected(t), AcceptedWorks(t) \/ IsRefused(t)
       PROVE  SemaphoresAreDown'
  <2>1. CASE AcceptedWorks(t)
    BY <1>2, <2>1, AcceptedProps DEF AcceptedWorks
  <2>2. CASE IsRefused(t)
    BY <1>0, <1>1, <1>16, <2>2 DEF IsRefused, MqttConnected, IsOpen, IsClient, Clients
  <2>. QED
    BY <1>16, <2>1, <2>2
<1>17. ASSUME NEW sem \in Requests, Subscribe(sem)
       PROVE  SemaphoresAreDown'
  BY <1>1, <1>17 DEF Subscribe, IsOpen
<1>18. CASE Subscribed
  <2>1. m'.sem = m.sem /\ m'.connected = m.connected /\ m'.connect_state = m.connect_state
    BY <1>0, <1>18 DEF Subscribed, IsClient, Clients
  <2>. QED
    BY <1>1, <1>18, <2>1 DEF Subscribed, IsOpen
<1>19. ASSUME NEW ok \in BOOLEAN, BrokerAnswers(ok)
       PROVE  SemaphoresAreDown'
  BY <1>1, <1>19 DEF BrokerAnswers, IsOpen
<1>. QED
  BY <1>3, <1>4, <1>5, <1>6, <1>7, <1>8, <1>9, <1>10, <1>11, <1>12, <1>13, <1>14, <1>15, <1>16,
     <1>17, <1>18, <1>19, StepKinds


-----------------------------------------------------------------------------
(* Connections that were up.                                               *)

\* A connection that was up, and is not, was closed or reported
Accounted(ups, ended, told, is_up, last) ==
    \A e \in ups : e < last \/ ~is_up => e \in ended \/ Contains(told, e)

LossInv ==
    /\ \A t \in Caller : Begun(t) => epoch \notin up
    /\ \A e \in up : e <= epoch
    /\ m.connected => epoch \in up /\ \A i \in DOMAIN lost : lost[i] # epoch
    /\ \A i \in DOMAIN lost : lost[i] \in up
    /\ \A i, j \in DOMAIN lost : lost[i] = lost[j] => i = j
    /\ callbacks => Accounted(up, closed, lost, m.connected, epoch)

LEMMA LossReported == LossInv => LossIsReported
  BY DEF LossInv, LossIsReported, Accounted

LEMMA LossInit == Init => LossInv
<1>. SUFFICES ASSUME Init PROVE LossInv
  OBVIOUS
<1>1. up = {} /\ lost = <<>> /\ ~m.connected
  BY DEF Init
<1>. QED
  BY <1>1 DEF LossInv, Accounted

\* A step that neither begins nor ends a connection
LEMMA LossKeeps ==
    ASSUME LossInv, UNCHANGED <<callbacks, epoch, up, closed, lost>>, m'.connected = m.connected,
           \A t \in Caller : Begun(t)' => Begun(t)
    PROVE  LossInv'
<1>1. (\A t \in Caller : Begun(t) => epoch \notin up)'
  BY DEF LossInv
<1>2. (callbacks => Accounted(up, closed, lost, m.connected, epoch))'
  BY DEF LossInv, Accounted
<1>. QED
  BY <1>1, <1>2 DEF LossInv

LEMMA LossEnds ==
    ASSUME Base, ControlInv, LossInv, EndStep
    PROVE  LossInv'
<1>0. lost \in Seq(Nat) /\ epoch \in Nat /\ up \subseteq Nat /\ callbacks \in BOOLEAN
  BY DEF Base, TypeInv, RestType
<1>1. ~m'.connected /\ UNCHANGED <<callbacks, epoch>> /\ callbacks' \in BOOLEAN
  BY <1>0 DEF EndStep, fixed
<1>2. \A t \in Caller : Begun(t)' => Begun(t) /\ caller'[t] = caller[t]
  <2>. SUFFICES ASSUME NEW t \in Caller, Begun(t)' PROVE Begun(t) /\ caller'[t] = caller[t]
    OBVIOUS
  <2>1. EndMove(caller[t], caller'[t])
    BY DEF EndStep
  <2>. QED
    BY <2>1 DEF EndMove, Begun, Connecting, Wait
<1>4. Contains(Append(lost, epoch), epoch) /\ \A e : Contains(lost, e) => Contains(Append(lost, epoch), e)
  BY <1>0 DEF Contains
<1>5. ASSUME lost' = Append(lost, epoch), epoch \in up', up \subseteq up',
             \A i \in DOMAIN lost : lost[i] # epoch
      PROVE  (\A i \in DOMAIN lost : lost[i] \in up)' /\ (\A i, j \in DOMAIN lost : lost[i] = lost[j] => i = j)'
  BY <1>0, <1>5 DEF LossInv
<1>6. ASSUME up' = up,
             \/ lost' = lost /\ (~callbacks \/ ~m.connected \/ closed' = closed \cup {epoch})
             \/ lost' = Append(lost, epoch) /\ m.connected
      PROVE  LossInv'
  <2>1. (\A t \in Caller : Begun(t) => epoch \notin up)' /\ (\A e \in up : e <= epoch)'
    BY <1>1, <1>2, <1>6 DEF LossInv
  <2>2. CASE lost' = lost /\ (~callbacks \/ ~m.connected \/ closed' = closed \cup {epoch})
    <3>1. (callbacks => Accounted(up, closed, lost, m.connected, epoch))'
      <4>. SUFFICES ASSUME callbacks, NEW e \in up PROVE e \in closed' \/ Contains(lost, e)
        BY <1>1, <1>6, <2>2 DEF Accounted
      <4>1. e = epoch \/ e < epoch
        BY <1>0 DEF LossInv
      <4>2. closed \subseteq closed'
        BY DEF EndStep
      <4>3. CASE ~m.connected
        BY <4>2, <4>3 DEF LossInv, Accounted
      <4>4. CASE closed' = closed \cup {epoch}
        BY <4>1, <4>4 DEF LossInv, Accounted
      <4>. QED
        BY <2>2, <4>3, <4>4
    <3>. QED
      BY <1>1, <1>6, <2>1, <2>2, <3>1 DEF LossInv
  <2>3. CASE lost' = Append(lost, epoch) /\ m.connected
    <3>1. epoch \in up /\ \A i \in DOMAIN lost : lost[i] # epoch
      BY <2>3 DEF LossInv
    <3>2. (callbacks => Accounted(up, closed, lost, m.connected, epoch))'
      <4>. SUFFICES ASSUME callbacks, NEW e \in up PROVE e \in closed' \/ Contains(lost', e)
        BY <1>1, <1>6 DEF Accounted
      <4>1. e = epoch \/ e < epoch
        BY <1>0 DEF LossInv
      <4>2. closed \subseteq closed'
        BY DEF EndStep
      <4>. QED
        BY <1>4, <2>3, <4>1, <4>2 DEF LossInv, Accounted
    <3>3. (\A i \in DOMAIN lost : lost[i] \in up)' /\ (\A i, j \in DOMAIN lost : lost[i] = lost[j] => i = j)'
      BY <1>5, <1>6, <2>3, <3>1
    <3>. QED
      BY <1>1, <2>1, <3>2, <3>3 DEF LossInv
  <2>. QED
    BY <1>6, <2>2, <2>3
<1>7. CASE /\ up' = up \cup {epoch} /\ \E t \in Caller : Begun(t) /\ caller'[t].at \notin Wait
           /\ lost' = IF callbacks THEN Append(lost, epoch) ELSE lost
  <2>1. PICK t \in Caller : Begun(t) /\ caller'[t].at \notin Wait
    BY <1>7
  <2>2. ~m.connected /\ \A u \in Caller : Begun(u) => u = t
    BY <2>1 DEF ControlInv, OpenInv, Begun, Caller
  <2>3. \A u \in Caller : ~Begun(u)'
    BY <1>2, <2>1, <2>2 DEF Begun
  <2>4. epoch \notin up /\ \A i \in DOMAIN lost : lost[i] \in up /\ lost[i] # epoch
    BY <2>1 DEF LossInv
  <2>5. (\A e \in up : e <= epoch)'
    BY <1>0, <1>1, <1>7 DEF LossInv
  <2>6. (\A i \in DOMAIN lost : lost[i] \in up)' /\ (\A i, j \in DOMAIN lost : lost[i] = lost[j] => i = j)'
    <3>1. CASE callbacks
      BY <1>5, <1>7, <2>4, <3>1
    <3>2. CASE ~callbacks
      BY <1>7, <2>4, <3>2 DEF LossInv
    <3>. QED
      BY <3>1, <3>2
  <2>7. (callbacks => Accounted(up, closed, lost, m.connected, epoch))'
    <3>. SUFFICES ASSUME callbacks, NEW e \in up \cup {epoch} PROVE e \in closed' \/ Contains(lost', e)
      BY <1>1, <1>7 DEF Accounted
    <3>1. lost' = Append(lost, epoch) /\ closed \subseteq closed'
      BY <1>7 DEF EndStep
    <3>. QED
      BY <1>4, <2>2, <3>1 DEF LossInv, Accounted
  <2>. QED
    BY <1>1, <2>3, <2>5, <2>6, <2>7 DEF LossInv
<1>. QED
  BY <1>6, <1>7 DEF EndStep

LEMMA LossNext ==
    ASSUME Base, ControlInv, LossInv, [Next]_vars
    PROVE  LossInv'
<1>0. /\ IsClient(m) /\ run.pack \in Packs /\ caller \in [Caller -> Callers]
      /\ epoch \in Nat /\ up \subseteq Nat
      /\ \A t \in Caller : CallerOK(t, caller[t])
  BY DEF Base, TypeInv, MType, RunType, Runs, CallerType, RestType, ControlInv, CallersInv
<1>1. ASSUME UNCHANGED <<callbacks, epoch, up, closed, lost, caller>>, m'.connected = m.connected
      PROVE  LossInv'
  BY <1>1, LossKeeps DEF Begun, Connecting
<1>2. ASSUME NEW t \in Caller, NEW to, caller' = [caller EXCEPT ![t] = to],
             to.at \notin Wait \/ to.version = 0 \/ Begun(t),
             UNCHANGED <<callbacks, epoch, up, closed, lost>>, m'.connected = m.connected
      PROVE  LossInv'
  <2>1. \A u \in Caller : Begun(u)' => Begun(u)
    BY <1>0, <1>2 DEF Begun, Connecting
  <2>. QED
    BY <1>2, <2>1, LossKeeps
<1>3. CASE QuietStep
  <2>1. \A u \in Caller : Begun(u)' => Begun(u)
    BY <1>3 DEF QuietStep, QuietMove, Begun, Connecting
  <2>. QED
    BY <1>3, <2>1, LossKeeps DEF QuietStep, fixed
<1>4. CASE EndStep
  BY <1>4, LossEnds
<1>5. CASE RunRests
  BY <1>1, <1>5 DEF RunRests, fixed
<1>6. CASE RunReads
  BY <1>1, <1>6, CycledType DEF RunReads, Base, TypeInv
<1>7. CASE RunFindsError
  BY <1>0, <1>1, <1>7 DEF RunFindsError, Posted, IsClient, Clients
<1>8. CASE RunHandles
  <2>1. m'.connected = m.connected
    BY <1>0, <1>8, WokenProps DEF RunHandles, Base, TypeInv
  <2>. QED
    BY <1>1, <1>8, <2>1 DEF RunHandles
<1>9. CASE RunCalls
  BY <1>1, <1>9 DEF RunCalls
<1>10. ASSUME NEW ok \in BOOLEAN, RunReturns(ok)
       PROVE  LossInv'
  <2>1. m'.connected = m.connected
    <3>1. PICK c : IsClient(c) /\ c.connected = m.connected /\ m' = Woken(c, run.pack)
      BY <1>10, ReturnsProps
    <3>. QED
      BY <3>1, <1>0, WokenProps DEF Base, TypeInv
  <2>. QED
    BY <1>1, <1>10, <2>1 DEF RunReturns
<1>11. ASSUME NEW t \in Caller, MoveStep(t)
       PROVE  LossInv'
  <2>1. PICK to : /\ caller' = [caller EXCEPT ![t] = to] /\ to.version = caller[t].version
                  /\ to.at \in Wait => caller[t].at \in Wait
    BY <1>11 DEF MoveStep, Wait
  <2>. QED
    BY <1>2, <1>11, <2>1 DEF MoveStep, Begun, Connecting, fixed
<1>12. ASSUME NEW t \in Caller, WaitEnds(t)
       PROVE  LossInv'
  <2>. DEFINE to == [caller[t] EXCEPT !.at = "woken",
                                      !.rc = IF caller[t].sem = "connect_sem" THEN m.rc ELSE 0]
  <2>1. to.version = caller[t].version
    BY <1>0 DEF Callers
  <2>2. caller' = [caller EXCEPT ![t] = to] /\ caller[t].at \in Wait
    BY <1>12 DEF WaitEnds, Wait
  <2>3. m'.connected = m.connected
    BY <1>0, <1>12 DEF WaitEnds, IsClient, Clients
  <2>. HIDE DEF to
  <2>. QED
    BY <1>2, <1>12, <2>1, <2>2, <2>3 DEF WaitEnds, Begun, Connecting
<1>13. ASSUME NEW t \in Caller, PackIsRead(t)
       PROVE  LossInv'
  <2>. DEFINE to == [caller[t] EXCEPT !.at = "resume", !.pack = m.pack]
  <2>1. to.version = caller[t].version
    BY <1>0 DEF Callers
  <2>2. caller' = [caller EXCEPT ![t] = to] /\ caller[t].at \in Wait
    BY <1>13 DEF PackIsRead, Wait
  <2>. HIDE DEF to
  <2>. QED
    BY <1>2, <1>13, <2>1, <2>2 DEF PackIsRead, Begun, Connecting
<1>14. ASSUME NEW t \in Caller, CallCycles(t)
       PROVE  LossInv'
  <2>. DEFINE to == [caller[t] EXCEPT !.at = "resume", !.pack = Cycled.pack,
                                      !.rc = IF Cycled.rc = 0 THEN SocketError ELSE -1]
  <2>1. to.version = caller[t].version
    BY <1>0 DEF Callers
  <2>2. caller' = [caller EXCEPT ![t] = to] \/ caller' = caller
    BY <1>14 DEF CallCycles
  <2>3. m'.connected = m.connected
    BY <1>14, CycledType DEF CallCycles, Base, TypeInv
  <2>. HIDE DEF to
  <2>. QED
    BY <1>1, <1>2, <1>14, <2>1, <2>2, <2>3 DEF CallCycles, Begun, Connecting, Wait
<1>15. ASSUME NEW t \in Caller, Connect(t) \/ ConnectAgain(t)
       PROVE  LossInv'
  <2>1. PICK version, late : Attempts(t, version, late)
    BY <1>15 DEF Connect, ConnectAgain
  <2>2. UNCHANGED <<callbacks, up, closed, lost>>
    BY <2>1 DEF Attempts
  <2>3. ~m.connected
    BY <1>0, <1>15 DEF Connect, ConnectAgain, IsOpen, CallerOK, ControlInv, OpenInv, Connecting
  <2>4. PICK to : /\ caller' = [caller EXCEPT ![t] = to]
                  /\ \/ to.at = "failed" /\ UNCHANGED <<m, epoch>>
                     \/ epoch' = epoch + 1 /\ ~m'.connected
    <3>1. PICK to : /\ caller' = [caller EXCEPT ![t] = to]
                    /\ \/ to.at = "failed" /\ UNCHANGED <<m, epoch>>
                       \/ epoch' = epoch + 1 /\ m' = [m EXCEPT !.connect_state = 1, !.socket = TRUE]
                       \/ epoch' = epoch + 1 /\ m' = [m EXCEPT !.connect_state = 3, !.socket = TRUE]
      BY <2>1, AttemptsProps
    <3>2. m' = [m EXCEPT !.connect_state = 1, !.socket = TRUE] => ~m'.connected
      BY <1>0, <2>3 DEF IsClient, Clients
    <3>3. m' = [m EXCEPT !.connect_state = 3, !.socket = TRUE] => ~m'.connected
      BY <1>0, <2>3 DEF IsClient, Clients
    <3>. QED
      BY <3>1, <3>2, <3>3
  <2>5. CASE to.at = "failed" /\ UNCHANGED <<m, epoch>>
    BY <1>2, <2>2, <2>4, <2>5 DEF Wait
  <2>6. CASE epoch' = epoch + 1 /\ ~m'.connected
    <3>1. \A e \in up : e <= epoch /\ e < epoch'
      BY <1>0, <2>6 DEF LossInv
    <3>2. epoch' \notin up'
      <4>1. epoch + 1 \notin up
        BY <1>0 DEF LossInv
      <4>. QED
        BY <2>2, <2>6, <4>1
    <3>3. (callbacks => Accounted(up, closed, lost, m.connected, epoch))'
      BY <2>2, <2>3 DEF LossInv, Accounted
    <3>4. (\A e \in up : e <= epoch)'
      BY <1>0, <2>2, <2>6, <3>1
    <3>. QED
      BY <2>2, <2>6, <3>2, <3>3, <3>4 DEF LossInv
  <2>. QED
    BY <2>4, <2>5, <2>6
<1>16. ASSUME NEW t \in Caller, TcpConnected(t)
       PROVE  LossInv'
  <2>1. PICK to : caller' = [caller EXCEPT ![t] = to]
    BY <1>16 DEF TcpConnected
  <2>2. Begun(t)
    BY <1>0, <1>16 DEF TcpConnected, CallerOK, Begun, Connecting, Wait
  <2>3. m'.connected = m.connected
    BY <1>0, <1>16 DEF TcpConnected, IsClient, Clients
  <2>. QED
    BY <1>2, <1>16, <2>1, <2>2, <2>3 DEF TcpConnected
<1>17. ASSUME NEW t \in Caller, MqttConnected(t), AcceptedWorks(t) \/ IsRefused(t)
       PROVE  LossInv'
  <2>1. UNCHANGED <<callbacks, epoch, closed, lost>>
    BY <1>17 DEF MqttConnected, AcceptedWorks, IsRefused
  <2>2. Begun(t)
    BY <1>0, <1>17 DEF MqttConnected, CallerOK, Begun, Connecting, Wait
  <2>3. CASE IsRefused(t)
    <3>1. m'.connected = m.connected /\ up' = up /\ caller' = [caller EXCEPT ![t] = Ends(t)]
      BY <1>0, <2>3 DEF IsRefused, IsClient, Clients
    <3>. QED
      BY <1>2, <2>1, <2>2, <3>1
  <2>4. CASE AcceptedWorks(t)
    <3>1. m'.connected /\ up' = up \cup {epoch} /\ caller' = [caller EXCEPT ![t] = IdleCaller]
      BY <2>4, AcceptedProps DEF AcceptedWorks
    <3>2. ~m.connected /\ \A u \in Caller \ {t} : ~Connecting(u)
      BY <2>2 DEF ControlInv, OpenInv, Begun, Caller
    <3>3. \A u \in Caller : ~Begun(u)'
      BY <1>0, <3>1, <3>2 DEF Begun, Connecting, IdleCaller
    <3>4. epoch \notin up /\ \A i \in DOMAIN lost : lost[i] \in up /\ lost[i] # epoch
      BY <2>2 DEF LossInv
    <3>5. (callbacks => Accounted(up, closed, lost, m.connected, epoch))'
      <4>. SUFFICES ASSUME callbacks, NEW e \in up', e < epoch PROVE e \in closed' \/ Contains(lost', e)
        BY <2>1, <3>1 DEF Accounted
      <4>1. e \in up
        BY <1>0, <3>1
      <4>. QED
        BY <2>1, <3>2, <4>1 DEF LossInv, Accounted
    <3>6. (\A e \in up : e <= epoch)'
      BY <1>0, <2>1, <3>1 DEF LossInv
    <3>7. (m.connected => epoch \in up /\ \A i \in DOMAIN lost : lost[i] # epoch)'
          /\ (\A i \in DOMAIN lost : lost[i] \in up)'
          /\ (\A i, j \in DOMAIN lost : lost[i] = lost[j] => i = j)'
      BY <2>1, <3>1, <3>4 DEF LossInv
    <3>. QED
      BY <3>3, <3>5, <3>6, <3>7 DEF LossInv
  <2>. QED
    BY <1>17, <2>3, <2>4
<1>18. ASSUME NEW sem \in Requests, Subscribe(sem)
       PROVE  LossInv'
  <2>1. PICK to : caller' = [caller EXCEPT !["app"] = to] /\ to.version = 0
    <3>1. [CallerAt("waitfor") EXCEPT !.sem = sem, !.call = calls', !.epoch = epoch].version = 0
          /\ CallerAt("drop").version = 0
      BY DEF CallerAt, IdleCaller
    <3>. QED
      BY <1>18, <3>1 DEF Subscribe
  <2>. QED
    BY <1>2, <1>18, <2>1 DEF Subscribe, Caller
<1>19. CASE Subscribed
  <2>1. caller' = [caller EXCEPT !["app"] = IdleCaller] \/ caller' = [caller EXCEPT !["app"] = CallerAt("drop")]
    BY <1>19 DEF Subscribed
  <2>2. IdleCaller.version = 0 /\ CallerAt("drop").version = 0 /\ "app" \in Caller
    BY DEF CallerAt, IdleCaller, Caller
  <2>3. m'.connected = m.connected
    BY <1>0, <1>19 DEF Subscribed, IsClient, Clients
  <2>. QED
    BY <1>2, <1>19, <2>1, <2>2, <2>3 DEF Subscribed
<1>20. ASSUME NEW ok \in BOOLEAN, BrokerAnswers(ok)
       PROVE  LossInv'
  BY <1>1, <1>20 DEF BrokerAnswers
<1>. QED
  BY <1>3, <1>4, <1>5, <1>6, <1>7, <1>8, <1>9, <1>10, <1>11, <1>12, <1>13, <1>14, <1>15, <1>16,
     <1>17, <1>18, <1>19, <1>20, StepKinds


-----------------------------------------------------------------------------
(* What packets are under way, and from which connection.                  *)

IsAnswer(p) == p.type \in {"SUBACK", "UNSUBACK"}
IsConnack(p) == p.type = "CONNACK"

\* An answer is to a call on a connection that was up, and a CONNACK says what the
\* broker did
Known(p, ups, last, acc) ==
    /\ IsAnswer(p) => p.epoch \in ups
    /\ IsConnack(p) => p.epoch <= last /\ (p.accepted => p.epoch \in acc)

\* What is under way on a connection is its own
OwnToBroker(s, ups, last) ==
    \A i \in DOMAIN s : IsAnswer(s[i]) => s[i].epoch = last /\ last \in ups
OwnToClient(s, ups, last, acc) ==
    \A i \in DOMAIN s : /\ Known(s[i], ups, last, acc)
                        /\ IsAnswer(s[i]) \/ IsConnack(s[i]) => s[i].epoch = last

HeldKnown == /\ Known(run.pack, up, epoch, accepted) /\ Known(m.pack, up, epoch, accepted)
             /\ \A t \in Caller : Known(caller[t].pack, up, epoch, accepted)

PacksInv ==
    /\ HeldKnown
    /\ OwnToBroker(net.to_broker, up, epoch) /\ OwnToClient(net.to_client, up, epoch, accepted)
    /\ run.epoch <= epoch
    /\ ConnectedIsAccepted

LEMMA KnownGrows ==
    ASSUME NEW p, p \in Packs \/ p \in ToClient, NEW ups, NEW last \in Nat, NEW acc,
           NEW ups2, ups \subseteq ups2, NEW last2 \in Nat, last <= last2, NEW acc2, acc \subseteq acc2,
           Known(p, ups, last, acc)
    PROVE  Known(p, ups2, last2, acc2)
<1>1. IsConnack(p) => p.epoch \in Nat
  BY DEF IsConnack, Packs, ToClient, Connacks, Answers, NoPack
<1>. QED
  BY <1>1 DEF Known

LEMMA NoPackKnown == \A ups, last, acc : Known(NoPack, ups, last, acc)
  BY DEF Known, IsAnswer, IsConnack, NoPack

LEMMA OwnThins ==
    ASSUME NEW s, NEW r, NEW ups, NEW last, NEW acc, Thins(s, r)
    PROVE  /\ OwnToBroker(r, ups, last) => OwnToBroker(s, ups, last)
           /\ OwnToClient(r, ups, last, acc) => OwnToClient(s, ups, last, acc)
<1>1. PICK k \in {0, 1} : \A i \in DOMAIN s :
          s[i].type \in Plain \/ (i + k \in DOMAIN r /\ s[i] = r[i + k])
  BY DEF Thins
<1>2. \A p : p.type \in Plain => ~IsAnswer(p) /\ ~IsConnack(p)
  BY DEF Plain, IsAnswer, IsConnack
<1>3. OwnToBroker(r, ups, last) => OwnToBroker(s, ups, last)
  BY <1>1, <1>2 DEF OwnToBroker
<1>4. OwnToClient(r, ups, last, acc) => OwnToClient(s, ups, last, acc)
  BY <1>1, <1>2 DEF OwnToClient, Known
<1>. QED
  BY <1>3, <1>4

LEMMA OwnGrows ==
    ASSUME NEW s, NEW ups, NEW last \in Nat, NEW acc, NEW ups2, ups \subseteq ups2, NEW acc2,
           acc \subseteq acc2
    PROVE  /\ OwnToBroker(s, ups, last) => OwnToBroker(s, ups2, last)
           /\ OwnToClient(s, ups, last, acc) => OwnToClient(s, ups2, last, acc2)
  BY DEF OwnToBroker, OwnToClient, Known

\* A step on the same connection, after which what threads have in their hands is known
LEMMA PacksKeep ==
    ASSUME Base, PacksInv, epoch' = epoch, up \subseteq up', accepted \subseteq accepted',
           Thins(net'.to_broker, net.to_broker), Thins(net'.to_client, net.to_client),
           Known(run'.pack, up, epoch, accepted), run'.pack \in Packs, run'.epoch <= epoch,
           Known(m'.pack, up, epoch, accepted), m'.pack \in Packs,
           \A t \in Caller : Known(caller'[t].pack, up, epoch, accepted) /\ caller'[t].pack \in Packs,
           ConnectedIsAccepted'
    PROVE  PacksInv'
<1>0. epoch \in Nat
  BY DEF Base, TypeInv, RestType
<1>1. /\ OwnToBroker(net'.to_broker, up, epoch)
      /\ OwnToClient(net'.to_client, up, epoch, accepted)
  BY OwnThins DEF PacksInv
<1>2. OwnToBroker(net'.to_broker, up', epoch') /\ OwnToClient(net'.to_client, up', epoch', accepted')
  BY <1>0, <1>1, OwnGrows
<1>3. /\ Known(run'.pack, up', epoch', accepted') /\ Known(m'.pack, up', epoch', accepted')
      /\ \A t \in Caller : Known(caller'[t].pack, up', epoch', accepted')
  BY <1>0, KnownGrows
<1>. QED
  BY <1>2, <1>3 DEF PacksInv, HeldKnown


-----------------------------------------------------------------------------
(* What the other steps do to what is awaited.                             *)

SameClient == /\ m'.connected = m.connected /\ m'.connect_state = m.connect_state
              /\ m'.socket = m.socket
SameHeld == m'.sem = m.sem /\ m'.pack = m.pack
SameMarks == UNCHANGED <<fixed, running, epoch, accepted, up, closed, lost, answered, failures, marks>>
SameRest == SameMarks /\ UNCHANGED tostop

\* p is taken off what is under way to the client, or nothing that is awaited
Takes(p, n) ==
    /\ n.to_broker = net.to_broker
    /\ \/ p = NoPack /\ Thins(n.to_client, net.to_client)
       \/ /\ p \in Connacks \cup Answers /\ m.connect_state # 1 /\ net.to_client # <<>>
          /\ p = Head(net.to_client) /\ n.to_client = Tail(net.to_client)

LEMMA CycledTakes ==
    ASSUME Base
    PROVE  Takes(Cycled.pack, Cycled.net)
<1>1. Cycled.net.to_broker = net.to_broker /\ Cycled.pack \in Packs
  BY CycledType DEF Base, TypeInv
<1>. QED
  BY <1>1, CycleTakesProps DEF CycleTakes, Takes, Packs

LEMMA RunReadsDoes ==
    ASSUME Base, RunReads
    PROVE  /\ SameClient /\ SameHeld /\ SameRest /\ caller' = caller
           /\ run'.at = "handle" /\ run'.epoch = 0 /\ run'.pack \in Packs /\ Takes(run'.pack, net')
           /\ run.at = "read"
<1>1. /\ m' = Cycled.m /\ net' = Cycled.net
      /\ run' = [RunAt("handle") EXCEPT !.rc = Cycled.rc, !.pack = Cycled.pack]
      /\ SameRest /\ caller' = caller /\ run.at = "read"
  BY DEF RunReads, SameRest, SameMarks
<1>2. run'.at = "handle" /\ run'.epoch = 0 /\ run'.pack = Cycled.pack
  BY <1>1 DEF RunAt
<1>. QED
  BY <1>1, <1>2, CycledType, CycledTakes DEF Base, TypeInv, SameClient, SameHeld

\* A packet is given to whom it is for
Gives(pack) ==
    \/ SameHeld /\ ~IsAnswer(pack)
    \/ \E s \in Semaphores :
          /\ m'.sem = [m.sem EXCEPT ![s] = m.sem[s] + 1]
          /\ \/ s = "connack_sem" /\ pack.type = "CONNACK" /\ m.sem[s] = 0 /\ m'.pack = pack
             \/ s = "suback_sem" /\ pack.type = "SUBACK" /\ m'.pack = pack
             \/ s = "unsuback_sem" /\ pack.type = "UNSUBACK" /\ m'.pack = pack
             \/ s = "connect_sem" /\ pack.type = "none" /\ m.connect_state = 1 /\ m'.pack = m.pack

LEMMA WokenGives ==
    ASSUME NEW c, IsClient(c), Base, c.sem = m.sem, c.pack = m.pack,
           c.connected = m.connected /\ c.connect_state = m.connect_state /\ c.socket = m.socket,
           m' = Woken(c, run.pack)
    PROVE  SameClient /\ Gives(run.pack)
<1>1. run.pack \in Packs /\ NetType
  BY DEF Base, TypeInv, RunType, Runs
<1>2. /\ SameClient
      /\ \/ m' = c /\ run.pack.type \notin {"SUBACK", "UNSUBACK"}
         \/ \E s \in Semaphores : Wakes(c, run.pack, s)
  BY <1>1, WokenProps DEF SameClient
<1>3. CASE m' = c /\ run.pack.type \notin {"SUBACK", "UNSUBACK"}
  BY <1>2, <1>3 DEF Gives, SameHeld, IsAnswer
<1>4. ASSUME NEW s \in Semaphores, Wakes(c, run.pack, s)
      PROVE  Gives(run.pack)
  BY <1>4 DEF Gives, Wakes
<1>. QED
  BY <1>2, <1>3, <1>4

LEMMA RunHandlesDoes ==
    ASSUME Base, RunHandles
    PROVE  /\ SameClient /\ SameRest /\ caller' = caller /\ net' = net /\ Gives(run.pack)
           /\ run' = RunAt("cycle") /\ run.at = "handle" /\ ~tostop /\ m.socket
<1>1. /\ SameRest /\ caller' = caller /\ net' = net /\ m' = Woken(m, run.pack)
      /\ run' = RunAt("cycle") /\ run.at = "handle" /\ ~tostop /\ m.socket
  BY DEF RunHandles, SameRest, SameMarks
<1>. QED
  BY <1>1, WokenGives DEF Base, TypeInv, MType

LEMMA RunReturnsDoes ==
    ASSUME Base, NEW ok \in BOOLEAN, RunReturns(ok)
    PROVE  /\ SameClient /\ Gives(run.pack)
           /\ UNCHANGED <<fixed, running, tostop, epoch, accepted, up, closed, lost, answered,
                          failures, mixed, surplus, caller, net>>
           /\ outrun' = (outrun \/ (m'.sem # m.sem /\ ~(m.socket /\ run.epoch = epoch)))
           /\ run' = RunAt("cycle") /\ run.at = "callback"
<1>1. PICK c : /\ IsClient(c) /\ c.sem = m.sem /\ c.pack = m.pack /\ m' = Woken(c, run.pack)
               /\ c.connected = m.connected /\ c.connect_state = m.connect_state
               /\ c.socket = m.socket
  BY ReturnsProps
<1>2. SameClient /\ Gives(run.pack)
  BY <1>1, WokenGives
<1>. QED
  BY <1>2 DEF RunReturns

LEMMA RunFindsErrorDoes ==
    ASSUME Base, RunFindsError
    PROVE  /\ SameClient /\ SameRest /\ caller' = caller /\ net' = net /\ m'.pack = m.pack
           /\ \/ m'.sem = m.sem
              \/ /\ m'.sem = [m.sem EXCEPT !["connack_sem"] = m.sem["connack_sem"] + 1]
                 /\ ~m.connected /\ m.connect_state = 3
           /\ run.at = "handle" /\ ~tostop
           /\ run' = RunAt("cycle") \/ (run' = RunAt("drop") /\ m.connected)
<1>1. IsClient(m)
  BY DEF Base, TypeInv, MType
<1>2. SameRest /\ caller' = caller /\ net' = net /\ run.at = "handle" /\ ~tostop
      /\ (run' = RunAt("cycle") \/ (run' = RunAt("drop") /\ m.connected))
  BY DEF RunFindsError, SameRest, SameMarks
<1>3. m' = m \/ (m' = Posted(m, "connack_sem") /\ ~m.connected /\ m.connect_state = 3)
  BY DEF RunFindsError
<1>4. LET d == Posted(m, "connack_sem")
      IN /\ d.connected = m.connected /\ d.connect_state = m.connect_state /\ d.socket = m.socket
         /\ d.pack = m.pack /\ d.sem = [m.sem EXCEPT !["connack_sem"] = m.sem["connack_sem"] + 1]
  BY <1>1 DEF Posted, IsClient, Clients
<1>. QED
  BY <1>2, <1>3, <1>4 DEF SameClient

LEMMA RunCallsDoes ==
    ASSUME Base, RunCalls
    PROVE  /\ m' = m /\ SameRest /\ caller' = caller /\ net' = net
           /\ run.at = "handle" /\ ~tostop /\ m.socket
           /\ run'.at = "callback" /\ run'.pack = run.pack /\ run'.epoch = epoch
  BY DEF RunCalls, SameRest, SameMarks, Base, TypeInv, RunType, Runs

\* Caller t goes on, and what it knows of its call stays
Onward(t, to) ==
    /\ to \in Callers /\ caller' = [caller EXCEPT ![t] = to]
    /\ to.version = caller[t].version /\ to.sem = caller[t].sem /\ to.call = caller[t].call
    /\ to.epoch = caller[t].epoch /\ to.late = caller[t].late

LEMMA WaitEndsDoes ==
    ASSUME Base, NEW t \in Caller, WaitEnds(t)
    PROVE  /\ SameClient /\ SameRest /\ net' = net /\ run' = run /\ m'.pack = m.pack
           /\ m'.sem = [m.sem EXCEPT ![caller[t].sem] = m.sem[caller[t].sem] - 1]
           /\ At(t, "waiting") /\ m.sem[caller[t].sem] > 0 /\ ~caller[t].late
           /\ \E to : Onward(t, to) /\ to.at = "woken" /\ to.pack = caller[t].pack
<1>0. IsClient(m) /\ caller[t] \in Callers
  BY DEF Base, TypeInv, MType, CallerType
<1>. DEFINE to == [caller[t] EXCEPT !.at = "woken",
                                    !.rc = IF caller[t].sem = "connect_sem" THEN m.rc ELSE 0]
            less == [m.sem EXCEPT ![caller[t].sem] = m.sem[caller[t].sem] - 1]
<1>1. /\ SameRest /\ net' = net /\ run' = run
      /\ At(t, "waiting") /\ m.sem[caller[t].sem] > 0 /\ ~caller[t].late
      /\ m' = [m EXCEPT !.sem[caller[t].sem] = m.sem[caller[t].sem] - 1]
      /\ caller' = [caller EXCEPT ![t] = to]
  BY DEF WaitEnds, SameRest, SameMarks
<1>2. m' = [m EXCEPT !.sem = less]
  BY <1>0, <1>1 DEF IsClient, Clients
<1>3. to \in Callers /\ to.version = caller[t].version /\ to.sem = caller[t].sem
      /\ to.call = caller[t].call /\ to.epoch = caller[t].epoch /\ to.late = caller[t].late
      /\ to.at = "woken" /\ to.pack = caller[t].pack
  BY <1>0 DEF Callers, Places, Wait, IsClient, Clients
<1>. HIDE DEF less, to
<1>4. SameClient /\ m'.pack = m.pack /\ m'.sem = less
  BY <1>0, <1>2 DEF SameClient, IsClient, Clients
<1>. QED
  BY <1>1, <1>3, <1>4 DEF less, Onward

LEMMA PackIsReadDoes ==
    ASSUME Base, NEW t \in Caller, PackIsRead(t)
    PROVE  /\ m' = m /\ SameRest /\ net' = net /\ run' = run /\ At(t, "woken")
           /\ \E to : /\ Onward(t, to) /\ to.at = "resume" /\ to.pack = m.pack
                      /\ to.rc = caller[t].rc
<1>0. IsClient(m) /\ caller[t] \in Callers
  BY DEF Base, TypeInv, MType, CallerType
<1>. DEFINE to == [caller[t] EXCEPT !.at = "resume", !.pack = m.pack]
<1>1. /\ m' = m /\ SameRest /\ net' = net /\ run' = run /\ At(t, "woken")
      /\ caller' = [caller EXCEPT ![t] = to]
  BY DEF PackIsRead, SameRest, SameMarks
<1>2. to \in Callers /\ to.version = caller[t].version /\ to.sem = caller[t].sem
      /\ to.call = caller[t].call /\ to.epoch = caller[t].epoch /\ to.late = caller[t].late
      /\ to.at = "resume" /\ to.pack = m.pack /\ to.rc = caller[t].rc
  BY <1>0 DEF Callers, Places, Wait, IsClient, Clients
<1>. HIDE DEF to
<1>. QED
  BY <1>1, <1>2 DEF Onward

LEMMA CallCyclesDoes ==
    ASSUME Base, NEW t \in Caller, CallCycles(t)
    PROVE  /\ SameClient /\ SameHeld /\ SameRest /\ run' = run /\ At(t, "cycling") /\ m.socket
           /\ \/ /\ caller' = caller
                 /\ Thins(net'.to_broker, net.to_broker) /\ Thins(net'.to_client, net.to_client)
                 /\ m.connect_state # 1
              \/ \E to : /\ Onward(t, to) /\ to.at = "resume" /\ Takes(to.pack, net')
                         /\ \/ to.pack.type = Awaited(caller[t].sem) \/ m.connect_state \in {1, 3}
                            \/ to.rc = -1 /\ to.pack = NoPack
<1>0. caller[t] \in Callers /\ net \in Nets
  BY DEF Base, TypeInv, CallerType, NetType
<1>. DEFINE to == [caller[t] EXCEPT !.at = "resume", !.pack = Cycled.pack,
                                    !.rc = IF Cycled.rc = 0 THEN SocketError ELSE -1]
<1>1. /\ SameClient /\ SameHeld /\ SameRest /\ run' = run /\ At(t, "cycling") /\ m.socket
      /\ net' = Cycled.net
  BY CycledType DEF CallCycles, Base, TypeInv, SameClient, SameHeld, SameRest, SameMarks, Ready
<1>2. \/ Found(t, Cycled) /\ caller' = [caller EXCEPT ![t] = to]
      \/ ~Found(t, Cycled) /\ caller' = caller
  BY DEF CallCycles
<1>3. CASE ~Found(t, Cycled) /\ caller' = caller
  <2>1. Thins(net.to_broker, net.to_broker)
    BY <1>0, ThinsProps DEF Nets
  <2>2. Thins(net'.to_broker, net.to_broker) /\ Thins(net'.to_client, net.to_client)
    BY <1>1, <2>1, CycledType, CycleTakesProps DEF Base, TypeInv
  <2>3. m.connect_state # 1
    BY <1>3 DEF Found
  <2>. QED
    BY <1>1, <1>3, <2>2, <2>3
<1>4. CASE Found(t, Cycled) /\ caller' = [caller EXCEPT ![t] = to]
  <2>1. Cycled.pack \in Packs /\ Cycled.rc \in {0, -1}
    BY CycledType DEF Base, TypeInv
  <2>2. to \in Callers /\ to.version = caller[t].version /\ to.sem = caller[t].sem
        /\ to.call = caller[t].call /\ to.epoch = caller[t].epoch /\ to.late = caller[t].late
        /\ to.at = "resume" /\ to.pack = Cycled.pack
        /\ to.rc = IF Cycled.rc = 0 THEN SocketError ELSE -1
    BY <1>0, <2>1 DEF Callers, Places, Wait, SocketError
  <2>. HIDE DEF to
  <2>3. Takes(to.pack, net')
    BY <1>1, <2>2, CycledTakes
  <2>4. Cycled.rc # 0 => to.rc = -1 /\ to.pack = NoPack
    BY <2>1, <2>2, CycleTakesProps DEF CycleTakes
  <2>5. \/ to.pack.type = Awaited(caller[t].sem) \/ m.connect_state \in {1, 3}
        \/ to.rc = -1 /\ to.pack = NoPack
    BY <1>4, <2>2, <2>4 DEF Found
  <2>. QED
    BY <1>1, <1>4, <2>2, <2>3, <2>5 DEF Onward
<1>. QED
  BY <1>2, <1>3, <1>4

\* A connect begins a connection, or fails to
LEMMA AttemptsDoes ==
    ASSUME Base, ControlInv, NEW t \in Caller, Connect(t) \/ ConnectAgain(t)
    PROVE  /\ UNCHANGED <<fixed, tostop, accepted, up, closed, lost, answered, failures, outrun, surplus>>
           /\ mixed' = (mixed \/ (Connect(t) /\ \E u \in Caller \ {t} : caller[u].at \notin {"idle", "begin"}))
           /\ run' = run \/ (run.at = "off" /\ run' = RunAt("cycle"))
           /\ ~m.connected /\ ~m'.connected /\ m'.sem = m.sem /\ m'.pack = m.pack
           /\ caller[t].at \in {"idle", "begin", "attempt"}
           /\ Connect(t) => ~IsOpen(m) /\ \A u \in Caller : ~Connecting(u)
           /\ At(t, "attempt") <=> Connecting(t)
           /\ \E to \in Callers :
                 /\ caller' = [caller EXCEPT ![t] = to] /\ to.version # 0 /\ to.pack = NoPack
                 /\ \/ to.at = "failed" /\ UNCHANGED <<m, net, epoch>>
                    \/ /\ to.at = "waitfor" /\ to.sem = "connect_sem" /\ epoch' = epoch + 1
                       /\ m'.connect_state = 1 /\ net' = [NoNet EXCEPT !.is = "connecting"]
                    \/ /\ to.at = "waitfor" /\ to.sem = "connack_sem" /\ epoch' = epoch + 1
                       /\ m'.connect_state = 3
                       /\ net' = [NoNet EXCEPT !.is = "up", !.to_broker = <<[type |-> "CONNECT"]>>]
<1>0. IsClient(m) /\ caller \in [Caller -> Callers] /\ CallerOK(t, caller[t])
      /\ (run.at = "off" <=> ~running) /\ running \in BOOLEAN /\ mixed \in BOOLEAN
  BY DEF Base, TypeInv, MType, CallerType, ControlInv, CallersInv, ThreadInv, RestType
<1>1. PICK version, late : Attempts(t, version, late) /\ version # 0
  <2>1. CASE Connect(t)
    <3>1. Attempts(t, 4, FALSE)
      BY <2>1 DEF Connect
    <3>2. 4 # 0
      OBVIOUS
    <3>. QED
      BY <3>1, <3>2, Zenon
  <2>2. CASE ConnectAgain(t)
    BY <1>0, <2>2 DEF ConnectAgain, CallerOK
  <2>. QED
    BY <2>1, <2>2
<1>2. UNCHANGED <<fixed, tostop, accepted, up, closed, lost, answered, failures, outrun, surplus>>
  BY <1>1 DEF Attempts
<1>3. mixed' = (mixed \/ (Connect(t) /\ \E u \in Caller \ {t} : caller[u].at \notin {"idle", "begin"}))
  <2>1. CASE Connect(t)
    BY <2>1 DEF Connect
  <2>2. CASE ConnectAgain(t) /\ ~Connect(t)
    BY <1>0, <2>2 DEF ConnectAgain
  <2>. QED
    BY <2>1, <2>2
<1>4. run' = run \/ (run.at = "off" /\ run' = RunAt("cycle"))
  BY <1>0, <1>1 DEF Attempts
<1>5. ~m.connected /\ caller[t].at \in {"idle", "begin", "attempt"}
      /\ (At(t, "attempt") <=> Connecting(t))
  BY <1>0 DEF Connect, ConnectAgain, IsOpen, CallerOK, Connecting, Quiet, ControlInv, OpenInv
<1>6. Connect(t) => ~IsOpen(m) /\ \A u \in Caller : ~Connecting(u)
  BY DEF Connect, Connecting
<1>7. PICK to : /\ caller' = [caller EXCEPT ![t] = to] /\ to.version = version /\ to.pack = NoPack
                /\ \/ to.at = "failed" /\ UNCHANGED <<m, net, epoch>>
                   \/ /\ to.at = "waitfor" /\ to.sem = "connect_sem" /\ epoch' = epoch + 1
                      /\ m' = [m EXCEPT !.connect_state = 1, !.socket = TRUE]
                      /\ net' = [NoNet EXCEPT !.is = "connecting"]
                   \/ /\ to.at = "waitfor" /\ to.sem = "connack_sem" /\ epoch' = epoch + 1
                      /\ m' = [m EXCEPT !.connect_state = 3, !.socket = TRUE]
                      /\ net' = [NoNet EXCEPT !.is = "up", !.to_broker = <<[type |-> "CONNECT"]>>]
  BY <1>1, AttemptsProps
<1>8. to \in Callers
  <2>1. caller'[t] = to /\ caller'[t] \in Callers
    <3>1. CallerType'
      BY ConnectTypes, ConnectAgainTypes DEF Base, TypeInv
    <3>. QED
      BY <1>0, <1>7, <3>1 DEF CallerType
  <2>. QED
    BY <2>1
<1>9. LET d == [m EXCEPT !.connect_state = 1, !.socket = TRUE]
      IN ~d.connected /\ d.connect_state = 1 /\ d.sem = m.sem /\ d.pack = m.pack
  BY <1>0, <1>5 DEF IsClient, Clients
<1>10. LET d == [m EXCEPT !.connect_state = 3, !.socket = TRUE]
       IN ~d.connected /\ d.connect_state = 3 /\ d.sem = m.sem /\ d.pack = m.pack
  BY <1>0, <1>5 DEF IsClient, Clients
<1>11. \E tt \in Callers :
          /\ caller' = [caller EXCEPT ![t] = tt] /\ tt.version # 0 /\ tt.pack = NoPack
          /\ \/ tt.at = "failed" /\ UNCHANGED <<m, net, epoch>>
             \/ /\ tt.at = "waitfor" /\ tt.sem = "connect_sem" /\ epoch' = epoch + 1
                /\ m'.connect_state = 1 /\ net' = [NoNet EXCEPT !.is = "connecting"]
             \/ /\ tt.at = "waitfor" /\ tt.sem = "connack_sem" /\ epoch' = epoch + 1
                /\ m'.connect_state = 3
                /\ net' = [NoNet EXCEPT !.is = "up", !.to_broker = <<[type |-> "CONNECT"]>>]
  <2>. WITNESS to \in Callers
  <2>. QED
    BY <1>1, <1>7, <1>9, <1>10
<1>12. ~m'.connected /\ m'.sem = m.sem /\ m'.pack = m.pack
  BY <1>5, <1>7, <1>9, <1>10
<1>. QED
  BY <1>2, <1>3, <1>4, <1>5, <1>6, <1>11, <1>12

\* TCP is up, or the connect has failed
LEMMA TcpConnectedDoes ==
    ASSUME Base, ControlInv, NEW t \in Caller, TcpConnected(t)
    PROVE  /\ SameHeld /\ SameRest /\ run' = run /\ Begun(t) /\ At(t, "resume")
           /\ caller[t].sem = "connect_sem"
           /\ m'.connected = m.connected /\ m'.socket = m.socket
           /\ m'.connect_state \in {3, m.connect_state}
           /\ net'.to_client = net.to_client
           /\ \E to \in Callers :
                 /\ caller' = [caller EXCEPT ![t] = to] /\ to.version = caller[t].version
                 /\ to.pack = NoPack
                 /\ \/ to.at = "failed" /\ net' = net
                    \/ /\ to.at = "waitfor" /\ to.sem = "connack_sem"
                       /\ net'.to_broker = Append(net.to_broker, [type |-> "CONNECT"])
<1>0. IsClient(m) /\ CallerOK(t, caller[t]) /\ net \in Nets
  BY DEF Base, TypeInv, MType, ControlInv, CallersInv, NetType
<1>1. SameRest /\ run' = run /\ Begun(t) /\ At(t, "resume") /\ caller[t].sem = "connect_sem"
  BY <1>0 DEF TcpConnected, SameRest, SameMarks, CallerOK, Begun, Connecting, Wait
<1>2. /\ SameHeld /\ m'.connected = m.connected /\ m'.socket = m.socket
      /\ m'.connect_state \in {3, m.connect_state}
  BY <1>0 DEF TcpConnected, SameHeld, IsClient, Clients
<1>3. Ends(t) \in Callers /\ Ends(t).at = "failed" /\ Ends(t).version = caller[t].version
      /\ Ends(t).pack = NoPack
  BY EndsInCallers DEF Base, TypeInv
<1>. DEFINE to == [Ends(t) EXCEPT !.at = "waitfor", !.sem = "connack_sem"]
<1>4. to \in Callers /\ to.at = "waitfor" /\ to.sem = "connack_sem" /\ to.version = caller[t].version
      /\ to.pack = NoPack
  BY <1>3 DEF Callers, Places, Wait, Semaphores
<1>5. \/ caller' = [caller EXCEPT ![t] = Ends(t)] /\ net' = net
      \/ /\ caller' = [caller EXCEPT ![t] = to]
         /\ net' = [net EXCEPT !.to_broker = Append(net.to_broker, [type |-> "CONNECT"])]
  BY DEF TcpConnected, Sends
<1>. HIDE DEF to
<1>6. \/ net' = net
      \/ net'.to_client = net.to_client /\ net'.to_broker = Append(net.to_broker, [type |-> "CONNECT"])
  BY <1>0, <1>5 DEF Nets
<1>7. CASE caller' = [caller EXCEPT ![t] = Ends(t)] /\ net' = net
  BY <1>1, <1>2, <1>3, <1>7
<1>8. CASE /\ caller' = [caller EXCEPT ![t] = to]
           /\ net' = [net EXCEPT !.to_broker = Append(net.to_broker, [type |-> "CONNECT"])]
  <2>1. net'.to_client = net.to_client /\ net'.to_broker = Append(net.to_broker, [type |-> "CONNECT"])
    BY <1>0, <1>8 DEF Nets
  <2>. QED
    BY <1>1, <1>2, <1>4, <1>8, <2>1
<1>. QED
  BY <1>5, <1>7, <1>8

\* The broker has accepted, or refused
LEMMA MqttConnectedDoes ==
    ASSUME Base, ControlInv, NEW t \in Caller, MqttConnected(t), AcceptedWorks(t) \/ IsRefused(t)
    PROVE  /\ UNCHANGED <<fixed, run, running, tostop, epoch, accepted, closed, lost, answered,
                          failures, mixed, outrun>>
           /\ Begun(t) /\ At(t, "resume") /\ caller[t].pack # NoPack
           /\ surplus' = (surplus \/ caller[t].rc # 0 \/ caller[t].pack.epoch # epoch)
           /\ m'.pack = NoPack /\ m'.sem = m.sem /\ m'.socket = m.socket
           /\ Thins(net'.to_broker, net.to_broker) /\ Thins(net'.to_client, net.to_client)
           /\ \E to \in Callers :
                 /\ caller' = [caller EXCEPT ![t] = to] /\ to.pack = NoPack
                 /\ \/ /\ to.at = "idle" /\ to.version = 0 /\ m'.connected /\ m'.connect_state = 0
                       /\ up' = up \cup {epoch} /\ TRUE \in Accepts(caller[t].pack)
                    \/ /\ to.at = "failed" /\ to.version = caller[t].version
                       /\ m'.connected = m.connected /\ m'.connect_state = m.connect_state /\ up' = up
<1>0. IsClient(m) /\ CallerOK(t, caller[t]) /\ net \in Nets
  BY DEF Base, TypeInv, MType, ControlInv, CallersInv, NetType
<1>1. /\ UNCHANGED <<fixed, run, epoch, accepted, closed, answered, failures, mixed, outrun>>
      /\ Begun(t) /\ At(t, "resume") /\ caller[t].pack # NoPack
      /\ surplus' = (surplus \/ caller[t].rc # 0 \/ caller[t].pack.epoch # epoch)
  BY <1>0 DEF MqttConnected, CallerOK, Begun, Connecting, Wait
<1>2. net.to_broker \in Seq(ToBroker) /\ net.to_client \in Seq(ToClient)
  BY <1>0 DEF Nets
<1>3. Thins(net.to_broker, net.to_broker) /\ Thins(net.to_client, net.to_client)
  BY <1>2, ThinsProps
<1>4. CASE AcceptedWorks(t)
  <2>1. /\ m'.connected /\ m'.connect_state = 0 /\ m'.pack = NoPack /\ m'.sem = m.sem
        /\ m'.socket = m.socket /\ up' = up \cup {epoch} /\ TRUE \in Accepts(caller[t].pack)
        /\ caller' = [caller EXCEPT ![t] = IdleCaller] /\ UNCHANGED <<running, tostop, lost>>
    BY <1>4, AcceptedProps DEF AcceptedWorks
  <2>2. IdleCaller \in Callers /\ IdleCaller.at = "idle" /\ IdleCaller.version = 0 /\ IdleCaller.pack = NoPack
    BY IdleType DEF IdleCaller
  <2>3. Thins(net.to_broker \o Again, net.to_broker)
    <3>1. Again \in Seq([type : {"PUBLISH"}, id : Nat, msg : Nat])
      BY AgainProps
    <3>2. \A i \in DOMAIN Again : Again[i].type \in Plain
      BY AgainProps DEF Plain
    <3>. QED
      BY <1>2, <3>1, <3>2, ThinsProps
  <2>4. Thins(net'.to_broker, net.to_broker) /\ Thins(net'.to_client, net.to_client)
    BY <1>0, <1>3, <1>4, <2>3 DEF AcceptedWorks, Nets
  <2>. QED
    BY <1>1, <2>1, <2>2, <2>4
<1>5. CASE IsRefused(t)
  <2>1. /\ m'.connected = m.connected /\ m'.connect_state = m.connect_state /\ m'.pack = NoPack
        /\ m'.sem = m.sem /\ m'.socket = m.socket
        /\ caller' = [caller EXCEPT ![t] = Ends(t)] /\ UNCHANGED <<running, tostop, net, lost, up>>
    BY <1>0, <1>5 DEF IsRefused, IsClient, Clients
  <2>2. Ends(t) \in Callers /\ Ends(t).at = "failed" /\ Ends(t).version = caller[t].version
        /\ Ends(t).pack = NoPack
    BY EndsInCallers DEF Base, TypeInv
  <2>. QED
    BY <1>1, <1>3, <2>1, <2>2
<1>. QED
  BY <1>4, <1>5

\* A call of the application sends its request, or finds the connection broken
LEMMA SubscribeDoes ==
    ASSUME Base, ControlInv, NEW sem \in Requests, Subscribe(sem)
    PROVE  /\ m' = m /\ SameRest /\ run' = run /\ At("app", "idle") /\ m.connected
           /\ net'.to_client = net.to_client /\ sem \in {"suback_sem", "unsuback_sem"}
           /\ \E to \in Callers :
                 /\ caller' = [caller EXCEPT !["app"] = to] /\ to.version = 0 /\ to.pack = NoPack
                 /\ \/ to.at = "drop" /\ net' = net
                    \/ /\ to.at = "waitfor" /\ to.sem = sem /\ to.epoch = epoch
                       /\ net'.to_broker = Append(net.to_broker, [type |-> Awaited(sem), call |-> to.call,
                                                                 epoch |-> epoch])
<1>0. net \in Nets /\ sem \in {"suback_sem", "unsuback_sem"} /\ calls \in Nat /\ epoch \in Nat
  BY SyncAssumption DEF Base, TypeInv, NetType, RestType
<1>1. m' = m /\ SameRest /\ run' = run /\ At("app", "idle") /\ m.connected /\ calls' = calls + 1
  BY DEF Subscribe, SameRest, SameMarks
<1>. DEFINE to == [CallerAt("waitfor") EXCEPT !.sem = sem, !.call = calls', !.epoch = epoch]
            p == [type |-> IF sem = "suback_sem" THEN "SUBACK" ELSE "UNSUBACK",
                  call |-> calls', epoch |-> epoch]
<1>2. CallerAt("waitfor") \in Callers /\ CallerAt("drop") \in Callers
  BY CallerAtType DEF Places, Wait, Quiet
<1>3. to \in Callers /\ to.version = 0 /\ to.pack = NoPack /\ to.at = "waitfor" /\ to.sem = sem
      /\ to.epoch = epoch /\ to.call = calls'
  <2>1. calls' \in Nat /\ sem \in Semaphores
    BY <1>0, <1>1 DEF Semaphores
  <2>. QED
    BY <1>0, <2>1 DEF CallerAt, IdleCaller, Callers, Places, Wait, Packs, Semaphores
<1>4. CallerAt("drop").at = "drop" /\ CallerAt("drop").version = 0 /\ CallerAt("drop").pack = NoPack
  BY DEF CallerAt, IdleCaller
<1>5. \/ caller' = [caller EXCEPT !["app"] = CallerAt("drop")] /\ net' = net
      \/ /\ caller' = [caller EXCEPT !["app"] = to]
         /\ net' = [net EXCEPT !.to_broker = Append(net.to_broker, p)]
  BY DEF Subscribe, Sends
<1>6. p = [type |-> Awaited(sem), call |-> to.call, epoch |-> epoch]
  <2>1. Awaited(sem) = IF sem = "suback_sem" THEN "SUBACK" ELSE "UNSUBACK"
    BY <1>0 DEF Awaited
  <2>. HIDE DEF to
  <2>. QED
    BY <1>3, <2>1
<1>. HIDE DEF to, p
<1>7. CASE caller' = [caller EXCEPT !["app"] = CallerAt("drop")] /\ net' = net
  BY <1>0, <1>1, <1>2, <1>4, <1>7
<1>8. CASE /\ caller' = [caller EXCEPT !["app"] = to]
           /\ net' = [net EXCEPT !.to_broker = Append(net.to_broker, p)]
  <2>1. net'.to_client = net.to_client /\ net'.to_broker = Append(net.to_broker, p)
    BY <1>0, <1>8 DEF Nets
  <2>. QED
    BY <1>0, <1>1, <1>3, <1>6, <1>8, <2>1
<1>. QED
  BY <1>5, <1>7, <1>8

\* The application in its call
app == caller["app"]

LEMMA SubscribedDoes ==
    ASSUME Base, ControlInv, Subscribed
    PROVE  /\ SameClient /\ m'.sem = m.sem /\ net' = net /\ run' = run /\ app.version = 0
           /\ UNCHANGED <<fixed, running, tostop, epoch, accepted, up, closed, lost, mixed, outrun>>
           /\ At("app", "resume") /\ app.sem \in {"suback_sem", "unsuback_sem"}
           /\ \/ /\ app.pack # NoPack /\ m'.pack = NoPack
                 /\ caller' = [caller EXCEPT !["app"] = IdleCaller]
                 /\ answered' = answered \cup {[call |-> app.call, pack |-> app.pack]}
                 /\ surplus' = (surplus \/ app.rc # 0) /\ failures' = failures
              \/ /\ app.pack = NoPack /\ m' = m
                 /\ caller' = [caller EXCEPT !["app"] = CallerAt("drop")]
                 /\ UNCHANGED <<answered, surplus>>
                 /\ failures' = IF ~app.late /\ app.rc = 0 /\ m.connected /\ app.epoch = epoch
                                THEN failures \cup {app.call} ELSE failures
<1>0. IsClient(m) /\ CallerOK("app", app)
  BY DEF Base, TypeInv, MType, ControlInv, CallersInv, Caller, app
<1>1. /\ net' = net /\ run' = run
      /\ UNCHANGED <<fixed, running, tostop, epoch, accepted, up, closed, lost, mixed, outrun>>
      /\ At("app", "resume") /\ app.sem \in {"suback_sem", "unsuback_sem"}
  BY DEF Subscribed, app
<1>2. app.version = 0
  BY <1>0, <1>1 DEF CallerOK, Wait, app
<1>3. \/ /\ app.pack # NoPack /\ m' = [m EXCEPT !.pack = NoPack]
         /\ caller' = [caller EXCEPT !["app"] = IdleCaller]
         /\ answered' = answered \cup {[call |-> app.call, pack |-> app.pack]}
         /\ surplus' = (surplus \/ app.rc # 0) /\ failures' = failures
      \/ /\ app.pack = NoPack /\ m' = m
         /\ caller' = [caller EXCEPT !["app"] = CallerAt("drop")]
         /\ UNCHANGED <<answered, surplus>>
         /\ failures' = IF ~app.late /\ app.rc = 0 /\ m.connected /\ app.epoch = epoch
                        THEN failures \cup {app.call} ELSE failures
  BY DEF Subscribed, app
<1>4. LET d == [m EXCEPT !.pack = NoPack]
      IN d.connected = m.connected /\ d.connect_state = m.connect_state /\ d.socket = m.socket
         /\ d.sem = m.sem /\ d.pack = NoPack
  BY <1>0 DEF IsClient, Clients
<1>. QED
  BY <1>1, <1>2, <1>3, <1>4 DEF SameClient

\* The broker answers the first packet
LEMMA BrokerAnswersDoes ==
    ASSUME Base, NEW ok \in BOOLEAN, BrokerAnswers(ok)
    PROVE  /\ m' = m /\ caller' = caller /\ run' = run /\ net.to_broker # <<>>
           /\ UNCHANGED <<fixed, running, tostop, epoch, up, closed, lost, answered, failures, marks>>
           /\ net'.to_broker = Tail(net.to_broker)
           /\ \/ /\ Head(net.to_broker).type = "PUBLISH" /\ accepted' = accepted
                 /\ Thins(net'.to_client, net.to_client)
              \/ /\ Head(net.to_broker).type = "CONNECT"
                 /\ accepted' = IF ok THEN accepted \cup {epoch} ELSE accepted
                 /\ net'.to_client = Append(net.to_client, [type |-> "CONNACK", accepted |-> ok,
                                                           epoch |-> epoch])
              \/ /\ Head(net.to_broker) \in Answers /\ accepted' = accepted
                 /\ net'.to_client = Append(net.to_client, Head(net.to_broker))
<1>0. net \in Nets /\ net.to_broker \in Seq(ToBroker) /\ net.to_client \in Seq(ToClient)
  BY DEF Base, TypeInv, NetType, Nets
<1>. DEFINE p == Head(net.to_broker)
            answer == CASE p.type = "CONNECT" -> [type |-> "CONNACK", accepted |-> ok, epoch |-> epoch]
                        [] p.type = "PUBLISH" -> [type |-> "PUBACK", id |-> p.id]
                        [] OTHER -> p
<1>1. /\ m' = m /\ caller' = caller /\ run' = run /\ net.to_broker # <<>>
      /\ UNCHANGED <<fixed, running, tostop, epoch, up, closed, lost, answered, failures, marks>>
      /\ net' = [net EXCEPT !.to_broker = Tail(net.to_broker), !.to_client = Append(net.to_client, answer)]
      /\ accepted' = IF p.type = "CONNECT" /\ ok THEN accepted \cup {epoch} ELSE accepted
  BY DEF BrokerAnswers
<1>2. p \in ToBroker
  <2>. HIDE DEF p
  <2>. QED
    BY <1>0, <1>1 DEF p
<1>. HIDE DEF answer
<1>3. net'.to_broker = Tail(net.to_broker) /\ net'.to_client = Append(net.to_client, answer)
  BY <1>0, <1>1 DEF Nets
<1>. HIDE DEF p
<1>4. CASE p.type = "CONNECT"
  BY <1>1, <1>3, <1>4 DEF answer, p
<1>5. CASE p.type = "PUBLISH"
  <2>1. answer.type \in Plain
    BY <1>5 DEF answer, Plain
  <2>2. Thins(net'.to_client, net.to_client)
    BY <1>0, <1>3, <2>1, ThinsProps
  <2>. QED
    BY <1>1, <1>3, <1>5, <2>2 DEF p
<1>6. CASE p.type \notin {"CONNECT", "PUBLISH"}
  <2>1. p \in Answers /\ answer = p
    BY <1>2, <1>6 DEF ToBroker, answer
  <2>. QED
    BY <1>1, <1>3, <1>6, <2>1 DEF p
<1>. QED
  BY <1>4, <1>5, <1>6


-----------------------------------------------------------------------------
(* Packets stay known.                                                     *)

LEMMA PacksInit == Init => PacksInv
<1>. SUFFICES ASSUME Init PROVE PacksInv
  OBVIOUS
<1>1. /\ run.pack = NoPack /\ run.epoch = 0 /\ m.pack = NoPack /\ ~m.connected /\ epoch = 0
      /\ net.to_broker = <<>> /\ net.to_client = <<>>
  BY DEF Init, RunAt, NoNet
<1>2. \A t \in Caller : caller[t].pack = NoPack
  BY DEF Init, IdleCaller
<1>3. HeldKnown
  BY <1>1, <1>2, NoPackKnown DEF HeldKnown
<1>. QED
  BY <1>1, <1>3 DEF PacksInv, OwnToBroker, OwnToClient, ConnectedIsAccepted

\* A packet that is taken off what is under way was known
LEMMA TakesKnown ==
    ASSUME Base, PacksInv, NEW p, NEW n, Takes(p, n)
    PROVE  /\ Known(p, up, epoch, accepted) /\ p \in Packs
           /\ Thins(n.to_broker, net.to_broker) /\ Thins(n.to_client, net.to_client)
<1>0. net.to_broker \in Seq(ToBroker) /\ net.to_client \in Seq(ToClient)
  BY DEF Base, TypeInv, NetType, Nets
<1>1. Thins(n.to_broker, net.to_broker)
  BY <1>0, ThinsProps DEF Takes
<1>2. CASE p = NoPack /\ Thins(n.to_client, net.to_client)
  BY <1>1, <1>2, NoPackKnown DEF Packs
<1>3. CASE /\ p \in Connacks \cup Answers /\ net.to_client # <<>>
           /\ p = Head(net.to_client) /\ n.to_client = Tail(net.to_client)
  <2>1. 1 \in DOMAIN net.to_client /\ p = net.to_client[1]
    BY <1>0, <1>3
  <2>2. Known(p, up, epoch, accepted)
    BY <2>1 DEF PacksInv, OwnToClient
  <2>. QED
    BY <1>0, <1>1, <1>3, <2>2, ThinsProps DEF Packs
<1>. QED
  BY <1>2, <1>3 DEF Takes

LEMMA PacksNext ==
    ASSUME Base, ControlInv, LossInv, PacksInv, [Next]_vars
    PROVE  PacksInv'
<1>0. /\ IsClient(m) /\ run.pack \in Packs /\ run.epoch \in Nat /\ caller \in [Caller -> Callers]
      /\ epoch \in Nat /\ up \subseteq Nat /\ net \in Nets /\ m.pack \in Packs
      /\ surplus \in BOOLEAN /\ "app" \in Caller
  BY DEF Base, TypeInv, MType, RunType, Runs, CallerType, RestType, NetType, IsClient, Clients, Caller
<1>a. /\ net.to_broker \in Seq(ToBroker) /\ net.to_client \in Seq(ToClient)
      /\ \A t \in Caller : caller[t].pack \in Packs
  BY <1>0 DEF Nets, Callers
<1>b. /\ Known(run.pack, up, epoch, accepted) /\ Known(m.pack, up, epoch, accepted)
      /\ \A t \in Caller : Known(caller[t].pack, up, epoch, accepted)
      /\ run.epoch <= epoch /\ ConnectedIsAccepted
  BY DEF PacksInv, HeldKnown
<1>c. Known(NoPack, up, epoch, accepted) /\ NoPack \in Packs
  BY NoPackKnown DEF Packs
<1>d. Thins(net.to_broker, net.to_broker) /\ Thins(net.to_client, net.to_client)
  BY <1>a, ThinsProps
<1>e. /\ m'.connected = m.connected \/ ~m'.connected
      /\ surplus => surplus'
      /\ epoch' = epoch /\ accepted \subseteq accepted'
      => ConnectedIsAccepted'
  BY <1>b DEF ConnectedIsAccepted
<1>1. ASSUME UNCHANGED <<m, caller, epoch, up, accepted, surplus>>,
             Thins(net'.to_broker, net.to_broker), Thins(net'.to_client, net.to_client),
             Known(run'.pack, up, epoch, accepted), run'.pack \in Packs, run'.epoch <= epoch
      PROVE  PacksInv'
  BY <1>0, <1>1, <1>a, <1>b, <1>e, PacksKeep
<1>2. ASSUME NEW to, NEW t \in Caller, caller' = [caller EXCEPT ![t] = to],
             Known(to.pack, up, epoch, accepted), to.pack \in Packs
      PROVE  \A u \in Caller : Known(caller'[u].pack, up, epoch, accepted) /\ caller'[u].pack \in Packs
  BY <1>0, <1>2, <1>a, <1>b
<1>3. CASE QuietStep
  <2>1. \A u \in Caller : Known(caller'[u].pack, up, epoch, accepted) /\ caller'[u].pack \in Packs
    BY <1>3, <1>a, <1>b, <1>c DEF QuietStep, QuietMove
  <2>. QED
    BY <1>0, <1>3, <1>a, <1>b, <1>e, <2>1, PacksKeep DEF QuietStep, marks
<1>4. CASE EndStep
  <2>1. \A u \in Caller : Known(caller'[u].pack, up, epoch, accepted) /\ caller'[u].pack \in Packs
    BY <1>4, <1>a, <1>b, <1>c DEF EndStep, EndMove
  <2>2. Thins(net'.to_broker, net.to_broker) /\ Thins(net'.to_client, net.to_client)
    <3>1. net'.to_broker = <<>> /\ net'.to_client = <<>>
      BY <1>4 DEF EndStep, NoNet
    <3>. QED
      BY <1>a, <3>1, ThinsProps
  <2>3. Known(m'.pack, up, epoch, accepted) /\ m'.pack \in Packs
    BY <1>0, <1>4, <1>b, <1>c DEF EndStep
  <2>4. Known(run'.pack, up, epoch, accepted) /\ run'.pack \in Packs /\ run'.epoch <= epoch
    BY <1>0, <1>4, <1>b, <1>c DEF EndStep, RunAt
  <2>5. epoch' = epoch /\ accepted' = accepted /\ up \subseteq up' /\ ~m'.connected
    BY <1>4 DEF EndStep
  <2>6. ConnectedIsAccepted'
    BY <2>5 DEF ConnectedIsAccepted
  <2>. QED
    BY <2>1, <2>2, <2>3, <2>4, <2>5, <2>6, PacksKeep
<1>5. CASE RunRests
  BY <1>0, <1>1, <1>5, <1>c, <1>d DEF RunRests, marks
<1>6. CASE RunReads
  <2>1. /\ Known(run'.pack, up, epoch, accepted) /\ run'.pack \in Packs /\ run'.epoch = 0
        /\ Thins(net'.to_broker, net.to_broker) /\ Thins(net'.to_client, net.to_client)
    BY <1>6, RunReadsDoes, TakesKnown
  <2>2. SameClient /\ SameHeld /\ SameRest /\ caller' = caller
    BY <1>6, RunReadsDoes
  <2>. QED
    BY <1>0, <1>a, <1>b, <1>e, <2>1, <2>2, PacksKeep DEF SameClient, SameHeld, SameRest, SameMarks, marks
<1>7. ASSUME SameClient, UNCHANGED <<caller, net, epoch, up, accepted, surplus>>,
             m'.pack \in {m.pack, run.pack}, run' \in {RunAt("cycle"), RunAt("drop")}
      PROVE  PacksInv'
  <2>1. Known(run'.pack, up, epoch, accepted) /\ run'.pack \in Packs /\ run'.epoch <= epoch
    BY <1>0, <1>7, <1>c DEF RunAt
  <2>. QED
    BY <1>0, <1>7, <1>a, <1>b, <1>d, <1>e, <2>1, PacksKeep DEF SameClient
<1>8. CASE RunFindsError
  BY <1>7, <1>8, RunFindsErrorDoes DEF SameRest, SameMarks
<1>9. Gives(run.pack) => m'.pack \in {m.pack, run.pack}
  BY DEF Gives, SameHeld
<1>10. CASE RunHandles
  BY <1>7, <1>9, <1>10, RunHandlesDoes DEF SameRest, SameMarks
<1>11. ASSUME NEW ok \in BOOLEAN, RunReturns(ok)
       PROVE  PacksInv'
  BY <1>7, <1>9, <1>11, RunReturnsDoes
<1>12. CASE RunCalls
  BY <1>0, <1>1, <1>12, <1>b, <1>d, RunCallsDoes DEF SameRest, SameMarks
<1>13. ASSUME NEW t \in Caller, MoveStep(t)
       PROVE  PacksInv'
  <2>1. PICK to : caller' = [caller EXCEPT ![t] = to] /\ to.pack \in {caller[t].pack, NoPack}
    BY <1>13 DEF MoveStep
  <2>2. \A u \in Caller : Known(caller'[u].pack, up, epoch, accepted) /\ caller'[u].pack \in Packs
    BY <1>2, <1>a, <1>b, <1>c, <2>1
  <2>. QED
    BY <1>0, <1>13, <1>b, <1>d, <1>e, <2>2, PacksKeep DEF MoveStep
<1>14. ASSUME NEW t \in Caller, WaitEnds(t)
       PROVE  PacksInv'
  <2>1. PICK to : Onward(t, to) /\ to.pack = caller[t].pack
    BY <1>14, WaitEndsDoes
  <2>2. \A u \in Caller : Known(caller'[u].pack, up, epoch, accepted) /\ caller'[u].pack \in Packs
    BY <1>2, <1>a, <1>b, <2>1 DEF Onward
  <2>3. SameClient /\ SameRest /\ net' = net /\ run' = run /\ m'.pack = m.pack
    BY <1>14, WaitEndsDoes
  <2>. QED
    BY <1>0, <1>b, <1>d, <1>e, <2>2, <2>3, PacksKeep DEF SameClient, SameRest, SameMarks
<1>15. ASSUME NEW t \in Caller, PackIsRead(t)
       PROVE  PacksInv'
  <2>1. PICK to : Onward(t, to) /\ to.pack = m.pack
    BY <1>15, PackIsReadDoes
  <2>2. \A u \in Caller : Known(caller'[u].pack, up, epoch, accepted) /\ caller'[u].pack \in Packs
    BY <1>0, <1>2, <1>b, <2>1 DEF Onward
  <2>3. m' = m /\ SameRest /\ net' = net /\ run' = run
    BY <1>15, PackIsReadDoes
  <2>. QED
    BY <1>0, <1>b, <1>d, <1>e, <2>2, <2>3, PacksKeep DEF SameRest, SameMarks
<1>16. ASSUME NEW t \in Caller, CallCycles(t)
       PROVE  PacksInv'
  <2>1. SameClient /\ SameHeld /\ SameRest /\ run' = run
    BY <1>16, CallCyclesDoes
  <2>2. /\ \A u \in Caller : Known(caller'[u].pack, up, epoch, accepted) /\ caller'[u].pack \in Packs
        /\ Thins(net'.to_broker, net.to_broker) /\ Thins(net'.to_client, net.to_client)
    <3>1. CASE /\ caller' = caller
               /\ Thins(net'.to_broker, net.to_broker) /\ Thins(net'.to_client, net.to_client)
      BY <1>a, <1>b, <3>1
    <3>2. ASSUME NEW to, Onward(t, to), Takes(to.pack, net')
          PROVE  /\ \A u \in Caller : Known(caller'[u].pack, up, epoch, accepted) /\ caller'[u].pack \in Packs
                 /\ Thins(net'.to_broker, net.to_broker) /\ Thins(net'.to_client, net.to_client)
      <4>1. /\ Known(to.pack, up, epoch, accepted) /\ to.pack \in Packs
            /\ Thins(net'.to_broker, net.to_broker) /\ Thins(net'.to_client, net.to_client)
        BY <3>2, TakesKnown
      <4>. QED
        BY <1>2, <3>2, <4>1 DEF Onward
    <3>. QED
      BY <1>16, <3>1, <3>2, CallCyclesDoes
  <2>. QED
    BY <1>0, <1>b, <1>e, <2>1, <2>2, PacksKeep DEF SameClient, SameHeld, SameRest, SameMarks
<1>17. ASSUME NEW t \in Caller, Connect(t) \/ ConnectAgain(t)
       PROVE  PacksInv'
  <2>1. /\ UNCHANGED <<accepted, up>> /\ (run' = run \/ run' = RunAt("cycle"))
        /\ ~m'.connected /\ m'.pack = m.pack
    BY <1>17, AttemptsDoes
  <2>2. PICK to \in Callers :
           /\ caller' = [caller EXCEPT ![t] = to] /\ to.pack = NoPack
           /\ \/ UNCHANGED <<net, epoch>>
              \/ epoch' = epoch + 1 /\ net' = [NoNet EXCEPT !.is = "connecting"]
              \/ /\ epoch' = epoch + 1
                 /\ net' = [NoNet EXCEPT !.is = "up", !.to_broker = <<[type |-> "CONNECT"]>>]
    BY <1>17, AttemptsDoes
  <2>3. \A u \in Caller : Known(caller'[u].pack, up, epoch, accepted) /\ caller'[u].pack \in Packs
    BY <1>2, <1>c, <2>2
  <2>4. ConnectedIsAccepted'
    BY <2>1 DEF ConnectedIsAccepted
  <2>5. Known(run'.pack, up, epoch, accepted) /\ run'.pack \in Packs /\ run'.epoch <= epoch
    BY <1>0, <1>b, <1>c, <2>1 DEF RunAt
  <2>6. CASE UNCHANGED <<net, epoch>>
    BY <1>0, <1>b, <1>d, <2>1, <2>3, <2>4, <2>5, <2>6, PacksKeep
  <2>7. CASE epoch' = epoch + 1 /\ \/ net' = [NoNet EXCEPT !.is = "connecting"]
                                   \/ net' = [NoNet EXCEPT !.is = "up", !.to_broker = <<[type |-> "CONNECT"]>>]
    <3>1. epoch' \in Nat /\ epoch <= epoch'
      BY <1>0, <2>7
    <3>2. HeldKnown'
      BY <1>0, <1>b, <2>1, <2>3, <2>5, <3>1, KnownGrows DEF HeldKnown
    <3>3. net'.to_broker \in {<<>>, <<[type |-> "CONNECT"]>>} /\ net'.to_client = <<>>
      BY <2>7 DEF NoNet
    <3>4. OwnToBroker(net.to_broker, up, epoch)' /\ OwnToClient(net.to_client, up, epoch, accepted)'
      BY <3>3 DEF OwnToBroker, OwnToClient, IsAnswer
    <3>5. (run.epoch <= epoch)'
      <4>1. run'.epoch \in Nat
        BY <1>0, <2>1 DEF RunAt
      <4>. QED
        BY <1>0, <2>5, <2>7, <4>1
    <3>. QED
      BY <2>4, <3>2, <3>4, <3>5 DEF PacksInv
  <2>. QED
    BY <2>2, <2>6, <2>7
<1>18. ASSUME NEW t \in Caller, TcpConnected(t)
       PROVE  PacksInv'
  <2>1. /\ SameHeld /\ SameRest /\ run' = run /\ m'.connected = m.connected
        /\ net'.to_client = net.to_client
    BY <1>18, TcpConnectedDoes
  <2>2. PICK to \in Callers :
           /\ caller' = [caller EXCEPT ![t] = to] /\ to.pack = NoPack
           /\ net' = net \/ net'.to_broker = Append(net.to_broker, [type |-> "CONNECT"])
    BY <1>18, TcpConnectedDoes
  <2>3. \A u \in Caller : Known(caller'[u].pack, up, epoch, accepted) /\ caller'[u].pack \in Packs
    BY <1>2, <1>c, <2>2
  <2>4. OwnToBroker(net'.to_broker, up, epoch)
    <3>1. PICK p : p = [type |-> "CONNECT"]
      OBVIOUS
    <3>2. ~IsAnswer(p)
      BY <3>1 DEF IsAnswer
    <3>3. CASE net' = net
      BY <3>3 DEF PacksInv
    <3>4. CASE net'.to_broker = Append(net.to_broker, p)
      BY <1>a, <3>2, <3>4 DEF PacksInv, OwnToBroker
    <3>. QED
      BY <2>2, <3>1, <3>3, <3>4
  <2>5. OwnToClient(net'.to_client, up, epoch, accepted)
    BY <2>1 DEF PacksInv
  <2>6. HeldKnown' /\ ConnectedIsAccepted'
    BY <1>b, <1>e, <2>1, <2>3 DEF HeldKnown, SameHeld, SameRest, SameMarks, marks
  <2>. QED
    BY <1>b, <2>1, <2>4, <2>5, <2>6 DEF PacksInv, SameRest, SameMarks
<1>19. ASSUME NEW t \in Caller, MqttConnected(t), AcceptedWorks(t) \/ IsRefused(t)
       PROVE  PacksInv'
  <2>1. /\ UNCHANGED <<run, epoch, accepted>> /\ m'.pack = NoPack
        /\ Thins(net'.to_broker, net.to_broker) /\ Thins(net'.to_client, net.to_client)
        /\ surplus' = (surplus \/ caller[t].rc # 0 \/ caller[t].pack.epoch # epoch)
        /\ Begun(t) /\ caller[t].pack # NoPack
    BY <1>19, MqttConnectedDoes
  <2>2. PICK to \in Callers :
           /\ caller' = [caller EXCEPT ![t] = to] /\ to.pack = NoPack
           /\ \/ m'.connected /\ up' = up \cup {epoch} /\ TRUE \in Accepts(caller[t].pack)
              \/ m'.connected = m.connected /\ up' = up
    BY <1>19, MqttConnectedDoes
  <2>3. \A u \in Caller : Known(caller'[u].pack, up, epoch, accepted) /\ caller'[u].pack \in Packs
    BY <1>2, <1>c, <2>2
  <2>4. ASSUME TRUE \in Accepts(caller[t].pack), caller[t].pack.epoch = epoch
        PROVE  epoch \in accepted
    <3>1. epoch \notin up
      BY <2>1 DEF LossInv
    <3>2. caller[t].pack \in Connacks
      <4>1. caller[t].pack \notin Answers
        BY <1>b, <2>4, <3>1 DEF Known, IsAnswer, Answers
      <4>. QED
        BY <1>a, <2>1, <4>1 DEF Packs
    <3>3. caller[t].pack.accepted
      BY <2>4, <3>2 DEF Accepts, Connacks
    <3>. QED
      BY <1>b, <2>4, <3>2, <3>3 DEF Known, IsConnack, Connacks
  <2>5. ConnectedIsAccepted'
    BY <1>b, <2>1, <2>2, <2>4 DEF ConnectedIsAccepted
  <2>6. up \subseteq up'
    BY <2>2
  <2>. QED
    BY <1>0, <1>b, <1>c, <2>1, <2>3, <2>5, <2>6, PacksKeep
<1>20. ASSUME NEW sem \in Requests, Subscribe(sem)
       PROVE  PacksInv'
  <2>1. /\ m' = m /\ SameRest /\ run' = run /\ m.connected
        /\ net'.to_client = net.to_client
    BY <1>20, SubscribeDoes
  <2>2. PICK to \in Callers :
           /\ caller' = [caller EXCEPT !["app"] = to] /\ to.pack = NoPack
           /\ \/ net' = net
              \/ net'.to_broker = Append(net.to_broker, [type |-> Awaited(sem), call |-> to.call,
                                                         epoch |-> epoch])
    BY <1>20, SubscribeDoes
  <2>3. \A u \in Caller : Known(caller'[u].pack, up, epoch, accepted) /\ caller'[u].pack \in Packs
    BY <1>0, <1>2, <1>c, <2>2
  <2>4. OwnToBroker(net'.to_broker, up, epoch)
    <3>1. epoch \in up
      BY <2>1 DEF LossInv
    <3>. QED
      BY <1>a, <2>2, <3>1 DEF PacksInv, OwnToBroker
  <2>5. OwnToClient(net'.to_client, up, epoch, accepted)
    BY <2>1 DEF PacksInv
  <2>6. HeldKnown' /\ ConnectedIsAccepted'
    BY <1>b, <1>e, <2>1, <2>3 DEF HeldKnown, SameRest, SameMarks, marks
  <2>. QED
    BY <1>b, <2>1, <2>4, <2>5, <2>6 DEF PacksInv, SameRest, SameMarks
<1>21. CASE Subscribed
  <2>0. SameClient /\ net' = net /\ run' = run /\ UNCHANGED <<epoch, accepted, up>>
    BY <1>21, SubscribedDoes
  <2>1. /\ m'.pack \in {m.pack, NoPack} /\ (surplus => surplus')
        /\ \/ caller' = [caller EXCEPT !["app"] = IdleCaller]
           \/ caller' = [caller EXCEPT !["app"] = CallerAt("drop")]
    <3>1. CASE /\ m'.pack = NoPack /\ caller' = [caller EXCEPT !["app"] = IdleCaller]
               /\ surplus' = (surplus \/ app.rc # 0)
      BY <3>1
    <3>2. CASE /\ m' = m /\ caller' = [caller EXCEPT !["app"] = CallerAt("drop")]
               /\ surplus' = surplus
      BY <3>2
    <3>. QED
      BY <1>21, <3>1, <3>2, SubscribedDoes
  <2>2. IdleCaller.pack = NoPack /\ CallerAt("drop").pack = NoPack
    BY DEF CallerAt, IdleCaller
  <2>3. \A u \in Caller : Known(caller'[u].pack, up, epoch, accepted) /\ caller'[u].pack \in Packs
    BY <1>0, <1>2, <1>c, <2>1, <2>2
  <2>. QED
    BY <1>0, <1>b, <1>c, <1>d, <1>e, <2>0, <2>1, <2>3, PacksKeep DEF SameClient
<1>22. ASSUME NEW ok \in BOOLEAN, BrokerAnswers(ok)
       PROVE  PacksInv'
  <2>1. /\ m' = m /\ caller' = caller /\ run' = run /\ net.to_broker # <<>>
        /\ UNCHANGED <<epoch, up, surplus>> /\ net'.to_broker = Tail(net.to_broker)
    BY <1>22, BrokerAnswersDoes DEF marks
  <2>2. Thins(net'.to_broker, net.to_broker)
    BY <1>a, <2>1, ThinsProps
  <2>3. ASSUME accepted \subseteq accepted', OwnToClient(net'.to_client, up, epoch, accepted')
        PROVE  PacksInv'
    <3>1. OwnToBroker(net'.to_broker, up, epoch)
      BY <2>2, OwnThins DEF PacksInv
    <3>2. HeldKnown'
      BY <1>0, <1>a, <1>b, <2>1, <2>3, KnownGrows DEF HeldKnown
    <3>3. ConnectedIsAccepted'
      BY <1>e, <2>1, <2>3
    <3>. QED
      BY <1>b, <2>1, <2>3, <3>1, <3>2, <3>3 DEF PacksInv
  <2>4. CASE accepted' = accepted /\ Thins(net'.to_client, net.to_client)
    BY <2>3, <2>4, OwnThins DEF PacksInv
  <2>5. CASE /\ accepted' = IF ok THEN accepted \cup {epoch} ELSE accepted
             /\ net'.to_client = Append(net.to_client, [type |-> "CONNACK", accepted |-> ok, epoch |-> epoch])
    <3>. DEFINE p == [type |-> "CONNACK", accepted |-> ok, epoch |-> epoch]
    <3>1. Known(p, up, epoch, accepted') /\ ~IsAnswer(p) /\ p.epoch = epoch
      BY <1>0, <2>5 DEF Known, IsAnswer, IsConnack
    <3>2. OwnToClient(net.to_client, up, epoch, accepted')
      BY <1>0, <2>5, OwnGrows DEF PacksInv
    <3>. HIDE DEF p
    <3>3. OwnToClient(Append(net.to_client, p), up, epoch, accepted')
      BY <1>a, <3>1, <3>2 DEF OwnToClient
    <3>. QED
      BY <2>3, <2>5, <3>3 DEF p
  <2>6. CASE /\ Head(net.to_broker) \in Answers /\ accepted' = accepted
             /\ net'.to_client = Append(net.to_client, Head(net.to_broker))
    <3>1. PICK p : p = Head(net.to_broker)
      OBVIOUS
    <3>2. p = net.to_broker[1] /\ 1 \in DOMAIN net.to_broker /\ p \in Answers
      BY <1>a, <2>1, <2>6, <3>1
    <3>3. p.epoch = epoch /\ epoch \in up /\ IsAnswer(p)
      BY <3>2 DEF PacksInv, OwnToBroker, IsAnswer, Answers
    <3>4. Known(p, up, epoch, accepted)
      BY <3>3 DEF Known, IsAnswer, IsConnack
    <3>5. OwnToClient(Append(net.to_client, p), up, epoch, accepted)
      BY <1>a, <3>3, <3>4 DEF PacksInv, OwnToClient
    <3>. QED
      BY <2>3, <2>6, <3>1, <3>5
  <2>. QED
    BY <1>22, <2>4, <2>5, <2>6, BrokerAnswersDoes
<1>. QED
  BY <1>3, <1>4, <1>5, <1>6, <1>8, <1>10, <1>11, <1>12, <1>13, <1>14, <1>15, <1>16, <1>17, <1>18,
     <1>19, <1>20, <1>21, <1>22, StepKinds


-----------------------------------------------------------------------------
(* The background thread is only left running by who connects.             *)

StopInv == running /\ ~tostop => IsOpen(m) \/ \E t \in Caller : Connecting(t)

LEMMA StopInit == Init => StopInv
BY DEF Init, StopInv

LEMMA StopNext ==
    ASSUME Base, ControlInv, StopInv, [Next]_vars
    PROVE  StopInv'
<1>0. /\ caller \in [Caller -> Callers] /\ running \in BOOLEAN /\ tostop \in BOOLEAN
      /\ "app" \in Caller /\ \A t \in Caller : CallerOK(t, caller[t])
  BY DEF Base, TypeInv, CallerType, RestType, ControlInv, CallersInv, Caller
<1>1. ThreadInv'
  BY ThreadNext DEF ControlInv
<1>2. ASSUME UNCHANGED <<running, tostop>>, IsOpen(m) => IsOpen(m)',
             \A t \in Caller : Connecting(t) => Connecting(t)'
      PROVE  StopInv'
  BY <1>2 DEF StopInv
<1>3. SameClient => (IsOpen(m) => IsOpen(m)')
  BY DEF SameClient, IsOpen
<1>4. ASSUME NEW t \in Caller, NEW to, caller' = [caller EXCEPT ![t] = to],
             to.version = caller[t].version \/ ~Connecting(t)
      PROVE  \A u \in Caller : Connecting(u) => Connecting(u)'
  BY <1>0, <1>4 DEF Connecting
<1>5. CASE QuietStep
  <2>1. IsOpen(m) => IsOpen(m)'
    BY <1>5 DEF QuietStep, IsOpen
  <2>2. \A t \in Caller : Connecting(t) => Connecting(t)'
    BY <1>0, <1>5 DEF QuietStep, QuietMove, Connecting, CallerOK
  <2>. QED
    BY <1>2, <1>5, <2>1, <2>2 DEF QuietStep
<1>6. CASE EndStep
  BY <1>6 DEF EndStep, StopInv
<1>7. CASE RunRests
  <2>1. /\ IsOpen(m) => IsOpen(m)'
        /\ \A t \in Caller : Connecting(t) => Connecting(t)'
    BY <1>7 DEF RunRests, IsOpen, Connecting
  <2>2. CASE run'.at = "off"
    BY <1>1, <2>2 DEF ThreadInv, StopInv
  <2>3. CASE UNCHANGED <<running, tostop>>
    BY <1>2, <2>1, <2>3
  <2>. QED
    BY <1>7, <2>2, <2>3 DEF RunRests
<1>8. CASE RunReads
  BY <1>2, <1>3, <1>8, RunReadsDoes DEF SameRest, SameMarks, Connecting
<1>9. CASE RunFindsError
  BY <1>2, <1>3, <1>9, RunFindsErrorDoes DEF SameRest, SameMarks, Connecting
<1>10. CASE RunHandles
  BY <1>2, <1>3, <1>10, RunHandlesDoes DEF SameRest, SameMarks, Connecting
<1>11. ASSUME NEW ok \in BOOLEAN, RunReturns(ok)
       PROVE  StopInv'
  BY <1>2, <1>3, <1>11, RunReturnsDoes DEF Connecting
<1>12. CASE RunCalls
  BY <1>2, <1>12, RunCallsDoes DEF SameRest, SameMarks, Connecting, IsOpen
<1>13. ASSUME NEW t \in Caller, MoveStep(t)
       PROVE  StopInv'
  <2>1. PICK to : caller' = [caller EXCEPT ![t] = to] /\ to.version = caller[t].version
    BY <1>13 DEF MoveStep
  <2>. QED
    BY <1>2, <1>4, <1>13, <2>1 DEF MoveStep, IsOpen
<1>14. ASSUME NEW t \in Caller, NEW to, Onward(t, to), SameClient, UNCHANGED <<running, tostop>>
       PROVE  StopInv'
  BY <1>2, <1>3, <1>4, <1>14 DEF Onward
<1>15. ASSUME NEW t \in Caller, WaitEnds(t) \/ PackIsRead(t)
       PROVE  StopInv'
  <2>1. SameClient /\ UNCHANGED <<running, tostop>>
    BY <1>15, WaitEndsDoes, PackIsReadDoes DEF SameRest, SameMarks, SameClient
  <2>2. \E to : Onward(t, to)
    BY <1>15, WaitEndsDoes, PackIsReadDoes
  <2>. QED
    BY <1>14, <2>1, <2>2
<1>16. ASSUME NEW t \in Caller, CallCycles(t)
       PROVE  StopInv'
  <2>1. SameClient /\ UNCHANGED <<running, tostop>>
    BY <1>16, CallCyclesDoes DEF SameRest, SameMarks
  <2>2. caller' = caller \/ \E to : Onward(t, to)
    BY <1>16, CallCyclesDoes
  <2>. QED
    BY <1>2, <1>3, <1>14, <2>1, <2>2 DEF Connecting
<1>17. ASSUME NEW t \in Caller, Connect(t) \/ ConnectAgain(t)
       PROVE  StopInv'
  <2>1. PICK to : caller' = [caller EXCEPT ![t] = to] /\ to.version # 0
    BY <1>17, AttemptsDoes
  <2>. QED
    BY <1>0, <2>1 DEF StopInv, Connecting
<1>18. ASSUME NEW t \in Caller, TcpConnected(t)
       PROVE  StopInv'
  <2>1. PICK to : caller' = [caller EXCEPT ![t] = to] /\ to.version = caller[t].version
    BY <1>18, TcpConnectedDoes
  <2>2. UNCHANGED <<running, tostop>> /\ (IsOpen(m) => IsOpen(m)')
    BY <1>18, TcpConnectedDoes DEF SameRest, SameMarks, IsOpen
  <2>. QED
    BY <1>2, <1>4, <2>1, <2>2
<1>19. ASSUME NEW t \in Caller, MqttConnected(t), AcceptedWorks(t) \/ IsRefused(t)
       PROVE  StopInv'
  <2>1. UNCHANGED <<running, tostop>>
    BY <1>19, MqttConnectedDoes
  <2>2. PICK to : /\ caller' = [caller EXCEPT ![t] = to]
                  /\ \/ m'.connected
                     \/ /\ to.version = caller[t].version
                        /\ m'.connected = m.connected /\ m'.connect_state = m.connect_state
    BY <1>19, MqttConnectedDoes
  <2>. QED
    BY <1>2, <1>4, <2>1, <2>2 DEF StopInv, IsOpen
<1>20. ASSUME NEW sem \in Requests, Subscribe(sem)
       PROVE  StopInv'
  BY <1>20, SubscribeDoes DEF StopInv, IsOpen
<1>21. CASE Subscribed
  <2>1. ~Connecting("app") /\ SameClient /\ UNCHANGED <<running, tostop>>
    BY <1>21, SubscribedDoes DEF Connecting, app
  <2>2. \E to : caller' = [caller EXCEPT !["app"] = to]
    BY <1>21, SubscribedDoes
  <2>. QED
    BY <1>0, <1>2, <1>3, <1>4, <2>1, <2>2
<1>22. ASSUME NEW ok \in BOOLEAN, BrokerAnswers(ok)
       PROVE  StopInv'
  BY <1>2, <1>22, BrokerAnswersDoes DEF IsOpen, Connecting
<1>. QED
  BY <1>5, <1>6, <1>7, <1>8, <1>9, <1>10, <1>11, <1>12, <1>13, <1>15, <1>16, <1>17, <1>18,
     <1>19, <1>20, <1>21, <1>22, StepKinds

-----------------------------------------------------------------------------
(* What is under way once.                                                 *)

\* Packets of the types T are among s, and at most one
Carries(s, T) == \E i \in DOMAIN s : s[i].type \in T
Once(s, T) == \A i, j \in DOMAIN s : s[i].type \in T /\ s[j].type \in T => i = j

\* A request, of the types T, or its answer, of the types U, is under way; not both
Under(b, c, T, U) == Carries(b, T) \/ Carries(c, U)
Lone(b, c, T, U) == Once(b, T) /\ Once(c, U) /\ ~(Carries(b, T) /\ Carries(c, U))

LEMMA ThinsOnce ==
    ASSUME NEW r, NEW s, Thins(s, r), NEW T, T \cap Plain = {}, DOMAIN s \subseteq Int
    PROVE  /\ Carries(s, T) => Carries(r, T)
           /\ Once(r, T) => Once(s, T)
<1>1. PICK k \in {0, 1} : \A i \in DOMAIN s :
          s[i].type \in Plain \/ (i + k \in DOMAIN r /\ s[i] = r[i + k])
  BY DEF Thins
<1>2. \A i \in DOMAIN s : s[i].type \in T => i + k \in DOMAIN r /\ s[i] = r[i + k]
  BY <1>1
<1>3. Carries(s, T) => Carries(r, T)
  BY <1>2 DEF Carries
<1>4. ASSUME Once(r, T), NEW i \in DOMAIN s, NEW j \in DOMAIN s, s[i].type \in T, s[j].type \in T
      PROVE  i = j
  <2>1. i + k = j + k
    BY <1>2, <1>4 DEF Once
  <2>2. i \in Int /\ j \in Int
    BY <1>4
  <2>3. k \in Int
    BY <1>1
  <2>4. \A a, b, c \in Int : a + c = b + c => a = b
    OBVIOUS
  <2>. QED
    BY <2>1, <2>2, <2>3, <2>4
<1>. QED
  BY <1>3, <1>4 DEF Once

LEMMA LoneThins ==
    ASSUME NEW b, NEW c, NEW b2 \in Seq(ToBroker), NEW c2 \in Seq(ToClient),
           NEW T, T \cap Plain = {}, NEW U, U \cap Plain = {},
           Thins(b2, b), Thins(c2, c)
    PROVE  /\ Lone(b, c, T, U) => Lone(b2, c2, T, U)
           /\ Under(b2, c2, T, U) => Under(b, c, T, U)
<1>1. DOMAIN b2 \subseteq Int /\ DOMAIN c2 \subseteq Int
  OBVIOUS
<1>2. /\ Carries(b2, T) => Carries(b, T)
      /\ Once(b, T) => Once(b2, T)
  BY <1>1, ThinsOnce
<1>3. /\ Carries(c2, U) => Carries(c, U)
      /\ Once(c, U) => Once(c2, U)
  BY <1>1, ThinsOnce
<1>. QED
  BY <1>2, <1>3 DEF Lone, Under

\* A packet is sent
LEMMA AppendOnce ==
    ASSUME NEW S, NEW s \in Seq(S), NEW p \in S, NEW T
    PROVE  /\ Carries(Append(s, p), T) <=> Carries(s, T) \/ p.type \in T
           /\ Once(s, T) /\ ~(Carries(s, T) /\ p.type \in T) => Once(Append(s, p), T)
<1>. DEFINE d == Append(s, p)
<1>1. /\ DOMAIN d = 1..Len(s) + 1 /\ DOMAIN s = 1..Len(s) /\ Len(s) \in Nat
      /\ \A i \in 1..Len(s) : d[i] = s[i]
      /\ d[Len(s) + 1] = p
  OBVIOUS
<1>. HIDE DEF d
<1>2. Carries(d, T) <=> Carries(s, T) \/ p.type \in T
  <2>1. Carries(s, T) => Carries(d, T)
    BY <1>1 DEF Carries
  <2>2. p.type \in T => Carries(d, T)
    BY <1>1 DEF Carries
  <2>3. ASSUME NEW i \in DOMAIN d, d[i].type \in T PROVE Carries(s, T) \/ p.type \in T
    BY <1>1, <2>3 DEF Carries
  <2>. QED
    BY <2>1, <2>2, <2>3 DEF Carries
<1>3. ASSUME Once(s, T), ~(Carries(s, T) /\ p.type \in T),
             NEW i \in DOMAIN d, NEW j \in DOMAIN d, d[i].type \in T, d[j].type \in T
      PROVE  i = j
  <2>1. CASE p.type \in T
    <3>1. \A k \in 1..Len(s) : s[k].type \notin T
      BY <1>1, <1>3, <2>1 DEF Carries
    <3>. QED
      BY <1>1, <1>3, <3>1
  <2>2. CASE p.type \notin T
    BY <1>1, <1>3, <2>2 DEF Once
  <2>. QED
    BY <2>1, <2>2
<1>. QED
  BY <1>2, <1>3 DEF d, Once

\* The first packet is taken
LEMMA TailOnce ==
    ASSUME NEW S, NEW s \in Seq(S), s # <<>>, NEW T, Once(s, T)
    PROVE  /\ Once(Tail(s), T)
           /\ Carries(Tail(s), T) => Carries(s, T)
           /\ Head(s).type \in T => Carries(s, T) /\ ~Carries(Tail(s), T)
<1>. DEFINE d == Tail(s)
<1>1. /\ DOMAIN d = 1..Len(s) - 1 /\ DOMAIN s = 1..Len(s) /\ Len(s) \in Nat /\ Len(s) > 0
      /\ \A i \in DOMAIN d : d[i] = s[i + 1] /\ i + 1 \in DOMAIN s
      /\ Head(s) = s[1] /\ 1 \in DOMAIN s
  OBVIOUS
<1>. HIDE DEF d
<1>2. Once(d, T)
  <2>. SUFFICES ASSUME NEW i \in DOMAIN d, NEW j \in DOMAIN d, d[i].type \in T, d[j].type \in T
                PROVE  i = j
    BY DEF Once
  <2>1. i + 1 = j + 1
    BY <1>1 DEF Once
  <2>. QED
    BY <1>1, <2>1
<1>3. Carries(d, T) => Carries(s, T)
  BY <1>1 DEF Carries
<1>4. Head(s).type \in T => Carries(s, T)
  BY <1>1 DEF Carries
<1>5. ASSUME Head(s).type \in T, NEW i \in DOMAIN d, d[i].type \in T PROVE FALSE
  <2>1. i + 1 = 1
    BY <1>1, <1>5 DEF Once
  <2>. QED
    BY <1>1, <2>1
<1>. QED
  BY <1>2, <1>3, <1>4, <1>5 DEF d, Carries


-----------------------------------------------------------------------------
(* A connection is accepted once.                                          *)

IsNow(p, e) == IsConnack(p) /\ p.epoch = e

\* What the background thread has in its hands is for the connection there is
RunLive == \/ run.at = "handle" /\ ~tostop
           \/ run.at = "callback" /\ m.socket /\ run.epoch = epoch

\* The CONNACK is still to come, or the background thread is about to pass it on,
\* or the connect has it
ConWay == Under(net.to_broker, net.to_client, {"CONNECT"}, {"CONNACK"})
ConRun == RunLive /\ IsConnack(run.pack)
ConHeld == IsNow(m.pack, epoch) \/ \E t \in Caller : Begun(t) /\ IsNow(caller[t].pack, epoch)

\* A connect that waits for TCP
AwaitsTcp(t) == Begun(t) /\ caller[t].sem = "connect_sem"

ConInv ==
    /\ Lone(net.to_broker, net.to_client, {"CONNECT"}, {"CONNACK"})
    /\ ConWay => ~IsNow(run.pack, epoch) /\ ~ConHeld
    /\ \A t \in Caller : AwaitsTcp(t) => ~ConWay /\ ~IsNow(run.pack, epoch) /\ ~ConHeld
    /\ ConHeld => ~ConRun
    /\ m.connected /\ ~surplus => ~ConWay /\ ~ConRun

LEMMA NothingUnder ==
    \A T, U : ~Under(<<>>, <<>>, T, U) /\ Lone(<<>>, <<>>, T, U)
BY DEF Under, Lone, Once, Carries

LEMMA ConInit == Init => ConInv
<1>. SUFFICES ASSUME Init PROVE ConInv
  OBVIOUS
<1>1. /\ run.pack = NoPack /\ m.pack = NoPack /\ ~m.connected
      /\ net.to_broker = <<>> /\ net.to_client = <<>>
  BY DEF Init, RunAt, NoNet
<1>2. \A t \in Caller : caller[t].pack = NoPack
  BY DEF Init, IdleCaller
<1>3. ~IsConnack(NoPack)
  BY DEF IsConnack, NoPack
<1>. QED
  BY <1>1, <1>2, <1>3, NothingUnder DEF ConInv, ConWay, ConHeld, IsNow

\* A step on the same connection that brings no CONNACK nearer
LEMMA ConKeeps ==
    ASSUME ConInv, epoch' = epoch,
           Lone(net'.to_broker, net'.to_client, {"CONNECT"}, {"CONNACK"}), ConWay' => ConWay,
           IsNow(run'.pack, epoch) => IsNow(run.pack, epoch), ConRun' => ConRun,
           IsNow(m'.pack, epoch) => ConHeld,
           \A t \in Caller : Begun(t)' /\ IsNow(caller'[t].pack, epoch) => ConHeld,
           \A t \in Caller : AwaitsTcp(t)' => AwaitsTcp(t),
           (m.connected /\ ~surplus)' => m.connected /\ ~surplus
    PROVE  ConInv'
<1>1. ConHeld' => ConHeld
  BY DEF ConHeld
<1>2. /\ (ConWay => ~IsNow(run.pack, epoch) /\ ~ConHeld)'
      /\ (\A t \in Caller : AwaitsTcp(t) => ~ConWay /\ ~IsNow(run.pack, epoch) /\ ~ConHeld)'
  BY <1>1 DEF ConInv
<1>3. /\ (ConHeld => ~ConRun)'
      /\ (m.connected /\ ~surplus => ~ConWay /\ ~ConRun)'
  BY <1>1 DEF ConInv
<1>. QED
  BY <1>2, <1>3 DEF ConInv

LEMMA ConNext ==
    ASSUME Base, ControlInv, LossInv, PacksInv, ConInv, [Next]_vars
    PROVE  ConInv'
<1>. DEFINE Con == {"CONNECT"}
            Ack == {"CONNACK"}
<1>0. /\ caller \in [Caller -> Callers] /\ running \in BOOLEAN /\ tostop \in BOOLEAN
      /\ epoch \in Nat /\ run.epoch \in Nat /\ run.epoch <= epoch /\ surplus \in BOOLEAN
      /\ "app" \in Caller /\ \A t \in Caller : CallerOK(t, caller[t])
      /\ net.to_broker \in Seq(ToBroker) /\ net.to_client \in Seq(ToClient)
      /\ m.pack \in Packs /\ run.pack \in Packs /\ \A t \in Caller : caller[t].pack \in Packs
  BY DEF Base, TypeInv, MType, IsClient, Clients, RunType, Runs, CallerType, RestType, NetType,
         Nets, ControlInv, CallersInv, Caller, PacksInv, Callers
<1>a. net'.to_broker \in Seq(ToBroker) /\ net'.to_client \in Seq(ToClient) /\ m' \in Clients(m'.messageQueue)
  BY BaseNext DEF Base, TypeInv, NetType, Nets, MType, IsClient
<1>b. ~IsConnack(NoPack) /\ \A p \in Answers : ~IsConnack(p)
  BY DEF IsConnack, NoPack, Answers
<1>c. Thins(net'.to_broker, net.to_broker) /\ Thins(net'.to_client, net.to_client)
      => Lone(net'.to_broker, net'.to_client, Con, Ack) /\ (ConWay' => ConWay)
  BY <1>a, LoneThins DEF ConInv, ConWay, Plain
<1>d. Thins(net.to_broker, net.to_broker) /\ Thins(net.to_client, net.to_client)
  BY <1>0, ThinsProps
<1>e. Lone(net.to_broker, net.to_client, Con, Ack) /\ (net' = net => (ConWay' => ConWay))
  BY DEF ConInv, ConWay
<1>. HIDE DEF Con, Ack
<1>1. ASSUME NEW t \in Caller, NEW to, caller' = [caller EXCEPT ![t] = to],
             to.at \in Wait /\ to.version # 0 =>
                 /\ Begun(t) /\ (to.sem = "connect_sem" => caller[t].sem = "connect_sem")
                 /\ to.pack = caller[t].pack \/ (IsNow(to.pack, epoch) => ConHeld)
      PROVE  /\ \A u \in Caller : Begun(u)' /\ IsNow(caller'[u].pack, epoch) => ConHeld
             /\ \A u \in Caller : AwaitsTcp(u)' => AwaitsTcp(u)
  <2>1. \A u \in Caller \ {t} : caller'[u] = caller[u]
    BY <1>0, <1>1
  <2>2. caller'[t] = to
    BY <1>0, <1>1
  <2>3. /\ Begun(t)' /\ IsNow(caller'[t].pack, epoch) => ConHeld
        /\ AwaitsTcp(t)' => AwaitsTcp(t)
    BY <1>1, <2>2 DEF Begun, Connecting, AwaitsTcp, ConHeld
  <2>4. \A u \in Caller \ {t} : /\ Begun(u)' /\ IsNow(caller'[u].pack, epoch) => ConHeld
                                /\ AwaitsTcp(u)' => AwaitsTcp(u)
    BY <2>1 DEF Begun, Connecting, AwaitsTcp, ConHeld
  <2>. QED
    BY <2>3, <2>4
<1>2. caller' = caller => /\ \A u \in Caller : Begun(u)' /\ IsNow(caller'[u].pack, epoch) => ConHeld
                          /\ \A u \in Caller : AwaitsTcp(u)' => AwaitsTcp(u)
  BY DEF Begun, Connecting, AwaitsTcp, ConHeld
<1>3. /\ IsNow(m.pack, epoch) => ConHeld
      /\ ~IsNow(NoPack, epoch)
  BY <1>b DEF ConHeld, IsNow
<1>4. UNCHANGED <<run, tostop, epoch>> /\ m'.socket = m.socket => (ConRun' => ConRun)
  BY DEF ConRun, RunLive
<1>5. \A t, u \in Caller : Begun(t) /\ Connecting(u) => u = t
  BY DEF ControlInv, OpenInv, Begun, Caller
<1>6. CASE QuietStep
  <2>1. /\ \A u \in Caller : Begun(u)' /\ IsNow(caller'[u].pack, epoch) => ConHeld
        /\ \A u \in Caller : AwaitsTcp(u)' => AwaitsTcp(u)
    BY <1>6 DEF QuietStep, QuietMove, Begun, Connecting, AwaitsTcp, ConHeld
  <2>. QED
    BY <1>3, <1>4, <1>6, <1>c, <2>1, ConKeeps DEF QuietStep, marks, Con, Ack
<1>7. CASE EndStep
  <2>1. /\ \A u \in Caller : Begun(u)' /\ IsNow(caller'[u].pack, epoch) => ConHeld
        /\ \A u \in Caller : AwaitsTcp(u)' => AwaitsTcp(u)
    BY <1>7 DEF EndStep, EndMove, Begun, Connecting, AwaitsTcp, ConHeld, Wait
  <2>2. ConRun' => ConRun
    BY <1>0, <1>7 DEF EndStep, ConRun, RunLive, RunAt
  <2>3. Lone(net'.to_broker, net'.to_client, Con, Ack) /\ ~ConWay'
    BY <1>7, NothingUnder DEF EndStep, NoNet, ConWay
  <2>4. IsNow(run'.pack, epoch) => IsNow(run.pack, epoch)
    BY <1>3, <1>7 DEF EndStep, RunAt
  <2>5. IsNow(m'.pack, epoch) => ConHeld
    BY <1>3, <1>7 DEF EndStep
  <2>6. epoch' = epoch /\ ~m'.connected
    BY <1>7 DEF EndStep
  <2>. QED
    BY <2>1, <2>2, <2>3, <2>4, <2>5, <2>6, ConKeeps DEF Con, Ack
<1>8. ASSUME SameClient, m'.pack \in {m.pack, NoPack}, UNCHANGED <<caller, net, epoch, surplus>>,
             ~IsConnack(run'.pack) \/ (run'.pack = run.pack /\ (RunLive' => RunLive))
      PROVE  ConInv'
  BY <1>2, <1>3, <1>8, <1>e, ConKeeps DEF SameClient, Con, Ack, IsNow, ConRun
<1>9. CASE RunRests
  BY <1>8, <1>9, <1>b DEF RunRests, SameClient, marks
<1>10. CASE RunReads
  <2>1. /\ SameClient /\ SameHeld /\ SameRest /\ caller' = caller
        /\ run'.pack \in Packs /\ Takes(run'.pack, net')
    BY <1>10, RunReadsDoes
  <2>2. CASE ~IsConnack(run'.pack)
    <3>1. Thins(net'.to_broker, net.to_broker) /\ Thins(net'.to_client, net.to_client)
      BY <2>1, TakesKnown
    <3>. QED
      BY <1>2, <1>3, <1>c, <2>1, <2>2, <3>1, ConKeeps
         DEF SameClient, SameHeld, SameRest, SameMarks, marks, Con, Ack, IsNow, ConRun
  <2>3. CASE IsConnack(run'.pack)
    <3>1. /\ net.to_client # <<>> /\ run'.pack = Head(net.to_client)
          /\ net'.to_client = Tail(net.to_client) /\ net'.to_broker = net.to_broker
      BY <1>b, <2>1, <2>3 DEF Takes
    <3>2. Once(net.to_client, Ack) /\ Once(net.to_broker, Con)
          /\ ~(Carries(net.to_broker, Con) /\ Carries(net.to_client, Ack))
      BY <1>e DEF Lone
    <3>3. Head(net.to_client).type \in Ack
      BY <2>3, <3>1 DEF IsConnack, Ack
    <3>4. Carries(net.to_client, Ack) /\ ~Carries(net'.to_client, Ack) /\ Once(net'.to_client, Ack)
      BY <1>0, <3>1, <3>2, <3>3, TailOnce
    <3>5. ConWay /\ ~ConWay' /\ Lone(net'.to_broker, net'.to_client, Con, Ack)
      BY <3>1, <3>2, <3>4 DEF ConWay, Under, Lone, Con, Ack
    <3>6. ~ConHeld /\ (\A t \in Caller : ~AwaitsTcp(t)) /\ ~(m.connected /\ ~surplus)
      BY <3>5 DEF ConInv
    <3>7. ~ConHeld' /\ (\A t \in Caller : ~AwaitsTcp(t)') /\ ~(m.connected /\ ~surplus)'
      BY <2>1, <3>6 DEF SameClient, SameHeld, SameRest, SameMarks, marks, ConHeld, AwaitsTcp,
                        Begun, Connecting
    <3>. QED
      BY <3>5, <3>7 DEF ConInv, Con, Ack
  <2>. QED
    BY <2>2, <2>3
<1>11. CASE RunFindsError
  <2>1. ~IsConnack(run'.pack)
    BY <1>11, <1>b, RunFindsErrorDoes DEF RunAt
  <2>. QED
    BY <1>8, <1>11, <2>1, RunFindsErrorDoes DEF SameRest, SameMarks, marks
\* A packet is given to whom it is for
<1>12. ASSUME SameClient, UNCHANGED <<caller, net, epoch, surplus>>, run' = RunAt("cycle"),
              Gives(run.pack)
       PROVE  ConInv'
  <2>1. ~IsConnack(run'.pack) /\ ~ConRun'
    BY <1>12, <1>b DEF RunAt, ConRun
  <2>2. CASE m'.pack \in {m.pack, NoPack}
    BY <1>8, <1>12, <2>1, <2>2
  <2>3. CASE m'.pack = run.pack
    <3>1. CASE ~IsNow(run.pack, epoch)
      BY <1>2, <1>12, <1>e, <2>1, <2>3, <3>1, ConKeeps DEF SameClient, Con, Ack, IsNow
    <3>2. CASE IsNow(run.pack, epoch)
      <4>1. ~ConWay /\ \A t \in Caller : ~AwaitsTcp(t)
        BY <3>2 DEF ConInv
      <4>2. ~ConWay' /\ \A t \in Caller : ~AwaitsTcp(t)'
        BY <1>12, <4>1 DEF ConWay, AwaitsTcp, Begun, Connecting
      <4>. QED
        BY <1>12, <1>e, <2>1, <4>2 DEF ConInv, Con, Ack
    <3>. QED
      BY <3>1, <3>2
  <2>. QED
    BY <1>12, <2>2, <2>3 DEF Gives, SameHeld
<1>13. CASE RunHandles
  BY <1>12, <1>13, RunHandlesDoes DEF SameRest, SameMarks, marks
<1>14. ASSUME NEW ok \in BOOLEAN, RunReturns(ok)
       PROVE  ConInv'
  BY <1>12, <1>14, RunReturnsDoes
<1>15. CASE RunCalls
  <2>1. RunLive
    BY <1>15, RunCallsDoes DEF RunLive
  <2>. QED
    BY <1>8, <1>15, <2>1, RunCallsDoes DEF SameRest, SameMarks, SameClient, marks
\* A caller goes on
<1>16. ASSUME NEW t \in Caller, NEW to, caller' = [caller EXCEPT ![t] = to],
              to.at \in Wait /\ to.version # 0 =>
                 /\ Begun(t) /\ (to.sem = "connect_sem" => caller[t].sem = "connect_sem")
                 /\ to.pack = caller[t].pack \/ (IsNow(to.pack, epoch) => ConHeld),
              SameClient, m'.pack \in {m.pack, NoPack}, UNCHANGED <<run, tostop, epoch>>,
              surplus => surplus',
              Lone(net'.to_broker, net'.to_client, Con, Ack), ConWay' => ConWay
       PROVE  ConInv'
  <2>1. /\ \A u \in Caller : Begun(u)' /\ IsNow(caller'[u].pack, epoch) => ConHeld
        /\ \A u \in Caller : AwaitsTcp(u)' => AwaitsTcp(u)
    BY <1>1, <1>16
  <2>. QED
    BY <1>3, <1>4, <1>16, <2>1, ConKeeps DEF SameClient, Con, Ack
<1>17. ASSUME NEW t \in Caller, MoveStep(t)
       PROVE  ConInv'
  <2>1. PICK to : /\ caller' = [caller EXCEPT ![t] = to]
                  /\ to.version = caller[t].version /\ to.pack \in {caller[t].pack, NoPack}
                  /\ to.at \in Wait => caller[t].at \in Wait /\ to.sem = caller[t].sem
    BY <1>17 DEF MoveStep, Wait
  <2>2. /\ SameClient /\ m'.pack = m.pack /\ UNCHANGED <<run, tostop, epoch, surplus, net>>
    BY <1>17 DEF MoveStep, SameClient, marks, client
  <2>3. IsNow(NoPack, epoch) => ConHeld
    BY <1>3
  <2>. QED
    BY <1>16, <1>e, <2>1, <2>2, <2>3 DEF Begun, Connecting
<1>18. ASSUME NEW t \in Caller, WaitEnds(t)
       PROVE  ConInv'
  <2>1. PICK to : Onward(t, to) /\ to.pack = caller[t].pack
    BY <1>18, WaitEndsDoes
  <2>2. SameClient /\ SameRest /\ net' = net /\ run' = run /\ m'.pack = m.pack /\ At(t, "waiting")
    BY <1>18, WaitEndsDoes
  <2>. QED
    BY <1>16, <1>e, <2>1, <2>2 DEF SameRest, SameMarks, marks, Onward, Begun, Connecting, Wait
<1>19. ASSUME NEW t \in Caller, PackIsRead(t)
       PROVE  ConInv'
  <2>1. PICK to : Onward(t, to) /\ to.pack = m.pack
    BY <1>19, PackIsReadDoes
  <2>2. m' = m /\ SameRest /\ net' = net /\ run' = run /\ At(t, "woken")
    BY <1>19, PackIsReadDoes
  <2>. QED
    BY <1>3, <1>16, <1>e, <2>1, <2>2 DEF SameRest, SameMarks, SameClient, marks, Onward, Begun,
                                         Connecting, Wait
<1>20. ASSUME NEW t \in Caller, CallCycles(t)
       PROVE  ConInv'
  <2>1. SameClient /\ SameHeld /\ SameRest /\ run' = run /\ At(t, "cycling")
    BY <1>20, CallCyclesDoes
  <2>2. CASE /\ caller' = caller
             /\ Thins(net'.to_broker, net.to_broker) /\ Thins(net'.to_client, net.to_client)
    BY <1>2, <1>3, <1>4, <1>c, <2>1, <2>2, ConKeeps
       DEF SameClient, SameHeld, SameRest, SameMarks, marks, Con, Ack
  <2>3. ASSUME NEW to, Onward(t, to), Takes(to.pack, net')
        PROVE  ConInv'
    <3>1. Thins(net'.to_broker, net.to_broker) /\ Thins(net'.to_client, net.to_client)
      BY <2>3, TakesKnown
    <3>2. Lone(net'.to_broker, net'.to_client, Con, Ack) /\ (ConWay' => ConWay)
      BY <1>c, <3>1
    <3>3. CASE ~IsConnack(to.pack) \/ ~Connecting(t)
      BY <1>16, <2>1, <2>3, <3>2, <3>3 DEF SameClient, SameHeld, SameRest, SameMarks, marks, Onward,
                                           Begun, Connecting, Wait, IsNow
    <3>4. CASE IsConnack(to.pack) /\ Connecting(t)
      <4>1. /\ net.to_client # <<>> /\ to.pack = Head(net.to_client)
            /\ net'.to_client = Tail(net.to_client) /\ net'.to_broker = net.to_broker
        BY <1>b, <2>3, <3>4 DEF Takes
      <4>2. Once(net.to_client, Ack) /\ ~(Carries(net.to_broker, Con) /\ Carries(net.to_client, Ack))
        BY <1>e DEF Lone
      <4>3. Head(net.to_client).type \in Ack
        BY <3>4, <4>1 DEF IsConnack, Ack
      <4>4. Carries(net.to_client, Ack) /\ ~Carries(net'.to_client, Ack)
        BY <1>0, <4>1, <4>2, <4>3, TailOnce
      <4>5. ConWay /\ ~ConWay'
        BY <4>1, <4>2, <4>4 DEF ConWay, Under, Con, Ack
      <4>6. \A u \in Caller : ~AwaitsTcp(u)
        BY <4>5 DEF ConInv
      <4>7. \A u \in Caller : ~AwaitsTcp(u)'
        <5>1. \A u \in Caller \ {t} : caller'[u] = caller[u]
          BY <1>0, <2>3 DEF Onward
        <5>2. caller'[t] = to /\ to.sem = caller[t].sem /\ Begun(t)
          BY <1>0, <2>1, <2>3, <3>4 DEF Onward, Begun, Wait
        <5>3. \A u \in Caller \ {t} : ~AwaitsTcp(u)'
          BY <4>6, <5>1 DEF AwaitsTcp, Begun, Connecting
        <5>4. ~AwaitsTcp(t)'
          BY <4>6, <5>2 DEF AwaitsTcp
        <5>. QED
          BY <5>3, <5>4
      <4>8. run'.at = "off"
        BY <2>1, <3>4 DEF ControlInv, ThreadInv, OpenInv
      <4>9. ~ConRun' /\ ~m'.connected
        BY <2>1, <3>4, <4>8 DEF ConRun, RunLive, SameClient, ControlInv, OpenInv
      <4>. QED
        BY <3>2, <4>5, <4>7, <4>9 DEF ConInv, Con, Ack
    <3>. QED
      BY <3>3, <3>4
  <2>. QED
    BY <1>20, <2>2, <2>3, CallCyclesDoes
<1>21. ASSUME NEW t \in Caller, Connect(t) \/ ConnectAgain(t)
       PROVE  ConInv'
  <2>1. /\ UNCHANGED <<tostop, surplus>> /\ (run' = run \/ run' = RunAt("cycle"))
        /\ ~m'.connected /\ m'.pack = m.pack
        /\ Connect(t) => \A u \in Caller : ~Connecting(u)
        /\ At(t, "attempt") <=> Connecting(t)
    BY <1>21, AttemptsDoes
  <2>2. PICK to \in Callers :
           /\ caller' = [caller EXCEPT ![t] = to] /\ to.version # 0 /\ to.pack = NoPack
           /\ \/ to.at = "failed" /\ UNCHANGED <<m, net, epoch>>
              \/ /\ to.at = "waitfor" /\ to.sem = "connect_sem" /\ epoch' = epoch + 1
                 /\ net' = [NoNet EXCEPT !.is = "connecting"]
              \/ /\ to.at = "waitfor" /\ to.sem = "connack_sem" /\ epoch' = epoch + 1
                 /\ net' = [NoNet EXCEPT !.is = "up", !.to_broker = <<[type |-> "CONNECT"]>>]
    BY <1>21, AttemptsDoes
  <2>3. CASE to.at = "failed" /\ UNCHANGED <<m, net, epoch>>
    <3>1. /\ \A u \in Caller : Begun(u)' /\ IsNow(caller'[u].pack, epoch) => ConHeld
          /\ \A u \in Caller : AwaitsTcp(u)' => AwaitsTcp(u)
      BY <1>1, <2>2, <2>3 DEF Wait
    <3>2. /\ IsNow(run'.pack, epoch) => IsNow(run.pack, epoch)
          /\ ConRun' => ConRun
      BY <1>3, <1>4, <2>1, <2>3 DEF RunAt, ConRun, RunLive
    <3>. QED
      BY <1>3, <1>e, <2>1, <2>3, <3>1, <3>2, ConKeeps DEF Con, Ack
  <2>4. CASE epoch' = epoch + 1 /\ to.at = "waitfor"
    <3>1. \A p \in Packs : Known(p, up, epoch, accepted) => ~IsNow(p, epoch')
      <4>. SUFFICES ASSUME NEW p \in Packs, Known(p, up, epoch, accepted), IsNow(p, epoch + 1)
                    PROVE  FALSE
        BY <2>4
      <4>1. p.epoch \in Nat /\ p.epoch <= epoch
        BY DEF IsNow, IsConnack, Known, Packs, Connacks, Answers, NoPack
      <4>. QED
        BY <1>0, <4>1 DEF IsNow
    <3>2. ~IsNow(run'.pack, epoch') /\ ~IsNow(m'.pack, epoch')
      <4>1. ~IsNow(run.pack, epoch') /\ ~IsNow(m.pack, epoch')
        BY <1>0, <3>1 DEF PacksInv, HeldKnown
      <4>2. RunAt("cycle").pack = NoPack /\ ~IsNow(NoPack, epoch')
        BY <1>b DEF RunAt, IsNow
      <4>. QED
        BY <2>1, <4>1, <4>2
    <3>3. \A u \in Caller : ~IsNow(caller'[u].pack, epoch')
      BY <1>0, <1>b, <2>2, <3>1 DEF PacksInv, HeldKnown, IsNow
    <3>4. ~ConHeld'
      BY <3>2, <3>3 DEF ConHeld
    <3>5. \A u \in Caller \ {t} : ~AwaitsTcp(u)'
      <4>1. \A u \in Caller \ {t} : caller'[u] = caller[u] /\ ~Connecting(u)
        <5>1. \A u \in Caller \ {t} : caller'[u] = caller[u]
          BY <1>0, <2>2
        <5>2. CASE Connect(t)
          BY <2>1, <5>1, <5>2
        <5>3. CASE ConnectAgain(t)
          BY <2>1, <5>1, <5>3 DEF ConnectAgain, ControlInv, OpenInv, Caller
        <5>. QED
          BY <1>21, <5>2, <5>3
      <4>. QED
        BY <4>1 DEF AwaitsTcp, Begun, Connecting
    <3>6. CASE net' = [NoNet EXCEPT !.is = "connecting"]
      <4>1. net'.to_broker = <<>> /\ net'.to_client = <<>>
        BY <3>6 DEF NoNet
      <4>2. Lone(net'.to_broker, net'.to_client, Con, Ack) /\ ~ConWay'
        BY <4>1, NothingUnder DEF ConWay
      <4>. QED
        BY <2>1, <3>2, <3>4, <4>2 DEF ConInv, Con, Ack
    <3>7. CASE /\ to.sem = "connack_sem"
               /\ net' = [NoNet EXCEPT !.is = "up", !.to_broker = <<[type |-> "CONNECT"]>>]
      <4>1. net'.to_broker = <<[type |-> "CONNECT"]>> /\ net'.to_client = <<>>
        BY <3>7 DEF NoNet
      <4>2. Lone(net'.to_broker, net'.to_client, Con, Ack)
        BY <4>1 DEF Lone, Once, Carries
      <4>3. ~AwaitsTcp(t)'
        BY <1>0, <2>2, <3>7 DEF AwaitsTcp
      <4>. QED
        BY <2>1, <3>2, <3>4, <3>5, <4>2, <4>3 DEF ConInv, Con, Ack
    <3>. QED
      BY <2>2, <2>4, <3>6, <3>7
  <2>. QED
    BY <2>2, <2>3, <2>4
<1>22. ASSUME NEW t \in Caller, TcpConnected(t)
       PROVE  ConInv'
  <2>1. /\ SameHeld /\ SameRest /\ run' = run /\ Begun(t) /\ AwaitsTcp(t)
        /\ m'.connected = m.connected /\ m'.socket = m.socket /\ net'.to_client = net.to_client
    BY <1>22, TcpConnectedDoes DEF AwaitsTcp
  <2>2. PICK to \in Callers :
           /\ caller' = [caller EXCEPT ![t] = to] /\ to.pack = NoPack
           /\ \/ to.at = "failed" /\ net' = net
              \/ /\ to.at = "waitfor" /\ to.sem = "connack_sem"
                 /\ net'.to_broker = Append(net.to_broker, [type |-> "CONNECT"])
    BY <1>22, TcpConnectedDoes
  <2>3. /\ \A u \in Caller : Begun(u)' /\ IsNow(caller'[u].pack, epoch) => ConHeld
        /\ \A u \in Caller : AwaitsTcp(u)' => AwaitsTcp(u)
    <3>1. to.at \in Wait => to.sem = "connack_sem"
      BY <2>2 DEF Wait
    <3>. QED
      BY <1>1, <1>3, <2>1, <2>2, <3>1
  <2>4. UNCHANGED <<epoch, tostop, surplus>> /\ m'.pack = m.pack /\ (ConRun' => ConRun)
    BY <1>4, <2>1 DEF SameRest, SameHeld, SameMarks, marks
  <2>5. CASE net' = net
    BY <1>3, <1>e, <2>1, <2>3, <2>4, <2>5, ConKeeps DEF Con, Ack
  <2>6. CASE /\ to.at = "waitfor" /\ to.sem = "connack_sem"
             /\ net'.to_broker = Append(net.to_broker, [type |-> "CONNECT"])
    <3>1. ~ConWay /\ ~IsNow(run.pack, epoch) /\ ~ConHeld
      BY <2>1 DEF ConInv
    <3>2. ~ConHeld'
      BY <2>3, <2>4, <3>1, <1>3 DEF ConHeld
    <3>3. \A u \in Caller : ~AwaitsTcp(u)'
      <4>1. ~AwaitsTcp(t)'
        BY <1>0, <2>2, <2>6 DEF AwaitsTcp
      <4>2. \A u \in Caller \ {t} : ~AwaitsTcp(u)
        BY <1>5, <2>1 DEF AwaitsTcp, Begun
      <4>. QED
        BY <2>3, <4>1, <4>2
    <3>4. PICK p : p = [type |-> "CONNECT"]
      OBVIOUS
    <3>5. p \in ToBroker /\ p.type \in Con
      BY <3>4 DEF ToBroker, Con
    <3>6. ~Carries(net.to_broker, Con) /\ ~Carries(net.to_client, Ack)
      BY <3>1 DEF ConWay, Under, Con, Ack
    <3>7. Once(net'.to_broker, Con)
      BY <1>0, <1>e, <2>6, <3>4, <3>5, <3>6, AppendOnce DEF Lone
    <3>8. Lone(net'.to_broker, net'.to_client, Con, Ack)
      BY <1>e, <2>1, <3>6, <3>7 DEF Lone
    <3>9. ~m'.connected /\ ~IsNow(run'.pack, epoch)
      BY <2>1, <3>1 DEF ControlInv, OpenInv, Begun
    <3>. QED
      BY <2>4, <3>2, <3>3, <3>8, <3>9 DEF ConInv, Con, Ack
  <2>. QED
    BY <2>2, <2>5, <2>6
<1>23. ASSUME NEW t \in Caller, MqttConnected(t), AcceptedWorks(t) \/ IsRefused(t)
       PROVE  ConInv'
  <2>1. /\ UNCHANGED <<run, tostop, epoch>> /\ Begun(t) /\ caller[t].pack # NoPack
        /\ surplus' = (surplus \/ caller[t].rc # 0 \/ caller[t].pack.epoch # epoch)
        /\ m'.pack = NoPack /\ m'.socket = m.socket
        /\ Thins(net'.to_broker, net.to_broker) /\ Thins(net'.to_client, net.to_client)
    BY <1>23, MqttConnectedDoes
  <2>2. PICK to : /\ caller' = [caller EXCEPT ![t] = to] /\ to.pack = NoPack
                  /\ \/ to.at = "idle" /\ m'.connected
                     \/ to.at = "failed" /\ m'.connected = m.connected
    BY <1>23, MqttConnectedDoes
  <2>3. /\ \A u \in Caller : Begun(u)' /\ IsNow(caller'[u].pack, epoch) => ConHeld
        /\ \A u \in Caller : AwaitsTcp(u)' => AwaitsTcp(u)
    BY <1>1, <2>2 DEF Wait
  <2>4. Lone(net'.to_broker, net'.to_client, Con, Ack) /\ (ConWay' => ConWay) /\ (ConRun' => ConRun)
    BY <1>4, <1>c, <2>1
  <2>5. CASE m'.connected = m.connected
    BY <1>3, <2>1, <2>3, <2>4, <2>5, ConKeeps DEF Con, Ack
  <2>6. CASE m'.connected
    <3>1. ASSUME ~surplus'
          PROVE  ~ConWay /\ ~ConRun
      <4>1. caller[t].pack.epoch = epoch /\ epoch \notin up
        BY <2>1, <3>1 DEF LossInv
      <4>2. ~IsAnswer(caller[t].pack)
        BY <4>1 DEF PacksInv, HeldKnown, Known
      <4>3. IsConnack(caller[t].pack)
        BY <1>0, <2>1, <4>2 DEF Packs, Connacks, Answers, IsAnswer, IsConnack
      <4>4. ConHeld
        BY <2>1, <4>1, <4>3 DEF ConHeld, IsNow
      <4>. QED
        BY <4>4 DEF ConInv
    <3>2. ConHeld' => ConHeld
      BY <1>3, <2>1, <2>3 DEF ConHeld
    <3>3. /\ (ConWay => ~IsNow(run.pack, epoch) /\ ~ConHeld)'
          /\ (\A u \in Caller : AwaitsTcp(u) => ~ConWay /\ ~IsNow(run.pack, epoch) /\ ~ConHeld)'
      BY <2>1, <2>3, <2>4, <3>2 DEF ConInv
    <3>4. (ConHeld => ~ConRun)' /\ (m.connected /\ ~surplus => ~ConWay /\ ~ConRun)'
      BY <2>4, <3>1, <3>2 DEF ConInv
    <3>. QED
      BY <2>4, <3>3, <3>4 DEF ConInv, Con, Ack
  <2>. QED
    BY <2>2, <2>5, <2>6
<1>24. ASSUME NEW sem \in Requests, Subscribe(sem)
       PROVE  ConInv'
  <2>1. /\ m' = m /\ SameRest /\ run' = run /\ net'.to_client = net.to_client
        /\ sem \in {"suback_sem", "unsuback_sem"}
    BY <1>24, SubscribeDoes
  <2>2. PICK to \in Callers :
           /\ caller' = [caller EXCEPT !["app"] = to] /\ to.version = 0
           /\ \/ net' = net
              \/ net'.to_broker = Append(net.to_broker, [type |-> Awaited(sem), call |-> to.call,
                                                         epoch |-> epoch])
    BY <1>24, SubscribeDoes
  <2>3. Lone(net'.to_broker, net'.to_client, Con, Ack) /\ (ConWay' => ConWay)
    <3>1. CASE net' = net
      BY <1>e, <3>1
    <3>2. ASSUME NEW p, p = [type |-> Awaited(sem), call |-> to.call, epoch |-> epoch],
                 net'.to_broker = Append(net.to_broker, p)
          PROVE  Lone(net'.to_broker, net'.to_client, Con, Ack) /\ (ConWay' => ConWay)
      <4>1. p \in ToBroker /\ p.type \notin Con
        BY <1>0, <2>1, <3>2 DEF ToBroker, Answers, Awaited, Con, Callers
      <4>2. Once(net.to_broker, Con)
        BY <1>e DEF Lone
      <4>3. Once(net'.to_broker, Con) /\ (Carries(net'.to_broker, Con) <=> Carries(net.to_broker, Con))
        BY <1>0, <3>2, <4>1, <4>2, AppendOnce
      <4>. QED
        BY <1>e, <2>1, <4>3 DEF Lone, ConWay, Under, Con, Ack
    <3>. QED
      BY <2>2, <3>1, <3>2
  <2>4. /\ SameClient /\ m'.pack \in {m.pack, NoPack} /\ UNCHANGED <<run, tostop, epoch>>
        /\ surplus => surplus'
    BY <2>1 DEF SameRest, SameMarks, marks, SameClient
  <2>. QED
    BY <1>0, <1>16, <2>2, <2>3, <2>4
<1>25. CASE Subscribed
  <2>1. SameClient /\ net' = net /\ run' = run /\ UNCHANGED <<tostop, epoch>>
    BY <1>25, SubscribedDoes
  <2>2. m'.pack \in {m.pack, NoPack} /\ (surplus => surplus')
    <3>1. CASE m'.pack = NoPack /\ surplus' = (surplus \/ app.rc # 0)
      BY <3>1
    <3>2. CASE m' = m /\ surplus' = surplus
      BY <3>2
    <3>. QED
      BY <1>25, <3>1, <3>2, SubscribedDoes
  <2>3. PICK to : caller' = [caller EXCEPT !["app"] = to] /\ to.version = 0
    <3>1. IdleCaller.version = 0 /\ CallerAt("drop").version = 0
      BY DEF CallerAt, IdleCaller
    <3>. QED
      BY <1>25, <3>1, SubscribedDoes
  <2>4. ~(to.at \in Wait /\ to.version # 0)
    BY <2>3
  <2>. QED
    BY <1>0, <1>16, <1>e, <2>1, <2>2, <2>3, <2>4
<1>26. ASSUME NEW ok \in BOOLEAN, BrokerAnswers(ok)
       PROVE  ConInv'
  <2>1. /\ m' = m /\ caller' = caller /\ run' = run /\ net.to_broker # <<>>
        /\ UNCHANGED <<epoch, tostop, surplus>> /\ net'.to_broker = Tail(net.to_broker)
    BY <1>26, BrokerAnswersDoes DEF marks
  <2>2. ASSUME Lone(net'.to_broker, net'.to_client, Con, Ack), ConWay' => ConWay
        PROVE  ConInv'
    BY <1>2, <1>3, <1>4, <2>1, <2>2, ConKeeps DEF Con, Ack
  <2>3. Once(net.to_broker, Con) /\ Once(net.to_client, Ack)
        /\ ~(Carries(net.to_broker, Con) /\ Carries(net.to_client, Ack))
    BY <1>e DEF Lone
  <2>4. /\ Once(net'.to_broker, Con)
        /\ Carries(net'.to_broker, Con) => Carries(net.to_broker, Con)
        /\ Head(net.to_broker).type \in Con =>
               Carries(net.to_broker, Con) /\ ~Carries(net'.to_broker, Con)
    BY <1>0, <2>1, <2>3, TailOnce
  <2>5. CASE Thins(net'.to_client, net.to_client)
    <3>1. Thins(net'.to_broker, net.to_broker)
      BY <1>0, <2>1, ThinsProps
    <3>. QED
      BY <1>c, <2>2, <2>5, <3>1
  <2>6. CASE /\ Head(net.to_broker).type = "CONNECT"
             /\ net'.to_client = Append(net.to_client, [type |-> "CONNACK", accepted |-> ok, epoch |-> epoch])
    <3>1. PICK p : p = [type |-> "CONNACK", accepted |-> ok, epoch |-> epoch]
      OBVIOUS
    <3>2. p \in ToClient
      BY <1>0, <3>1 DEF ToClient, Connacks
    <3>3. Carries(net.to_broker, Con) /\ ~Carries(net'.to_broker, Con)
      BY <2>4, <2>6 DEF Con
    <3>4. Once(net'.to_client, Ack)
      BY <1>0, <2>3, <2>6, <3>1, <3>2, <3>3, AppendOnce
    <3>5. Lone(net'.to_broker, net'.to_client, Con, Ack) /\ ConWay
      BY <2>4, <3>3, <3>4 DEF Lone, ConWay, Under, Con, Ack
    <3>. QED
      BY <2>2, <3>5
  <2>7. CASE /\ Head(net.to_broker) \in Answers
             /\ net'.to_client = Append(net.to_client, Head(net.to_broker))
    <3>1. PICK p : p = Head(net.to_broker)
      OBVIOUS
    <3>2. p \in ToClient /\ p.type \notin Ack
      BY <2>7, <3>1 DEF ToClient, Answers, Ack
    <3>3. Once(net'.to_client, Ack) /\ (Carries(net'.to_client, Ack) <=> Carries(net.to_client, Ack))
      BY <1>0, <2>3, <2>7, <3>1, <3>2, AppendOnce
    <3>4. Lone(net'.to_broker, net'.to_client, Con, Ack) /\ (ConWay' => ConWay)
      BY <2>3, <2>4, <3>3 DEF Lone, ConWay, Under, Con, Ack
    <3>. QED
      BY <2>2, <3>4
  <2>. QED
    BY <1>26, <2>5, <2>6, <2>7, BrokerAnswersDoes
<1>. QED
  BY <1>6, <1>7, <1>9, <1>10, <1>11, <1>13, <1>14, <1>15, <1>17, <1>18, <1>19, <1>20, <1>21,
     <1>22, <1>23, <1>24, <1>25, <1>26, StepKinds


-----------------------------------------------------------------------------
(* Answers are own.                                                        *)

\* Nothing was mixed up yet
Sure == ~mixed /\ ~outrun /\ ~surplus

Subscribing == app.version = 0 /\ app.at \in Wait

\* The answer to call c is under way, or the background thread has it in its hands
AnsTypes == {"SUBACK", "UNSUBACK"}
AnsWay == Under(net.to_broker, net.to_client, AnsTypes, AnsTypes)
AnsRun == RunLive /\ IsAnswer(run.pack)
IsMine(p, c) == p.type = Awaited(c.sem) /\ p.call = c.call
AllMine(s, c) == \A i \in DOMAIN s : IsAnswer(s[i]) => IsMine(s[i], c)

\* The call was given it
Got == m.pack # NoPack \/ app.pack # NoPack

\* No call waits for an answer, and there is none
Resting == /\ ~AnsWay /\ ~AnsRun
           /\ m.sem["suback_sem"] = 0 /\ m.sem["unsuback_sem"] = 0
           /\ m.connected => m.pack = NoPack

\* A call waits, and there is at most one answer, which is its own
Asking ==
    /\ app.epoch = epoch
    /\ m.pack = NoPack \/ IsMine(m.pack, app)
    /\ app.pack = NoPack \/ IsMine(app.pack, app)
    /\ AllMine(net.to_broker, app) /\ AllMine(net.to_client, app)
    /\ AnsRun => IsMine(run.pack, app)
    /\ Lone(net.to_broker, net.to_client, AnsTypes, AnsTypes)
    /\ AnsWay => ~AnsRun /\ ~Got
    /\ AnsRun => ~Got
    /\ m.sem[app.sem] <= 1 /\ (m.sem[app.sem] = 1 => m.pack # NoPack)
    /\ \A s \in {"suback_sem", "unsuback_sem"} \ {app.sem} : m.sem[s] = 0
    /\ app.at = "woken" /\ app.rc = 0 => m.pack # NoPack /\ m.sem[app.sem] = 0
    /\ app.at = "resume" /\ app.rc = 0 =>
           IF app.pack # NoPack THEN m.sem[app.sem] = 0 ELSE app.late

\* A call waits, or was told that its connection is broken
Busy == Subscribing \/ app.at = "drop"

AnswersAre ==
    /\ Busy => ~Connecting("lost")
    /\ Subscribing => Asking
    /\ ~Busy => Resting
    /\ \A a \in answered : a.pack.call = a.call
    /\ failures = {}

AnswerInv == Sure => AnswersAre

LEMMA AnswerInit == Init => AnswerInv
<1>. SUFFICES ASSUME Init PROVE AnswersAre
  BY DEF AnswerInv
<1>1. /\ run.at = "off" /\ ~m.connected /\ m.sem = Released /\ answered = {} /\ failures = {}
      /\ net.to_broker = <<>> /\ net.to_client = <<>> /\ app.at = "idle"
  BY DEF Init, RunAt, NoNet, app, Caller, IdleCaller
<1>2. ~Busy
  BY <1>1 DEF Busy, Subscribing, Wait
<1>3. Resting
  BY <1>1, NothingUnder DEF Resting, AnsWay, AnsRun, RunLive, Released, Semaphores
<1>. QED
  BY <1>1, <1>2, <1>3 DEF AnswersAre, Busy

\* What is under way stays lone, and whose it is
NetKeeps ==
    /\ AnsWay' => AnsWay
    /\ Lone(net.to_broker, net.to_client, AnsTypes, AnsTypes)
           => Lone(net'.to_broker, net'.to_client, AnsTypes, AnsTypes)
    /\ \A c : AllMine(net.to_broker, c) /\ AllMine(net.to_client, c)
                  => AllMine(net'.to_broker, c) /\ AllMine(net'.to_client, c)

LEMMA ThinsMine ==
    ASSUME NEW s, NEW r, Thins(s, r), NEW c, AllMine(r, c)
    PROVE  AllMine(s, c)
<1>1. PICK k \in {0, 1} : \A i \in DOMAIN s :
          s[i].type \in Plain \/ (i + k \in DOMAIN r /\ s[i] = r[i + k])
  BY DEF Thins
<1>. SUFFICES ASSUME NEW i \in DOMAIN s, IsAnswer(s[i]) PROVE IsMine(s[i], c)
  BY DEF AllMine
<1>2. i + k \in DOMAIN r /\ s[i] = r[i + k]
  BY <1>1 DEF IsAnswer, Plain
<1>. QED
  BY <1>2 DEF AllMine

LEMMA ThinsKeeps ==
    ASSUME Base', Thins(net'.to_broker, net.to_broker), Thins(net'.to_client, net.to_client)
    PROVE  NetKeeps
<1>1. net'.to_broker \in Seq(ToBroker) /\ net'.to_client \in Seq(ToClient)
  BY DEF Base, TypeInv, NetType, Nets
<1>2. AnsTypes \cap Plain = {}
  BY DEF AnsTypes, Plain
<1>3. /\ Lone(net.to_broker, net.to_client, AnsTypes, AnsTypes)
             => Lone(net'.to_broker, net'.to_client, AnsTypes, AnsTypes)
      /\ AnsWay' => AnsWay
  BY <1>1, <1>2, LoneThins DEF AnsWay
<1>. QED
  BY <1>3, ThinsMine DEF NetKeeps

\* A connect is sent
LEMMA SendsKeeps ==
    ASSUME Base, net'.to_client = net.to_client,
           net'.to_broker = Append(net.to_broker, [type |-> "CONNECT"])
    PROVE  NetKeeps
<1>1. PICK p : p = [type |-> "CONNECT"]
  OBVIOUS
<1>2. p \in ToBroker /\ p.type \notin AnsTypes /\ ~IsAnswer(p)
  BY <1>1 DEF ToBroker, AnsTypes, IsAnswer
<1>3. net.to_broker \in Seq(ToBroker)
  BY DEF Base, TypeInv, NetType, Nets
<1>4. /\ Carries(net'.to_broker, AnsTypes) <=> Carries(net.to_broker, AnsTypes)
      /\ Once(net.to_broker, AnsTypes) => Once(net'.to_broker, AnsTypes)
  BY <1>1, <1>2, <1>3, AppendOnce
<1>5. \A c : AllMine(net.to_broker, c) => AllMine(net'.to_broker, c)
  BY <1>1, <1>2, <1>3 DEF AllMine
<1>. QED
  BY <1>4, <1>5 DEF NetKeeps, Lone, AnsWay, Under

\* The broker answers
LEMMA BrokerKeeps ==
    ASSUME Base, Base', NEW ok \in BOOLEAN, BrokerAnswers(ok)
    PROVE  NetKeeps
<1>0. net.to_broker \in Seq(ToBroker) /\ net.to_client \in Seq(ToClient) /\ epoch \in Nat
  BY DEF Base, TypeInv, NetType, Nets, RestType
<1>1. net.to_broker # <<>> /\ net'.to_broker = Tail(net.to_broker)
  BY BrokerAnswersDoes
<1>2. Thins(net'.to_broker, net.to_broker)
  BY <1>0, <1>1, ThinsProps
<1>3. \A c : AllMine(net.to_broker, c) => AllMine(net'.to_broker, c)
  BY <1>2, ThinsMine
<1>4. Once(net.to_broker, AnsTypes) =>
          /\ Once(net'.to_broker, AnsTypes)
          /\ Carries(net'.to_broker, AnsTypes) => Carries(net.to_broker, AnsTypes)
          /\ Head(net.to_broker).type \in AnsTypes =>
                 Carries(net.to_broker, AnsTypes) /\ ~Carries(net'.to_broker, AnsTypes)
  BY <1>0, <1>1, TailOnce
<1>5. CASE Thins(net'.to_client, net.to_client)
  BY <1>2, <1>5, ThinsKeeps
<1>6. ASSUME NEW p \in ToClient, ~IsAnswer(p), net'.to_client = Append(net.to_client, p)
      PROVE  NetKeeps
  <2>1. p.type \notin AnsTypes
    BY <1>6 DEF IsAnswer, AnsTypes
  <2>2. /\ Carries(net'.to_client, AnsTypes) <=> Carries(net.to_client, AnsTypes)
        /\ Once(net.to_client, AnsTypes) => Once(net'.to_client, AnsTypes)
    BY <1>0, <1>6, <2>1, AppendOnce
  <2>3. \A c : AllMine(net.to_client, c) => AllMine(net'.to_client, c)
    BY <1>0, <1>6 DEF AllMine
  <2>4. Carries(net'.to_broker, AnsTypes) => Carries(net.to_broker, AnsTypes)
    <3>1. DOMAIN net'.to_broker \subseteq Int
      BY <1>0, <1>1
    <3>2. AnsTypes \cap Plain = {}
      BY DEF AnsTypes, Plain
    <3>. QED
      BY <1>2, <3>1, <3>2, ThinsOnce
  <2>. QED
    BY <1>3, <1>4, <2>2, <2>3, <2>4 DEF NetKeeps, Lone, AnsWay, Under
<1>7. CASE /\ Head(net.to_broker) \in Answers
           /\ net'.to_client = Append(net.to_client, Head(net.to_broker))
  <2>1. PICK p : p = Head(net.to_broker)
    OBVIOUS
  <2>2. /\ p \in ToClient /\ p.type \in AnsTypes /\ 1 \in DOMAIN net.to_broker
        /\ p = net.to_broker[1] /\ IsAnswer(p)
    BY <1>0, <1>1, <1>7, <2>1 DEF ToClient, Answers, AnsTypes, IsAnswer
  <2>3. Carries(net.to_broker, AnsTypes)
    BY <2>2 DEF Carries
  <2>4. ASSUME Lone(net.to_broker, net.to_client, AnsTypes, AnsTypes)
        PROVE  Lone(net'.to_broker, net'.to_client, AnsTypes, AnsTypes)
    <3>1. /\ ~Carries(net.to_client, AnsTypes) /\ Once(net.to_client, AnsTypes)
          /\ Once(net.to_broker, AnsTypes)
      BY <2>3, <2>4 DEF Lone
    <3>2. Once(net'.to_client, AnsTypes)
      BY <1>0, <1>7, <2>1, <2>2, <3>1, AppendOnce
    <3>. QED
      BY <1>4, <2>1, <2>2, <3>1, <3>2 DEF Lone
  <2>5. ASSUME NEW c, AllMine(net.to_broker, c), AllMine(net.to_client, c)
        PROVE  AllMine(net'.to_client, c)
    <3>1. IsMine(p, c)
      BY <2>2, <2>5 DEF AllMine
    <3>2. net'.to_client = Append(net.to_client, p)
      BY <1>7, <2>1
    <3>. QED
      BY <1>0, <2>5, <3>1, <3>2 DEF AllMine
  <2>. QED
    BY <1>3, <2>3, <2>4, <2>5 DEF NetKeeps, AnsWay, Under
<1>8. [type |-> "CONNACK", accepted |-> ok, epoch |-> epoch] \in ToClient
      /\ ~IsAnswer([type |-> "CONNACK", accepted |-> ok, epoch |-> epoch])
  BY <1>0 DEF ToClient, Connacks, IsAnswer
<1>. QED
  BY <1>5, <1>6, <1>7, <1>8, BrokerAnswersDoes

\* A call waits or not, as before, and no other answer comes nearer
LEMMA AnswersStay ==
    ASSUME AnswersAre, NetKeeps, caller'["app"] = app, epoch' = epoch,
           AnsRun' => AnsRun /\ run'.pack = run.pack,
           m'.pack = m.pack, \A s \in {"suback_sem", "unsuback_sem"} : m'.sem[s] = m.sem[s],
           m'.connected => m.connected, Connecting("lost")' => Connecting("lost"),
           UNCHANGED <<answered, failures>>,
           app.sem \in {"suback_sem", "unsuback_sem"} \/ ~Subscribing
    PROVE  AnswersAre'
<1>1. app' = app
  BY DEF app
<1>2. (Subscribing' <=> Subscribing) /\ (Busy' <=> Busy) /\ (Got' <=> Got)
  BY <1>1 DEF Subscribing, Busy, Got
<1>3. ASSUME Resting PROVE Resting'
  BY <1>3 DEF Resting, NetKeeps
<1>4. ASSUME Subscribing, Asking PROVE Asking'
  <2>1. m'.sem[app.sem] = m.sem[app.sem]
    BY <1>4
  <2>2. /\ AllMine(net'.to_broker, app) /\ AllMine(net'.to_client, app)
        /\ Lone(net'.to_broker, net'.to_client, AnsTypes, AnsTypes)
        /\ AnsWay' => AnsWay
    BY <1>4 DEF Asking, NetKeeps
  <2>3. /\ AnsRun' => IsMine(run'.pack, app)
        /\ AnsWay' => ~AnsRun' /\ ~Got'
        /\ AnsRun' => ~Got'
    BY <1>2, <1>4, <2>2 DEF Asking
  <2>4. /\ m'.sem[app.sem] <= 1 /\ (m'.sem[app.sem] = 1 => m'.pack # NoPack)
        /\ \A s \in {"suback_sem", "unsuback_sem"} \ {app.sem} : m'.sem[s] = 0
        /\ app.at = "woken" /\ app.rc = 0 => m'.pack # NoPack /\ m'.sem[app.sem] = 0
        /\ app.at = "resume" /\ app.rc = 0 =>
               IF app.pack # NoPack THEN m'.sem[app.sem] = 0 ELSE app.late
    BY <1>4, <2>1 DEF Asking
  <2>5. /\ app.epoch = epoch /\ (m'.pack = NoPack \/ IsMine(m'.pack, app))
        /\ app.pack = NoPack \/ IsMine(app.pack, app)
    BY <1>4 DEF Asking
  <2>. QED
    BY <1>1, <2>2, <2>3, <2>4, <2>5 DEF Asking
<1>. QED
  BY <1>2, <1>3, <1>4 DEF AnswersAre

\* No call waits, as before
LEMMA AnswersRest ==
    ASSUME AnswersAre, ~Busy, ~Busy', ~AnsWay', AnsRun' => AnsRun,
           \A s \in {"suback_sem", "unsuback_sem"} : m'.sem[s] \in {m.sem[s], 0},
           m'.connected => m'.pack = NoPack, UNCHANGED <<answered, failures>>
    PROVE  AnswersAre'
<1>1. Resting'
  BY DEF AnswersAre, Resting
<1>. QED
  BY <1>1 DEF AnswersAre, Busy

\* While a call waits nobody connects, and the background thread has no CONNACK
LEMMA BusyProps ==
    ASSUME Base, ControlInv, StopInv, ConInv, Busy, ~Connecting("lost")
    PROVE  /\ \A t \in Caller : ~Connecting(t)
           /\ m.connect_state \notin {1, 3}
           /\ RunLive => m.connected
           /\ ~surplus => ~ConRun
<1>1. ~Connecting("app")
  BY DEF Busy, Subscribing, Connecting, app, ControlInv, CallersInv, CallerOK, Quiet, Caller
<1>2. \A t \in Caller : ~Connecting(t)
  BY <1>1 DEF Caller
<1>3. m.connect_state \notin {1, 3} /\ (IsOpen(m) => m.connected)
  <2>1. m.connect_state \in {0, 1, 3, -2}
    BY DEF Base, TypeInv, MType, IsClient, Clients
  <2>. QED
    BY <1>2, <2>1 DEF ControlInv, OpenInv, IsOpen
<1>4. RunLive => m.connected
  <2>1. CASE run.at = "handle" /\ ~tostop
    BY <1>2, <1>3, <2>1 DEF ControlInv, ThreadInv, StopInv
  <2>2. CASE m.socket
    BY <1>3, <2>2 DEF Base
  <2>. QED
    BY <2>1, <2>2 DEF RunLive
<1>. QED
  BY <1>2, <1>3, <1>4 DEF ConInv, ConRun


\* The background thread passes on what it has in its hands
LEMMA AnswersGiven ==
    ASSUME Base, Base', ControlInv, StopInv, ConInv, AnswersAre, ~surplus,
           SameClient, Gives(run.pack), UNCHANGED <<caller, net, epoch, answered, failures>>,
           run' = RunAt("cycle"), RunLive \/ m'.sem = m.sem
    PROVE  AnswersAre'
<1>0. /\ m.sem \in [Semaphores -> Nat] /\ run.pack \in Packs
      /\ \A t \in Caller : CallerOK(t, caller[t])
      /\ "app" \in Caller /\ net.to_broker \in Seq(ToBroker) /\ net.to_client \in Seq(ToClient)
  BY DEF Base, TypeInv, MType, IsClient, Clients, RunType, Runs, ControlInv, CallersInv, Caller,
         NetType, Nets
<1>a. Subscribing => app.sem \in {"suback_sem", "unsuback_sem"}
  BY <1>0 DEF Subscribing, CallerOK, app
<1>b. NetKeeps
  BY <1>0, ThinsProps, ThinsKeeps
<1>c. ~AnsRun' /\ caller'["app"] = app /\ (m'.connected => m.connected)
      /\ (Connecting("lost")' => Connecting("lost"))
  BY DEF AnsRun, RunLive, RunAt, app, SameClient, Connecting
<1>d. app' = app
  BY DEF app
<1>1. CASE SameHeld
  BY <1>1, <1>a, <1>b, <1>c, AnswersStay DEF SameHeld
<1>2. ASSUME NEW s \in Semaphores, m'.sem = [m.sem EXCEPT ![s] = m.sem[s] + 1],
             s = "connect_sem" \/ s = "connack_sem", m'.pack = m.pack
      PROVE  AnswersAre'
  <2>1. \A q \in {"suback_sem", "unsuback_sem"} : m'.sem[q] = m.sem[q]
    BY <1>0, <1>2 DEF Semaphores
  <2>. QED
    BY <1>2, <1>a, <1>b, <1>c, <2>1, AnswersStay
<1>3. ASSUME NEW s \in Semaphores, m'.sem = [m.sem EXCEPT ![s] = m.sem[s] + 1],
             s = "connack_sem", run.pack.type = "CONNACK", m'.pack = run.pack
      PROVE  AnswersAre'
  <2>1. ConRun
    <3>1. m'.sem # m.sem
      BY <1>0, <1>3
    <3>. QED
      BY <1>3, <3>1 DEF ConRun, IsConnack
  <2>2. ~Busy
    BY <2>1, BusyProps DEF AnswersAre
  <2>3. ~m.connected
    BY <2>1 DEF ConInv
  <2>4. \A q \in {"suback_sem", "unsuback_sem"} : m'.sem[q] = m.sem[q]
    BY <1>0, <1>3 DEF Semaphores
  <2>5. ~Busy' /\ ~AnsWay'
    BY <1>b, <1>d, <2>2 DEF Busy, Subscribing, AnswersAre, Resting, NetKeeps
  <2>. QED
    BY <1>c, <2>2, <2>3, <2>4, <2>5, AnswersRest
<1>4. ASSUME NEW s \in {"suback_sem", "unsuback_sem"}, m'.sem = [m.sem EXCEPT ![s] = m.sem[s] + 1],
             m'.pack = run.pack, run.pack.type \in AnsTypes, run.pack.type = Awaited(s)
      PROVE  AnswersAre'
  <2>0. s \in Semaphores
    BY DEF Semaphores
  <2>1. AnsRun
    <3>1. m'.sem # m.sem
      BY <1>0, <1>4, <2>0
    <3>. QED
      BY <1>4, <3>1 DEF AnsRun, IsAnswer, AnsTypes
  <2>2. Busy
    BY <2>1 DEF AnswersAre, Resting
  <2>3. ASSUME Subscribing PROVE Asking'
    <3>1. Asking
      BY <2>3 DEF AnswersAre
    <3>2. IsMine(run.pack, app) /\ ~Got /\ ~AnsWay
      BY <2>1, <3>1 DEF Asking
    <3>3. s = app.sem
      BY <1>4, <1>a, <2>3, <3>2 DEF IsMine, Awaited
    <3>4. m.sem[app.sem] = 0
      <4>1. m.sem[app.sem] \in Nat
        BY <1>0, <2>0, <3>3
      <4>. QED
        BY <3>1, <3>2, <4>1 DEF Asking, Got
    <3>5. m'.sem[app.sem] = 1 /\ \A q \in {"suback_sem", "unsuback_sem"} \ {app.sem} : m'.sem[q] = 0
      <4>1. m'.sem[app.sem] = 1
        BY <1>0, <1>4, <2>0, <3>3, <3>4
      <4>2. \A q \in {"suback_sem", "unsuback_sem"} \ {app.sem} : m'.sem[q] = m.sem[q]
        BY <1>0, <1>4, <3>3 DEF Semaphores
      <4>. QED
        BY <3>1, <4>1, <4>2 DEF Asking
    <3>6. run.pack # NoPack
      BY <1>4 DEF NoPack, AnsTypes
    <3>7. /\ AllMine(net'.to_broker, app) /\ AllMine(net'.to_client, app)
          /\ Lone(net'.to_broker, net'.to_client, AnsTypes, AnsTypes) /\ ~AnsWay'
      BY <3>1, <3>2 DEF Asking, AnsWay
    <3>8. /\ app.epoch = epoch /\ app.pack = NoPack
          /\ ~(app.at = "woken" /\ app.rc = 0)
          /\ app.at = "resume" /\ app.rc = 0 => app.late
      BY <3>1, <3>2 DEF Asking, Got
    <3>. QED
      BY <1>4, <1>c, <1>d, <3>2, <3>5, <3>6, <3>7, <3>8 DEF Asking
  <2>4. (Busy' <=> Busy) /\ (Subscribing' <=> Subscribing)
    BY <1>d DEF Busy, Subscribing
  <2>. QED
    BY <1>c, <2>2, <2>3, <2>4 DEF AnswersAre
<1>. QED
  <2>1. Awaited("suback_sem") = "SUBACK" /\ Awaited("unsuback_sem") = "UNSUBACK"
    BY DEF Awaited
  <2>2. CASE \E s \in Semaphores :
               /\ m'.sem = [m.sem EXCEPT ![s] = m.sem[s] + 1]
               /\ \/ s = "connack_sem" /\ run.pack.type = "CONNACK" /\ m.sem[s] = 0 /\ m'.pack = run.pack
                  \/ s = "suback_sem" /\ run.pack.type = "SUBACK" /\ m'.pack = run.pack
                  \/ s = "unsuback_sem" /\ run.pack.type = "UNSUBACK" /\ m'.pack = run.pack
                  \/ s = "connect_sem" /\ run.pack.type = "none" /\ m.connect_state = 1
                     /\ m'.pack = m.pack
    <3>1. PICK s \in Semaphores :
               /\ m'.sem = [m.sem EXCEPT ![s] = m.sem[s] + 1]
               /\ \/ s = "connack_sem" /\ run.pack.type = "CONNACK" /\ m.sem[s] = 0 /\ m'.pack = run.pack
                  \/ s = "suback_sem" /\ run.pack.type = "SUBACK" /\ m'.pack = run.pack
                  \/ s = "unsuback_sem" /\ run.pack.type = "UNSUBACK" /\ m'.pack = run.pack
                  \/ s = "connect_sem" /\ run.pack.type = "none" /\ m.connect_state = 1
                     /\ m'.pack = m.pack
      BY <2>2
    <3>. QED
      BY <1>2, <1>3, <1>4, <2>1, <3>1 DEF AnsTypes
  <2>. QED
    BY <1>1, <2>2 DEF Gives

\* A connection is ended
LEMMA AnswersEnd ==
    ASSUME Base, ControlInv, StopInv, ConInv, SemaphoresAreDown, AnswersAre, ~outrun, EndStep
    PROVE  AnswersAre'
<1>0. /\ m.sem \in [Semaphores -> Nat] /\ tostop \in BOOLEAN /\ running \in BOOLEAN
      /\ "app" \in Caller /\ "lost" \in Caller
      /\ \A t \in Caller : CallerOK(t, caller[t])
  BY DEF Base, TypeInv, MType, IsClient, Clients, RestType, ControlInv, CallersInv, Caller
<1>1. net'.to_broker = <<>> /\ net'.to_client = <<>>
  BY DEF EndStep, NoNet
<1>2. /\ ~AnsWay' /\ Lone(net'.to_broker, net'.to_client, AnsTypes, AnsTypes)
      /\ \A c : AllMine(net'.to_broker, c) /\ AllMine(net'.to_client, c)
  BY <1>1, NothingUnder DEF AnsWay, AllMine
<1>3. AnsRun' => AnsRun
  BY <1>0 DEF EndStep, AnsRun, RunLive, RunAt
<1>4. ~m'.connected /\ UNCHANGED <<epoch, answered, failures>>
  BY DEF EndStep
<1>5. m'.sem = m.sem \/ m'.sem = Released
  BY DEF EndStep
<1>6. \A s \in {"suback_sem", "unsuback_sem"} : Released[s] = 0
  BY DEF Released, Semaphores
<1>7. EndMove(caller["app"], app') /\ EndMove(caller["lost"], caller'["lost"])
  BY <1>0 DEF EndStep, app
<1>8. Connecting("lost")' => Connecting("lost")
  BY <1>7 DEF EndMove, Connecting
<1>9. CASE ~Busy
  <2>1. ~Busy'
    BY <1>7, <1>9 DEF Busy, Subscribing, EndMove, app, Wait
  <2>. QED
    BY <1>2, <1>3, <1>4, <1>5, <1>6, <1>9, <2>1, AnswersRest
<1>10. CASE Busy
  <2>1. /\ \A t \in Caller : ~Connecting(t)
        /\ ~Connecting("lost")
    BY <1>10, BusyProps DEF AnswersAre
  <2>2. ~RunLive'
    BY <1>0, <2>1 DEF EndStep, RunLive, RunAt, ControlInv, ThreadInv
  <2>3. CASE app' = app
    <3>1. ASSUME Subscribing PROVE Asking'
      <4>1. Asking /\ m'.pack = m.pack
        BY <2>1, <3>1 DEF AnswersAre, EndStep, Begun
      <4>2. app.sem \in {"suback_sem", "unsuback_sem"}
        BY <1>0, <3>1 DEF Subscribing, CallerOK, app
      <4>3. \A s \in {"suback_sem", "unsuback_sem"} : m'.sem[s] = m.sem[s] \/ m'.sem[s] = 0
        BY <1>5, <1>6
      <4>4. /\ m'.sem[app.sem] <= 1 /\ (m'.sem[app.sem] = 1 => m'.pack # NoPack)
            /\ \A s \in {"suback_sem", "unsuback_sem"} \ {app.sem} : m'.sem[s] = 0
            /\ app.at = "woken" /\ app.rc = 0 => m'.pack # NoPack /\ m'.sem[app.sem] = 0
            /\ app.at = "resume" /\ app.rc = 0 =>
                   IF app.pack # NoPack THEN m'.sem[app.sem] = 0 ELSE app.late
        BY <4>1, <4>2, <4>3 DEF Asking
      <4>. QED
        BY <1>2, <1>4, <2>2, <2>3, <4>1, <4>4 DEF Asking, AnsRun
    <3>. QED
      BY <1>4, <1>8, <1>10, <2>1, <2>3, <3>1 DEF AnswersAre, Busy, Subscribing
  <2>4. CASE app' # app
    <3>1. ~Busy'
      <4>1. app'.at \in {"idle", "failed", "attempt", "stopping", "begin"}
        BY <1>7, <2>4 DEF EndMove, app
      <4>. QED
        BY <4>1 DEF Busy, Subscribing, Wait
    <3>2. m'.sem = Released
      BY DEF EndStep, SemaphoresAreDown
    <3>3. Resting'
      BY <1>2, <1>4, <1>6, <2>2, <3>2 DEF Resting, AnsRun
    <3>. QED
      BY <1>4, <3>1, <3>3 DEF AnswersAre, Busy
  <2>. QED
    BY <2>3, <2>4
<1>. QED
  BY <1>9, <1>10

\* The wait of a call goes on
LEMMA AnswersWait ==
    ASSUME Base, Base', ControlInv, AnswersAre, Subscribing,
           NEW to \in Callers, caller' = [caller EXCEPT !["app"] = to],
           to.version = app.version, to.sem = app.sem, to.call = app.call, to.epoch = app.epoch,
           to.at \in Wait, to.pack \in {app.pack, NoPack},
           to.at = "woken" => to.rc # 0, to.at = "resume" => to.late /\ to.pack = NoPack,
           m' = m, UNCHANGED <<run, tostop, net, epoch, answered, failures>>
    PROVE  AnswersAre'
<1>1. "app" \in Caller /\ "lost" \in Caller /\ caller \in [Caller -> Callers]
  BY DEF Caller, Base, TypeInv, CallerType
<1>2. app' = to /\ caller'["lost"] = caller["lost"]
  BY <1>1 DEF app
<1>3. Asking
  BY DEF AnswersAre
<1>4. (AnsRun' <=> AnsRun) /\ (AnsWay' <=> AnsWay) /\ (Got' => Got) /\ run' = run /\ net' = net
  BY <1>2 DEF AnsRun, RunLive, AnsWay, Got
<1>5. Awaited(to.sem) = Awaited(app.sem)
  OBVIOUS
<1>6. \A p : IsMine(p, to) <=> IsMine(p, app)
  BY <1>5 DEF IsMine
<1>7. AllMine(net.to_broker, to) /\ AllMine(net.to_client, to)
  BY <1>3, <1>6 DEF Asking, AllMine
<1>8. Asking'
  BY <1>2, <1>3, <1>4, <1>6, <1>7 DEF Asking
<1>9. Subscribing' /\ Busy' /\ ~Connecting("lost")'
  BY <1>2 DEF Subscribing, Busy, Connecting, AnswersAre
<1>. QED
  BY <1>8, <1>9 DEF AnswersAre


LEMMA AnswerNext ==
    ASSUME Base, ControlInv, StopInv, LossInv, PacksInv, ConInv, SemaphoresAreDown, AnswerInv,
           [Next]_vars
    PROVE  AnswerInv'
<1>0. /\ caller \in [Caller -> Callers] /\ "app" \in Caller /\ "lost" \in Caller
      /\ epoch \in Nat /\ run.epoch \in Nat /\ run.epoch <= epoch
      /\ net.to_broker \in Seq(ToBroker) /\ net.to_client \in Seq(ToClient)
      /\ m.sem \in [Semaphores -> Nat]
      /\ mixed \in BOOLEAN /\ outrun \in BOOLEAN /\ surplus \in BOOLEAN
      /\ \A t \in Caller : CallerOK(t, caller[t])
  BY DEF Base, TypeInv, MType, IsClient, Clients, RunType, Runs, CallerType, RestType, NetType,
         Nets, ControlInv, CallersInv, Caller, PacksInv
<1>a. Base'
  BY BaseNext
<1>b. Subscribing => app.sem \in {"suback_sem", "unsuback_sem"}
  BY <1>0 DEF Subscribing, CallerOK, app
<1>c. net' = net => NetKeeps
  BY <1>0, <1>a, ThinsProps, ThinsKeeps
<1>d. Sure => AnswersAre
  BY DEF AnswerInv
<1>e. \A t \in Caller : Connecting(t) => ~(t = "app" /\ Busy)
  BY <1>0 DEF Busy, Subscribing, Connecting, app, CallerOK, Quiet
\* Neither the application nor what it waits for is touched
<1>1. ASSUME Sure, NetKeeps, caller'["app"] = app, epoch' = epoch,
             Connecting("lost")' => Connecting("lost"),
             AnsRun' => AnsRun /\ run'.pack = run.pack, m'.pack = m.pack,
             \A s \in {"suback_sem", "unsuback_sem"} : m'.sem[s] = m.sem[s],
             m'.connected => m.connected, UNCHANGED <<answered, failures>>
      PROVE  AnswersAre'
  BY <1>1, <1>b, <1>d, AnswersStay
\* A thread goes on that connects
<1>2. ASSUME Sure, NEW t \in Caller, Connecting(t), NEW to, caller' = [caller EXCEPT ![t] = to],
             to.version # 0 \/ to.at = "idle", to.at # "drop",
             AnsWay' => AnsWay, AnsRun' => AnsRun,
             \A s \in {"suback_sem", "unsuback_sem"} : m'.sem[s] = m.sem[s],
             m'.connected => m'.pack = NoPack \/ (m.connected /\ m'.pack = m.pack),
             UNCHANGED <<answered, failures>>
      PROVE  AnswersAre'
  <2>1. ~Busy
    BY <1>2, <1>d, <1>e DEF AnswersAre, Caller
  <2>2. app' = app \/ app' = to
    BY <1>0, <1>2 DEF app
  <2>3. ~Busy'
    BY <1>2, <2>1, <2>2 DEF Busy, Subscribing, Wait
  <2>4. ~AnsWay /\ (m.connected => m.pack = NoPack)
    BY <1>2, <1>d, <2>1 DEF AnswersAre, Resting
  <2>. QED
    BY <1>2, <1>d, <2>1, <2>3, <2>4, AnswersRest
<1>3. UNCHANGED <<run, tostop, epoch>> /\ m'.socket = m.socket => (AnsRun' => AnsRun /\ run'.pack = run.pack)
  BY DEF AnsRun, RunLive
<1>. SUFFICES ASSUME Sure' PROVE AnswersAre'
  BY DEF AnswerInv
<1>4. CASE QuietStep
  <2>1. Sure
    BY <1>4 DEF QuietStep, Sure, marks
  <2>2. NetKeeps
    BY <1>4, <1>a, ThinsKeeps DEF QuietStep
  <2>3. QuietMove(caller["app"], app') /\ QuietMove(caller["lost"], caller'["lost"])
    BY <1>0, <1>4 DEF QuietStep, app
  <2>4. Connecting("lost")' => Connecting("lost")
    BY <2>3 DEF QuietMove, Connecting
  <2>5. /\ epoch' = epoch /\ (AnsRun' => AnsRun /\ run'.pack = run.pack) /\ m'.pack = m.pack
        /\ \A s \in {"suback_sem", "unsuback_sem"} : m'.sem[s] = m.sem[s]
        /\ m'.connected = m.connected /\ UNCHANGED <<answered, failures>>
    BY <1>3, <1>4 DEF QuietStep
  <2>6. CASE app' = app
    BY <1>1, <2>1, <2>2, <2>4, <2>5, <2>6 DEF app
  <2>7. CASE app' # app
    <3>1. /\ ~Busy /\ ~Subscribing'
          /\ app'.at = "drop" => m.connected
      BY <2>3, <2>7 DEF QuietMove, Busy, Subscribing, app, Quiet, Wait
    <3>2. CASE app'.at = "drop"
      <4>1. ~Connecting("lost")'
        BY <1>0, <2>4, <3>1, <3>2 DEF ControlInv, OpenInv
      <4>. QED
        BY <1>d, <2>1, <2>5, <3>1, <3>2, <4>1 DEF AnswersAre, Busy
    <3>3. CASE app'.at # "drop"
      <4>1. ~Busy' /\ ~AnsWay /\ (m.connected => m.pack = NoPack)
        BY <1>d, <2>1, <3>1, <3>3 DEF Busy, AnswersAre, Resting
      <4>. QED
        BY <1>d, <2>1, <2>2, <2>5, <3>1, <4>1, AnswersRest DEF NetKeeps
    <3>. QED
      BY <3>2, <3>3
  <2>. QED
    BY <2>6, <2>7
<1>5. CASE EndStep
  <2>1. Sure
    BY <1>0, <1>5 DEF EndStep, Sure
  <2>. QED
    BY <1>5, <1>d, <2>1, AnswersEnd DEF Sure
<1>6. ASSUME SameClient, m'.pack = m.pack,
             \A s \in {"suback_sem", "unsuback_sem"} : m'.sem[s] = m.sem[s],
             UNCHANGED <<caller, net, epoch, answered, failures, marks>>,
             ~IsAnswer(run'.pack) \/ (run'.pack = run.pack /\ (RunLive' => RunLive))
      PROVE  AnswersAre'
  <2>1. Sure /\ (AnsRun' => AnsRun /\ run'.pack = run.pack)
    BY <1>6 DEF Sure, marks, AnsRun
  <2>. QED
    BY <1>1, <1>6, <1>c, <2>1 DEF SameClient, Connecting, app
<1>f. ~IsAnswer(NoPack)
  BY DEF IsAnswer, NoPack
<1>7. CASE RunRests
  BY <1>6, <1>7, <1>f DEF RunRests, SameClient, results
<1>8. CASE RunReads
  <2>1. /\ SameClient /\ SameHeld /\ SameRest /\ caller' = caller
        /\ run'.pack \in Packs /\ Takes(run'.pack, net')
    BY <1>8, RunReadsDoes
  <2>2. Sure
    BY <2>1 DEF SameRest, SameMarks, marks, Sure
  <2>3. CASE ~IsAnswer(run'.pack)
    <3>1. NetKeeps
      BY <1>a, <2>1, TakesKnown, ThinsKeeps
    <3>2. ~AnsRun'
      BY <2>3 DEF AnsRun
    <3>. QED
      BY <1>1, <2>1, <2>2, <3>1, <3>2 DEF SameClient, SameHeld, SameRest, SameMarks, Connecting, app
  <2>4. CASE IsAnswer(run'.pack)
    <3>1. /\ net.to_client # <<>> /\ run'.pack = Head(net.to_client)
          /\ net'.to_client = Tail(net.to_client) /\ net'.to_broker = net.to_broker
      BY <1>f, <2>1, <2>4 DEF Takes
    <3>2. run'.pack = net.to_client[1] /\ 1 \in DOMAIN net.to_client /\ run'.pack.type \in AnsTypes
      BY <1>0, <2>4, <3>1 DEF IsAnswer, AnsTypes
    <3>3. AnsWay
      BY <3>2 DEF AnsWay, Under, Carries
    <3>4. Busy
      BY <1>d, <2>2, <3>3 DEF AnswersAre, Resting
    <3>5. ASSUME Subscribing PROVE Asking'
      <4>1. Asking /\ ~Got
        BY <1>d, <2>2, <3>3, <3>5 DEF AnswersAre, Asking
      <4>2. Once(net.to_broker, AnsTypes) /\ Once(net.to_client, AnsTypes)
            /\ ~(Carries(net.to_broker, AnsTypes) /\ Carries(net.to_client, AnsTypes))
        BY <4>1 DEF Asking, Lone
      <4>3. /\ Once(net'.to_client, AnsTypes) /\ Carries(net.to_client, AnsTypes)
            /\ ~Carries(net'.to_client, AnsTypes)
        BY <1>0, <3>1, <3>2, <4>2, TailOnce
      <4>4. ~AnsWay' /\ Lone(net'.to_broker, net'.to_client, AnsTypes, AnsTypes)
        BY <3>1, <4>2, <4>3 DEF AnsWay, Under, Lone
      <4>5. IsMine(run'.pack, app)
        BY <2>4, <3>2, <4>1 DEF Asking, AllMine
      <4>6. AllMine(net'.to_broker, app) /\ AllMine(net'.to_client, app)
        <5>1. Thins(net'.to_client, net.to_client)
          BY <1>0, <3>1, ThinsProps
        <5>. QED
          BY <3>1, <4>1, <5>1, ThinsMine DEF Asking
      <4>7. app' = app /\ m'.pack = m.pack /\ m'.sem = m.sem /\ epoch' = epoch /\ ~Got'
        BY <2>1, <4>1 DEF app, SameHeld, SameRest, SameMarks, Got
      <4>. QED
        BY <4>1, <4>4, <4>5, <4>6, <4>7 DEF Asking
    <3>6. /\ (Busy' <=> Busy) /\ (Subscribing' <=> Subscribing) /\ UNCHANGED <<answered, failures>>
          /\ Connecting("lost")' <=> Connecting("lost")
      BY <2>1 DEF Busy, Subscribing, app, SameRest, SameMarks, Connecting
    <3>. QED
      BY <1>d, <2>2, <3>4, <3>5, <3>6 DEF AnswersAre
  <2>. QED
    BY <2>3, <2>4
<1>9. CASE RunFindsError
  <2>1. ~IsAnswer(run'.pack)
    BY <1>9, <1>f, RunFindsErrorDoes DEF RunAt
  <2>2. \A s \in {"suback_sem", "unsuback_sem"} : m'.sem[s] = m.sem[s]
    BY <1>0, <1>9, RunFindsErrorDoes DEF Semaphores
  <2>. QED
    BY <1>6, <1>9, <2>1, <2>2, RunFindsErrorDoes DEF SameRest, SameMarks
<1>10. CASE RunHandles
  <2>1. /\ SameClient /\ SameRest /\ caller' = caller /\ net' = net /\ Gives(run.pack)
        /\ run' = RunAt("cycle") /\ RunLive
    BY <1>10, RunHandlesDoes DEF RunLive
  <2>2. Sure /\ UNCHANGED <<epoch, answered, failures>>
    BY <2>1 DEF SameRest, SameMarks, Sure, marks
  <2>. QED
    BY <1>a, <1>d, <2>1, <2>2, AnswersGiven DEF Sure
<1>11. ASSUME NEW ok \in BOOLEAN, RunReturns(ok)
       PROVE  AnswersAre'
  <2>1. /\ SameClient /\ Gives(run.pack) /\ run' = RunAt("cycle")
        /\ UNCHANGED <<epoch, answered, failures, mixed, surplus, caller, net>>
        /\ outrun' = (outrun \/ (m'.sem # m.sem /\ ~(m.socket /\ run.epoch = epoch)))
        /\ run.at = "callback"
    BY <1>11, RunReturnsDoes
  <2>2. Sure
    BY <1>0, <2>1 DEF Sure
  <2>3. RunLive \/ m'.sem = m.sem
    BY <2>1 DEF Sure, RunLive
  <2>. QED
    BY <1>a, <1>d, <2>1, <2>2, <2>3, AnswersGiven DEF Sure
<1>12. CASE RunCalls
  <2>1. RunLive
    BY <1>12, RunCallsDoes DEF RunLive
  <2>. QED
    BY <1>6, <1>12, <2>1, RunCallsDoes DEF SameRest, SameMarks, SameClient
<1>13. ASSUME NEW t \in Caller, MoveStep(t)
       PROVE  AnswersAre'
  <2>1. PICK to \in Callers :
           /\ caller' = [caller EXCEPT ![t] = to]
           /\ to.version = caller[t].version /\ to.pack \in {caller[t].pack, NoPack}
           /\ to.at \in Wait => /\ to.sem = caller[t].sem /\ to.call = caller[t].call
                                /\ to.epoch = caller[t].epoch /\ caller[t].at \in Wait
           /\ to.at = "woken" => to.rc # 0
           /\ to.at = "resume" => to.late /\ to.pack = NoPack
           /\ to.at # "drop" /\ ~At(t, "drop")
           /\ caller[t].at \in Wait /\ to.at \notin Wait => Connecting(t)
    BY <1>13 DEF MoveStep, Wait
  <2>2. /\ m' = m /\ run' = run /\ net' = net
        /\ UNCHANGED <<tostop, epoch, answered, failures, marks>>
    BY <1>13 DEF MoveStep, client, results
  <2>3. Sure
    BY <2>2 DEF Sure, marks
  <2>4. CASE t = "lost"
    <3>1. caller'["app"] = app /\ (Connecting("lost")' => Connecting("lost"))
      BY <1>0, <2>1, <2>4 DEF app, Connecting
    <3>. QED
      BY <1>1, <1>3, <1>c, <2>2, <2>3, <3>1
  <2>5. CASE t = "app" /\ Subscribing
    <3>1. to.at \in Wait
      BY <2>1, <2>5 DEF Subscribing, Connecting, app
    <3>. QED
      BY <1>a, <1>d, <2>1, <2>2, <2>3, <2>5, <3>1, AnswersWait DEF app
  <2>6. CASE t = "app" /\ ~Subscribing
    <3>1. ~Busy
      BY <2>1, <2>6 DEF Busy, app
    <3>2. app' = to
      BY <1>0, <2>1, <2>6 DEF app
    <3>3. ~Busy'
      BY <2>1, <2>6, <3>2 DEF Busy, Subscribing, app
    <3>4. ~AnsWay' /\ (m'.connected => m'.pack = NoPack)
      BY <1>d, <2>2, <2>3, <3>1 DEF AnswersAre, Resting, AnsWay
    <3>. QED
      BY <1>3, <1>d, <2>2, <2>3, <3>1, <3>3, <3>4, AnswersRest
  <2>. QED
    BY <2>4, <2>5, <2>6 DEF Caller
<1>14. ASSUME NEW t \in Caller, WaitEnds(t)
       PROVE  AnswersAre'
  <2>1. /\ SameClient /\ SameRest /\ net' = net /\ run' = run /\ m'.pack = m.pack
        /\ m'.sem = [m.sem EXCEPT ![caller[t].sem] = m.sem[caller[t].sem] - 1]
        /\ At(t, "waiting") /\ m.sem[caller[t].sem] > 0
    BY <1>14, WaitEndsDoes
  <2>2. PICK to : Onward(t, to) /\ to.at = "woken" /\ to.pack = caller[t].pack
    BY <1>14, WaitEndsDoes
  <2>3. Sure /\ UNCHANGED <<epoch, answered, failures, tostop>>
    BY <2>1 DEF SameRest, SameMarks, marks, Sure
  <2>4. AnsRun' => AnsRun /\ run'.pack = run.pack
    BY <1>3, <2>1, <2>3 DEF SameClient
  <2>5. CASE Connecting(t)
    <3>1. caller[t].sem \in {"connect_sem", "connack_sem"}
      BY <1>0, <2>1, <2>5 DEF CallerOK, Connecting, Wait
    <3>2. \A s \in {"suback_sem", "unsuback_sem"} : m'.sem[s] = m.sem[s]
      BY <1>0, <2>1, <3>1 DEF Semaphores
    <3>3. to.version # 0 /\ caller' = [caller EXCEPT ![t] = to]
      BY <2>2, <2>5 DEF Onward, Connecting
    <3>. QED
      BY <1>2, <2>1, <2>2, <2>3, <2>4, <2>5, <3>2, <3>3 DEF AnsWay, SameClient
  <2>6. CASE ~Connecting(t)
    <3>1. t = "app" /\ Subscribing
      BY <1>0, <2>1, <2>6 DEF CallerOK, Connecting, Wait, Subscribing, app
    <3>2. /\ app' = to /\ caller'["lost"] = caller["lost"]
          /\ to.version = 0 /\ to.sem = app.sem /\ to.call = app.call /\ to.epoch = app.epoch
          /\ to.pack = app.pack
      BY <1>0, <2>2, <2>6, <3>1 DEF Onward, app, Connecting
    <3>3. Asking
      BY <1>d, <2>3, <3>1 DEF AnswersAre
    <3>4. m.sem[app.sem] = 1 /\ m.pack # NoPack /\ app.sem \in Semaphores
      <4>1. m.sem[app.sem] \in Nat /\ app.sem \in Semaphores
        BY <1>0, <1>b, <3>1 DEF Semaphores
      <4>. QED
        BY <2>1, <3>1, <3>3, <4>1 DEF Asking, app
    <3>5. m'.sem[app.sem] = 0 /\ \A s \in {"suback_sem", "unsuback_sem"} \ {app.sem} : m'.sem[s] = 0
      <4>1. m'.sem[app.sem] = 0
        BY <1>0, <2>1, <3>1, <3>4 DEF app
      <4>2. \A s \in {"suback_sem", "unsuback_sem"} \ {app.sem} : m'.sem[s] = m.sem[s]
        BY <1>0, <2>1, <3>1 DEF app, Semaphores
      <4>. QED
        BY <3>3, <4>1, <4>2 DEF Asking
    <3>6. \A p : IsMine(p, to) <=> IsMine(p, app)
      BY <3>2 DEF IsMine
    <3>7. AllMine(net.to_broker, to) /\ AllMine(net.to_client, to)
      BY <3>3, <3>6 DEF Asking, AllMine
    <3>8. (AnsWay' <=> AnsWay) /\ (Got' <=> Got)
      BY <2>1, <3>2 DEF AnsWay, Got
    <3>9. Asking'
      BY <2>1, <2>2, <2>3, <2>4, <3>2, <3>3, <3>4, <3>5, <3>6, <3>7, <3>8 DEF Asking
    <3>10. Subscribing' /\ Busy' /\ ~Connecting("lost")'
      BY <1>d, <2>2, <2>3, <3>1, <3>2 DEF Subscribing, Busy, Connecting, AnswersAre, Wait
    <3>. QED
      BY <1>d, <2>3, <3>9, <3>10 DEF AnswersAre
  <2>. QED
    BY <2>5, <2>6
<1>15. ASSUME NEW t \in Caller, PackIsRead(t)
       PROVE  AnswersAre'
  <2>1. m' = m /\ SameRest /\ net' = net /\ run' = run /\ At(t, "woken")
    BY <1>15, PackIsReadDoes
  <2>2. PICK to : Onward(t, to) /\ to.at = "resume" /\ to.pack = m.pack /\ to.rc = caller[t].rc
    BY <1>15, PackIsReadDoes
  <2>3. Sure /\ UNCHANGED <<epoch, answered, failures, tostop>>
    BY <2>1 DEF SameRest, SameMarks, marks, Sure
  <2>4. AnsRun' => AnsRun /\ run'.pack = run.pack
    BY <1>3, <2>1, <2>3
  <2>5. CASE Connecting(t)
    <3>1. to.version # 0 /\ caller' = [caller EXCEPT ![t] = to]
      BY <2>2, <2>5 DEF Onward, Connecting
    <3>. QED
      BY <1>2, <2>1, <2>2, <2>3, <2>4, <2>5, <3>1 DEF AnsWay
  <2>6. CASE ~Connecting(t)
    <3>1. t = "app" /\ Subscribing
      BY <1>0, <2>1, <2>6 DEF CallerOK, Connecting, Wait, Subscribing, app
    <3>2. /\ app' = to /\ caller'["lost"] = caller["lost"]
          /\ to.version = 0 /\ to.sem = app.sem /\ to.call = app.call /\ to.epoch = app.epoch
          /\ to.rc = app.rc /\ to.late = app.late
      BY <1>0, <2>2, <2>6, <3>1 DEF Onward, app, Connecting
    <3>3. Asking /\ app.at = "woken" /\ app.pack = NoPack
      BY <1>0, <1>d, <2>1, <2>3, <3>1 DEF AnswersAre, app, CallerOK, Wait
    <3>6. \A p : IsMine(p, to) <=> IsMine(p, app)
      BY <3>2 DEF IsMine
    <3>7. AllMine(net.to_broker, to) /\ AllMine(net.to_client, to)
      BY <3>3, <3>6 DEF Asking, AllMine
    <3>8. (AnsWay' <=> AnsWay) /\ (Got' <=> Got)
      BY <2>1, <2>2, <3>2, <3>3 DEF AnsWay, Got
    <3>9. Asking'
      BY <2>1, <2>2, <2>3, <2>4, <3>2, <3>3, <3>6, <3>7, <3>8 DEF Asking
    <3>10. Subscribing' /\ Busy' /\ ~Connecting("lost")'
      BY <1>d, <2>2, <2>3, <3>1, <3>2 DEF Subscribing, Busy, Connecting, AnswersAre, Wait
    <3>. QED
      BY <1>d, <2>3, <3>9, <3>10 DEF AnswersAre
  <2>. QED
    BY <2>5, <2>6
<1>16. ASSUME NEW t \in Caller, CallCycles(t)
       PROVE  AnswersAre'
  <2>1. SameClient /\ SameHeld /\ SameRest /\ run' = run /\ At(t, "cycling")
    BY <1>16, CallCyclesDoes
  <2>2. Sure /\ UNCHANGED <<epoch, answered, failures, tostop>>
    BY <2>1 DEF SameRest, SameMarks, marks, Sure
  <2>3. AnsRun' => AnsRun /\ run'.pack = run.pack
    BY <1>3, <2>1, <2>2 DEF SameClient
  <2>4. CASE /\ caller' = caller
             /\ Thins(net'.to_broker, net.to_broker) /\ Thins(net'.to_client, net.to_client)
    BY <1>1, <1>a, <2>1, <2>2, <2>3, <2>4, ThinsKeeps DEF SameClient, SameHeld, Connecting, app
  <2>5. ASSUME NEW to, Onward(t, to), to.at = "resume", Takes(to.pack, net'),
               \/ to.pack.type = Awaited(caller[t].sem) \/ m.connect_state \in {1, 3}
               \/ to.rc = -1 /\ to.pack = NoPack
        PROVE  AnswersAre'
    <3>0. NetKeeps
      BY <1>a, <2>5, TakesKnown, ThinsKeeps
    <3>1. CASE Connecting(t)
      <4>1. to.version # 0 /\ caller' = [caller EXCEPT ![t] = to]
        BY <2>5, <3>1 DEF Onward, Connecting
      <4>. QED
        BY <1>2, <2>1, <2>2, <2>3, <2>5, <3>0, <3>1, <4>1 DEF NetKeeps, SameClient, SameHeld
    <3>2. CASE ~Connecting(t)
      <4>1. t = "app" /\ Subscribing
        BY <1>0, <2>1, <3>2 DEF CallerOK, Connecting, Wait, Subscribing, app
      <4>2. /\ app' = to /\ caller'["lost"] = caller["lost"]
            /\ to.version = 0 /\ to.sem = app.sem /\ to.call = app.call /\ to.epoch = app.epoch
            /\ to.late = app.late
        BY <1>0, <2>5, <3>2, <4>1 DEF Onward, app, Connecting
      <4>3. Asking /\ app.pack = NoPack
        BY <1>0, <1>d, <2>1, <2>2, <4>1 DEF AnswersAre, app, CallerOK, Wait
      <4>4. \A p : IsMine(p, to) <=> IsMine(p, app)
        BY <4>2 DEF IsMine
      <4>5. AllMine(net.to_broker, app) /\ AllMine(net.to_client, app)
            /\ Lone(net.to_broker, net.to_client, AnsTypes, AnsTypes)
        BY <4>3 DEF Asking
      <4>6. AllMine(net'.to_broker, to) /\ AllMine(net'.to_client, to)
            /\ Lone(net'.to_broker, net'.to_client, AnsTypes, AnsTypes) /\ (AnsWay' => AnsWay)
        <5>1. AllMine(net'.to_broker, app) /\ AllMine(net'.to_client, app)
          BY <3>0, <4>5 DEF NetKeeps
        <5>. QED
          BY <3>0, <4>4, <4>5, <5>1 DEF NetKeeps, AllMine
      <4>7. Subscribing' /\ Busy' /\ ~Connecting("lost")'
        BY <1>d, <2>2, <2>5, <4>1, <4>2 DEF Subscribing, Busy, Connecting, AnswersAre, Wait
      <4>8. Awaited(app.sem) \in AnsTypes /\ Awaited(app.sem) # "none"
        BY <1>b, <4>1 DEF Awaited, AnsTypes
      <4>9. m.connect_state \notin {1, 3}
        BY <1>d, <2>2, <4>7, <4>2, <4>1, BusyProps DEF AnswersAre, Busy
      <4>10. CASE to.rc = -1 /\ to.pack = NoPack
        <5>1. Got' => Got
          BY <2>1, <4>2, <4>10 DEF Got, SameHeld
        <5>2. Asking'
          BY <2>1, <2>2, <2>3, <2>5, <4>2, <4>3, <4>4, <4>6, <4>10, <5>1 DEF Asking, SameHeld
        <5>. QED
          BY <1>d, <2>2, <4>7, <5>2 DEF AnswersAre
      <4>11. CASE to.pack.type = Awaited(app.sem)
        <5>1. to.pack # NoPack /\ to.pack.type \in AnsTypes /\ IsAnswer(to.pack)
          BY <4>8, <4>11 DEF NoPack, IsAnswer, AnsTypes
        <5>2. /\ net.to_client # <<>> /\ to.pack = Head(net.to_client)
              /\ net'.to_client = Tail(net.to_client) /\ net'.to_broker = net.to_broker
          BY <2>5, <5>1 DEF Takes
        <5>3. to.pack = net.to_client[1] /\ 1 \in DOMAIN net.to_client
          BY <1>0, <5>2
        <5>4. Carries(net.to_client, AnsTypes) /\ IsMine(to.pack, app)
          BY <4>5, <5>1, <5>3 DEF Carries, AllMine
        <5>5. AnsWay /\ ~AnsRun /\ ~Got
          BY <4>3, <5>4 DEF AnsWay, Under, Asking
        <5>6. ~AnsWay'
          <6>1. Once(net.to_client, AnsTypes) /\ ~Carries(net.to_broker, AnsTypes)
            BY <4>5, <5>4 DEF Lone
          <6>2. ~Carries(net'.to_client, AnsTypes)
            BY <1>0, <5>1, <5>2, <6>1, TailOnce
          <6>. QED
            BY <5>2, <6>1, <6>2 DEF AnsWay, Under
        <5>7. m.sem[app.sem] = 0
          <6>1. m.sem[app.sem] \in Nat
            BY <1>0, <1>b, <4>1 DEF Semaphores
          <6>. QED
            BY <4>3, <5>5, <6>1 DEF Asking, Got
        <5>8. m'.sem = m.sem /\ m'.pack = m.pack
          BY <2>1 DEF SameHeld
        <5>9. Asking'
          BY <2>2, <2>3, <2>5, <4>2, <4>3, <4>4, <4>6, <5>1, <5>4, <5>5, <5>6, <5>7, <5>8 DEF Asking
        <5>. QED
          BY <1>d, <2>2, <4>7, <5>9 DEF AnswersAre
      <4>. QED
        BY <2>5, <4>1, <4>9, <4>10, <4>11 DEF app
    <3>. QED
      BY <3>1, <3>2
  <2>. QED
    BY <1>16, <2>4, <2>5, CallCyclesDoes
<1>17. ASSUME NEW t \in Caller, Connect(t) \/ ConnectAgain(t)
       PROVE  AnswersAre'
  <2>1. /\ UNCHANGED <<tostop, answered, failures, outrun, surplus>>
        /\ mixed' = (mixed \/ (Connect(t) /\ \E u \in Caller \ {t} : caller[u].at \notin {"idle", "begin"}))
        /\ run' = run \/ (run.at = "off" /\ run' = RunAt("cycle"))
        /\ ~m.connected /\ ~m'.connected /\ m'.sem = m.sem /\ m'.pack = m.pack
        /\ caller[t].at \in {"idle", "begin", "attempt"}
        /\ At(t, "attempt") <=> Connecting(t)
    BY <1>17, AttemptsDoes
  <2>2. PICK to \in Callers :
           /\ caller' = [caller EXCEPT ![t] = to] /\ to.version # 0 /\ to.pack = NoPack
           /\ \/ to.at = "failed" /\ UNCHANGED <<m, net, epoch>>
              \/ /\ to.at = "waitfor" /\ epoch' = epoch + 1
                 /\ net' = [NoNet EXCEPT !.is = "connecting"]
              \/ /\ to.at = "waitfor" /\ epoch' = epoch + 1
                 /\ net' = [NoNet EXCEPT !.is = "up", !.to_broker = <<[type |-> "CONNECT"]>>]
    BY <1>17, AttemptsDoes
  <2>3. Sure
    BY <1>0, <2>1 DEF Sure
  <2>4. ~Busy
    <3>1. CASE t = "app"
      BY <2>1, <3>1 DEF Busy, Subscribing, app, Wait
    <3>2. CASE t = "lost" /\ Connect(t)
      <4>1. app.at \in {"idle", "begin"}
        BY <1>0, <2>1, <3>2 DEF Sure, app
      <4>. QED
        BY <4>1 DEF Busy, Subscribing, Wait
    <3>3. CASE t = "lost" /\ ConnectAgain(t)
      BY <1>d, <2>1, <2>3, <3>3 DEF ConnectAgain, AnswersAre
    <3>. QED
      BY <1>17, <3>1, <3>2, <3>3 DEF Caller
  <2>5. ~Busy'
    <3>1. app' = app \/ app' = to
      BY <1>0, <2>2 DEF app
    <3>. QED
      BY <2>2, <2>4, <3>1 DEF Busy, Subscribing
  <2>6. ~AnsWay'
    <3>1. CASE net' = net
      BY <1>d, <2>3, <2>4, <3>1 DEF AnswersAre, Resting, AnsWay
    <3>2. CASE net' = [NoNet EXCEPT !.is = "connecting"]
      <4>1. net'.to_broker = <<>> /\ net'.to_client = <<>>
        BY <3>2 DEF NoNet
      <4>. QED
        BY <4>1, NothingUnder DEF AnsWay
    <3>3. CASE net' = [NoNet EXCEPT !.is = "up", !.to_broker = <<[type |-> "CONNECT"]>>]
      <4>1. net'.to_broker = <<[type |-> "CONNECT"]>> /\ net'.to_client = <<>>
        BY <3>3 DEF NoNet
      <4>. QED
        BY <4>1 DEF AnsWay, Under, Carries, AnsTypes
    <3>. QED
      BY <2>2, <3>1, <3>2, <3>3
  <2>7. AnsRun' => AnsRun
    <3>1. CASE run' = run /\ UNCHANGED <<m, epoch>>
      BY <2>1, <3>1 DEF AnsRun, RunLive
    <3>2. CASE run' = run /\ epoch' = epoch + 1
      <4>1. run.epoch # epoch'
        BY <1>0, <3>2
      <4>. QED
        BY <2>1, <3>2, <4>1 DEF AnsRun, RunLive
    <3>3. CASE run' = RunAt("cycle")
      BY <3>3 DEF AnsRun, RunLive, RunAt
    <3>. QED
      BY <2>1, <2>2, <3>1, <3>2, <3>3
  <2>. QED
    BY <1>d, <2>1, <2>3, <2>4, <2>5, <2>6, <2>7, AnswersRest
<1>18. ASSUME NEW t \in Caller, TcpConnected(t)
       PROVE  AnswersAre'
  <2>1. /\ SameHeld /\ SameRest /\ run' = run /\ Begun(t)
        /\ m'.connected = m.connected /\ m'.socket = m.socket /\ net'.to_client = net.to_client
    BY <1>18, TcpConnectedDoes
  <2>2. PICK to \in Callers :
           /\ caller' = [caller EXCEPT ![t] = to] /\ to.version = caller[t].version
           /\ \/ to.at = "failed" /\ net' = net
              \/ /\ to.at = "waitfor"
                 /\ net'.to_broker = Append(net.to_broker, [type |-> "CONNECT"])
    BY <1>18, TcpConnectedDoes
  <2>3. NetKeeps
    BY <1>c, <2>1, <2>2, SendsKeeps
  <2>4. Sure /\ UNCHANGED <<epoch, answered, failures, tostop>>
    BY <2>1 DEF SameRest, SameMarks, marks, Sure
  <2>5. Connecting(t) /\ to.version # 0 /\ to.at # "drop"
    BY <2>1, <2>2 DEF Begun, Connecting
  <2>6. ~m'.connected
    BY <2>1, <2>5 DEF ControlInv, OpenInv
  <2>. QED
    BY <1>2, <1>3, <2>1, <2>2, <2>3, <2>4, <2>5, <2>6 DEF NetKeeps, SameHeld
<1>19. ASSUME NEW t \in Caller, MqttConnected(t), AcceptedWorks(t) \/ IsRefused(t)
       PROVE  AnswersAre'
  <2>1. /\ UNCHANGED <<run, tostop, epoch, answered, failures, mixed, outrun>> /\ Begun(t)
        /\ surplus' = (surplus \/ caller[t].rc # 0 \/ caller[t].pack.epoch # epoch)
        /\ m'.pack = NoPack /\ m'.sem = m.sem /\ m'.socket = m.socket
        /\ Thins(net'.to_broker, net.to_broker) /\ Thins(net'.to_client, net.to_client)
    BY <1>19, MqttConnectedDoes
  <2>2. PICK to \in Callers :
           /\ caller' = [caller EXCEPT ![t] = to]
           /\ to.at = "idle" \/ (to.at = "failed" /\ to.version = caller[t].version)
    BY <1>19, MqttConnectedDoes
  <2>3. Sure
    BY <1>0, <2>1 DEF Sure
  <2>4. NetKeeps
    BY <1>a, <2>1, ThinsKeeps
  <2>5. Connecting(t) /\ (to.version # 0 \/ to.at = "idle") /\ to.at # "drop"
    BY <2>1, <2>2 DEF Begun, Connecting
  <2>. QED
    BY <1>2, <1>3, <2>1, <2>2, <2>3, <2>4, <2>5 DEF NetKeeps
<1>20. ASSUME NEW sem \in Requests, Subscribe(sem)
       PROVE  AnswersAre'
  <2>1. /\ m' = m /\ SameRest /\ run' = run /\ At("app", "idle") /\ m.connected
        /\ net'.to_client = net.to_client /\ sem \in {"suback_sem", "unsuback_sem"}
    BY <1>20, SubscribeDoes
  <2>2. PICK to \in Callers :
           /\ caller' = [caller EXCEPT !["app"] = to] /\ to.version = 0 /\ to.pack = NoPack
           /\ \/ to.at = "drop" /\ net' = net
              \/ /\ to.at = "waitfor" /\ to.sem = sem /\ to.epoch = epoch
                 /\ net'.to_broker = Append(net.to_broker, [type |-> Awaited(sem), call |-> to.call,
                                                           epoch |-> epoch])
    BY <1>20, SubscribeDoes
  <2>3. Sure /\ UNCHANGED <<epoch, answered, failures, tostop>>
    BY <2>1 DEF SameRest, SameMarks, marks, Sure
  <2>4. app' = to /\ caller'["lost"] = caller["lost"]
    BY <1>0, <2>2 DEF app
  <2>5. ~Connecting("lost")'
    BY <1>0, <2>1, <2>4 DEF ControlInv, OpenInv, Connecting
  <2>6. Resting
    <3>1. ~Busy
      BY <2>1 DEF Busy, Subscribing, app, Wait
    <3>. QED
      BY <1>d, <2>3, <3>1 DEF AnswersAre
  <2>7. CASE to.at = "drop"
    BY <1>d, <2>3, <2>4, <2>5, <2>7 DEF AnswersAre, Busy, Subscribing, Wait
  <2>8. CASE /\ to.at = "waitfor" /\ to.sem = sem /\ to.epoch = epoch
             /\ net'.to_broker = Append(net.to_broker, [type |-> Awaited(sem), call |-> to.call,
                                                       epoch |-> epoch])
    <3>1. PICK p : p = [type |-> Awaited(sem), call |-> to.call, epoch |-> epoch]
      OBVIOUS
    <3>2. p \in ToBroker /\ IsMine(p, to)
      BY <1>0, <2>1, <2>8, <3>1 DEF ToBroker, Answers, Awaited, Callers, IsMine
    <3>3. ~Carries(net.to_broker, AnsTypes) /\ ~Carries(net.to_client, AnsTypes)
      BY <2>6 DEF Resting, AnsWay, Under
    <3>4. Once(net.to_broker, AnsTypes) /\ Once(net.to_client, AnsTypes)
      BY <3>3 DEF Once, Carries
    <3>5. Once(net'.to_broker, AnsTypes)
      BY <1>0, <2>8, <3>1, <3>2, <3>3, <3>4, AppendOnce
    <3>6. Lone(net'.to_broker, net'.to_client, AnsTypes, AnsTypes)
      BY <2>1, <3>3, <3>4, <3>5 DEF Lone
    <3>7. AllMine(net.to_broker, to) /\ AllMine(net.to_client, to)
      BY <3>3 DEF AllMine, Carries, IsAnswer, AnsTypes
    <3>8. AllMine(net'.to_broker, to) /\ AllMine(net'.to_client, to)
      <4>1. net'.to_broker = Append(net.to_broker, p)
        BY <2>8, <3>1
      <4>. QED
        BY <1>0, <2>1, <3>2, <3>7, <4>1 DEF AllMine
    <3>9. ~AnsRun' /\ m'.pack = NoPack /\ ~Got'
      BY <2>1, <2>2, <2>3, <2>4, <2>6 DEF Resting, AnsRun, RunLive, Got
    <3>10. \A s \in {"suback_sem", "unsuback_sem"} : m'.sem[s] = 0
      BY <2>1, <2>6 DEF Resting
    <3>11. Asking'
      BY <2>1, <2>2, <2>3, <2>4, <2>8, <3>6, <3>8, <3>9, <3>10 DEF Asking
    <3>. QED
      BY <1>d, <2>3, <2>4, <2>5, <2>2, <2>8, <3>11 DEF AnswersAre, Busy, Subscribing, Wait
  <2>. QED
    BY <2>2, <2>7, <2>8
<1>21. CASE Subscribed
  <2>1. /\ SameClient /\ m'.sem = m.sem /\ net' = net /\ run' = run /\ app.version = 0
        /\ UNCHANGED <<tostop, epoch, mixed, outrun>>
        /\ At("app", "resume") /\ app.sem \in {"suback_sem", "unsuback_sem"}
    BY <1>21, SubscribedDoes
  <2>2. Subscribing /\ app.at = "resume"
    BY <2>1 DEF Subscribing, app, Wait
  <2>3. CASE /\ app.pack # NoPack /\ m'.pack = NoPack
             /\ caller' = [caller EXCEPT !["app"] = IdleCaller]
             /\ answered' = answered \cup {[call |-> app.call, pack |-> app.pack]}
             /\ surplus' = (surplus \/ app.rc # 0) /\ failures' = failures
    <3>1. Sure /\ app.rc = 0
      BY <1>0, <2>1, <2>3 DEF Sure
    <3>2. Asking
      BY <1>d, <2>2, <3>1 DEF AnswersAre
    <3>3. ~AnsWay /\ ~AnsRun /\ app.pack.call = app.call
      BY <2>3, <3>2 DEF Asking, Got, IsMine
    <3>4. \A s \in {"suback_sem", "unsuback_sem"} : m.sem[s] = 0
      BY <2>2, <2>3, <3>1, <3>2 DEF Asking
    <3>5. Resting'
      BY <2>1, <2>3, <3>3, <3>4 DEF Resting, AnsWay, AnsRun, RunLive, SameClient
    <3>6. ~Busy' /\ ~Subscribing'
      <4>1. app'.at = "idle"
        BY <1>0, <2>3 DEF app, IdleCaller
      <4>. QED
        BY <4>1 DEF Busy, Subscribing, Wait
    <3>7. \A a \in answered' : a.pack.call = a.call
      BY <1>d, <2>3, <3>1, <3>3 DEF AnswersAre
    <3>. QED
      BY <1>d, <2>3, <3>1, <3>5, <3>6, <3>7 DEF AnswersAre
  <2>4. CASE /\ app.pack = NoPack /\ m' = m
             /\ caller' = [caller EXCEPT !["app"] = CallerAt("drop")]
             /\ UNCHANGED <<answered, surplus>>
             /\ failures' = IF ~app.late /\ app.rc = 0 /\ m.connected /\ app.epoch = epoch
                            THEN failures \cup {app.call} ELSE failures
    <3>1. Sure
      BY <2>1, <2>4 DEF Sure
    <3>2. Asking
      BY <1>d, <2>2, <3>1 DEF AnswersAre
    <3>3. failures' = failures
      BY <2>2, <2>4, <3>2 DEF Asking
    <3>4. app' = CallerAt("drop") /\ caller'["lost"] = caller["lost"]
      BY <1>0, <2>4 DEF app
    <3>5. app'.at = "drop"
      BY <3>4 DEF CallerAt, IdleCaller
    <3>6. ~Connecting("lost")'
      BY <1>d, <2>2, <3>1, <3>4 DEF AnswersAre, Busy, Connecting
    <3>. QED
      BY <1>d, <2>4, <3>1, <3>3, <3>5, <3>6 DEF AnswersAre, Busy, Subscribing, Wait
  <2>. QED
    BY <1>21, <2>3, <2>4, SubscribedDoes
<1>22. ASSUME NEW ok \in BOOLEAN, BrokerAnswers(ok)
       PROVE  AnswersAre'
  <2>1. /\ m' = m /\ caller' = caller /\ run' = run
        /\ UNCHANGED <<epoch, tostop, answered, failures, marks>>
    BY <1>22, BrokerAnswersDoes
  <2>2. NetKeeps
    BY <1>22, <1>a, BrokerKeeps
  <2>3. Sure
    BY <2>1 DEF Sure, marks
  <2>. QED
    BY <1>1, <1>3, <2>1, <2>2, <2>3 DEF Connecting, app
<1>. QED
  BY <1>4, <1>5, <1>7, <1>8, <1>9, <1>10, <1>11, <1>12, <1>13, <1>14, <1>15, <1>16, <1>17,
     <1>18, <1>19, <1>20, <1>21, <1>22, StepKinds

-----------------------------------------------------------------------------
(* What is acknowledged.  A message id stands for one message, in what is  *)
(* kept, on the way to the broker, and in the PUBACKs on the way back.     *)

IdsAreOwn == /\ \A e \in m.outboundMsgs : e.id <= m.msgID
             /\ \A e, f \in m.outboundMsgs : e.id = f.id => e = f

\* The message with that id is msg, or is acknowledged
Names(id, msg) == /\ id <= m.msgID
                  /\ \A e \in m.outboundMsgs : e.id = id => e.msg = msg
IsAcked(id) == /\ id <= m.msgID
               /\ \A e \in m.outboundMsgs : e.id = id => e.msg \in acked

SentIsKept == \A i \in DOMAIN net.to_broker : net.to_broker[i].type = "PUBLISH" =>
                  Names(net.to_broker[i].id, net.to_broker[i].msg)
AcksAreTrue == \A i \in DOMAIN net.to_client : net.to_client[i].type = "PUBACK" =>
                   IsAcked(net.to_client[i].id)
CompletingIsTrue == app.at = "completing" =>
                        /\ Names(app.id, app.msg)
                        /\ MessageGone(app.id) => app.msg \in acked

AckInv == ~cleansession => /\ IdsAreOwn /\ SentIsKept /\ AcksAreTrue /\ CompletingIsTrue
                           /\ completed \subseteq acked

LEMMA AckInit == Init => AckInv
<1>. SUFFICES ASSUME Init PROVE AckInv
  OBVIOUS
<1>1. /\ m.outboundMsgs = {} /\ net.to_broker = <<>> /\ net.to_client = <<>>
      /\ app.at = "idle" /\ completed = {}
  BY DEF Init, NoNet, IdleCaller, Caller, app
<1>. QED
  BY <1>1 DEF AckInv, IdsAreOwn, SentIsKept, AcksAreTrue, CompletingIsTrue

\* The packets of type T in s were in r
From(s, r, T) == \A i \in DOMAIN s : s[i].type = T => \E j \in DOMAIN r : s[i] = r[j]

LEMMA FromProps ==
    ASSUME NEW S, NEW r \in Seq(S), NEW T
    PROVE  /\ From(r, r, T) /\ From(<<>>, r, T) /\ (r # <<>> => From(Tail(r), r, T))
           /\ \A p \in S : p.type # T => From(Append(r, p), r, T)
<1>1. From(r, r, T) /\ From(<<>>, r, T)
  BY DEF From
<1>2. ASSUME r # <<>>
      PROVE  From(Tail(r), r, T)
  BY <1>2 DEF From
<1>3. ASSUME NEW p \in S, p.type # T
      PROVE  From(Append(r, p), r, T)
  BY <1>3 DEF From
<1>. QED
  BY <1>1, <1>2, <1>3

\* Nothing is sent, and what is no longer kept is acknowledged
AckKept ==
    /\ m'.outboundMsgs \subseteq m.outboundMsgs /\ m'.msgID = m.msgID
    /\ \A e \in m.outboundMsgs \ m'.outboundMsgs : e.msg \in acked'
    /\ acked \subseteq acked' /\ completed' = completed
    /\ From(net'.to_broker, net.to_broker, "PUBLISH")
    /\ From(net'.to_client, net.to_client, "PUBACK")
    /\ caller'["app"].at = "completing" => caller'["app"] = caller["app"]

LEMMA AckKeeps ==
    ASSUME Base, AckInv, cleansession' = cleansession, ~cleansession => AckKept
    PROVE  AckInv'
<1>. SUFFICES ASSUME ~cleansession
              PROVE  (/\ IdsAreOwn /\ SentIsKept /\ AcksAreTrue /\ CompletingIsTrue
                      /\ completed \subseteq acked)'
  BY DEF AckInv
<1>1. AckKept /\ IdsAreOwn /\ SentIsKept /\ AcksAreTrue /\ CompletingIsTrue /\ completed \subseteq acked
  BY DEF AckInv
<1>2. IdsAreOwn'
  BY <1>1 DEF AckKept, IdsAreOwn
<1>3. SentIsKept'
  BY <1>1 DEF AckKept, SentIsKept, From, Names
<1>4. AcksAreTrue'
  BY <1>1 DEF AckKept, AcksAreTrue, From, IsAcked
<1>5. CompletingIsTrue'
  <2>1. CASE app'.at = "completing"
    <3>1. app' = app
      BY <1>1, <2>1 DEF AckKept, app
    <3>2. Names(app.id, app.msg) /\ (MessageGone(app.id) => app.msg \in acked)
      BY <1>1, <2>1, <3>1 DEF CompletingIsTrue
    <3>3. Names(app.id, app.msg)'
      BY <1>1, <3>1, <3>2 DEF AckKept, Names
    <3>4. (MessageGone(app.id) => app.msg \in acked)'
      BY <1>1, <3>1, <3>2 DEF AckKept, Names, MessageGone
    <3>. QED
      BY <3>3, <3>4 DEF CompletingIsTrue
  <2>. QED
    BY <2>1 DEF CompletingIsTrue
<1>6. (completed \subseteq acked)'
  BY <1>1 DEF AckKept
<1>. QED
  BY <1>2, <1>3, <1>4, <1>5, <1>6

\* The connection ends, or something is sent that is no PUBLISH
NetFrom == /\ From(net'.to_broker, net.to_broker, "PUBLISH")
           /\ From(net'.to_client, net.to_client, "PUBACK")

LEMMA NetFroms ==
    ASSUME Base
    PROVE  /\ net' \in {net, NoNet} => NetFrom
           /\ /\ net'.to_broker \in {net.to_broker, <<>>}
              /\ net'.to_client \in {net.to_client, <<>>}
              => NetFrom
           /\ /\ net'.to_client = net.to_client
              /\ \E p \in ToBroker : p.type # "PUBLISH" /\ net'.to_broker = Append(net.to_broker, p)
              => NetFrom
           /\ /\ net'.to_broker = net.to_broker
              /\ \E p \in ToClient : p.type # "PUBACK" /\ net'.to_client = Append(net.to_client, p)
              => NetFrom
<1>1. net.to_broker \in Seq(ToBroker) /\ net.to_client \in Seq(ToClient)
  BY DEF Base, TypeInv, NetType, Nets
<1>2. /\ From(net.to_broker, net.to_broker, "PUBLISH") /\ From(<<>>, net.to_broker, "PUBLISH")
      /\ From(net.to_client, net.to_client, "PUBACK") /\ From(<<>>, net.to_client, "PUBACK")
  BY <1>1, FromProps
<1>3. \A p \in ToBroker : p.type # "PUBLISH" => From(Append(net.to_broker, p), net.to_broker, "PUBLISH")
  BY <1>1, FromProps
<1>4. \A p \in ToClient : p.type # "PUBACK" => From(Append(net.to_client, p), net.to_client, "PUBACK")
  BY <1>1, FromProps
<1>5. NoNet.to_broker = <<>> /\ NoNet.to_client = <<>>
  BY DEF NoNet
<1>6. /\ net'.to_broker \in {net.to_broker, <<>>}
      /\ net'.to_client \in {net.to_client, <<>>}
      => NetFrom
  BY <1>2 DEF NetFrom
<1>7. net' \in {net, NoNet} => NetFrom
  BY <1>5, <1>6
<1>8. ASSUME net'.to_client = net.to_client, NEW p \in ToBroker, p.type # "PUBLISH",
             net'.to_broker = Append(net.to_broker, p)
      PROVE  NetFrom
  BY <1>2, <1>3, <1>8 DEF NetFrom
<1>9. ASSUME net'.to_broker = net.to_broker, NEW p \in ToClient, p.type # "PUBACK",
             net'.to_client = Append(net.to_client, p)
      PROVE  NetFrom
  BY <1>2, <1>4, <1>9 DEF NetFrom
<1>. QED
  BY <1>6, <1>7, <1>8, <1>9

\* The application does not begin to wait for a completion
AppMoves == caller'["app"].at # "completing" \/ caller'["app"] = caller["app"]

LEMMA AppGoes ==
    ASSUME Base, NEW t \in Caller, NEW to, caller' = [caller EXCEPT ![t] = to],
           t = "lost" \/ to.at # "completing"
    PROVE  AppMoves
  BY DEF AppMoves, Base, TypeInv, CallerType, Caller

\* Nothing is kept, sent or acknowledged that was not
LEMMA AckRests ==
    ASSUME m'.outboundMsgs = m.outboundMsgs, m'.msgID = m.msgID,
           acked' = acked, completed' = completed, NetFrom, AppMoves
    PROVE  AckKept
  BY DEF AckKept, NetFrom, AppMoves

\* A cycle takes off what is acknowledged
LEMMA AckCycles ==
    ASSUME Base, AckInv, ~cleansession, m' = Cycled.m, net' = Cycled.net,
           acked' = acked, completed' = completed, AppMoves
    PROVE  AckKept
<1>1. net.to_broker \in Seq(ToBroker) /\ net.to_client \in Seq(ToClient) /\ IsClient(m)
  BY DEF Base, TypeInv, NetType, Nets, MType
<1>2. CASE CycleFinds
  BY <1>2, AckRests, NetFroms DEF CycleFinds
<1>3. ASSUME NEW p \in ToClient, CycleReads(p)
      PROVE  AckKept
  <2>1. net'.to_broker = net.to_broker /\ net'.to_client = Tail(net.to_client)
        /\ net.to_client # <<>> /\ p = net.to_client[1] /\ 1 \in DOMAIN net.to_client
    BY <1>1, <1>3 DEF CycleReads, Base, TypeInv, NetType, Nets
  <2>2. From(net'.to_broker, net.to_broker, "PUBLISH") /\ From(net'.to_client, net.to_client, "PUBACK")
    BY <1>1, <2>1, FromProps
  <2>3. p.type = "PUBACK" => IsAcked(p.id)
    BY <2>1 DEF AckInv, AcksAreTrue
  <2>4. /\ m'.msgID = m.msgID
        /\ \/ m'.outboundMsgs = m.outboundMsgs
           \/ p.type = "PUBACK" /\ m'.outboundMsgs = {e \in m.outboundMsgs : e.id # p.id}
    BY <1>1, <1>3 DEF CycleReads, IsClient, Clients
  <2>. QED
    BY <2>2, <2>3, <2>4 DEF AckKept, AppMoves, IsAcked
<1>. QED
  BY <1>2, <1>3, CycledProps DEF Base, TypeInv

\* A connection ends: the session is kept
LEMMA AckEnds ==
    ASSUME Base, ~cleansession, NEW c, NEW internal \in BOOLEAN, NEW stop \in BOOLEAN, NEW callers,
           EndsBy(c, internal, stop, callers),
           c.outboundMsgs = m.outboundMsgs /\ c.msgID = m.msgID,
           acked' = acked, completed' = completed,
           callers["app"].at # "completing" \/ callers["app"] = caller["app"]
    PROVE  AckKept
<1>1. m'.outboundMsgs = m.outboundMsgs /\ m'.msgID = m.msgID /\ net' \in {net, NoNet}
  BY DEF EndsBy, Disconnected
<1>2. caller'["app"] = callers["app"]
  BY LostBeginsProps DEF EndsBy, Disconnected, Caller, Base, TypeInv, RestType
<1>. QED
  BY <1>1, <1>2, AckRests, NetFroms DEF AppMoves

LEMMA AckRuns ==
    ASSUME Base,
           \/ RunSelects \/ RunEnds \/ RunPasses \/ RunFindsError \/ RunHandles \/ RunCalls
           \/ \E ok \in BOOLEAN : RunReturns(ok)
    PROVE  AckKept
<1>1. IsClient(m) /\ run.pack \in Packs /\ NetType
  BY DEF Base, TypeInv, MType, RunType, Runs
<1>2. caller' = caller /\ net' = net /\ acked' = acked /\ completed' = completed
  BY DEF RunSelects, RunEnds, RunPasses, RunFindsError, RunHandles, RunCalls, RunReturns
<1>3. NetFrom /\ AppMoves
  BY <1>2, NetFroms DEF AppMoves
<1>4. CASE RunSelects \/ RunEnds \/ RunPasses \/ RunFindsError \/ RunCalls
  <2>1. /\ Posted(m, "connack_sem").outboundMsgs = m.outboundMsgs
        /\ Posted(m, "connack_sem").msgID = m.msgID
    BY <1>1 DEF Posted, IsClient, Clients
  <2>2. m' \in {m, Posted(m, "connack_sem")}
    BY <1>4 DEF RunSelects, RunEnds, RunPasses, RunFindsError, RunCalls
  <2>. QED
    BY <1>2, <1>3, <2>1, <2>2, AckRests
<1>5. CASE RunHandles
  <2>1. m' = Woken(m, run.pack)
    BY <1>5 DEF RunHandles
  <2>2. m'.outboundMsgs = m.outboundMsgs /\ m'.msgID = m.msgID
    BY <1>1, <2>1, WokenProps
  <2>. QED
    BY <1>2, <1>3, <2>2, AckRests
<1>6. ASSUME NEW ok \in BOOLEAN, RunReturns(ok)
      PROVE  AckKept
  <2>1. PICK c : /\ IsClient(c) /\ c.outboundMsgs = m.outboundMsgs /\ c.msgID = m.msgID
                 /\ m' = Woken(c, run.pack)
    BY <1>6, ReturnsProps
  <2>2. m'.outboundMsgs = m.outboundMsgs /\ m'.msgID = m.msgID
    BY <1>1, <2>1, WokenProps
  <2>. QED
    BY <1>2, <1>3, <2>2, AckRests
<1>. QED
  BY <1>4, <1>5, <1>6

LEMMA AckWaits ==
    ASSUME Base, ControlInv, NEW t \in Caller,
           \/ WaitBegins(t) \/ WaitEnds(t) \/ WaitTimesOut(t) \/ PackIsRead(t) \/ CycleTimesOut(t)
           \/ NoConnack(t) \/ Stopped(t) \/ (MqttConnected(t) /\ IsRefused(t))
    PROVE  AckKept
<1>1. IsClient(m) /\ caller[t] \in Callers
  BY DEF Base, TypeInv, MType, CallerType
<1>2. net' = net /\ acked' = acked /\ completed' = completed
  BY DEF WaitBegins, WaitEnds, WaitTimesOut, PackIsRead, CycleTimesOut, NoConnack, Stopped,
         MqttConnected, IsRefused
<1>3. NetFrom
  BY <1>2, NetFroms
<1>4. m'.outboundMsgs = m.outboundMsgs /\ m'.msgID = m.msgID
  <2>1. CASE WaitEnds(t)
    <3>. DEFINE less == [m.sem EXCEPT ![caller[t].sem] = m.sem[caller[t].sem] - 1]
    <3>1. m' = [m EXCEPT !.sem = less]
      BY <1>1, <2>1 DEF WaitEnds, IsClient, Clients
    <3>. HIDE DEF less
    <3>. QED
      BY <1>1, <3>1 DEF IsClient, Clients
  <2>2. CASE IsRefused(t)
    BY <1>1, <2>2 DEF IsRefused, IsClient, Clients
  <2>3. CASE \/ WaitBegins(t) \/ WaitTimesOut(t) \/ PackIsRead(t) \/ CycleTimesOut(t)
             \/ NoConnack(t) \/ Stopped(t)
    BY <2>3 DEF WaitBegins, WaitTimesOut, PackIsRead, CycleTimesOut, NoConnack, Stopped
  <2>. QED
    BY <2>1, <2>2, <2>3
<1>5. \E to : caller' = [caller EXCEPT ![t] = to] /\ to.at # "completing"
  <2>1. CASE WaitEnds(t)
    BY <2>1, WaitEndsDoes DEF Onward
  <2>2. CASE MqttConnected(t) /\ IsRefused(t)
    BY <2>2, EndsInCallers DEF IsRefused, Base, TypeInv
  <2>3. CASE PackIsRead(t)
    BY <2>3, PackIsReadDoes DEF Onward
  <2>4. CASE WaitBegins(t) \/ WaitTimesOut(t) \/ CycleTimesOut(t) \/ NoConnack(t) \/ Stopped(t)
    <3>1. MoveStep(t)
      BY <2>4, MoveSteps
    <3>. QED
      BY <3>1 DEF MoveStep
  <2>. QED
    BY <2>1, <2>2, <2>3, <2>4
<1>6. AppMoves
  BY <1>5, AppGoes
<1>. QED
  BY <1>2, <1>3, <1>4, <1>6, AckRests

LEMMA AckConnects ==
    ASSUME Base, ControlInv, NEW t \in Caller, Connect(t) \/ ConnectAgain(t) \/ TcpConnected(t)
    PROVE  AckKept
<1>1. IsClient(m) /\ net \in Nets
  BY DEF Base, TypeInv, MType, NetType
<1>2. acked' = acked /\ completed' = completed
  BY DEF Connect, ConnectAgain, TcpConnected, Attempts
<1>3. CASE TcpConnected(t)
  <2>1. m' = m \/ m' = [m EXCEPT !.connect_state = 3]
    BY <1>3 DEF TcpConnected
  <2>2. m'.outboundMsgs = m.outboundMsgs /\ m'.msgID = m.msgID
    BY <1>1, <2>1 DEF IsClient, Clients
  <2>. DEFINE p == [type |-> "CONNECT"]
  <2>3. p \in ToBroker /\ p.type # "PUBLISH"
    BY DEF ToBroker
  <2>4. net'.to_client = net.to_client /\ (net' = net \/ net'.to_broker = Append(net.to_broker, p))
    BY <1>3, TcpConnectedDoes
  <2>. HIDE DEF p
  <2>5. NetFrom
    BY <2>3, <2>4, NetFroms
  <2>6. \E to : caller' = [caller EXCEPT ![t] = to] /\ to.at # "completing"
    BY <1>3, TcpConnectedDoes
  <2>7. AppMoves
    BY <2>6, AppGoes
  <2>. QED
    BY <1>2, <2>2, <2>5, <2>7, AckRests
<1>4. CASE Connect(t) \/ ConnectAgain(t)
  <2>1. PICK version, late : Attempts(t, version, late)
    BY <1>4 DEF Connect, ConnectAgain
  <2>2. PICK to : /\ caller' = [caller EXCEPT ![t] = to]
                  /\ \/ to.at = "failed" /\ UNCHANGED <<m, net, epoch>>
                     \/ /\ to.at = "waitfor"
                        /\ m' = [m EXCEPT !.connect_state = 1, !.socket = TRUE]
                        /\ net' = [NoNet EXCEPT !.is = "connecting"]
                     \/ /\ to.at = "waitfor"
                        /\ m' = [m EXCEPT !.connect_state = 3, !.socket = TRUE]
                        /\ net' = [NoNet EXCEPT !.is = "up", !.to_broker = <<[type |-> "CONNECT"]>>]
    BY <2>1, AttemptsProps
  <2>3. m'.outboundMsgs = m.outboundMsgs /\ m'.msgID = m.msgID
    BY <1>1, <2>2 DEF IsClient, Clients
  <2>4. NetFrom
    <3>1. CASE net' = net
      BY <3>1, NetFroms
    <3>2. CASE net' = [NoNet EXCEPT !.is = "connecting"]
      BY <3>2 DEF NetFrom, From, NoNet
    <3>3. CASE net' = [NoNet EXCEPT !.is = "up", !.to_broker = <<[type |-> "CONNECT"]>>]
      BY <3>3 DEF NetFrom, From, NoNet
    <3>. QED
      BY <2>2, <3>1, <3>2, <3>3
  <2>5. AppMoves
    BY <2>2, AppGoes
  <2>. QED
    BY <1>2, <2>3, <2>4, <2>5, AckRests
<1>. QED
  BY <1>3, <1>4

LEMMA AckCalls ==
    ASSUME Base, ControlInv,
           \/ UNCHANGED vars \/ Disconnect \/ Receive \/ ReceiveEnds \/ Subscribed \/ LostReturns
           \/ TcpUp \/ Breaks \/ BrokerPublishes \/ \E sem \in Requests : Subscribe(sem)
    PROVE  AckKept
<1>1. IsClient(m) /\ net \in Nets /\ "app" \in Caller /\ "lost" \in Caller
  BY DEF Base, TypeInv, MType, NetType, Caller
<1>2. acked' = acked /\ completed' = completed
  BY DEF vars, Disconnect, Receive, ReceiveEnds, Subscribed, LostReturns, TcpUp, Breaks,
         BrokerPublishes, Subscribe
<1>3. m'.outboundMsgs = m.outboundMsgs /\ m'.msgID = m.msgID
  <2>1. CASE Disconnect
    BY <1>1, <2>1 DEF Disconnect, IsClient, Clients
  <2>2. CASE ReceiveEnds
    BY <1>1, <2>2 DEF ReceiveEnds, IsClient, Clients
  <2>3. CASE Subscribed
    BY <1>1, <2>3 DEF Subscribed, IsClient, Clients
  <2>4. CASE \/ UNCHANGED vars \/ Receive \/ LostReturns
             \/ TcpUp \/ Breaks \/ BrokerPublishes \/ \E sem \in Requests : Subscribe(sem)
    BY <2>4 DEF vars, Receive, LostReturns, TcpUp, Breaks, BrokerPublishes, Subscribe
  <2>. QED
    BY <2>1, <2>2, <2>3, <2>4
<1>4. NetFrom
  <2>1. CASE UNCHANGED vars \/ Disconnect \/ Receive \/ ReceiveEnds \/ Subscribed \/ LostReturns
    <3>1. net' = net
      BY <2>1 DEF vars, Disconnect, Receive, ReceiveEnds, Subscribed, LostReturns
    <3>. QED
      BY <3>1, NetFroms
  <2>2. CASE TcpUp \/ Breaks
    <3>1. net'.to_broker \in {net.to_broker, <<>>} /\ net'.to_client = net.to_client
      BY <1>1, <2>2 DEF TcpUp, Breaks, Nets
    <3>. QED
      BY <3>1, NetFroms
  <2>3. CASE BrokerPublishes
    <3>. DEFINE p == [type |-> "PUBLISH", msg |-> incoming']
    <3>1. net'.to_broker = net.to_broker /\ net'.to_client = Append(net.to_client, p)
      BY <1>1, <2>3 DEF BrokerPublishes, Nets
    <3>2. p \in ToClient /\ p.type # "PUBACK"
      BY <2>3 DEF BrokerPublishes, ToClient, Base, TypeInv, RestType
    <3>. HIDE DEF p
    <3>. QED
      BY <3>1, <3>2, NetFroms
  <2>4. ASSUME NEW sem \in Requests, Subscribe(sem)
        PROVE  NetFrom
    <3>1. PICK to \in Callers :
                 \/ net' = net
                 \/ net'.to_broker = Append(net.to_broker, [type |-> Awaited(sem), call |-> to.call,
                                                            epoch |-> epoch])
      BY <2>4, SubscribeDoes
    <3>2. net'.to_client = net.to_client /\ sem \in {"suback_sem", "unsuback_sem"}
      BY <2>4, SubscribeDoes
    <3>. DEFINE p == [type |-> Awaited(sem), call |-> to.call, epoch |-> epoch]
    <3>3. Awaited(sem) \in {"SUBACK", "UNSUBACK"}
      BY <3>2 DEF Awaited
    <3>4. to.call \in Nat /\ epoch \in Nat
      BY DEF Callers, Base, TypeInv, RestType
    <3>5. p \in ToBroker /\ p.type # "PUBLISH"
      BY <3>3, <3>4 DEF ToBroker, Answers
    <3>. HIDE DEF p
    <3>6. net' = net \/ net'.to_broker = Append(net.to_broker, p)
      BY <3>1 DEF p
    <3>. QED
      BY <3>2, <3>5, <3>6, NetFroms
  <2>. QED
    BY <2>1, <2>2, <2>3, <2>4
<1>5. AppMoves
  <2>1. CASE UNCHANGED vars \/ TcpUp \/ Breaks \/ BrokerPublishes
    BY <2>1 DEF vars, TcpUp, Breaks, BrokerPublishes, AppMoves
  <2>2. CASE Disconnect \/ Receive \/ ReceiveEnds \/ Subscribed
    <3>1. /\ CallerAt("draining").at = "draining" /\ CallerAt("receiving").at = "receiving"
          /\ CallerAt("drop").at = "drop" /\ IdleCaller.at = "idle"
      BY DEF CallerAt, IdleCaller
    <3>2. \E to : caller' = [caller EXCEPT !["app"] = to] /\ to.at # "completing"
      BY <2>2, <3>1 DEF Disconnect, Receive, ReceiveEnds, Subscribed
    <3>. QED
      BY <1>1, <3>2, AppGoes
  <2>3. CASE LostReturns
    BY <1>1, <2>3, AppGoes DEF LostReturns
  <2>4. ASSUME NEW sem \in Requests, Subscribe(sem)
        PROVE  AppMoves
    <3>1. \E to \in Callers : caller' = [caller EXCEPT !["app"] = to] /\ to.at # "completing"
      BY <2>4, SubscribeDoes
    <3>. QED
      BY <1>1, <3>1, AppGoes
  <2>. QED
    BY <2>1, <2>2, <2>3, <2>4
<1>. QED
  BY <1>2, <1>3, <1>4, <1>5, AckRests

LEMMA AckCloses ==
    ASSUME Base, ControlInv, ~cleansession,
           \/ KeepaliveFails \/ RunDrops \/ Drop \/ DisconnectEnds
           \/ \E t \in Caller : AttemptFails(t) \/ (MqttConnected(t) /\ AcceptedFails(t))
    PROVE  AckKept
<1>1. IsClient(m) /\ "app" \in Caller /\ caller \in [Caller -> Callers]
  BY DEF Base, TypeInv, MType, Caller, CallerType
<1>2. acked' = acked /\ completed' = completed
  BY DEF KeepaliveFails, RunDrops, Drop, DisconnectEnds, AttemptFails, MqttConnected
<1>3. ASSUME NEW t \in Caller, NEW place \in Callers, place.at \in {"idle", "failed"}
      PROVE  LET callers == StopsFor(t, TRUE, place)
             IN callers["app"].at # "completing" \/ callers["app"] = caller["app"]
  <2>1. /\ \A u \in Caller \ {t} : StopsFor(t, TRUE, place)[u] = caller[u]
        /\ StopsFor(t, TRUE, place)[t].at \in {"idle", "failed", "stopping"}
    BY <1>3, StopsForIs
  <2>. QED
    BY <1>1, <2>1
<1>4. IdleCaller \in Callers /\ IdleCaller.at = "idle"
  BY IdleType DEF IdleCaller
<1>5. CASE KeepaliveFails \/ RunDrops
  BY <1>2, <1>5, KeepaliveTypes, AckEnds
<1>6. CASE Drop
  BY <1>1, <1>2, <1>3, <1>4, <1>6, DropTypes, AckEnds
<1>7. CASE DisconnectEnds
  <2>1. /\ m'.outboundMsgs = m.outboundMsgs /\ m'.msgID = m.msgID /\ net' = NoNet
        /\ caller' = StopsFor("app", TRUE, IdleCaller)
    BY <1>7, DisconnectEndsProps
  <2>2. NetFrom
    BY <2>1, NetFroms
  <2>3. AppMoves
    BY <1>1, <1>3, <1>4, <2>1 DEF AppMoves
  <2>. QED
    BY <1>2, <2>1, <2>2, <2>3, AckRests
<1>8. ASSUME NEW t \in Caller, AttemptFails(t)
      PROVE  AckKept
  <2>. DEFINE next == [Ends(t) EXCEPT !.at = "attempt", !.version = 3]
              callers == [caller EXCEPT ![t] = next]
  <2>1. next.at = "attempt"
    BY DEF Ends, IdleCaller
  <2>. HIDE DEF next
  <2>2. callers["app"].at # "completing" \/ callers["app"] = caller["app"]
    BY <1>1, <2>1
  <2>. HIDE DEF callers
  <2>3. CASE EndsBy(m, FALSE, FALSE, callers)
    BY <1>2, <2>2, <2>3, AckEnds
  <2>4. CASE EndsBy(m, FALSE, TRUE, StopsFor(t, TRUE, IdleCaller))
    BY <1>2, <1>3, <1>4, <2>4, AckEnds
  <2>. QED
    BY <1>8, <2>3, <2>4, AttemptFailsTypes DEF callers, next
<1>9. ASSUME NEW t \in Caller, MqttConnected(t), AcceptedFails(t)
      PROVE  AckKept
  <2>1. Ends(t) \in Callers /\ Ends(t).at = "failed"
    BY EndsInCallers DEF Base, TypeInv
  <2>2. EndsBy(Accepted, TRUE, TRUE, StopsFor(t, TRUE, Ends(t)))
    BY <1>9 DEF AcceptedFails
  <2>3. Accepted.outboundMsgs = m.outboundMsgs /\ Accepted.msgID = m.msgID
    BY AcceptedProps
  <2>. QED
    BY <1>2, <1>3, <2>1, <2>2, <2>3, AckEnds
<1>. QED
  BY <1>5, <1>6, <1>7, <1>8, <1>9

LEMMA AckReads ==
    ASSUME Base, ControlInv, AckInv, ~cleansession,
           RunReads \/ Yields \/ \E t \in Caller : CallCycles(t)
    PROVE  AckKept
<1>1. "app" \in Caller /\ caller \in [Caller -> Callers]
  BY DEF Base, TypeInv, Caller, CallerType
<1>2. acked' = acked /\ completed' = completed
  BY DEF RunReads, Yields, CallCycles
<1>3. CASE RunReads
  BY <1>2, <1>3, AckCycles DEF RunReads, AppMoves
<1>4. ASSUME NEW t \in Caller, CallCycles(t)
      PROVE  AckKept
  <2>1. caller' = caller \/ \E to : caller' = [caller EXCEPT ![t] = to] /\ to.at = "resume"
    BY <1>4, CallCyclesDoes DEF Onward
  <2>2. AppMoves
    <3>1. CASE caller' = caller
      BY <3>1 DEF AppMoves
    <3>2. ASSUME NEW to, caller' = [caller EXCEPT ![t] = to], to.at = "resume"
          PROVE  AppMoves
      BY <3>2, AppGoes
    <3>. QED
      BY <2>1, <3>1, <3>2
  <2>. QED
    BY <1>2, <1>4, <2>2, AckCycles DEF CallCycles
<1>5. CASE Yields
  <2>. DEFINE callers == [caller EXCEPT !["app"] = IF @.at = "receiving" THEN IdleCaller ELSE @]
  <2>1. CASE m' = Cycled.m /\ net' = Cycled.net /\ caller' = caller
    BY <1>2, <2>1, AckCycles DEF AppMoves
  <2>2. callers["app"].at # "completing" \/ callers["app"] = caller["app"]
    BY <1>1 DEF IdleCaller
  <2>. HIDE DEF callers
  <2>3. CASE EndsBy(m, TRUE, TRUE, callers)
    BY <1>2, <2>2, <2>3, AckEnds
  <2>. QED
    BY <1>5, <2>1, <2>3, YieldsCases DEF callers
<1>. QED
  BY <1>3, <1>4, <1>5

\* A message that is published has an id of its own
LEMMA AckStarts ==
    ASSUME Base, AckInv, NEW msg \in Nat, StartPublish(msg),
           cleansession' = cleansession, acked' = acked, completed' = completed
    PROVE  AckInv'
<1>. SUFFICES ASSUME ~cleansession
              PROVE  (/\ IdsAreOwn /\ SentIsKept /\ AcksAreTrue /\ CompletingIsTrue
                      /\ completed \subseteq acked)'
  BY DEF AckInv
<1>0. IsClient(m) /\ net \in Nets /\ "app" \in Caller /\ caller \in [Caller -> Callers]
  BY DEF Base, TypeInv, MType, NetType, Caller, CallerType
<1>1. IdsAreOwn /\ SentIsKept /\ AcksAreTrue /\ completed \subseteq acked
  BY DEF AckInv
<1>. DEFINE n == m.msgID + 1
            e0 == [id |-> n, msg |-> msg]
            p == [type |-> "PUBLISH", id |-> n, msg |-> msg]
            Named(id, x) == id <= m'.msgID /\ \A e \in m'.outboundMsgs : e.id = id => e.msg = x
            Done(id) == id <= m'.msgID /\ \A e \in m'.outboundMsgs : e.id = id => e.msg \in acked
<1>2. /\ m.msgID \in Nat /\ m.outboundMsgs \subseteq Messages
      /\ m'.msgID = n /\ m'.outboundMsgs = m.outboundMsgs \cup {e0}
  BY <1>0 DEF StartPublish, IsClient, Clients
<1>3. n \in Nat /\ n > m.msgID /\ e0.id = n /\ e0.msg = msg /\ p.id = n /\ p.msg = msg
  BY <1>2
<1>4. /\ net' = net \/ net' = [net EXCEPT !.to_broker = Append(net.to_broker, p)]
      /\ caller' = [caller EXCEPT !["app"] = IdleCaller]
         \/ caller' = [caller EXCEPT !["app"] = CallerAt("drop")]
  BY DEF StartPublish, Sends
<1>5. app'.at # "completing"
  BY <1>0, <1>4 DEF app, IdleCaller, CallerAt
<1>. HIDE DEF n, e0, p
<1>6. net'.to_client = net.to_client
      /\ (net'.to_broker = net.to_broker \/ net'.to_broker = Append(net.to_broker, p))
  BY <1>0, <1>4 DEF Nets
<1>7. net.to_broker \in Seq(ToBroker) /\ net.to_client \in Seq(ToClient)
  BY <1>0 DEF Nets
<1>8. IdsAreOwn'
  <2>1. \A e \in m.outboundMsgs : e.id \in Nat /\ e.id <= m.msgID
    BY <1>1, <1>2 DEF IdsAreOwn, Messages
  <2>2. \A e \in m.outboundMsgs : e.id < n
    BY <1>2, <1>3, <2>1
  <2>3. \A e \in m'.outboundMsgs : e.id <= n
    BY <1>2, <1>3, <2>1, <2>2
  <2>4. \A e, f \in m'.outboundMsgs : e.id = f.id => e = f
    BY <1>1, <1>2, <1>3, <2>1, <2>2 DEF IdsAreOwn
  <2>. QED
    BY <1>2, <2>3, <2>4 DEF IdsAreOwn
<1>9. ASSUME NEW id \in Nat, NEW x, Names(id, x)
      PROVE  Named(id, x)
  BY <1>2, <1>3, <1>9 DEF Names
<1>10. Named(n, msg)
  <2>1. \A e \in m.outboundMsgs : e.id # n
    BY <1>1, <1>2, <1>3 DEF IdsAreOwn, Messages
  <2>. QED
    BY <1>2, <1>3, <2>1
<1>11. SentIsKept'
  <2>1. \A q \in ToBroker : q.type = "PUBLISH" => q.id \in Nat
    BY DEF ToBroker, Answers
  <2>2. ASSUME NEW i \in DOMAIN net.to_broker, net.to_broker[i].type = "PUBLISH"
        PROVE  Named(net.to_broker[i].id, net.to_broker[i].msg)
    <3>1. net.to_broker[i] \in ToBroker
      BY <1>7
    <3>2. PICK q \in ToBroker : q = net.to_broker[i]
      BY <3>1
    <3>3. Names(q.id, q.msg) /\ q.id \in Nat
      BY <1>1, <2>1, <2>2, <3>2 DEF SentIsKept
    <3>4. Named(q.id, q.msg)
      BY <1>9, <3>3
    <3>. QED
      BY <3>2, <3>4
  <2>3. ASSUME NEW i \in DOMAIN net'.to_broker, net'.to_broker[i].type = "PUBLISH"
        PROVE  Named(net'.to_broker[i].id, net'.to_broker[i].msg)
    <3>1. \/ i \in DOMAIN net.to_broker /\ net'.to_broker[i] = net.to_broker[i]
          \/ net'.to_broker[i] = p
      BY <1>6, <1>7
    <3>. QED
      BY <1>3, <1>10, <2>2, <2>3, <3>1
  <2>. QED
    BY <2>3 DEF SentIsKept, Names
<1>12. AcksAreTrue'
  <2>1. ASSUME NEW i \in DOMAIN net.to_client, net.to_client[i].type = "PUBACK"
        PROVE  Done(net.to_client[i].id)
    <3>1. PICK q \in ToClient : q = net.to_client[i]
      BY <1>7
    <3>2. IsAcked(q.id) /\ q.id \in Nat
      BY <1>1, <2>1, <3>1 DEF AcksAreTrue, ToClient, Connacks, Answers
    <3>3. Done(q.id)
      BY <1>2, <1>3, <3>2 DEF IsAcked
    <3>. QED
      BY <3>1, <3>3
  <2>. QED
    BY <1>6, <2>1 DEF AcksAreTrue, IsAcked
<1>13. CompletingIsTrue'
  BY <1>5 DEF CompletingIsTrue
<1>. QED
  BY <1>1, <1>8, <1>11, <1>12, <1>13

LEMMA AckPublishes ==
    ASSUME Base, ControlInv, AckInv, Publish \/ PublishGoesOn
    PROVE  AckInv'
<1>1. "app" \in Caller /\ calls \in Nat /\ caller["app"] \in Callers
  BY DEF Base, TypeInv, Caller, CallerType, RestType
<1>2. UNCHANGED <<cleansession, acked, completed>>
  BY DEF Publish, PublishGoesOn
<1>. DEFINE to == [CallerAt("blocked") EXCEPT !.msg = calls']
<1>3. \/ \E msg \in Nat : StartPublish(msg)
      \/ UNCHANGED <<m, net>> /\ caller' = [caller EXCEPT !["app"] = to]
      \/ UNCHANGED <<m, net>> /\ caller' = [caller EXCEPT !["app"] = IdleCaller]
  <2>1. calls + 1 \in Nat /\ caller["app"].msg \in Nat
    BY <1>1 DEF Callers
  <2>. QED
    BY <2>1 DEF Publish, PublishGoesOn
<1>4. to.at = "blocked" /\ IdleCaller.at = "idle"
  BY DEF CallerAt, IdleCaller
<1>. HIDE DEF to
<1>5. ASSUME NEW msg \in Nat, StartPublish(msg)
      PROVE  AckInv'
  BY <1>2, <1>5, AckStarts
<1>6. CASE \/ UNCHANGED <<m, net>> /\ caller' = [caller EXCEPT !["app"] = to]
           \/ UNCHANGED <<m, net>> /\ caller' = [caller EXCEPT !["app"] = IdleCaller]
  <2>1. AppMoves
    BY <1>1, <1>4, <1>6, AppGoes
  <2>2. NetFrom
    BY <1>6, NetFroms
  <2>3. AckKept
    BY <1>2, <1>6, <2>1, <2>2, AckRests
  <2>. QED
    BY <1>2, <2>3, AckKeeps
<1>. QED
  BY <1>3, <1>5, <1>6

\* A wait for a completion begins with a message that is kept, and ends as it is not
LEMMA AckCompletes ==
    ASSUME Base, ControlInv, AckInv, WaitForCompletion \/ Completed
    PROVE  AckInv'
<1>. USE DEF WaitForCompletion, Completed
<1>a. cleansession' = cleansession
  OBVIOUS
<1>. HIDE DEF WaitForCompletion, Completed
<1>. SUFFICES ASSUME ~cleansession
              PROVE  (/\ IdsAreOwn /\ SentIsKept /\ AcksAreTrue /\ CompletingIsTrue
                      /\ completed \subseteq acked)'
  BY <1>a DEF AckInv
<1>0. "app" \in Caller /\ caller \in [Caller -> Callers]
  BY DEF Base, TypeInv, Caller, CallerType
<1>1. IdsAreOwn /\ SentIsKept /\ AcksAreTrue /\ CompletingIsTrue /\ completed \subseteq acked
  BY DEF AckInv
<1>2. UNCHANGED <<m, net, acked>>
  BY DEF WaitForCompletion, Completed
<1>3. IdsAreOwn' /\ SentIsKept' /\ AcksAreTrue'
  BY <1>1, <1>2 DEF IdsAreOwn, SentIsKept, AcksAreTrue, Names, IsAcked
<1>4. CASE WaitForCompletion
  <2>1. PICK e \in m.outboundMsgs :
            caller' = [caller EXCEPT !["app"] = [CallerAt("completing") EXCEPT !.id = e.id, !.msg = e.msg]]
    BY <1>4 DEF WaitForCompletion
  <2>2. app'.id = e.id /\ app'.msg = e.msg
    BY <1>0, <2>1 DEF app, CallerAt, IdleCaller
  <2>3. Names(e.id, e.msg) /\ ~MessageGone(e.id)
    BY <1>1 DEF IdsAreOwn, Names, MessageGone
  <2>4. CompletingIsTrue'
    BY <1>2, <2>2, <2>3 DEF CompletingIsTrue, Names, MessageGone
  <2>5. completed' = completed
    BY <1>4 DEF WaitForCompletion
  <2>. QED
    BY <1>1, <1>2, <1>3, <2>4, <2>5
<1>5. CASE Completed
  <2>1. app'.at = "idle" /\ app.at = "completing"
    BY <1>0, <1>5 DEF Completed, app, IdleCaller
  <2>2. CompletingIsTrue'
    BY <2>1 DEF CompletingIsTrue
  <2>3. completed' = completed \/ (MessageGone(app.id) /\ completed' = completed \cup {app.msg})
    BY <1>5 DEF Completed, app
  <2>4. completed' \subseteq acked
    BY <1>1, <2>1, <2>3 DEF CompletingIsTrue
  <2>. QED
    BY <1>2, <1>3, <2>2, <2>4
<1>. QED
  BY <1>4, <1>5

\* The broker acknowledges the message that the client keeps under that id
LEMMA AckAnswers ==
    ASSUME Base, AckInv, NEW ok \in BOOLEAN, BrokerAnswers(ok)
    PROVE  AckInv'
<1>. SUFFICES ASSUME ~cleansession
              PROVE  (/\ IdsAreOwn /\ SentIsKept /\ AcksAreTrue /\ CompletingIsTrue
                      /\ completed \subseteq acked)'
  BY DEF AckInv, BrokerAnswers
<1>0. net \in Nets /\ net.to_broker \in Seq(ToBroker) /\ net.to_client \in Seq(ToClient)
  BY DEF Base, TypeInv, NetType, Nets
<1>1. IdsAreOwn /\ SentIsKept /\ AcksAreTrue /\ CompletingIsTrue /\ completed \subseteq acked
  BY DEF AckInv
<1>. DEFINE p == Head(net.to_broker)
            answer == CASE p.type = "CONNECT" -> [type |-> "CONNACK", accepted |-> ok, epoch |-> epoch]
                        [] p.type = "PUBLISH" -> [type |-> "PUBACK", id |-> p.id]
                        [] OTHER -> p
            Done(id) == id <= m.msgID /\ \A e \in m.outboundMsgs : e.id = id => e.msg \in acked'
<1>2. /\ UNCHANGED <<m, caller, completed>> /\ net.to_broker # <<>>
      /\ net' = [net EXCEPT !.to_broker = Tail(net.to_broker), !.to_client = Append(net.to_client, answer)]
      /\ acked' = IF p.type = "PUBLISH" THEN acked \cup {p.msg} ELSE acked
  BY DEF BrokerAnswers
<1>3. p \in ToBroker /\ p = net.to_broker[1] /\ 1 \in DOMAIN net.to_broker
  <2>. HIDE DEF p
  <2>. QED
    BY <1>0, <1>2 DEF p
<1>. HIDE DEF p
<1>4. answer.type = "PUBACK" <=> p.type = "PUBLISH"
  BY <1>3 DEF ToBroker, Answers
<1>5. p.type = "PUBLISH" => answer.id = p.id
  OBVIOUS
<1>. HIDE DEF answer
<1>6. net'.to_broker = Tail(net.to_broker) /\ net'.to_client = Append(net.to_client, answer)
  BY <1>0, <1>2 DEF Nets
<1>7. From(net'.to_broker, net.to_broker, "PUBLISH")
  BY <1>0, <1>2, <1>6, FromProps
<1>8. acked \subseteq acked' /\ (p.type = "PUBLISH" => p.msg \in acked')
  BY <1>2
<1>9. IdsAreOwn'
  BY <1>1, <1>2 DEF IdsAreOwn
<1>10. SentIsKept'
  BY <1>1, <1>2, <1>7 DEF SentIsKept, From, Names
<1>11. \A id : IsAcked(id) => Done(id)
  BY <1>8 DEF IsAcked
<1>12. answer.type = "PUBACK" => Done(answer.id)
  <2>1. p.type = "PUBLISH" => Names(p.id, p.msg)
    BY <1>1, <1>3 DEF SentIsKept
  <2>. QED
    BY <1>4, <1>5, <1>8, <2>1 DEF Names
<1>13. AcksAreTrue'
  <2>1. ASSUME NEW i \in DOMAIN net'.to_client, net'.to_client[i].type = "PUBACK"
        PROVE  Done(net'.to_client[i].id)
    <3>1. \/ i \in DOMAIN net.to_client /\ net'.to_client[i] = net.to_client[i]
          \/ net'.to_client[i] = answer
      BY <1>0, <1>6
    <3>2. CASE i \in DOMAIN net.to_client /\ net'.to_client[i] = net.to_client[i]
      <4>1. IsAcked(net.to_client[i].id)
        BY <1>1, <2>1, <3>2 DEF AcksAreTrue
      <4>. QED
        BY <1>11, <3>2, <4>1
    <3>3. CASE net'.to_client[i] = answer
      BY <1>12, <2>1, <3>3
    <3>. QED
      BY <3>1, <3>2, <3>3
  <2>. QED
    BY <1>2, <2>1 DEF AcksAreTrue, IsAcked
<1>14. CompletingIsTrue'
  BY <1>1, <1>2, <1>8 DEF CompletingIsTrue, Names, MessageGone, app
<1>15. (completed \subseteq acked)'
  BY <1>1, <1>2, <1>8
<1>. QED
  BY <1>9, <1>10, <1>13, <1>14, <1>15

\* What is sent again is what is kept
LEMMA AckAgain ==
    ASSUME Base, ControlInv, AckInv, NEW t \in Caller, MqttConnected(t), AcceptedWorks(t)
    PROVE  AckInv'
<1>. SUFFICES ASSUME ~cleansession
              PROVE  (/\ IdsAreOwn /\ SentIsKept /\ AcksAreTrue /\ CompletingIsTrue
                      /\ completed \subseteq acked)'
  BY DEF AckInv, MqttConnected
<1>0. net \in Nets /\ net.to_broker \in Seq(ToBroker) /\ caller \in [Caller -> Callers]
  BY DEF Base, TypeInv, NetType, Nets, CallerType
<1>1. IdsAreOwn /\ SentIsKept /\ AcksAreTrue /\ CompletingIsTrue /\ completed \subseteq acked
  BY DEF AckInv
<1>2. /\ m'.outboundMsgs = m.outboundMsgs /\ m'.msgID = m.msgID
      /\ acked' = acked /\ completed' = completed
      /\ caller' = [caller EXCEPT ![t] = IdleCaller]
      /\ net' = net \/ net' = [net EXCEPT !.to_broker = net.to_broker \o Again]
  BY AcceptedProps DEF AcceptedWorks, MqttConnected
<1>3. net'.to_client = net.to_client
      /\ (net'.to_broker = net.to_broker \/ net'.to_broker = net.to_broker \o Again)
  BY <1>0, <1>2 DEF Nets
<1>4. IdsAreOwn' /\ AcksAreTrue'
  BY <1>1, <1>2, <1>3 DEF IdsAreOwn, AcksAreTrue, IsAcked
<1>5. AppMoves
  BY <1>2, AppGoes DEF IdleCaller
<1>6. CompletingIsTrue'
  BY <1>1, <1>2, <1>5 DEF CompletingIsTrue, Names, MessageGone, AppMoves, app
<1>7. SentIsKept'
  <2>1. ASSUME NEW i \in DOMAIN net'.to_broker, net'.to_broker[i].type = "PUBLISH"
        PROVE  Names(net'.to_broker[i].id, net'.to_broker[i].msg)
    <3>1. Again \in Seq([type : {"PUBLISH"}, id : Nat, msg : Nat])
      BY AgainProps
    <3>2. \/ i \in DOMAIN net.to_broker /\ net'.to_broker[i] = net.to_broker[i]
          \/ \E j \in DOMAIN Again : net'.to_broker[i] = Again[j]
      <4>1. \A k \in DOMAIN (net.to_broker \o Again) :
                \/ k \in DOMAIN net.to_broker /\ (net.to_broker \o Again)[k] = net.to_broker[k]
                \/ /\ k - Len(net.to_broker) \in DOMAIN Again
                   /\ (net.to_broker \o Again)[k] = Again[k - Len(net.to_broker)]
        BY <1>0, <3>1
      <4>. QED
        BY <1>3, <4>1
    <3>3. CASE i \in DOMAIN net.to_broker /\ net'.to_broker[i] = net.to_broker[i]
      BY <1>1, <2>1, <3>3 DEF SentIsKept
    <3>4. ASSUME NEW j \in DOMAIN Again, net'.to_broker[i] = Again[j]
          PROVE  Names(net'.to_broker[i].id, net'.to_broker[i].msg)
      <4>1. PICK e \in m.outboundMsgs : Again[j] = [type |-> "PUBLISH", id |-> e.id, msg |-> e.msg]
        BY AgainProps
      <4>2. Names(e.id, e.msg)
        BY <1>1 DEF IdsAreOwn, Names
      <4>. QED
        BY <3>4, <4>1, <4>2
    <3>. QED
      BY <3>2, <3>3, <3>4
  <2>. QED
    BY <1>2, <2>1 DEF SentIsKept, Names
<1>. QED
  BY <1>1, <1>2, <1>4, <1>6, <1>7

LEMMA AckNext ==
    ASSUME Base, ControlInv, AckInv, [Next]_vars
    PROVE  AckInv'
<1>1. cleansession' = cleansession
  <2>1. UNCHANGED fixed
    <3>1. CASE \/ UNCHANGED vars \/ RunStep \/ RunReturns(FALSE) \/ KeepaliveFails
      BY <3>1 DEF vars, RunStep, RunSelects, RunReads, RunEnds, RunPasses, RunFindsError, RunDrops,
                  RunHandles, RunCalls, RunReturns, KeepaliveFails
    <3>2. CASE Begins \/ AppStep \/ LostReturns
      BY <3>2 DEF Begins, Subscribe, Publish, WaitForCompletion, Disconnect, Receive, AppStep,
                  Subscribed, Drop, PublishGoesOn, Completed, DisconnectEnds, ReceiveEnds, Yields,
                  LostReturns
    <3>3. ASSUME NEW t \in Caller, Connect(t) \/ CallerStep(t)
          PROVE  UNCHANGED fixed
      BY <3>3 DEF Connect, CallerStep, Stopped, WaitStep, WaitBegins, WaitEnds, WaitTimesOut,
                  PackIsRead, CallCycles, CycleTimesOut, ConnectStep, ConnectAgain, Attempts,
                  TcpConnected, MqttConnected, NoConnack, AttemptFails
    <3>4. CASE TcpUp \/ Breaks \/ BrokerPublishes \/ \E ok \in BOOLEAN : BrokerAnswers(ok)
      BY <3>4 DEF TcpUp, Breaks, BrokerPublishes, BrokerAnswers
    <3>. QED
      BY <3>1, <3>2, <3>3, <3>4 DEF Next
  <2>. QED
    BY <2>1
<1>2. (~cleansession => AckKept) => AckInv'
  BY <1>1, AckKeeps
<1>3. CASE \/ RunSelects \/ RunEnds \/ RunPasses \/ RunFindsError \/ RunHandles \/ RunCalls
           \/ \E ok \in BOOLEAN : RunReturns(ok)
  BY <1>2, <1>3, AckRuns
<1>4. CASE \/ UNCHANGED vars \/ Disconnect \/ Receive \/ ReceiveEnds \/ Subscribed \/ LostReturns
           \/ TcpUp \/ Breaks \/ BrokerPublishes \/ \E sem \in Requests : Subscribe(sem)
  BY <1>2, <1>4, AckCalls
<1>5. CASE \/ KeepaliveFails \/ RunDrops \/ Drop \/ DisconnectEnds
           \/ \E t \in Caller : AttemptFails(t) \/ (MqttConnected(t) /\ AcceptedFails(t))
  BY <1>2, <1>5, AckCloses
<1>6. CASE RunReads \/ Yields \/ \E t \in Caller : CallCycles(t)
  BY <1>2, <1>6, AckReads
<1>7. ASSUME NEW t \in Caller,
             \/ WaitBegins(t) \/ WaitEnds(t) \/ WaitTimesOut(t) \/ PackIsRead(t) \/ CycleTimesOut(t)
             \/ NoConnack(t) \/ Stopped(t) \/ (MqttConnected(t) /\ IsRefused(t))
      PROVE  AckInv'
  BY <1>2, <1>7, AckWaits
<1>8. ASSUME NEW t \in Caller, Connect(t) \/ ConnectAgain(t) \/ TcpConnected(t)
      PROVE  AckInv'
  BY <1>2, <1>8, AckConnects
<1>9. ASSUME NEW t \in Caller, MqttConnected(t)
      PROVE  AckInv'
  <2>1. CASE AcceptedFails(t)
    BY <1>5, <1>9, <2>1
  <2>2. CASE AcceptedWorks(t)
    BY <1>9, <2>2, AckAgain
  <2>3. CASE IsRefused(t)
    BY <1>7, <1>9, <2>3
  <2>. QED
    BY <1>9, <2>1, <2>2, <2>3, MqttConnectedCases
<1>10. CASE Publish \/ PublishGoesOn
  BY <1>10, AckPublishes
<1>11. CASE WaitForCompletion \/ Completed
  BY <1>11, AckCompletes
<1>12. CASE \E ok \in BOOLEAN : BrokerAnswers(ok)
  BY <1>12, AckAnswers
<1>13. CASE RunStep \/ RunReturns(FALSE) \/ KeepaliveFails
  BY <1>3, <1>5, <1>6, <1>13 DEF RunStep
<1>14. CASE Begins \/ AppStep \/ LostReturns
  BY <1>4, <1>5, <1>6, <1>10, <1>11, <1>14 DEF Begins, AppStep
<1>15. ASSUME NEW t \in Caller, Connect(t) \/ CallerStep(t)
       PROVE  AckInv'
  BY <1>5, <1>6, <1>7, <1>8, <1>9, <1>15 DEF CallerStep, WaitStep, ConnectStep
<1>. QED
  BY <1>4, <1>12, <1>13, <1>14, <1>15 DEF Next

-----------------------------------------------------------------------------
(* The invariant and the theorem.                                          *)

SyncInv == /\ Base /\ ControlInv /\ StopInv /\ LossInv /\ PacksInv /\ ConInv /\ AnswerInv /\ AckInv
           /\ SemaphoresAreDown

LEMMA SyncInit == Init => SyncInv
<1>1. Init => SemaphoresAreDown
  BY DEF Init, SemaphoresAreDown
<1>. QED
  BY <1>1, BaseInit, ControlInit, StopInit, LossInit, PacksInit, ConInit, AnswerInit, AckInit
     DEF SyncInv

LEMMA SyncNext == SyncInv /\ [Next]_vars => SyncInv'
<1>. SUFFICES ASSUME SyncInv, [Next]_vars PROVE SyncInv'
  OBVIOUS
<1>1. Base /\ ControlInv /\ StopInv /\ LossInv /\ PacksInv /\ ConInv /\ AnswerInv /\ AckInv
      /\ SemaphoresAreDown
  BY DEF SyncInv
<1>2. Base' /\ ControlInv'
  BY <1>1, BaseNext, ControlNext
<1>3. StopInv' /\ LossInv' /\ PacksInv'
  BY <1>1, StopNext, LossNext, PacksNext
<1>4. ConInv' /\ AnswerInv'
  BY <1>1, ConNext, AnswerNext
<1>5. AckInv' /\ SemaphoresAreDown'
  BY <1>1, AckNext, SemaphoresNext
<1>. QED
  BY <1>2, <1>3, <1>4, <1>5 DEF SyncInv

LEMMA SyncShows == SyncInv => WaitsAreTrue
<1>. SUFFICES ASSUME SyncInv PROVE WaitsAreTrue
  OBVIOUS
<1>1. SyncTypeOK
  BY DEF SyncInv, SyncTypeOK, Base, TypeInv, MType, IsClient, Clients, ControlInv, ThreadInv
<1>2. ConnectedIsAccepted
  BY DEF SyncInv, PacksInv
<1>3. AnswersAreOwn /\ WokenWithAnswer
  BY DEF SyncInv, AnswerInv, AnswersAre, Sure, AnswersAreOwn, WokenWithAnswer
<1>4. CompletedIsAcked
  BY DEF SyncInv, AckInv, CompletedIsAcked
<1>5. LossIsReported
  BY LossReported DEF SyncInv
<1>. QED
  BY <1>1, <1>2, <1>3, <1>4, <1>5 DEF SyncInv, WaitsAreTrue

(***************************************************************************)
(* What a call of the synchronous client returns is true of the connection *)
(* it waited on (MQTTClient.c), whatever the broker, the network and the   *)
(* clock do: connected is accepted, an answer is the answer to the call,   *)
(* what is completed was acknowledged, and a loss is reported once.        *)
(***************************************************************************)
THEOREM WaitsTrue == Spec => []WaitsAreTrue
<1>1. Init => SyncInv
  BY SyncInit
<1>2. SyncInv /\ [Next]_vars => SyncInv'
  BY SyncNext
<1>3. SyncInv => WaitsAreTrue
  BY SyncShows
<1>. QED
  BY <1>1, <1>2, <1>3, PTL DEF Spec
=============================================================================

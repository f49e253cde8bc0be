------------------------- MODULE MqttConnect_proofs -------------------------
(***************************************************************************)
(* A call of the asynchronous client is replied at most once and truly,    *)
(* for any number of calls, faults and servers (MQTTAsync.c).              *)
(***************************************************************************)
EXTENDS MqttConnect, FiniteSetTheorems, SequenceTheorems, TLAPS

-----------------------------------------------------------------------------
(* The types.                                                              *)

Kinds == {"CONNECT", "DISCONNECT"} \cup Asks
Results == {"success", "failure"}
Commands == [type : Kinds, call : 0..MaxAPICalls, currentURI : Nat, MQTTVersion : {0, 3, 4},
             internal : BOOLEAN, waits : BOOLEAN]
Answers == [type : Kinds, call : APICall, result : Results]
Handles == [connected : BOOLEAN, connect_state : {0, 1, 3, -2}, outboundMsgs : SUBSET APICall,
            commands : Seq(Commands), responses : Seq(Commands), pending_write : 0..MaxAPICalls,
            connect : Commands, disconnect : Commands,
            socket : {"closed", "opening", "open", "broken"},
            writing : Seq(Commands), to_broker : Seq(Commands), to_client : Seq(Answers)]
Apps == [is : {"off", "connecting", "on", "leaving", "done"}, calls : Seq(Kinds),
         told : [APICall -> Seq(Results)]]
Links == [up : Nat, lost : Nat, left : Nat, since : Nat]
States == [h : Handles, a : Apps, n : Links]

AnswerReceived == {answer \in Answers : answer.type \in {"CONNECT", "SUBSCRIBE", "UNSUBSCRIBE"}}

TypeInv ==
    /\ options \in ConnectOptions
    /\ State \in States
    /\ received \in {IdlePack, ErrorPack} \cup AnswerReceived
    /\ replied \in [APICall -> SUBSET Results]
    /\ tried \in Seq(Nat \X Nat)
    /\ astray \in [connects : SUBSET APICall, response : BOOLEAN]
    /\ ended \in {"no"} \cup Endings

-----------------------------------------------------------------------------
(* Whose each command and each packet is.  R is what was replied to each   *)
(* call, T what was tried for the present connect.                         *)

\* Call k of the application is one of that type
IsCall(a, type, k) == k \in 1..Len(a.calls) /\ a.calls[k] = type

\* What was called remains called
Extends(b, a) == \A type, k : IsCall(a, type, k) => IsCall(b, type, k)

\* A command of the application, or the disconnect of the client itself
Owned(a, command) ==
    IF command.internal THEN command.type = "DISCONNECT" /\ command.call = 0 /\ ~command.waits
    ELSE IsCall(a, command.type, command.call)

QueuesOwned(s) ==
    /\ \A i \in 1..Len(s.h.commands) : Owned(s.a, s.h.commands[i])
    /\ \A i \in 1..Len(s.h.responses) :
           s.h.responses[i].type \in Asks /\ IsCall(s.a, s.h.responses[i].type, s.h.responses[i].call)
PacketsOwned(s) ==
    /\ \A i \in 1..Len(s.h.writing) :
           s.h.writing[i].type \in Asks /\ IsCall(s.a, s.h.writing[i].type, s.h.writing[i].call)
    /\ \A i \in 1..Len(s.h.to_broker) :
           /\ s.h.to_broker[i].type # "DISCONNECT"
           /\ IsCall(s.a, s.h.to_broker[i].type, s.h.to_broker[i].call)
    /\ \A i \in 1..Len(s.h.to_client) :
           /\ s.h.to_client[i].type \notin {"DISCONNECT", "PUBLISH0"}
           /\ IsCall(s.a, s.h.to_client[i].type, s.h.to_client[i].call)
           /\ s.h.to_client[i].type = "PUBLISH1" => s.h.to_client[i].result = "success"
OthersOwned(s) ==
    /\ Len(s.a.calls) <= MaxAPICalls
    /\ \A k \in s.h.outboundMsgs : IsCall(s.a, "PUBLISH1", k)
    /\ s.h.pending_write # 0 => IsCall(s.a, "PUBLISH0", s.h.pending_write)
    /\ s.h.connect_state = -2 => /\ ~s.h.disconnect.internal /\ s.h.disconnect.type = "DISCONNECT"
                                 /\ IsCall(s.a, "DISCONNECT", s.h.disconnect.call)

-----------------------------------------------------------------------------
(* The connection.                                                         *)

SocketInv(h) == h.socket = "closed" <=> ~InUse(h)

\* A connect is going on, or was overtaken by a disconnect
Connecting(h) == ~h.connected /\ h.connect_state # 0

NoConnect(packets) == \A i \in 1..Len(packets) : packets[i].type # "CONNECT"

StateInv(h) ==
    /\ SocketInv(h)
    /\ h.connected => h.connect_state \in {0, -2}
    /\ h.connect_state = 1 => h.socket = "opening"
    /\ h.socket \in {"closed", "opening"} =>
           h.writing = <<>> /\ h.to_broker = <<>> /\ h.to_client = <<>>

\* There is one CONNECT of a connection, or one answer to it, until it is connected
TokenInv(h) ==
    /\ \A i \in 1..Len(h.to_broker) :
           h.to_broker[i].type = "CONNECT" => ~h.connected /\ h.to_broker[i].call = h.connect.call
    /\ \A i \in 1..Len(h.to_client) :
           h.to_client[i].type = "CONNECT" => ~h.connected /\ h.to_client[i].call = h.connect.call
    /\ \A i, j \in 1..Len(h.to_broker) :
           h.to_broker[i].type = "CONNECT" /\ h.to_broker[j].type = "CONNECT" => i = j
    /\ \A i, j \in 1..Len(h.to_client) :
           h.to_client[i].type = "CONNECT" /\ h.to_client[j].type = "CONNECT" => i = j
    /\ NoConnect(h.to_broker) \/ NoConnect(h.to_client)

\* A CONNECT in the queue is the first, and nothing else of a connect is there
QueueInv(h) ==
    \A i \in 1..Len(h.commands) :
        h.commands[i].type = "CONNECT" => i = 1 /\ ~InUse(h) /\ h.commands[i].call = h.connect.call

\* The present connect is the last that the application made
LastConnect(s) ==
    /\ IsCall(s.a, "CONNECT", s.h.connect.call)
    /\ \A k \in s.h.connect.call + 1 .. Len(s.a.calls) : s.a.calls[k] # "CONNECT"

ConnectInv(s) ==
    /\ s.h.connect.type = "CONNECT" /\ ~s.h.connect.internal
    /\ s.a.is = "off" => ~InUse(s.h) /\ NoConnect(s.h.commands)
    /\ Connecting(s.h) \/ ~NoConnect(s.h.commands) => LastConnect(s)
    /\ (\E k \in 1..Len(s.a.calls) : s.a.calls[k] = "CONNECT") => LastConnect(s)

\* Each connection that was up was ended by somebody
Counted(s) == s.n.up = s.n.lost + s.n.left + (IF s.h.connected THEN 1 ELSE 0)

-----------------------------------------------------------------------------
(* Who is going to reply to a call: a command, a response, the write that  *)
(* is pending, the disconnect or the connect that is going on; never two.  *)

ToldInv(a) ==
    /\ \A k \in APICall : Len(a.told[k]) <= 1
    /\ \A k \in APICall : k > Len(a.calls) => a.told[k] = <<>>

CommandsInv(s) ==
    \A i \in 1..Len(s.h.commands) : s.h.commands[i].call # 0 =>
        /\ s.a.told[s.h.commands[i].call] = <<>>
        /\ s.h.commands[i].call # s.h.pending_write
        /\ s.h.connect_state = -2 => s.h.commands[i].call # s.h.disconnect.call
        /\ \A j \in 1..Len(s.h.commands) : s.h.commands[j].call = s.h.commands[i].call => j = i
        /\ \A j \in 1..Len(s.h.responses) :
               s.h.responses[j].call = s.h.commands[i].call => s.h.responses[j].type = "PUBLISH0"

ResponsesInv(s) ==
    \A i \in 1..Len(s.h.responses) : s.h.responses[i].type # "PUBLISH0" =>
        /\ s.a.told[s.h.responses[i].call] = <<>>
        /\ \A j \in 1..Len(s.h.responses) :
               s.h.responses[j].call = s.h.responses[i].call => j = i

OthersInv(s) ==
    /\ s.h.pending_write # 0 => s.a.told[s.h.pending_write] = <<>>
    /\ s.h.connect_state = -2 => s.a.told[s.h.disconnect.call] = <<>>
    /\ Connecting(s.h) => s.a.told[s.h.connect.call] = <<>>

-----------------------------------------------------------------------------
(* What is said is true.                                                   *)

TrueInv(s, R) ==
    /\ \A i \in 1..Len(s.h.to_client) : s.h.to_client[i].result \in R[s.h.to_client[i].call]
    /\ \A k \in 1..Len(s.a.calls) :
           s.a.calls[k] \notin {"DISCONNECT", "PUBLISH0"} /\ s.a.told[k] = <<"success">>
             => "success" \in R[k]

Reached(count, T) == \A u \in 0..count : \E i \in 1..Len(T) : T[i][1] = u
BothVersions(T) == Len(T) >= 2 /\ T[1] = <<0, 4>> /\ T[2] = <<0, 3>>

\* How far a connect has come
TriedFor(c, T) ==
    /\ c.MQTTVersion = 0 => c.currentURI = 0
    /\ options.MQTTVersion = 0 /\ c.MQTTVersion = 4 => c.currentURI = 0 /\ T = <<<<0, 4>>>>
    /\ options.MQTTVersion = 0 /\ c.MQTTVersion = 3 => BothVersions(T) /\ Reached(c.currentURI, T)

\* Nothing is said of a list of servers with a given version: the first is skipped
AllTried(T) ==
    options.MQTTVersion = 0 => Reached(options.serverURIcount - 1, T) /\ BothVersions(T)

TriedInv(s, T) ==
    /\ \A i \in 1..Len(s.h.commands) :
           s.h.commands[i].type = "CONNECT" => TriedFor(s.h.commands[i], T)
    /\ Connecting(s.h) => TriedFor(s.h.connect, T) /\ s.h.connect.MQTTVersion # 0
    /\ LastConnect(s) /\ s.a.told[s.h.connect.call] = <<"failure">> => AllTried(T)

OwnedInv(s) == QueuesOwned(s) /\ PacketsOwned(s) /\ OthersOwned(s)
LinkInv(s) == StateInv(s.h) /\ TokenInv(s.h) /\ QueueInv(s.h) /\ ConnectInv(s)
OnceInv(s) == ToldInv(s.a) /\ CommandsInv(s) /\ ResponsesInv(s) /\ OthersInv(s)

Inv(s, R, T) ==
    /\ s \in States
    /\ OwnedInv(s) /\ LinkInv(s) /\ OnceInv(s) /\ TrueInv(s, R) /\ TriedInv(s, T)

\* What has been read of a connection is an answer to it
ReceivedInv(p, s, R) ==
    p.type \in {"CONNECT", "SUBSCRIBE", "UNSUBSCRIBE"} =>
        /\ IsCall(s.a, p.type, p.call)
        /\ p.result \in R[p.call]
        /\ p.type = "CONNECT" =>
              /\ ~s.h.connected /\ s.h.connect_state # 1
              /\ NoConnect(s.h.to_broker) /\ NoConnect(s.h.to_client)
              /\ InUse(s.h) => p.call = s.h.connect.call

ConnInv ==
    /\ TypeInv /\ SocketInv(handle)
    /\ Defined => /\ Inv(State, replied, tried) /\ Counted(State)
                  /\ ReceivedInv(received, State, replied)

-----------------------------------------------------------------------------
(* The functions of the client: what each leaves alone.                    *)

LEMMA BoundTypes == MaxAPICalls \in Nat /\ 0 \in 0..MaxAPICalls /\ APICall \subseteq 0..MaxAPICalls
  BY ConnectAssumption DEF APICall

LEMMA CommandType ==
    ASSUME NEW type \in Kinds, NEW call \in 0..MaxAPICalls
    PROVE  /\ Command(type, call) \in Commands
           /\ Command(type, call).type = type /\ Command(type, call).call = call
           /\ Command(type, call).currentURI = 0 /\ Command(type, call).MQTTVersion = 0
           /\ ~Command(type, call).internal /\ ~Command(type, call).waits
  BY DEF Command, Commands

LEMMA OptionType ==
    ASSUME options \in ConnectOptions
    PROVE  /\ options.cleansession \in BOOLEAN /\ options.serverURIcount \in Nat
           /\ options.MQTTVersion \in {0, 3, 4}
  BY ConnectAssumption

\* A record read by its fields
LEMMA StateFields ==
    ASSUME NEW s \in States
    PROVE  /\ s.h \in Handles /\ s.a \in Apps /\ s.n \in Links
           /\ s.h.commands \in Seq(Commands) /\ s.h.responses \in Seq(Commands)
           /\ s.h.writing \in Seq(Commands) /\ s.h.to_broker \in Seq(Commands)
           /\ s.h.to_client \in Seq(Answers) /\ s.h.connect \in Commands
           /\ s.h.disconnect \in Commands
           /\ s.a.calls \in Seq(Kinds) /\ s.a.told \in [APICall -> Seq(Results)]
           /\ s.h.outboundMsgs \in SUBSET APICall
  BY DEF States, Handles, Apps

LEMMA CloseFields ==
    ASSUME NEW s \in States
    PROVE  LET d == closeOnly(s)
           IN /\ d \in States /\ d.a = s.a /\ d.n = s.n
              /\ d.h.connected = FALSE /\ d.h.connect_state = 0 /\ d.h.socket = "closed"
              /\ d.h.writing = <<>> /\ d.h.to_broker = <<>> /\ d.h.to_client = <<>>
              /\ d.h.outboundMsgs = s.h.outboundMsgs /\ d.h.commands = s.h.commands
              /\ d.h.responses = s.h.responses /\ d.h.pending_write = s.h.pending_write
              /\ d.h.connect = s.h.connect /\ d.h.disconnect = s.h.disconnect
<1>. DEFINE h == [s.h EXCEPT !.connected = FALSE, !.connect_state = 0, !.socket = "closed",
                             !.writing = <<>>, !.to_broker = <<>>, !.to_client = <<>>]
<1>1. <<>> \in Seq(Commands) /\ <<>> \in Seq(Answers) /\ s.h \in Handles
  BY StateFields
<1>2. h \in Handles
  BY <1>1 DEF Handles
<1>3. /\ h.connected = FALSE /\ h.connect_state = 0 /\ h.socket = "closed"
      /\ h.writing = <<>> /\ h.to_broker = <<>> /\ h.to_client = <<>>
      /\ h.outboundMsgs = s.h.outboundMsgs /\ h.commands = s.h.commands
      /\ h.responses = s.h.responses /\ h.pending_write = s.h.pending_write
      /\ h.connect = s.h.connect /\ h.disconnect = s.h.disconnect
  BY <1>1 DEF Handles
<1>4. closeOnly(s) = [s EXCEPT !.h = h]
  BY DEF closeOnly, States
<1>. HIDE DEF h
<1>5. closeOnly(s) \in States /\ closeOnly(s).h = h /\ closeOnly(s).a = s.a /\ closeOnly(s).n = s.n
  BY <1>2, <1>4 DEF States
<1>. QED
  BY <1>3, <1>5

LEMMA CleanFields ==
    ASSUME NEW s \in States
    PROVE  LET d == cleanedSession(s)
           IN /\ d \in States /\ d.a = s.a /\ d.n = s.n
              /\ d.h.connected = s.h.connected /\ d.h.connect_state = s.h.connect_state
              /\ d.h.socket = s.h.socket /\ d.h.writing = s.h.writing
              /\ d.h.to_broker = s.h.to_broker /\ d.h.to_client = s.h.to_client
              /\ d.h.pending_write = s.h.pending_write
              /\ d.h.connect = s.h.connect /\ d.h.disconnect = s.h.disconnect
              /\ \/ d.h.outboundMsgs = s.h.outboundMsgs /\ d.h.commands = s.h.commands
                    /\ d.h.responses = s.h.responses
                 \/ d.h.outboundMsgs = {} /\ d.h.commands = <<>> /\ d.h.responses = <<>>
<1>. DEFINE h == [s.h EXCEPT !.outboundMsgs = {}, !.responses = <<>>, !.commands = <<>>]
<1>1. <<>> \in Seq(Commands) /\ s.h \in Handles
  BY StateFields
<1>2. h \in Handles
  BY <1>1 DEF Handles
<1>3. /\ h.connected = s.h.connected /\ h.connect_state = s.h.connect_state
      /\ h.socket = s.h.socket /\ h.writing = s.h.writing
      /\ h.to_broker = s.h.to_broker /\ h.to_client = s.h.to_client
      /\ h.pending_write = s.h.pending_write
      /\ h.connect = s.h.connect /\ h.disconnect = s.h.disconnect
      /\ h.outboundMsgs = {} /\ h.commands = <<>> /\ h.responses = <<>>
  BY <1>1 DEF Handles
<1>4. cleanedSession(s) = s \/ cleanedSession(s) = [s EXCEPT !.h = h]
  BY DEF cleanedSession, States
<1>. HIDE DEF h
<1>5. /\ [s EXCEPT !.h = h] \in States /\ [s EXCEPT !.h = h].h = h
      /\ [s EXCEPT !.h = h].a = s.a /\ [s EXCEPT !.h = h].n = s.n
  BY <1>2 DEF States
<1>. QED
  BY <1>3, <1>4, <1>5

\* A list that gets a new first element
LEMMA FrontProps ==
    ASSUME NEW S, NEW s \in Seq(S), NEW e \in S
    PROVE  /\ <<e>> \o s \in Seq(S) /\ Len(<<e>> \o s) = Len(s) + 1 /\ (<<e>> \o s)[1] = e
           /\ \A i \in 2..Len(s) + 1 : (<<e>> \o s)[i] = s[i - 1]
  OBVIOUS

LEMMA TailProps ==
    ASSUME NEW S, NEW s \in Seq(S), s # <<>>
    PROVE  /\ Tail(s) \in Seq(S) /\ Len(Tail(s)) = Len(s) - 1 /\ Head(s) = s[1] /\ 1 \in 1..Len(s)
           /\ \A i \in 1..Len(Tail(s)) : i + 1 \in 1..Len(s) /\ Tail(s)[i] = s[i + 1]
  OBVIOUS

\* A command goes to the front, or to the end
LEMMA AddFields ==
    ASSUME NEW s \in States, NEW command \in Commands
    PROVE  LET d == addCommand(s, command)
           IN /\ d \in States /\ d = [s EXCEPT !.h.commands = d.h.commands]
              /\ command.type = "CONNECT" \/ command.internal
                    => \/ d.h.commands = <<command>> \o s.h.commands
                       \/ d = s /\ s.h.commands # <<>> /\ s.h.commands[1].type = command.type
              /\ ~(command.type = "CONNECT" \/ command.internal)
                    => d.h.commands = Append(s.h.commands, command)
              /\ command.type = "CONNECT" /\ NoConnect(s.h.commands)
                    => d.h.commands = <<command>> \o s.h.commands
<1>1. s.h \in Handles /\ s.h.commands \in Seq(Commands)
  BY StateFields
<1>2. <<command>> \o s.h.commands \in Seq(Commands) /\ Append(s.h.commands, command) \in Seq(Commands)
  BY <1>1, FrontProps
<1>3. s = [s EXCEPT !.h.commands = s.h.commands]
  BY <1>1 DEF States, Handles
<1>4. \A q \in Seq(Commands) :
          /\ [s EXCEPT !.h.commands = q] \in States
          /\ [s EXCEPT !.h.commands = q].h.commands = q
  BY <1>1 DEF States, Handles
<1>5. s.h.commands # <<>> => Head(s.h.commands) = s.h.commands[1] /\ 1 \in 1..Len(s.h.commands)
  BY <1>1
<1>6. \/ addCommand(s, command) = s /\ (command.type = "CONNECT" \/ command.internal)
         /\ s.h.commands # <<>> /\ Head(s.h.commands).type = command.type
      \/ addCommand(s, command) = [s EXCEPT !.h.commands = <<command>> \o s.h.commands]
         /\ (command.type = "CONNECT" \/ command.internal)
      \/ addCommand(s, command) = [s EXCEPT !.h.commands = Append(s.h.commands, command)]
         /\ ~(command.type = "CONNECT" \/ command.internal)
  BY DEF addCommand
<1>. QED
  BY <1>1, <1>2, <1>3, <1>4, <1>5, <1>6 DEF NoConnect

\* The fields of a state of which only the commands differ
LEMMA ButCommands ==
    ASSUME NEW s \in States, NEW q \in Seq(Commands)
    PROVE  LET d == [s EXCEPT !.h.commands = q]
           IN /\ d \in States /\ d.a = s.a /\ d.n = s.n
              /\ d.h.commands = q
              /\ d.h.connected = s.h.connected /\ d.h.connect_state = s.h.connect_state
              /\ d.h.socket = s.h.socket /\ d.h.writing = s.h.writing
              /\ d.h.to_broker = s.h.to_broker /\ d.h.to_client = s.h.to_client
              /\ d.h.pending_write = s.h.pending_write /\ d.h.outboundMsgs = s.h.outboundMsgs
              /\ d.h.connect = s.h.connect /\ d.h.disconnect = s.h.disconnect
              /\ d.h.responses = s.h.responses
  BY DEF States, Handles

LEMMA CalledFields ==
    ASSUME NEW s \in States, NEW command \in Commands, command.call \in APICall, NEW result \in Results
    PROVE  LET d == Called(s, command, result)
           IN /\ d \in States /\ d.h = s.h /\ d.n = s.n
              /\ d.a.calls = s.a.calls
              /\ d.a.told[command.call] = Append(s.a.told[command.call], result)
              /\ \A k \in APICall : k # command.call => d.a.told[k] = s.a.told[k]
              /\ command.type = "CONNECT" => d.a.is = IF result = "success" THEN "on" ELSE "off"
              /\ command.type = "DISCONNECT" => d.a.is = "off"
              /\ command.type \notin {"CONNECT", "DISCONNECT"} => d.a.is = s.a.is
<1>1. s.a \in Apps /\ s.a.told \in [APICall -> Seq(Results)]
  BY StateFields
<1>2. Append(s.a.told[command.call], result) \in Seq(Results)
  BY <1>1
<1>. QED
  BY <1>1, <1>2 DEF Called, States, Apps

-----------------------------------------------------------------------------
(* What each function of the client preserves.                             *)

LEMMA CloseInv ==
    ASSUME NEW s, NEW R, NEW T, Inv(s, R, T)
    PROVE  Inv(closeOnly(s), R, T)
<1>. DEFINE d == closeOnly(s)
<1>1. s \in States
  BY DEF Inv
<1>2. /\ d \in States /\ d.a = s.a
      /\ d.h.connected = FALSE /\ d.h.connect_state = 0 /\ d.h.socket = "closed"
      /\ d.h.writing = <<>> /\ d.h.to_broker = <<>> /\ d.h.to_client = <<>>
      /\ d.h.outboundMsgs = s.h.outboundMsgs /\ d.h.commands = s.h.commands
      /\ d.h.responses = s.h.responses /\ d.h.pending_write = s.h.pending_write
      /\ d.h.connect = s.h.connect /\ d.h.disconnect = s.h.disconnect
  BY <1>1, CloseFields
<1>. HIDE DEF d
<1>3. OwnedInv(d)
  BY <1>2 DEF Inv, OwnedInv, QueuesOwned, PacketsOwned, OthersOwned
<1>4. StateInv(d.h) /\ TokenInv(d.h)
  BY <1>2 DEF StateInv, SocketInv, InUse, TokenInv, NoConnect
<1>5. QueueInv(d.h)
  BY <1>2 DEF Inv, LinkInv, QueueInv, InUse
<1>6. ConnectInv(d)
  BY <1>2 DEF Inv, LinkInv, ConnectInv, InUse, Connecting, LastConnect
<1>7. OnceInv(d)
  <2>1. CommandsInv(d)
    BY <1>2 DEF Inv, OnceInv, CommandsInv
  <2>2. ToldInv(d.a) /\ ResponsesInv(d)
    BY <1>2 DEF Inv, OnceInv, ResponsesInv
  <2>3. OthersInv(d)
    BY <1>2 DEF Inv, OnceInv, OthersInv, Connecting
  <2>. QED
    BY <2>1, <2>2, <2>3 DEF OnceInv
<1>8. TrueInv(d, R)
  BY <1>2 DEF Inv, TrueInv
<1>9. TriedInv(d, T)
  BY <1>2 DEF Inv, TriedInv, Connecting, LastConnect
<1>. QED
  BY <1>2, <1>3, <1>4, <1>5, <1>6, <1>7, <1>8, <1>9 DEF Inv, LinkInv, d

LEMMA CleanInv ==
    ASSUME NEW s, NEW R, NEW T, Inv(s, R, T)
    PROVE  Inv(cleanedSession(s), R, T)
<1>. DEFINE d == cleanedSession(s)
<1>1. s \in States
  BY DEF Inv
<1>2. /\ d \in States /\ d.a = s.a
      /\ d.h.connected = s.h.connected /\ d.h.connect_state = s.h.connect_state
      /\ d.h.socket = s.h.socket /\ d.h.writing = s.h.writing
      /\ d.h.to_broker = s.h.to_broker /\ d.h.to_client = s.h.to_client
      /\ d.h.pending_write = s.h.pending_write
      /\ d.h.connect = s.h.connect /\ d.h.disconnect = s.h.disconnect
  BY <1>1, CleanFields
<1>3. \/ d.h.outboundMsgs = s.h.outboundMsgs /\ d.h.commands = s.h.commands
         /\ d.h.responses = s.h.responses
      \/ d.h.outboundMsgs = {} /\ d.h.commands = <<>> /\ d.h.responses = <<>>
  BY <1>1, CleanFields
<1>. HIDE DEF d
<1>4. OwnedInv(d)
  BY <1>2, <1>3 DEF Inv, OwnedInv, QueuesOwned, PacketsOwned, OthersOwned
<1>5. StateInv(d.h) /\ TokenInv(d.h)
  BY <1>2 DEF Inv, LinkInv, StateInv, SocketInv, InUse, TokenInv, NoConnect
<1>6. QueueInv(d.h)
  BY <1>2, <1>3 DEF Inv, LinkInv, QueueInv, InUse
<1>7. ConnectInv(d)
  BY <1>2, <1>3 DEF Inv, LinkInv, ConnectInv, InUse, Connecting, LastConnect, NoConnect
<1>8. OnceInv(d)
  <2>1. ToldInv(d.a) /\ OthersInv(d)
    BY <1>2 DEF Inv, OnceInv, OthersInv, Connecting
  <2>2. CommandsInv(d)
    BY <1>2, <1>3, SMTT(30) DEF Inv, OnceInv, CommandsInv
  <2>3. ResponsesInv(d)
    BY <1>2, <1>3 DEF Inv, OnceInv, ResponsesInv
  <2>. QED
    BY <2>1, <2>2, <2>3 DEF OnceInv
<1>9. TrueInv(d, R)
  BY <1>2 DEF Inv, TrueInv
<1>10. TriedInv(d, T)
  BY <1>2, <1>3 DEF Inv, TriedInv, Connecting, LastConnect
<1>. QED
  BY <1>2, <1>4, <1>5, <1>6, <1>7, <1>8, <1>9, <1>10 DEF Inv, LinkInv, d

\* The first command is taken from the queue
LEMMA TakenInv ==
    ASSUME NEW s, NEW R, NEW T, Inv(s, R, T), s.h.commands # <<>>
    PROVE  /\ Inv([s EXCEPT !.h.commands = Tail(@)], R, T)
           /\ NoConnect([s EXCEPT !.h.commands = Tail(@)].h.commands)
<1>. DEFINE d == [s EXCEPT !.h.commands = Tail(@)]
<1>1. s \in States /\ s.h.commands \in Seq(Commands)
  BY StateFields DEF Inv
<1>2. Tail(s.h.commands) \in Seq(Commands)
  BY <1>1
<1>3. /\ d \in States /\ d.a = s.a /\ d.h.commands = Tail(s.h.commands)
      /\ d.h.connected = s.h.connected /\ d.h.connect_state = s.h.connect_state
      /\ d.h.socket = s.h.socket /\ d.h.writing = s.h.writing
      /\ d.h.to_broker = s.h.to_broker /\ d.h.to_client = s.h.to_client
      /\ d.h.pending_write = s.h.pending_write /\ d.h.outboundMsgs = s.h.outboundMsgs
      /\ d.h.connect = s.h.connect /\ d.h.disconnect = s.h.disconnect
      /\ d.h.responses = s.h.responses
  BY <1>1, <1>2, ButCommands, ZenonT(40)
<1>4. /\ Len(d.h.commands) = Len(s.h.commands) - 1
      /\ \A i \in 1..Len(d.h.commands) :
             i + 1 \in 1..Len(s.h.commands) /\ d.h.commands[i] = s.h.commands[i + 1]
  <2>1. /\ Len(Tail(s.h.commands)) = Len(s.h.commands) - 1
        /\ \A i \in 1..Len(Tail(s.h.commands)) :
               i + 1 \in 1..Len(s.h.commands) /\ Tail(s.h.commands)[i] = s.h.commands[i + 1]
    BY <1>1, TailProps
  <2>. QED
    BY <1>3, <2>1
<1>. HIDE DEF d
<1>5. OwnedInv(d)
  BY <1>3, <1>4 DEF Inv, OwnedInv, QueuesOwned, PacketsOwned, OthersOwned
<1>6. StateInv(d.h) /\ TokenInv(d.h)
  BY <1>3 DEF Inv, LinkInv, StateInv, SocketInv, InUse, TokenInv, NoConnect
<1>7. NoConnect(d.h.commands)
  <2>1. \A i \in 1..Len(d.h.commands) : i + 1 # 1
    BY <1>3
  <2>. QED
    BY <1>4, <2>1 DEF Inv, LinkInv, QueueInv, NoConnect
<1>8. QueueInv(d.h)
  BY <1>7 DEF QueueInv, NoConnect
<1>9. ConnectInv(d)
  BY <1>3, <1>7 DEF Inv, LinkInv, ConnectInv, InUse, Connecting, LastConnect
<1>10. OnceInv(d)
  <2>1. ToldInv(d.a) /\ OthersInv(d) /\ ResponsesInv(d)
    BY <1>3 DEF Inv, OnceInv, OthersInv, ResponsesInv, Connecting
  <2>2. \A i, j \in 1..Len(d.h.commands) :
            d.h.commands[i].call # 0 /\ d.h.commands[j].call = d.h.commands[i].call => j = i
    <3>1. \A i, j \in 1..Len(s.h.commands) :
            s.h.commands[i].call # 0 /\ s.h.commands[j].call = s.h.commands[i].call => j = i
      BY DEF Inv, OnceInv, CommandsInv
    <3>. SUFFICES ASSUME NEW i \in 1..Len(d.h.commands), NEW j \in 1..Len(d.h.commands),
                         d.h.commands[i].call # 0, d.h.commands[j].call = d.h.commands[i].call
                  PROVE  j = i
      OBVIOUS
    <3>2. /\ i + 1 \in 1..Len(s.h.commands) /\ j + 1 \in 1..Len(s.h.commands)
          /\ s.h.commands[i + 1].call # 0
          /\ s.h.commands[j + 1].call = s.h.commands[i + 1].call
      BY <1>4
    <3>3. j + 1 = i + 1
      BY <3>1, <3>2, Zenon
    <3>. QED
      BY <3>3
  <2>3. CommandsInv(d)
    BY <1>3, <1>4, <2>2 DEF Inv, OnceInv, CommandsInv
  <2>. QED
    BY <2>1, <2>3 DEF OnceInv
<1>11. TrueInv(d, R)
  BY <1>3 DEF Inv, TrueInv
<1>12. TriedInv(d, T)
  BY <1>3, <1>7 DEF Inv, TriedInv, Connecting, LastConnect, NoConnect
<1>. QED
  BY <1>3, <1>5, <1>6, <1>7, <1>8, <1>9, <1>10, <1>11, <1>12 DEF Inv, LinkInv, d

\* The client disconnects itself: its command goes to the front
LEMMA InternalInv ==
    ASSUME NEW s, NEW R, NEW T, Inv(s, R, T)
    PROVE  /\ Inv(disconnectInternal(s), R, T)
           /\ LET d == disconnectInternal(s)
              IN /\ d.n = s.n /\ d.a = s.a /\ d.h.connected = s.h.connected
                 /\ d.h.connect_state = s.h.connect_state /\ d.h.connect = s.h.connect
                 /\ d.h.to_broker = s.h.to_broker /\ d.h.to_client = s.h.to_client
                 /\ d.h.responses = s.h.responses /\ d.h.pending_write = s.h.pending_write
                 /\ d.h.outboundMsgs = s.h.outboundMsgs /\ d.h.disconnect = s.h.disconnect
                 /\ \A i \in 1..Len(d.h.commands) :
                        \/ d.h.commands[i].call = 0
                        \/ \E j \in 1..Len(s.h.commands) : s.h.commands[j] = d.h.commands[i]
<1>. DEFINE c == [Command("DISCONNECT", 0) EXCEPT !.internal = TRUE]
            d == [s EXCEPT !.h.commands = <<c>> \o s.h.commands]
<1>1. s \in States /\ s.h.commands \in Seq(Commands)
  BY StateFields DEF Inv
<1>2. /\ c \in Commands /\ c.internal /\ c.type = "DISCONNECT" /\ c.call = 0 /\ ~c.waits
  BY BoundTypes, CommandType DEF Command, Commands, Kinds
<1>. HIDE DEF c
<1>3. /\ disconnectInternal(s) \in {s, d}
      /\ disconnectInternal(s) = s \/ s.h.connected
  <2>1. CASE ~s.h.connected
    BY <2>1 DEF disconnectInternal
  <2>2. CASE s.h.connected
    <3>1. disconnectInternal(s) = addCommand(s, c)
      BY <2>2 DEF disconnectInternal, c
    <3>2. \/ addCommand(s, c).h.commands = <<c>> \o s.h.commands
          \/ addCommand(s, c) = s
      BY <1>1, <1>2, AddFields
    <3>3. addCommand(s, c) = [s EXCEPT !.h.commands = addCommand(s, c).h.commands]
      BY <1>1, <1>2, AddFields
    <3>. QED
      BY <2>2, <3>1, <3>2, <3>3
  <2>. QED
    BY <2>1, <2>2
<1>4. SUFFICES ASSUME s.h.connected
               PROVE  /\ Inv(d, R, T)
                      /\ d.n = s.n /\ d.a = s.a /\ d.h.connected = s.h.connected
                      /\ d.h.connect_state = s.h.connect_state /\ d.h.connect = s.h.connect
                      /\ d.h.to_broker = s.h.to_broker /\ d.h.to_client = s.h.to_client
                      /\ d.h.responses = s.h.responses /\ d.h.pending_write = s.h.pending_write
                      /\ d.h.outboundMsgs = s.h.outboundMsgs /\ d.h.disconnect = s.h.disconnect
                      /\ \A i \in 1..Len(d.h.commands) :
                             \/ d.h.commands[i].call = 0
                             \/ \E j \in 1..Len(s.h.commands) : s.h.commands[j] = d.h.commands[i]
  BY <1>3, ZenonT(40)
<1>5. <<c>> \o s.h.commands \in Seq(Commands)
  BY <1>1, <1>2, FrontProps
<1>6. /\ d \in States /\ d.a = s.a /\ d.n = s.n /\ d.h.commands = <<c>> \o s.h.commands
      /\ d.h.connected = s.h.connected /\ d.h.connect_state = s.h.connect_state
      /\ d.h.socket = s.h.socket /\ d.h.writing = s.h.writing
      /\ d.h.to_broker = s.h.to_broker /\ d.h.to_client = s.h.to_client
      /\ d.h.pending_write = s.h.pending_write /\ d.h.outboundMsgs = s.h.outboundMsgs
      /\ d.h.connect = s.h.connect /\ d.h.disconnect = s.h.disconnect
      /\ d.h.responses = s.h.responses
  BY <1>1, <1>5, ButCommands, ZenonT(40)
<1>7. /\ Len(d.h.commands) = Len(s.h.commands) + 1 /\ d.h.commands[1] = c
      /\ \A i \in 2..Len(d.h.commands) :
             i - 1 \in 1..Len(s.h.commands) /\ d.h.commands[i] = s.h.commands[i - 1]
  <2>1. /\ Len(<<c>> \o s.h.commands) = Len(s.h.commands) + 1 /\ (<<c>> \o s.h.commands)[1] = c
        /\ \A i \in 2..Len(s.h.commands) + 1 : (<<c>> \o s.h.commands)[i] = s.h.commands[i - 1]
    BY <1>1, <1>2, FrontProps
  <2>2. \A i \in 2..Len(s.h.commands) + 1 : i - 1 \in 1..Len(s.h.commands)
    BY <1>1
  <2>. QED
    BY <1>6, <2>1, <2>2
<1>. HIDE DEF d
<1>8. \A i \in 1..Len(d.h.commands) : i = 1 \/ i \in 2..Len(d.h.commands)
  BY <1>1, <1>7
<1>9. OwnedInv(d)
  <2>1. QueuesOwned(d)
    BY <1>2, <1>6, <1>7, <1>8 DEF Inv, OwnedInv, QueuesOwned, Owned
  <2>2. PacketsOwned(d)
    BY <1>2, <1>6, <1>7, <1>8 DEF Inv, OwnedInv, PacketsOwned
  <2>3. OthersOwned(d)
    BY <1>2, <1>6, <1>7, <1>8 DEF Inv, OwnedInv, OthersOwned
  <2>. QED
    BY <2>1, <2>2, <2>3 DEF OwnedInv
<1>10. StateInv(d.h) /\ TokenInv(d.h)
  <2>1. StateInv(s.h) /\ TokenInv(s.h)
    BY DEF Inv, LinkInv
  <2>2. StateInv(d.h)
    BY <1>6, <2>1 DEF StateInv, SocketInv, InUse
  <2>3. TokenInv(d.h)
    BY <1>6, <2>1 DEF TokenInv, NoConnect
  <2>. QED
    BY <2>2, <2>3
<1>11. NoConnect(d.h.commands)
  BY <1>2, <1>4, <1>7, <1>8, ZenonT(40) DEF Inv, LinkInv, QueueInv, NoConnect, InUse
<1>12. QueueInv(d.h)
  BY <1>11 DEF QueueInv, NoConnect
<1>13. ConnectInv(d)
  BY <1>6, <1>11 DEF Inv, LinkInv, ConnectInv, InUse, Connecting, LastConnect
<1>14. OnceInv(d)
  <2>1. ToldInv(d.a) /\ OthersInv(d) /\ ResponsesInv(d)
    BY <1>6, SMTT(30) DEF Inv, OnceInv, OthersInv, ResponsesInv, Connecting
  <2>2. \A i, j \in 1..Len(d.h.commands) :
            d.h.commands[i].call # 0 /\ d.h.commands[j].call = d.h.commands[i].call => j = i
    <3>1. \A i, j \in 1..Len(s.h.commands) :
            s.h.commands[i].call # 0 /\ s.h.commands[j].call = s.h.commands[i].call => j = i
      BY DEF Inv, OnceInv, CommandsInv
    <3>. SUFFICES ASSUME NEW i \in 1..Len(d.h.commands), NEW j \in 1..Len(d.h.commands),
                         d.h.commands[i].call # 0, d.h.commands[j].call = d.h.commands[i].call
                  PROVE  j = i
      OBVIOUS
    <3>2. i \in 2..Len(d.h.commands) /\ j \in 2..Len(d.h.commands)
      BY <1>2, <1>7, <1>8
    <3>3. /\ i - 1 \in 1..Len(s.h.commands) /\ j - 1 \in 1..Len(s.h.commands)
          /\ s.h.commands[i - 1].call # 0
          /\ s.h.commands[j - 1].call = s.h.commands[i - 1].call
      BY <1>7, <3>2
    <3>4. j - 1 = i - 1
      BY <3>1, <3>3, Zenon
    <3>. QED
      BY <3>4
  <2>3. \A i \in 1..Len(d.h.commands) : d.h.commands[i].call # 0 =>
            \E j \in 1..Len(s.h.commands) :
                s.h.commands[j].call = d.h.commands[i].call /\ s.h.commands[j].call # 0
    <3>. SUFFICES ASSUME NEW i \in 1..Len(d.h.commands), d.h.commands[i].call # 0
                  PROVE  \E j \in 1..Len(s.h.commands) :
                             s.h.commands[j].call = d.h.commands[i].call /\ s.h.commands[j].call # 0
      OBVIOUS
    <3>1. i \in 2..Len(d.h.commands)
      BY <1>2, <1>7, <1>8
    <3>2. i - 1 \in 1..Len(s.h.commands) /\ d.h.commands[i] = s.h.commands[i - 1]
      BY <1>7, <3>1
    <3>. QED
      BY <3>2
  <2>4. ASSUME NEW i \in 1..Len(d.h.commands), d.h.commands[i].call # 0
        PROVE  /\ d.a.told[d.h.commands[i].call] = <<>>
               /\ d.h.commands[i].call # d.h.pending_write
               /\ d.h.connect_state = -2 => d.h.commands[i].call # d.h.disconnect.call
               /\ \A j \in 1..Len(d.h.responses) :
                      d.h.responses[j].call = d.h.commands[i].call => d.h.responses[j].type = "PUBLISH0"
    <3>1. PICK j \in 1..Len(s.h.commands) :
             s.h.commands[j].call = d.h.commands[i].call /\ s.h.commands[j].call # 0
      BY <2>3, <2>4
    <3>2. CommandsInv(s)
      BY DEF Inv, OnceInv
    <3>3. /\ s.a.told[s.h.commands[j].call] = <<>>
          /\ s.h.commands[j].call # s.h.pending_write
          /\ s.h.connect_state = -2 => s.h.commands[j].call # s.h.disconnect.call
          /\ \A k \in 1..Len(s.h.responses) :
                 s.h.responses[k].call = s.h.commands[j].call => s.h.responses[k].type = "PUBLISH0"
      BY <3>1, <3>2 DEF CommandsInv
    <3>. QED
      BY <1>6, <3>1, <3>3
  <2>5. CommandsInv(d)
    BY <2>2, <2>4 DEF CommandsInv
  <2>. QED
    BY <2>1, <2>5 DEF OnceInv
<1>15. TrueInv(d, R)
  BY <1>6 DEF Inv, TrueInv
<1>16. TriedInv(d, T)
  BY <1>6, <1>11 DEF Inv, TriedInv, Connecting, LastConnect, NoConnect
<1>17. Inv(d, R, T)
  BY <1>6, <1>9, <1>10, <1>12, <1>13, <1>14, <1>15, <1>16 DEF Inv, LinkInv
<1>. QED
  BY <1>2, <1>6, <1>7, <1>8, <1>17

-----------------------------------------------------------------------------
(* Calls and replies.                                                      *)

\* Nobody is going to reply to call k
Free(s, k) ==
    /\ \A i \in 1..Len(s.h.commands) : s.h.commands[i].call # k
    /\ \A i \in 1..Len(s.h.responses) :
           s.h.responses[i].call = k => s.h.responses[i].type = "PUBLISH0"
    /\ s.h.pending_write # k
    /\ s.h.connect_state = -2 => s.h.disconnect.call # k
    /\ Connecting(s.h) => s.h.connect.call # k

LEMMA CallsAreAPICalls ==
    ASSUME NEW s, NEW R, NEW T, Inv(s, R, T)
    PROVE  /\ \A j \in 1..Len(s.a.calls) : j \in APICall
           /\ \A type, k : IsCall(s.a, type, k) => k \in APICall
<1>1. s.a.calls \in Seq(Kinds) /\ Len(s.a.calls) <= MaxAPICalls
  BY StateFields DEF Inv, OwnedInv, OthersOwned
<1>2. \A j \in 1..Len(s.a.calls) : j \in APICall
  BY <1>1, BoundTypes DEF APICall
<1>. QED
  BY <1>2 DEF IsCall

\* A callback is called for a call that nobody is going to reply to any more
LEMMA CalledInv ==
    ASSUME NEW s, NEW R, NEW T, Inv(s, R, T), NEW command \in Commands, NEW result \in Results,
           IsCall(s.a, command.type, command.call), Free(s, command.call),
           s.a.told[command.call] = <<>>,
           command.type \notin {"DISCONNECT", "PUBLISH0"} /\ result = "success"
              => "success" \in R[command.call],
           command.type \in {"CONNECT", "DISCONNECT"}
              => (result = "success" /\ command.type = "CONNECT")
                 \/ (~InUse(s.h) /\ NoConnect(s.h.commands)),
           command.type = "CONNECT" /\ result = "failure" => AllTried(T)
    PROVE  /\ Inv(Called(s, command, result), R, T)
           /\ Called(s, command, result).h = s.h /\ Called(s, command, result).n = s.n
           /\ Called(s, command, result).a.calls = s.a.calls
<1>. DEFINE d == Called(s, command, result)
            k == command.call
<1>1. s \in States /\ s.a.told \in [APICall -> Seq(Results)] /\ s.a.calls \in Seq(Kinds)
  BY StateFields DEF Inv
<1>2. k \in APICall
  BY CallsAreAPICalls, Zenon
<1>3. /\ d \in States /\ d.h = s.h /\ d.n = s.n /\ d.a.calls = s.a.calls
      /\ d.a.told[k] = Append(s.a.told[k], result)
      /\ \A j \in APICall : j # k => d.a.told[j] = s.a.told[j]
      /\ command.type = "CONNECT" => d.a.is = IF result = "success" THEN "on" ELSE "off"
      /\ command.type = "DISCONNECT" => d.a.is = "off"
      /\ command.type \notin {"CONNECT", "DISCONNECT"} => d.a.is = s.a.is
  BY <1>1, <1>2, CalledFields, ZenonT(40)
<1>4. d.a.told[k] = <<result>>
  BY <1>1, <1>3
<1>5. IsCall(s.a, command.type, k) /\ Free(s, k) /\ s.a.told[k] = <<>>
  OBVIOUS
<1>. HIDE DEF d, k
<1>6. OwnedInv(d)
  <2>1. QueuesOwned(d)
    BY <1>3 DEF Inv, OwnedInv, QueuesOwned, Owned, IsCall
  <2>2. PacketsOwned(d)
    <3>1. PacketsOwned(s)
      BY DEF Inv, OwnedInv
    <3>. QED
      BY <1>3, <3>1 DEF PacketsOwned, IsCall
  <2>3. OthersOwned(d)
    BY <1>3 DEF Inv, OwnedInv, OthersOwned, IsCall
  <2>. QED
    BY <2>1, <2>2, <2>3 DEF OwnedInv
<1>7. ConnectInv(d)
  <2>1. d.a.is = "off" => ~InUse(d.h) /\ NoConnect(d.h.commands)
    BY <1>3 DEF Inv, LinkInv, ConnectInv
  <2>2. LastConnect(s) => LastConnect(d)
    BY <1>3 DEF LastConnect, IsCall
  <2>. QED
    BY <1>3, <2>1, <2>2 DEF Inv, LinkInv, ConnectInv
<1>8. LinkInv(d)
  BY <1>3, <1>7 DEF Inv, LinkInv
<1>9. ToldInv(d.a)
  <2>1. Len(<<result>>) <= 1
    OBVIOUS
  <2>2. k \in 1..Len(s.a.calls)
    BY <1>5 DEF IsCall
  <2>3. \A j \in APICall : j > Len(s.a.calls) => j # k
    BY <1>1, <2>2 DEF APICall
  <2>. QED
    BY <1>3, <1>4, <2>1, <2>3 DEF Inv, OnceInv, ToldInv
<1>10. \A i \in 1..Len(s.h.commands) : s.h.commands[i].call # 0 => s.h.commands[i].call \in APICall
  <2>1. \A i \in 1..Len(s.h.commands) : s.h.commands[i].call \in 0..MaxAPICalls
    <3>1. s.h.commands \in Seq(Commands)
      BY <1>1, StateFields
    <3>2. \A c \in Commands : c.call \in 0..MaxAPICalls
      BY DEF Commands
    <3>3. \A i \in 1..Len(s.h.commands) : s.h.commands[i] \in Commands
      BY <3>1
    <3>. QED
      BY <3>2, <3>3
  <2>. QED
    BY <2>1, BoundTypes DEF APICall
<1>11. CommandsInv(d)
  BY <1>3, <1>5, <1>10 DEF Inv, OnceInv, CommandsInv, Free
<1>12. ResponsesInv(d)
  <2>1. \A i \in 1..Len(s.h.responses) : s.h.responses[i].call \in APICall
    BY CallsAreAPICalls DEF Inv, OwnedInv, QueuesOwned
  <2>. QED
    BY <1>3, <1>5, <2>1 DEF Inv, OnceInv, ResponsesInv, Free
<1>13. OthersInv(d)
  <2>1. /\ s.h.pending_write # 0 => s.h.pending_write \in APICall
        /\ s.h.connect_state = -2 => s.h.disconnect.call \in APICall
        /\ Connecting(s.h) => s.h.connect.call \in APICall
    BY CallsAreAPICalls DEF Inv, OwnedInv, OthersOwned, LinkInv, ConnectInv, LastConnect
  <2>. QED
    BY <1>3, <1>5, <2>1 DEF Inv, OnceInv, OthersInv, Free
<1>14. TrueInv(d, R)
  <2>1. \A j \in 1..Len(s.a.calls) : j \in APICall
    BY CallsAreAPICalls
  <2>2. <<result>> = <<"success">> => result = "success"
    OBVIOUS
  <2>3. s.a.calls[k] = command.type
    BY <1>5 DEF IsCall
  <2>. QED
    BY <1>3, <1>4, <2>1, <2>2, <2>3 DEF Inv, TrueInv, k
<1>15. TriedInv(d, T)
  <2>1. LastConnect(d) => LastConnect(s) /\ s.h.connect.call \in APICall
    BY <1>3, CallsAreAPICalls DEF LastConnect, IsCall
  <2>2. <<result>> = <<"failure">> => result = "failure"
    OBVIOUS
  <2>3. LastConnect(s) /\ s.h.connect.call = k => command.type = "CONNECT"
    BY <1>5 DEF LastConnect, IsCall
  <2>. QED
    BY <1>3, <1>4, <2>1, <2>2, <2>3 DEF Inv, TriedInv
<1>16. OnceInv(d)
  BY <1>9, <1>11, <1>12, <1>13 DEF OnceInv
<1>17. Inv(d, R, T)
  BY <1>3, <1>6, <1>8, <1>14, <1>15, <1>16 DEF Inv
<1>. QED
  BY <1>3, <1>17 DEF d

\* The command of the present connect goes to the front of the queue
LEMMA FrontInv ==
    ASSUME NEW s, NEW R, NEW T, Inv(s, R, T), ~InUse(s.h), NoConnect(s.h.commands),
           s.a.is # "off", NEW c \in Commands, c.type = "CONNECT", ~c.internal,
           c.call = s.h.connect.call, LastConnect(s), s.a.told[c.call] = <<>>, TriedFor(c, T)
    PROVE  /\ Inv(addCommand(s, c), R, T)
           /\ addCommand(s, c).n = s.n /\ ~InUse(addCommand(s, c).h)
           /\ addCommand(s, c).a = s.a
<1>. DEFINE d == [s EXCEPT !.h.commands = <<c>> \o s.h.commands]
<1>1. s \in States /\ s.h.commands \in Seq(Commands)
  BY StateFields DEF Inv
<1>2. <<c>> \o s.h.commands \in Seq(Commands)
  BY <1>1, FrontProps
<1>3. addCommand(s, c) = d
  <2>1. /\ addCommand(s, c).h.commands = <<c>> \o s.h.commands
        /\ addCommand(s, c) = [s EXCEPT !.h.commands = addCommand(s, c).h.commands]
    BY <1>1, AddFields
  <2>. QED
    BY <2>1
<1>4. /\ d \in States /\ d.a = s.a /\ d.n = s.n /\ d.h.commands = <<c>> \o s.h.commands
      /\ d.h.connected = s.h.connected /\ d.h.connect_state = s.h.connect_state
      /\ d.h.socket = s.h.socket /\ d.h.writing = s.h.writing
      /\ d.h.to_broker = s.h.to_broker /\ d.h.to_client = s.h.to_client
      /\ d.h.pending_write = s.h.pending_write /\ d.h.outboundMsgs = s.h.outboundMsgs
      /\ d.h.connect = s.h.connect /\ d.h.disconnect = s.h.disconnect
      /\ d.h.responses = s.h.responses
  BY <1>1, <1>2, ButCommands, ZenonT(40)
<1>5. /\ Len(d.h.commands) = Len(s.h.commands) + 1 /\ d.h.commands[1] = c
      /\ \A i \in 2..Len(d.h.commands) :
             i - 1 \in 1..Len(s.h.commands) /\ d.h.commands[i] = s.h.commands[i - 1]
  <2>1. /\ Len(<<c>> \o s.h.commands) = Len(s.h.commands) + 1 /\ (<<c>> \o s.h.commands)[1] = c
        /\ \A i \in 2..Len(s.h.commands) + 1 : (<<c>> \o s.h.commands)[i] = s.h.commands[i - 1]
    BY <1>1, FrontProps
  <2>2. \A i \in 2..Len(s.h.commands) + 1 : i - 1 \in 1..Len(s.h.commands)
    BY <1>1
  <2>. QED
    BY <1>4, <2>1, <2>2
<1>. HIDE DEF d
<1>6. \A i \in 1..Len(d.h.commands) : i = 1 \/ i \in 2..Len(d.h.commands)
  BY <1>1, <1>5
<1>7. IsCall(s.a, "CONNECT", c.call)
  BY DEF LastConnect
<1>8. OwnedInv(d)
  <2>1. QueuesOwned(d)
    BY <1>4, <1>5, <1>6, <1>7 DEF Inv, OwnedInv, QueuesOwned, Owned
  <2>2. PacketsOwned(d)
    <3>1. PacketsOwned(s)
      BY DEF Inv, OwnedInv
    <3>. QED
      BY <1>4, <3>1 DEF PacketsOwned
  <2>3. OthersOwned(d)
    BY <1>4, <1>5, <1>6, <1>7 DEF Inv, OwnedInv, OthersOwned
  <2>. QED
    BY <2>1, <2>2, <2>3 DEF OwnedInv
<1>9. StateInv(d.h) /\ TokenInv(d.h)
  <2>1. StateInv(s.h) /\ TokenInv(s.h)
    BY DEF Inv, LinkInv
  <2>2. StateInv(d.h)
    BY <1>4, <2>1 DEF StateInv, SocketInv, InUse
  <2>3. TokenInv(d.h)
    BY <1>4, <2>1 DEF TokenInv, NoConnect
  <2>. QED
    BY <2>2, <2>3
<1>10. \A i \in 1..Len(d.h.commands) : d.h.commands[i].type = "CONNECT" => i = 1
  BY <1>5, <1>6 DEF NoConnect
<1>11. QueueInv(d.h)
  BY <1>4, <1>5, <1>10 DEF QueueInv, InUse
<1>12. ConnectInv(d)
  BY <1>4 DEF Inv, LinkInv, ConnectInv, InUse, Connecting, LastConnect
\* No other command, response or write is about a connect
<1>13. \A i \in 1..Len(s.h.commands) : s.h.commands[i].call # c.call
  <2>1. c.call # 0
    BY <1>1, <1>7, StateFields DEF IsCall
  <2>. QED
    BY <1>7, <2>1 DEF Inv, OwnedInv, QueuesOwned, Owned, IsCall, NoConnect
<1>14. \A i \in 1..Len(s.h.responses) : s.h.responses[i].call # c.call
  BY <1>7, ConnectAssumption DEF Inv, OwnedInv, QueuesOwned, IsCall
<1>15. s.h.pending_write # c.call /\ s.h.connect_state # -2 /\ ~Connecting(s.h)
  <2>1. c.call # 0
    BY <1>1, <1>7, StateFields DEF IsCall
  <2>. QED
    BY <1>7, <2>1 DEF Inv, OwnedInv, OthersOwned, IsCall, InUse, Connecting
<1>16. CommandsInv(d)
  <2>1. \A i, j \in 1..Len(d.h.commands) :
            d.h.commands[i].call # 0 /\ d.h.commands[j].call = d.h.commands[i].call => j = i
    <3>1. \A i, j \in 1..Len(s.h.commands) :
            s.h.commands[i].call # 0 /\ s.h.commands[j].call = s.h.commands[i].call => j = i
      BY DEF Inv, OnceInv, CommandsInv
    <3>. SUFFICES ASSUME NEW i \in 1..Len(d.h.commands), NEW j \in 1..Len(d.h.commands),
                         d.h.commands[i].call # 0, d.h.commands[j].call = d.h.commands[i].call
                  PROVE  j = i
      OBVIOUS
    <3>2. CASE i = 1 \/ j = 1
      BY <1>5, <1>6, <1>13, <3>2
    <3>3. CASE i \in 2..Len(d.h.commands) /\ j \in 2..Len(d.h.commands)
      <4>1. /\ i - 1 \in 1..Len(s.h.commands) /\ j - 1 \in 1..Len(s.h.commands)
            /\ s.h.commands[i - 1].call # 0
            /\ s.h.commands[j - 1].call = s.h.commands[i - 1].call
        BY <1>5, <3>3
      <4>2. j - 1 = i - 1
        BY <3>1, <4>1, Zenon
      <4>. QED
        BY <4>2
    <3>. QED
      BY <1>6, <3>2, <3>3
  <2>2. ASSUME NEW i \in 1..Len(d.h.commands), d.h.commands[i].call # 0
        PROVE  /\ d.a.told[d.h.commands[i].call] = <<>>
               /\ d.h.commands[i].call # d.h.pending_write
               /\ d.h.connect_state = -2 => d.h.commands[i].call # d.h.disconnect.call
               /\ \A j \in 1..Len(d.h.responses) :
                    d.h.responses[j].call = d.h.commands[i].call => d.h.responses[j].type = "PUBLISH0"
    <3>1. CASE i = 1
      BY <1>4, <1>5, <1>14, <1>15, <3>1
    <3>2. CASE i \in 2..Len(d.h.commands)
      <4>1. i - 1 \in 1..Len(s.h.commands) /\ d.h.commands[i] = s.h.commands[i - 1]
        BY <1>5, <3>2
      <4>. QED
        <5>1. CommandsInv(s) /\ s.h.commands[i - 1].call # 0
          BY <2>2, <4>1 DEF Inv, OnceInv
        <5>2. /\ s.a.told[s.h.commands[i - 1].call] = <<>>
              /\ s.h.commands[i - 1].call # s.h.pending_write
              /\ s.h.connect_state = -2 => s.h.commands[i - 1].call # s.h.disconnect.call
              /\ \A j \in 1..Len(s.h.responses) :
                    s.h.responses[j].call = s.h.commands[i - 1].call => s.h.responses[j].type = "PUBLISH0"
          BY <4>1, <5>1 DEF CommandsInv
        <5>. QED
          BY <1>4, <4>1, <5>2
    <3>. QED
      BY <1>6, <3>1, <3>2
  <2>. QED
    BY <2>1, <2>2 DEF CommandsInv
<1>17. OnceInv(d)
  <2>1. ToldInv(d.a) /\ ResponsesInv(s) /\ OthersInv(s)
    BY <1>4 DEF Inv, OnceInv
  <2>2. ResponsesInv(d)
    BY <1>4, <2>1 DEF ResponsesInv
  <2>3. OthersInv(d)
    BY <1>4, <2>1 DEF OthersInv, Connecting
  <2>. QED
    BY <1>16, <2>1, <2>2, <2>3 DEF OnceInv
<1>18. TrueInv(d, R)
  BY <1>4 DEF Inv, TrueInv
<1>19. TriedInv(d, T)
  BY <1>4, <1>5, <1>10 DEF Inv, TriedInv, Connecting, LastConnect
<1>20. Inv(d, R, T)
  BY <1>4, <1>8, <1>9, <1>11, <1>12, <1>17, <1>18, <1>19 DEF Inv, LinkInv
<1>. QED
  BY <1>3, <1>4, <1>20 DEF InUse

\* The application makes a call: nobody has replied to it
LEMMA CallMade ==
    ASSUME NEW s, NEW R, NEW T, Inv(s, R, T), Len(s.a.calls) < MaxAPICalls,
           NEW type \in Kinds, NEW d \in States,
           d.a.calls = Append(s.a.calls, type), d.a.told = s.a.told, d.a.is # "off",
           type # "CONNECT" => d.h.connect = s.h.connect,
           type = "CONNECT" =>
              /\ ~InUse(s.h) /\ NoConnect(s.h.commands)
              /\ d.h.connect.call = Len(s.a.calls) + 1
              /\ d.h.connect.type = s.h.connect.type /\ d.h.connect.internal = s.h.connect.internal,
           d.h.commands = s.h.commands, d.h.responses = s.h.responses,
           d.h.connected = s.h.connected, d.h.connect_state = s.h.connect_state,
           d.h.socket = s.h.socket, d.h.writing = s.h.writing,
           d.h.to_broker = s.h.to_broker, d.h.to_client = s.h.to_client,
           d.h.pending_write = s.h.pending_write, d.h.outboundMsgs = s.h.outboundMsgs,
           d.h.disconnect = s.h.disconnect
    PROVE  /\ Inv(d, R, T)
           /\ IsCall(d.a, type, Len(s.a.calls) + 1) /\ Len(s.a.calls) + 1 \in APICall
           /\ d.a.told[Len(s.a.calls) + 1] = <<>>
           /\ Free(d, Len(s.a.calls) + 1)
           /\ type = "CONNECT" => LastConnect(d)
<1>. DEFINE n == Len(s.a.calls) + 1
<1>1. s \in States /\ s.a.calls \in Seq(Kinds) /\ n \in Nat /\ n >= 1
  BY StateFields DEF Inv
<1>2. /\ Len(d.a.calls) = n /\ d.a.calls[n] = type
      /\ \A k \in 1..Len(s.a.calls) : k \in 1..n /\ k # n /\ d.a.calls[k] = s.a.calls[k]
      /\ \A k \in 1..n : k = n \/ k \in 1..Len(s.a.calls)
  BY <1>1
<1>3. n \in APICall /\ n <= MaxAPICalls /\ n > Len(s.a.calls) /\ n # 0
  BY <1>1, BoundTypes DEF APICall
<1>4. s.a.told[n] = <<>>
  BY <1>3 DEF Inv, OnceInv, ToldInv
<1>5. n = Len(s.a.calls) + 1
  OBVIOUS
<1>. HIDE DEF n
<1>6. \A t, k : IsCall(s.a, t, k) => IsCall(d.a, t, k) /\ k # n
  BY <1>2 DEF IsCall
<1>7. OwnedInv(d)
  <2>1. QueuesOwned(d)
    BY <1>6 DEF Inv, OwnedInv, QueuesOwned, Owned
  <2>2. PacketsOwned(d)
    BY <1>6 DEF Inv, OwnedInv, PacketsOwned
  <2>3. OthersOwned(d)
    BY <1>2, <1>3, <1>6 DEF Inv, OwnedInv, OthersOwned
  <2>. QED
    BY <2>1, <2>2, <2>3 DEF OwnedInv
<1>8. Free(d, n)
  <2>1. \A i \in 1..Len(s.h.commands) : s.h.commands[i].call # n
    BY <1>3, <1>6 DEF Inv, OwnedInv, QueuesOwned, Owned
  <2>2. \A i \in 1..Len(s.h.responses) : s.h.responses[i].call # n
    BY <1>6 DEF Inv, OwnedInv, QueuesOwned
  <2>3. s.h.pending_write # n /\ (s.h.connect_state = -2 => s.h.disconnect.call # n)
    BY <1>3, <1>6 DEF Inv, OwnedInv, OthersOwned
  <2>4. Connecting(s.h) => type # "CONNECT" /\ s.h.connect.call # n
    BY <1>6 DEF Inv, LinkInv, ConnectInv, LastConnect, Connecting, InUse
  <2>. QED
    BY <2>1, <2>2, <2>3, <2>4 DEF Free, Connecting
<1>9. type = "CONNECT" => LastConnect(d)
  BY <1>2, <1>3, <1>5 DEF LastConnect, IsCall
<1>10. type # "CONNECT" => (LastConnect(d) <=> LastConnect(s))
  <2>. HAVE type # "CONNECT"
  <2>1. LastConnect(s) => LastConnect(d)
    <3>. HAVE LastConnect(s)
    <3>1. IsCall(d.a, "CONNECT", d.h.connect.call)
      BY <1>6 DEF LastConnect
    <3>2. ASSUME NEW k \in d.h.connect.call + 1 .. Len(d.a.calls)
          PROVE  d.a.calls[k] # "CONNECT"
      <4>1. CASE k = n
        BY <1>2, <4>1
      <4>2. CASE k # n
        <5>1. k \in s.h.connect.call + 1 .. Len(s.a.calls) /\ k \in 1..Len(s.a.calls)
          BY <1>1, <1>2, <1>5, <3>2, <4>2 DEF LastConnect, IsCall
        <5>. QED
          BY <1>2, <5>1 DEF LastConnect
      <4>. QED
        BY <4>1, <4>2
    <3>. QED
      BY <3>1, <3>2 DEF LastConnect
  <2>2. LastConnect(d) => LastConnect(s)
    <3>. HAVE LastConnect(d)
    <3>1. s.h.connect.call \in 1..n /\ s.h.connect.call # n
      BY <1>2 DEF LastConnect, IsCall
    <3>2. s.h.connect.call \in 1..Len(s.a.calls)
      BY <1>2, <3>1
    <3>3. \A k \in s.h.connect.call + 1 .. Len(s.a.calls) :
             k \in 1..Len(s.a.calls) /\ k \in s.h.connect.call + 1 .. n
      BY <1>1, <1>5, <3>2
    <3>. QED
      BY <1>2, <3>2, <3>3 DEF LastConnect, IsCall
  <2>. QED
    BY <2>1, <2>2
<1>11. StateInv(d.h)
  BY DEF Inv, LinkInv, StateInv, SocketInv, InUse
<1>12. TokenInv(d.h)
  <2>1. CASE type = "CONNECT"
    BY <2>1 DEF Inv, LinkInv, StateInv, SocketInv, TokenInv, NoConnect
  <2>2. CASE type # "CONNECT"
    BY <2>2 DEF Inv, LinkInv, TokenInv, NoConnect
  <2>. QED
    BY <2>1, <2>2
<1>13. QueueInv(d.h)
  BY DEF Inv, LinkInv, QueueInv, InUse, NoConnect
<1>14. ConnectInv(d)
  <2>1. CASE type = "CONNECT"
    BY <1>9, <2>1 DEF Inv, LinkInv, ConnectInv
  <2>2. CASE type # "CONNECT"
    <3>1. (\E k \in 1..Len(d.a.calls) : d.a.calls[k] = "CONNECT")
             => \E k \in 1..Len(s.a.calls) : s.a.calls[k] = "CONNECT"
      BY <1>2, <2>2
    <3>. QED
      BY <1>10, <2>2, <3>1 DEF Inv, LinkInv, ConnectInv, Connecting
  <2>. QED
    BY <2>1, <2>2
<1>15. ToldInv(d.a)
  <2>1. \A k \in APICall : k > n => k > Len(s.a.calls)
    BY <1>1, <1>5 DEF APICall
  <2>. QED
    BY <1>2, <2>1 DEF Inv, OnceInv, ToldInv
<1>16. CommandsInv(d) /\ ResponsesInv(d)
  BY SMTT(30) DEF Inv, OnceInv, CommandsInv, ResponsesInv
<1>17. OthersInv(d)
  BY DEF Inv, OnceInv, OthersInv, Connecting, InUse
<1>18. TrueInv(d, R)
  <2>1. <<>> # <<"success">>
    OBVIOUS
  <2>2. \A k \in 1..Len(d.a.calls) : d.a.told[k] = <<"success">> =>
            k \in 1..Len(s.a.calls) /\ d.a.calls[k] = s.a.calls[k] /\ s.a.told[k] = <<"success">>
    BY <1>2, <1>4, <2>1
  <2>. QED
    BY <2>2 DEF Inv, TrueInv
<1>19. TriedInv(d, T)
  <2>1. CASE type = "CONNECT"
    <3>1. d.a.told[d.h.connect.call] # <<"failure">>
      <4>1. d.h.connect.call = n
        BY <1>5, <2>1
      <4>2. <<>> # <<"failure">>
        OBVIOUS
      <4>. QED
        BY <1>4, <4>1, <4>2
    <3>2. ~Connecting(d.h) /\ NoConnect(d.h.commands)
      BY <2>1 DEF Connecting, InUse
    <3>. QED
      BY <3>1, <3>2 DEF TriedInv, NoConnect
  <2>2. CASE type # "CONNECT"
    BY <1>10, <2>2 DEF Inv, TriedInv, Connecting
  <2>. QED
    BY <2>1, <2>2
<1>20. Inv(d, R, T)
  BY <1>7, <1>11, <1>12, <1>13, <1>14, <1>15, <1>16, <1>17, <1>18, <1>19 DEF Inv, LinkInv, OnceInv
<1>. QED
  BY <1>2, <1>3, <1>4, <1>5, <1>8, <1>9, <1>20 DEF IsCall

\* MQTTAsync_connect, when the client is at rest
LEMMA ConnectCallInv ==
    ASSUME NEW s, NEW R, NEW T, Inv(s, R, T), ~InUse(s.h), NoConnect(s.h.commands)
    PROVE  /\ Inv(connectCall(s), R, T)
           /\ connectCall(s).n = s.n /\ ~InUse(connectCall(s).h)
           /\ Extends(connectCall(s).a, s.a)
<1>1. /\ s \in States /\ s.h \in Handles /\ s.a \in Apps /\ s.a.calls \in Seq(Kinds)
      /\ s.h.connect \in Commands
  BY StateFields DEF Inv
<1>2. CASE Len(s.a.calls) = MaxAPICalls
  <2>. DEFINE d == [s EXCEPT !.a.is = "done"]
  <2>1. connectCall(s) = d
    BY <1>2 DEF connectCall
  <2>2. /\ d \in States /\ d.h = s.h /\ d.n = s.n /\ d.a.is = "done"
        /\ d.a.calls = s.a.calls /\ d.a.told = s.a.told
    BY <1>1 DEF States, Apps
  <2>. HIDE DEF d
  <2>3. OwnedInv(d)
    <3>1. QueuesOwned(d)
      BY <2>2 DEF Inv, OwnedInv, QueuesOwned, Owned, IsCall
    <3>2. PacketsOwned(d)
      BY <2>2 DEF Inv, OwnedInv, PacketsOwned, IsCall
    <3>3. OthersOwned(d)
      BY <2>2 DEF Inv, OwnedInv, OthersOwned, IsCall
    <3>. QED
      BY <3>1, <3>2, <3>3 DEF OwnedInv
  <2>4. LinkInv(d)
    BY <2>2 DEF Inv, LinkInv, ConnectInv, LastConnect, IsCall
  <2>5. OnceInv(d)
    BY <2>2, SMTT(30) DEF Inv, OnceInv, ToldInv, CommandsInv, ResponsesInv, OthersInv
  <2>6. TrueInv(d, R) /\ TriedInv(d, T)
    BY <2>2 DEF Inv, TrueInv, TriedInv, LastConnect, IsCall
  <2>7. Extends(d.a, s.a)
    BY <2>2 DEF Extends, IsCall
  <2>. QED
    BY <2>1, <2>2, <2>3, <2>4, <2>5, <2>6, <2>7 DEF Inv
<1>3. CASE Len(s.a.calls) # MaxAPICalls
  <2>. DEFINE n == Len(s.a.calls) + 1
              c == Command("CONNECT", n)
              d == [s EXCEPT !.a.calls = Append(@, "CONNECT"), !.a.is = "connecting",
                             !.h.connect.call = n]
  <2>1. Len(s.a.calls) < MaxAPICalls /\ n \in APICall /\ n \in 0..MaxAPICalls
    BY <1>1, <1>3, BoundTypes DEF Inv, OwnedInv, OthersOwned, APICall
  <2>2. /\ c \in Commands /\ c.type = "CONNECT" /\ c.call = n /\ ~c.internal
        /\ c.currentURI = 0 /\ c.MQTTVersion = 0
    BY <2>1, CommandType DEF Kinds
  <2>3. connectCall(s) = addCommand(d, c)
    BY <1>3, <2>2 DEF connectCall, Command
  <2>. HIDE DEF c
  <2>4. "CONNECT" \in Kinds /\ Append(s.a.calls, "CONNECT") \in Seq(Kinds)
    BY <1>1 DEF Kinds
  <2>. DEFINE e == [s.h.connect EXCEPT !.call = n]
              h == [s.h EXCEPT !.connect = e]
              a == [s.a EXCEPT !.calls = Append(@, "CONNECT"), !.is = "connecting"]
  <2>5. /\ e \in Commands /\ e.call = n /\ e.type = s.h.connect.type
        /\ e.internal = s.h.connect.internal
    BY <1>1, <2>1 DEF Commands
  <2>. HIDE DEF e
  <2>6. /\ h \in Handles /\ h.connect = e
        /\ h.commands = s.h.commands /\ h.responses = s.h.responses
        /\ h.connected = s.h.connected /\ h.connect_state = s.h.connect_state
        /\ h.socket = s.h.socket /\ h.writing = s.h.writing
        /\ h.to_broker = s.h.to_broker /\ h.to_client = s.h.to_client
        /\ h.pending_write = s.h.pending_write /\ h.outboundMsgs = s.h.outboundMsgs
        /\ h.disconnect = s.h.disconnect
    BY <1>1, <2>5 DEF Handles
  <2>7. /\ a \in Apps /\ a.calls = Append(s.a.calls, "CONNECT") /\ a.is = "connecting"
        /\ a.told = s.a.told
    BY <1>1, <2>4 DEF Apps
  <2>8. d = [s EXCEPT !.h = h, !.a = a]
    BY <1>1 DEF States, e
  <2>. HIDE DEF h, a, d
  <2>9. d \in States /\ d.h = h /\ d.a = a /\ d.n = s.n
    BY <1>1, <2>6, <2>7, <2>8 DEF States
  <2>10. /\ Inv(d, R, T) /\ d.a.told[n] = <<>> /\ LastConnect(d)
    BY <2>1, <2>4, <2>5, <2>6, <2>7, <2>9, CallMade
  <2>11. ~InUse(d.h) /\ NoConnect(d.h.commands) /\ d.a.is # "off" /\ c.call = d.h.connect.call
    BY <2>2, <2>5, <2>6, <2>7, <2>9 DEF InUse
  <2>12. TriedFor(c, T)
    BY <2>2 DEF TriedFor
  <2>13. Extends(d.a, s.a)
    BY <1>1, <2>7, <2>9 DEF Extends, IsCall
  <2>. QED
    BY <2>2, <2>3, <2>9, <2>10, <2>11, <2>12, <2>13, FrontInv
<1>. QED
  BY <1>2, <1>3

\* Where a connect ends without success, everything has been tried
LEMMA TriedAtEnd ==
    ASSUME options \in ConnectOptions, NEW c \in Commands, NEW T,
           TriedFor(c, T), c.MQTTVersion # 0, ~checkConn(c)
    PROVE  AllTried(T)
<1>1. c.MQTTVersion \in {0, 3, 4} /\ c.currentURI \in Nat /\ options.serverURIcount \in Nat
  BY OptionType DEF Commands
<1>2. CASE options.MQTTVersion = 0
  <2>1. c.MQTTVersion = 3 /\ c.currentURI >= options.serverURIcount
    BY <1>1, <1>2 DEF checkConn
  <2>2. \A u \in 0..options.serverURIcount - 1 : u \in 0..c.currentURI
    BY <1>1, <2>1
  <2>. QED
    BY <1>2, <2>1, <2>2 DEF TriedFor, AllTried, Reached
<1>. QED
  BY <1>2 DEF AllTried

\* An attempt has failed: there is another, or onFailure
LEMMA NextAttemptInv ==
    ASSUME NEW s, NEW R, NEW T, Inv(s, R, T), Connecting(s.h), options \in ConnectOptions
    PROVE  /\ Inv(NextAttempt(s), R, T)
           /\ NextAttempt(s).n = s.n /\ ~InUse(NextAttempt(s).h)
           /\ NextAttempt(s).a.calls = s.a.calls
<1>. DEFINE d == closeOnly(s)
            e == closeSession(s)
            c == s.h.connect
<1>1. s \in States /\ s.h.connect \in Commands
  BY StateFields DEF Inv
<1>2. /\ Inv(d, R, T) /\ Inv(e, R, T)
  BY CloseInv, CleanInv DEF closeSession
<1>3. /\ d \in States /\ d.a = s.a /\ d.n = s.n /\ d.h.connected = FALSE /\ d.h.connect_state = 0
      /\ d.h.commands = s.h.commands /\ d.h.connect = c
  BY <1>1, CloseFields
<1>4. /\ e.a = s.a /\ e.n = s.n /\ e.h.connected = FALSE /\ e.h.connect_state = 0
      /\ e.h.connect = c
      /\ e.h.commands = s.h.commands \/ e.h.commands = <<>>
  BY <1>3, CleanFields DEF closeSession
<1>5. NoConnect(s.h.commands) /\ InUse(s.h) /\ s.a.is # "off"
  BY DEF Inv, LinkInv, QueueInv, ConnectInv, NoConnect, Connecting, InUse
<1>6. /\ LastConnect(s) /\ s.a.told[c.call] = <<>> /\ TriedFor(c, T) /\ c.MQTTVersion # 0
      /\ c.type = "CONNECT" /\ ~c.internal
  BY DEF Inv, LinkInv, ConnectInv, OnceInv, OthersInv, TriedInv
<1>7. IsCall(s.a, "CONNECT", c.call)
  BY <1>6 DEF LastConnect
<1>. HIDE DEF c, d, e
<1>8. CASE checkConn(c)
  <2>1. NextAttempt(s) = addCommand(d, c)
    BY <1>8 DEF NextAttempt, c, d
  <2>2. ~InUse(d.h) /\ NoConnect(d.h.commands) /\ LastConnect(d)
    BY <1>3, <1>5, <1>6 DEF InUse, LastConnect, c
  <2>3. c \in Commands
    BY <1>1 DEF c
  <2>. QED
    BY <1>2, <1>3, <1>5, <1>6, <2>1, <2>2, <2>3, FrontInv
<1>9. CASE ~checkConn(c)
  <2>1. NextAttempt(s) = Called(e, c, "failure")
    BY <1>9 DEF NextAttempt, c, e
  <2>2. c \in Commands
    BY <1>1 DEF c
  <2>3. AllTried(T)
    BY <1>6, <1>9, <2>2, TriedAtEnd
  <2>4. ~InUse(e.h) /\ NoConnect(e.h.commands)
    BY <1>4, <1>5 DEF InUse, NoConnect
  <2>5. IsCall(e.a, "CONNECT", c.call) /\ c.call # 0
    BY <1>1, <1>4, <1>7, StateFields DEF IsCall
  <2>6. Free(e, c.call)
    <3>1. ASSUME NEW i \in 1..Len(e.h.commands)
          PROVE  e.h.commands[i].call # c.call
      <4>1. Owned(e.a, e.h.commands[i]) /\ e.h.commands[i].type # "CONNECT"
        BY <1>2, <2>4 DEF Inv, OwnedInv, QueuesOwned, NoConnect
      <4>. QED
        BY <2>5, <4>1 DEF Owned, IsCall
    <3>2. \A i \in 1..Len(e.h.responses) : e.h.responses[i].call # c.call
      <4>1. "CONNECT" \notin Asks
        BY ConnectAssumption
      <4>2. QueuesOwned(e)
        BY <1>2 DEF Inv, OwnedInv
      <4>. QED
        BY <2>5, <4>1, <4>2 DEF QueuesOwned, IsCall
    <3>3. e.h.pending_write # c.call
      BY <1>2, <2>5 DEF Inv, OwnedInv, OthersOwned, IsCall
    <3>. QED
      BY <1>4, <3>1, <3>2, <3>3 DEF Free, Connecting
  <2>7. e.a.told[c.call] = <<>>
    BY <1>4, <1>6
  <2>8. "failure" \in Results /\ "failure" # "success"
    BY DEF Results
  <2>9. Inv(Called(e, c, "failure"), R, T) /\ Called(e, c, "failure").h = e.h
        /\ Called(e, c, "failure").n = e.n /\ Called(e, c, "failure").a.calls = e.a.calls
    BY <1>2, <1>6, <2>2, <2>3, <2>4, <2>5, <2>6, <2>7, <2>8, CalledInv
  <2>. QED
    BY <1>4, <2>1, <2>4, <2>9
<1>. QED
  BY <1>8, <1>9

-----------------------------------------------------------------------------
(* Changes of a part of the state.                                         *)

\* Only the connection changes, or how far the connect has come
LEMMA HandleInv ==
    ASSUME NEW s, NEW R, NEW T, Inv(s, R, T), NEW d \in States, NEW U, NEW V,
           d.a = s.a,
           d.h.commands = s.h.commands, d.h.responses = s.h.responses,
           d.h.outboundMsgs = s.h.outboundMsgs, d.h.pending_write = s.h.pending_write,
           d.h.connect.call = s.h.connect.call, d.h.connect.type = s.h.connect.type,
           d.h.connect.internal = s.h.connect.internal,
           PacketsOwned(d), StateInv(d.h), TokenInv(d.h),
           InUse(d.h) => InUse(s.h) \/ (NoConnect(s.h.commands) /\ s.a.is # "off"),
           d.h.connect_state = -2 =>
              /\ ~d.h.disconnect.internal /\ d.h.disconnect.type = "DISCONNECT"
              /\ IsCall(s.a, "DISCONNECT", d.h.disconnect.call)
              /\ s.a.told[d.h.disconnect.call] = <<>>
              /\ \A i \in 1..Len(s.h.commands) :
                     s.h.commands[i].call # 0 => s.h.commands[i].call # d.h.disconnect.call,
           Connecting(d.h) =>
              /\ LastConnect(s) /\ s.a.told[s.h.connect.call] = <<>>
              /\ TriedFor(d.h.connect, V) /\ d.h.connect.MQTTVersion # 0,
           V = T \/ (NoConnect(s.h.commands) /\ s.a.told[s.h.connect.call] = <<>>),
           \A k \in 1..Len(s.a.calls) : R[k] \subseteq U[k],
           \A i \in 1..Len(d.h.to_client) : d.h.to_client[i].result \in U[d.h.to_client[i].call]
    PROVE  Inv(d, U, V)
<1>1. OwnedInv(d)
  BY DEF Inv, OwnedInv, QueuesOwned, OthersOwned
<1>2. QueueInv(d.h)
  BY DEF Inv, LinkInv, QueueInv, NoConnect
<1>3. LastConnect(d) <=> LastConnect(s)
  BY DEF LastConnect
<1>4. ConnectInv(d)
  <2>1. d.a.is = "off" => ~InUse(d.h) /\ NoConnect(d.h.commands)
    BY DEF Inv, LinkInv, ConnectInv
  <2>. QED
    BY <1>3, <2>1 DEF Inv, LinkInv, ConnectInv
<1>5. CommandsInv(d) /\ ResponsesInv(d) /\ ToldInv(d.a)
  <2>1. CommandsInv(d)
    <3>1. CommandsInv(s)
      BY DEF Inv, OnceInv
    <3>2. ASSUME NEW i \in 1..Len(d.h.commands), d.h.commands[i].call # 0
          PROVE  /\ d.a.told[d.h.commands[i].call] = <<>>
                 /\ d.h.commands[i].call # d.h.pending_write
                 /\ \A j \in 1..Len(d.h.commands) :
                       d.h.commands[j].call = d.h.commands[i].call => j = i
                 /\ \A j \in 1..Len(d.h.responses) :
                       d.h.responses[j].call = d.h.commands[i].call => d.h.responses[j].type = "PUBLISH0"
      BY <3>1, <3>2, SMTT(30) DEF CommandsInv
    <3>3. ASSUME NEW i \in 1..Len(d.h.commands), d.h.commands[i].call # 0
          PROVE  d.h.connect_state = -2 => d.h.commands[i].call # d.h.disconnect.call
      BY <3>3
    <3>. QED
      BY <3>2, <3>3 DEF CommandsInv
  <2>2. ResponsesInv(d) /\ ToldInv(d.a)
    <3>1. ResponsesInv(s) /\ ToldInv(s.a)
      BY DEF Inv, OnceInv
    <3>. QED
      BY <3>1, SMTT(30) DEF ResponsesInv
  <2>. QED
    BY <2>1, <2>2
<1>6. OthersInv(d)
  BY DEF Inv, OnceInv, OthersInv
<1>7. TrueInv(d, U)
  BY DEF Inv, TrueInv
<1>8. TriedInv(d, V)
  <2>1. <<>> # <<"failure">>
    OBVIOUS
  <2>. QED
    BY <1>3, <2>1 DEF Inv, TriedInv, NoConnect
<1>. QED
  BY <1>1, <1>2, <1>4, <1>5, <1>6, <1>7, <1>8 DEF Inv, LinkInv, OnceInv

\* Only the counts of connections change
LEMMA LinksInv ==
    ASSUME NEW s, NEW R, NEW T, Inv(s, R, T), NEW d \in States, d.a = s.a, d.h = s.h
    PROVE  Inv(d, R, T)
<1>1. OwnedInv(d)
  BY DEF Inv, OwnedInv, QueuesOwned, PacketsOwned, OthersOwned
<1>2. LinkInv(d)
  BY DEF Inv, LinkInv, ConnectInv, LastConnect
<1>3. OnceInv(d)
  BY DEF Inv, OnceInv, CommandsInv, ResponsesInv, OthersInv
<1>4. TrueInv(d, R) /\ TriedInv(d, T)
  BY DEF Inv, TrueInv, TriedInv, LastConnect
<1>. QED
  BY <1>1, <1>2, <1>3, <1>4 DEF Inv

\* Only the connection changes, and the connect that is going on does not
LEMMA PacketsInv ==
    ASSUME NEW s, NEW R, NEW T, Inv(s, R, T), NEW d \in States, NEW U,
           d.a = s.a,
           d.h.commands = s.h.commands, d.h.responses = s.h.responses,
           d.h.outboundMsgs = s.h.outboundMsgs, d.h.pending_write = s.h.pending_write,
           d.h.connect = s.h.connect, d.h.disconnect = s.h.disconnect,
           PacketsOwned(d), StateInv(d.h), TokenInv(d.h),
           InUse(d.h) => InUse(s.h),
           d.h.connect_state = -2 => s.h.connect_state = -2,
           Connecting(d.h) => Connecting(s.h),
           \A k \in 1..Len(s.a.calls) : R[k] \subseteq U[k],
           \A i \in 1..Len(d.h.to_client) : d.h.to_client[i].result \in U[d.h.to_client[i].call]
    PROVE  Inv(d, U, T)
<1>1. d.h.connect_state = -2 =>
        /\ ~d.h.disconnect.internal /\ d.h.disconnect.type = "DISCONNECT"
        /\ IsCall(s.a, "DISCONNECT", d.h.disconnect.call)
        /\ s.a.told[d.h.disconnect.call] = <<>>
        /\ \A i \in 1..Len(s.h.commands) :
               s.h.commands[i].call # 0 => s.h.commands[i].call # d.h.disconnect.call
  BY DEF Inv, OwnedInv, OthersOwned, OnceInv, OthersInv, CommandsInv
<1>2. Connecting(d.h) =>
        /\ LastConnect(s) /\ s.a.told[s.h.connect.call] = <<>>
        /\ TriedFor(d.h.connect, T) /\ d.h.connect.MQTTVersion # 0
  BY DEF Inv, LinkInv, ConnectInv, OnceInv, OthersInv, TriedInv
<1>3. /\ d.h.connect.call = s.h.connect.call /\ d.h.connect.type = s.h.connect.type
      /\ d.h.connect.internal = s.h.connect.internal
  OBVIOUS
<1>4. InUse(d.h) => InUse(s.h) \/ (NoConnect(s.h.commands) /\ s.a.is # "off")
  BY Zenon
<1>5. T = T \/ (NoConnect(s.h.commands) /\ s.a.told[s.h.connect.call] = <<>>)
  BY Zenon
<1>. QED
  BY <1>1, <1>2, <1>3, <1>4, <1>5, HandleInv, Zenon

\* Only the messages, the responses and the pending write change
LEMMA QueuesInv ==
    ASSUME NEW s, NEW R, NEW T, Inv(s, R, T), NEW d \in States, d.a = s.a,
           d.h.commands = s.h.commands, d.h.connected = s.h.connected,
           d.h.connect_state = s.h.connect_state, d.h.socket = s.h.socket,
           d.h.writing = s.h.writing, d.h.to_broker = s.h.to_broker,
           d.h.to_client = s.h.to_client, d.h.connect = s.h.connect,
           d.h.disconnect = s.h.disconnect,
           \A k \in d.h.outboundMsgs : IsCall(s.a, "PUBLISH1", k),
           d.h.pending_write \notin {0, s.h.pending_write} =>
              /\ IsCall(s.a, "PUBLISH0", d.h.pending_write)
              /\ s.a.told[d.h.pending_write] = <<>>
              /\ \A i \in 1..Len(s.h.commands) : s.h.commands[i].call # d.h.pending_write,
           \A i \in 1..Len(d.h.responses) :
              /\ d.h.responses[i].type \in Asks
              /\ IsCall(s.a, d.h.responses[i].type, d.h.responses[i].call)
              /\ d.h.responses[i].type # "PUBLISH0" =>
                    /\ s.a.told[d.h.responses[i].call] = <<>>
                    /\ \A j \in 1..Len(s.h.commands) : s.h.commands[j].call # d.h.responses[i].call
                    /\ \A j \in 1..Len(d.h.responses) :
                           d.h.responses[j].call = d.h.responses[i].call => j = i
    PROVE  Inv(d, R, T)
<1>1. OwnedInv(d)
  BY DEF Inv, OwnedInv, QueuesOwned, PacketsOwned, OthersOwned
<1>2. LinkInv(d)
  <2>1. StateInv(d.h) /\ QueueInv(d.h)
    BY DEF Inv, LinkInv, StateInv, SocketInv, InUse, QueueInv
  <2>2. TokenInv(d.h)
    BY DEF Inv, LinkInv, TokenInv, NoConnect
  <2>3. ConnectInv(d)
    BY DEF Inv, LinkInv, ConnectInv, InUse, Connecting, NoConnect, LastConnect
  <2>. QED
    BY <2>1, <2>2, <2>3 DEF LinkInv
<1>3. CommandsInv(d)
  BY SMTT(30) DEF Inv, OnceInv, CommandsInv
<1>4. ResponsesInv(d) /\ ToldInv(d.a)
  BY DEF Inv, OnceInv, ResponsesInv
<1>5. OthersInv(d)
  BY DEF Inv, OnceInv, OthersInv, Connecting
<1>6. TrueInv(d, R) /\ TriedInv(d, T)
  BY DEF Inv, TrueInv, TriedInv, LastConnect, Connecting
<1>. QED
  BY <1>1, <1>2, <1>3, <1>4, <1>5, <1>6 DEF Inv, OnceInv

LEMMA RemoveProps ==
    ASSUME NEW S, NEW q \in Seq(S), NEW n \in 1..Len(q)
    PROVE  /\ RemoveAt(q, n) \in Seq(S) /\ Len(RemoveAt(q, n)) = Len(q) - 1
           /\ \A i \in 1..Len(q) - 1 : RemoveAt(q, n)[i] = q[IF i < n THEN i ELSE i + 1]
<1>. DEFINE a == SubSeq(q, 1, n - 1)
            b == SubSeq(q, n + 1, Len(q))
<1>1. a \in Seq(S) /\ Len(a) = n - 1 /\ \A i \in 1..n - 1 : a[i] = q[i]
  OBVIOUS
<1>2. b \in Seq(S) /\ Len(b) = Len(q) - n /\ \A i \in 1..Len(q) - n : b[i] = q[n + i]
  OBVIOUS
<1>. HIDE DEF a, b
<1>3. RemoveAt(q, n) = a \o b
  BY DEF RemoveAt, a, b
<1>4. a \o b \in Seq(S) /\ Len(a \o b) = Len(q) - 1
  <2>1. Len(a) + Len(b) = Len(q) - 1
    BY <1>1, <1>2
  <2>2. a \o b \in Seq(S)
    BY <1>1, <1>2
  <2>3. Len(a \o b) = Len(a) + Len(b)
    BY <1>1, <1>2, ConcatProperties
  <2>. QED
    BY <2>1, <2>2, <2>3
<1>5. ASSUME NEW i \in 1..Len(q) - 1
      PROVE  (a \o b)[i] = q[IF i < n THEN i ELSE i + 1]
  <2>1. CASE i < n
    BY <1>1, <1>2, <2>1
  <2>2. CASE ~(i < n)
    <3>1. (a \o b)[i] = b[i - (n - 1)] /\ i - (n - 1) \in 1..Len(q) - n
      BY <1>1, <1>2, <2>2
    <3>. QED
      BY <1>2, <2>2, <3>1
  <2>. QED
    BY <2>1, <2>2
<1>. QED
  BY <1>3, <1>4, <1>5

\* The fields of a state of which only the responses differ
LEMMA ButResponses ==
    ASSUME NEW s \in States, NEW q \in Seq(Commands)
    PROVE  LET d == [s EXCEPT !.h.responses = q]
           IN /\ d \in States /\ d.a = s.a /\ d.n = s.n
              /\ d.h.responses = q
              /\ d.h.connected = s.h.connected /\ d.h.connect_state = s.h.connect_state
              /\ d.h.socket = s.h.socket /\ d.h.writing = s.h.writing
              /\ d.h.to_broker = s.h.to_broker /\ d.h.to_client = s.h.to_client
              /\ d.h.pending_write = s.h.pending_write /\ d.h.outboundMsgs = s.h.outboundMsgs
              /\ d.h.connect = s.h.connect /\ d.h.disconnect = s.h.disconnect
              /\ d.h.commands = s.h.commands
  BY DEF States, Handles

\* The response that has the message id, if there is one, is taken, and its
\* callback is called
LEMMA AnswerInv ==
    ASSUME NEW s, NEW R, NEW T, Inv(s, R, T), s.h.responses = handle.responses,
           NEW type \in Asks \ {"PUBLISH0"}, NEW call, IsCall(s.a, type, call),
           NEW result \in Results, result = "success" => "success" \in R[call]
    PROVE  LET d == Answer(s, call, result)
           IN /\ Inv(d, R, T) /\ d.n = s.n /\ d.a.calls = s.a.calls
              /\ d.h.connected = s.h.connected /\ d.h.connect_state = s.h.connect_state
              /\ d.h.connect = s.h.connect
              /\ d.h.to_broker = s.h.to_broker /\ d.h.to_client = s.h.to_client
<1>1. s \in States /\ s.h.responses \in Seq(Commands)
  BY StateFields DEF Inv
<1>2. CASE ResponseTo(call) = {}
  BY <1>2 DEF Answer
<1>3. CASE ResponseTo(call) # {}
  <2>. DEFINE i == CHOOSE i \in ResponseTo(call) : \A j \in ResponseTo(call) : i <= j
              q == RemoveAt(s.h.responses, i)
              t == [s EXCEPT !.h.responses = q]
              c == s.h.responses[i]
  <2>1. ResponseTo(call) = {k \in 1..Len(s.h.responses) : s.h.responses[k].call = call}
    BY <1>1 DEF ResponseTo
  <2>2. \A k \in ResponseTo(call) : s.h.responses[k].type = type
    BY <2>1 DEF Inv, OwnedInv, QueuesOwned, IsCall
  <2>3. \A j, k \in ResponseTo(call) : j = k
    BY <2>1, <2>2 DEF Inv, OnceInv, ResponsesInv
  <2>4. \E k \in ResponseTo(call) : \A j \in ResponseTo(call) : k <= j
    <3>1. PICK k \in ResponseTo(call) : TRUE
      BY <1>3
    <3>2. \A j \in ResponseTo(call) : j = k /\ k \in Nat
      BY <2>1, <2>3, <3>1
    <3>3. \A j \in ResponseTo(call) : k <= j
      BY <3>2
    <3>. QED
      BY <3>1, <3>3
  <2>5. i \in ResponseTo(call)
    BY <2>4
  <2>6. Answer(s, call, result) = Called(t, c, result)
    BY <1>3 DEF Answer
  <2>. HIDE DEF i
  <2>7. i \in 1..Len(s.h.responses) /\ c.call = call /\ c.type = type /\ c \in Commands
    BY <1>1, <2>1, <2>2, <2>5
  <2>8. /\ q \in Seq(Commands) /\ Len(q) = Len(s.h.responses) - 1
        /\ \A j \in 1..Len(s.h.responses) - 1 : q[j] = s.h.responses[IF j < i THEN j ELSE j + 1]
    BY <1>1, <2>7, RemoveProps
  <2>. HIDE DEF c, q
  <2>. DEFINE at(j) == IF j < i THEN j ELSE j + 1
  <2>9. \A j \in 1..Len(q) : at(j) \in 1..Len(s.h.responses) /\ at(j) # i /\ q[j] = s.h.responses[at(j)]
    BY <1>1, <2>7, <2>8
  <2>10. \A j, k \in 1..Len(q) : at(j) = at(k) => j = k
    BY <1>1, <2>7, <2>8
  <2>. HIDE DEF at
  <2>11. /\ t \in States /\ t.a = s.a /\ t.n = s.n /\ t.h.responses = q
         /\ t.h.connected = s.h.connected /\ t.h.connect_state = s.h.connect_state
         /\ t.h.socket = s.h.socket /\ t.h.writing = s.h.writing
         /\ t.h.to_broker = s.h.to_broker /\ t.h.to_client = s.h.to_client
         /\ t.h.pending_write = s.h.pending_write /\ t.h.outboundMsgs = s.h.outboundMsgs
         /\ t.h.connect = s.h.connect /\ t.h.disconnect = s.h.disconnect
         /\ t.h.commands = s.h.commands
    BY <1>1, <2>8, ButResponses, ZenonT(40)
  <2>. HIDE DEF t
  <2>12. \A j \in 1..Len(s.h.responses) :
            s.h.responses[j].type # "PUBLISH0" =>
              \A m \in 1..Len(s.h.commands) : s.h.commands[m].call # s.h.responses[j].call
    <3>1. \A j \in 1..Len(s.h.responses) : s.h.responses[j].call # 0
      BY <1>1, StateFields DEF Inv, OwnedInv, QueuesOwned, IsCall
    <3>. QED
      BY <3>1 DEF Inv, OnceInv, CommandsInv
  <2>13. Inv(t, R, T)
    <3>1. \A k \in t.h.outboundMsgs : IsCall(s.a, "PUBLISH1", k)
      BY <2>11 DEF Inv, OwnedInv, OthersOwned
    <3>2. ASSUME NEW j \in 1..Len(t.h.responses)
          PROVE  /\ t.h.responses[j].type \in Asks
                 /\ IsCall(s.a, t.h.responses[j].type, t.h.responses[j].call)
                 /\ t.h.responses[j].type # "PUBLISH0" =>
                      /\ s.a.told[t.h.responses[j].call] = <<>>
                      /\ \A m \in 1..Len(s.h.commands) : s.h.commands[m].call # t.h.responses[j].call
                      /\ \A m \in 1..Len(t.h.responses) :
                             t.h.responses[m].call = t.h.responses[j].call => m = j
      <4>1. /\ t.h.responses[j].type \in Asks
            /\ IsCall(s.a, t.h.responses[j].type, t.h.responses[j].call)
        BY <2>9, <2>11 DEF Inv, OwnedInv, QueuesOwned
      <4>2. ASSUME t.h.responses[j].type # "PUBLISH0"
            PROVE  /\ s.a.told[t.h.responses[j].call] = <<>>
                   /\ \A m \in 1..Len(t.h.responses) :
                          t.h.responses[m].call = t.h.responses[j].call => m = j
        BY <2>9, <2>10, <2>11, <4>2, SMTT(30) DEF Inv, OnceInv, ResponsesInv
      <4>. QED
        BY <2>9, <2>11, <2>12, <4>1, <4>2, SMTT(30)
    <3>3. t.h.pending_write = s.h.pending_write
      BY <2>11
    <3>. QED
      BY <2>11, <3>1, <3>2, <3>3, QueuesInv
  <2>14. Free(t, call)
    <3>1. \A j \in 1..Len(t.h.commands) : t.h.commands[j].call # call
      BY <2>7, <2>11, <2>12 DEF c
    <3>2. \A j \in 1..Len(t.h.responses) : t.h.responses[j].call # call
      BY <2>3, <2>1, <2>5, <2>9, <2>11
    <3>3. call # 0
      BY <1>1, StateFields DEF IsCall
    <3>4. t.h.pending_write # call /\ (t.h.connect_state = -2 => t.h.disconnect.call # call)
      BY <2>11, <3>3, ConnectAssumption DEF Inv, OwnedInv, OthersOwned, IsCall
    <3>5. Connecting(t.h) => t.h.connect.call # call
      BY <2>11, <2>13, ConnectAssumption DEF Inv, LinkInv, ConnectInv, LastConnect, IsCall
    <3>. QED
      BY <3>1, <3>2, <3>4, <3>5 DEF Free
  <2>15. t.a.told[call] = <<>>
    BY <2>7, <2>11 DEF Inv, OnceInv, ResponsesInv, c
  <2>16. c.type \notin {"CONNECT", "DISCONNECT"}
    BY <2>7, ConnectAssumption
  <2>17. /\ Inv(Called(t, c, result), R, T)
         /\ Called(t, c, result).h = t.h /\ Called(t, c, result).n = t.n
         /\ Called(t, c, result).a.calls = t.a.calls
    BY <2>7, <2>11, <2>13, <2>14, <2>15, <2>16, CalledInv
  <2>. QED
    BY <2>6, <2>11, <2>17
<1>. QED
  BY <1>2, <1>3

-----------------------------------------------------------------------------
(* A disconnect.                                                           *)

LEMMA HandleEq ==
    ASSUME NEW g \in Handles, NEW h \in Handles,
           g.connected = h.connected, g.connect_state = h.connect_state, g.socket = h.socket,
           g.writing = h.writing, g.to_broker = h.to_broker, g.to_client = h.to_client,
           g.outboundMsgs = h.outboundMsgs, g.commands = h.commands, g.responses = h.responses,
           g.pending_write = h.pending_write, g.connect = h.connect, g.disconnect = h.disconnect
    PROVE  g = h
<1>1. \A x \in Handles :
         x = [connected |-> x.connected, connect_state |-> x.connect_state,
              outboundMsgs |-> x.outboundMsgs, commands |-> x.commands,
              responses |-> x.responses, pending_write |-> x.pending_write,
              connect |-> x.connect, disconnect |-> x.disconnect, socket |-> x.socket,
              writing |-> x.writing, to_broker |-> x.to_broker, to_client |-> x.to_client]
  BY DEF Handles
<1>. QED
  BY <1>1, Zenon

\* The session is closed, whatever the state of the connection was and whatever
\* is counted
LEMMA ShutInv ==
    ASSUME NEW s, NEW R, NEW T, Inv(s, R, T), NEW t \in States, t.a = s.a,
           t.h.commands = s.h.commands, t.h.responses = s.h.responses,
           t.h.outboundMsgs = s.h.outboundMsgs, t.h.pending_write = s.h.pending_write,
           t.h.connect = s.h.connect, t.h.disconnect = s.h.disconnect
    PROVE  LET d == closeSession(t)
           IN /\ Inv(d, R, T) /\ d.a = s.a /\ d.n = t.n
              /\ ~InUse(d.h) /\ ~d.h.connected /\ d.h.connect_state = 0
              /\ d.h.connect = s.h.connect /\ d.h.pending_write = s.h.pending_write
              /\ \/ d.h.commands = s.h.commands /\ d.h.responses = s.h.responses
                 \/ d.h.commands = <<>> /\ d.h.responses = <<>>
<1>. DEFINE u == closeOnly(t)
            v == closeOnly(s)
            d == cleanedSession(u)
<1>1. s \in States
  BY DEF Inv
<1>2. Inv(v, R, T)
  BY CloseInv
<1>3. /\ v \in States /\ v.a = s.a
      /\ v.h.connected = FALSE /\ v.h.connect_state = 0 /\ v.h.socket = "closed"
      /\ v.h.writing = <<>> /\ v.h.to_broker = <<>> /\ v.h.to_client = <<>>
      /\ v.h.outboundMsgs = s.h.outboundMsgs /\ v.h.commands = s.h.commands
      /\ v.h.responses = s.h.responses /\ v.h.pending_write = s.h.pending_write
      /\ v.h.connect = s.h.connect /\ v.h.disconnect = s.h.disconnect
  BY <1>1, CloseFields
<1>4. /\ u \in States /\ u.a = t.a /\ u.n = t.n
      /\ u.h.connected = FALSE /\ u.h.connect_state = 0 /\ u.h.socket = "closed"
      /\ u.h.writing = <<>> /\ u.h.to_broker = <<>> /\ u.h.to_client = <<>>
      /\ u.h.outboundMsgs = t.h.outboundMsgs /\ u.h.commands = t.h.commands
      /\ u.h.responses = t.h.responses /\ u.h.pending_write = t.h.pending_write
      /\ u.h.connect = t.h.connect /\ u.h.disconnect = t.h.disconnect
  BY CloseFields
<1>5. closeSession(t) = d
  BY DEF closeSession
<1>. HIDE DEF u, v
<1>6. u.h = v.h
  <2>1. u.h \in Handles /\ v.h \in Handles
    BY <1>3, <1>4, StateFields
  <2>. QED
    BY <1>3, <1>4, <2>1, HandleEq, ZenonT(40)
<1>7. Inv(u, R, T)
  BY <1>2, <1>3, <1>4, <1>6, LinksInv
<1>8. Inv(d, R, T)
  BY <1>7, CleanInv
<1>9. /\ d.a = u.a /\ d.n = u.n /\ d.h.connected = u.h.connected
      /\ d.h.connect_state = u.h.connect_state /\ d.h.connect = u.h.connect
      /\ d.h.pending_write = u.h.pending_write
      /\ \/ d.h.commands = u.h.commands /\ d.h.responses = u.h.responses
         \/ d.h.commands = <<>> /\ d.h.responses = <<>>
  BY <1>4, CleanFields
<1>. HIDE DEF d
<1>. QED
  BY <1>3, <1>4, <1>5, <1>6, <1>8, <1>9 DEF InUse

\* x connections were lost, and y were left
Ended(s, x, y) == [s EXCEPT !.n.lost = @ + x, !.n.left = @ + y]

LEMMA EndedFields ==
    ASSUME NEW s \in States, NEW x \in {0, 1}, NEW y \in {0, 1}
    PROVE  LET d == Ended(s, x, y)
           IN /\ d \in States /\ d.a = s.a /\ d.h = s.h
              /\ d.n.up = s.n.up /\ d.n.lost = s.n.lost + x /\ d.n.left = s.n.left + y
<1>. DEFINE n == [s.n EXCEPT !.lost = @ + x, !.left = @ + y]
<1>1. s.n \in Links /\ s.n.lost + x \in Nat /\ s.n.left + y \in Nat
  BY DEF States, Links
<1>2. /\ n \in Links /\ n.up = s.n.up /\ n.lost = s.n.lost + x /\ n.left = s.n.left + y
  BY <1>1 DEF Links
<1>3. Ended(s, x, y) = [s EXCEPT !.n = n]
  BY <1>1 DEF States, Links, Ended
<1>. HIDE DEF n
<1>. QED
  BY <1>2, <1>3 DEF States

\* The disconnect that is due: the application's is replied, the client's own
\* is a connection lost
LEMMA DisconnectInv ==
    ASSUME NEW s, NEW R, NEW T, Inv(s, R, T), Counted(s), NEW t \in States, t.a = s.a, t.n = s.n,
           t.h.connected = s.h.connected,
           t.h.commands = s.h.commands, t.h.responses = s.h.responses,
           t.h.outboundMsgs = s.h.outboundMsgs, t.h.pending_write = s.h.pending_write,
           t.h.connect = s.h.connect, t.h.disconnect = s.h.disconnect,
           NoConnect(s.h.commands),
           NEW command \in Commands, command.type = "DISCONNECT",
           ~command.internal =>
              /\ IsCall(s.a, "DISCONNECT", command.call) /\ s.a.told[command.call] = <<>>
              /\ \A i \in 1..Len(s.h.commands) : s.h.commands[i].call # command.call,
           NEW expired \in BOOLEAN, IsDue(t, command, expired)
    PROVE  LET d == checkDisconnect(t, command, expired)
           IN Inv(d, R, T) /\ Counted(d) /\ ~InUse(d.h) /\ Extends(d.a, s.a)
<1>. DEFINE x == IF command.internal /\ t.h.connected THEN 1 ELSE 0
            y == IF ~command.internal /\ t.h.connected THEN 1 ELSE 0
            u == Ended(t, x, y)
            shut == closeSession(u)
<1>1. s \in States /\ command.internal \in BOOLEAN /\ s.h.connected \in BOOLEAN
  BY StateFields DEF Inv, Commands, Handles
<1>2. x \in {0, 1} /\ y \in {0, 1} /\ x + y = IF s.h.connected THEN 1 ELSE 0
  BY <1>1
<1>3. checkDisconnect(t, command, expired) =
         IF ~command.internal THEN Called(shut, command, "success")
         ELSE IF t.h.connected THEN connectCall(shut) ELSE shut
  BY DEF checkDisconnect, WasConnected, Ended
<1>. HIDE DEF x, y
<1>4. /\ u \in States /\ u.a = t.a /\ u.h = t.h
      /\ u.n.up = t.n.up /\ u.n.lost = t.n.lost + x /\ u.n.left = t.n.left + y
  BY <1>2, EndedFields
<1>. HIDE DEF u
<1>5. /\ Inv(shut, R, T) /\ shut.a = s.a /\ shut.n = u.n
      /\ ~InUse(shut.h) /\ ~shut.h.connected /\ shut.h.connect_state = 0
      /\ shut.h.connect = s.h.connect /\ shut.h.pending_write = s.h.pending_write
      /\ \/ shut.h.commands = s.h.commands /\ shut.h.responses = s.h.responses
         \/ shut.h.commands = <<>> /\ shut.h.responses = <<>>
  BY <1>4, ShutInv
<1>. HIDE DEF shut
<1>6. shut.n.up = shut.n.lost + shut.n.left
  <2>1. s.n.up \in Nat /\ s.n.lost \in Nat /\ s.n.left \in Nat
    BY <1>1 DEF States, Links
  <2>. QED
    <3>1. s.n.up = s.n.lost + s.n.left + (x + y)
      BY <1>2 DEF Counted
    <3>2. x \in Nat /\ y \in Nat
      BY <1>2
    <3>3. /\ shut.n.up = s.n.up /\ shut.n.lost = s.n.lost + x /\ shut.n.left = s.n.left + y
      BY <1>4, <1>5
    <3>. QED
      BY <2>1, <3>1, <3>2, <3>3
<1>7. NoConnect(shut.h.commands)
  BY <1>5 DEF NoConnect
<1>8. ASSUME NEW d, d.n = shut.n, ~d.h.connected
      PROVE  Counted(d)
  <2>1. shut.n.lost \in Nat /\ shut.n.left \in Nat
    BY <1>5 DEF Inv, States, Links
  <2>. QED
    BY <1>6, <1>8, <2>1 DEF Counted
<1>9. CASE ~command.internal
  <2>. DEFINE d == Called(shut, command, "success")
  <2>1. command.call # 0
    BY <1>1, <1>9, StateFields DEF IsCall
  <2>2. Free(shut, command.call)
    <3>1. \A i \in 1..Len(shut.h.commands) : shut.h.commands[i].call # command.call
      BY <1>5, <1>9
    <3>2. \A i \in 1..Len(shut.h.responses) : shut.h.responses[i].call # command.call
      BY <1>5, <1>9, ConnectAssumption DEF Inv, OwnedInv, QueuesOwned, IsCall
    <3>3. shut.h.pending_write # command.call
      BY <1>5, <1>9, <2>1 DEF Inv, OwnedInv, OthersOwned, IsCall
    <3>. QED
      BY <1>5, <3>1, <3>2, <3>3 DEF Free, Connecting
  <2>3. IsCall(shut.a, command.type, command.call) /\ shut.a.told[command.call] = <<>>
    BY <1>5, <1>9
  <2>4. "success" \in Results
    BY DEF Results
  <2>5. Inv(d, R, T) /\ d.h = shut.h /\ d.n = shut.n /\ d.a.calls = shut.a.calls
    BY <1>5, <1>7, <2>2, <2>3, <2>4, CalledInv
  <2>6. Extends(d.a, s.a)
    BY <1>5, <2>5 DEF Extends, IsCall
  <2>. QED
    BY <1>3, <1>5, <1>8, <1>9, <2>5, <2>6
<1>10. CASE command.internal
  <2>1. /\ Inv(connectCall(shut), R, T) /\ connectCall(shut).n = shut.n
        /\ ~InUse(connectCall(shut).h) /\ Extends(connectCall(shut).a, s.a)
    BY <1>5, <1>7, ConnectCallInv
  <2>2. ~connectCall(shut).h.connected
    BY <2>1 DEF InUse
  <2>3. Extends(shut.a, s.a)
    BY <1>5 DEF Extends
  <2>. QED
    BY <1>3, <1>5, <1>8, <1>10, <2>1, <2>2, <2>3
<1>. QED
  BY <1>1, <1>9, <1>10

\* The command of a disconnect is kept, when nothing is connected
LEMMA KeptInv ==
    ASSUME NEW s, NEW R, NEW T, Inv(s, R, T), Counted(s), ~InUse(s.h), NEW command \in Commands
    PROVE  LET d == [s EXCEPT !.h.disconnect = command]
           IN Inv(d, R, T) /\ Counted(d) /\ ~InUse(d.h)
<1>. DEFINE d == [s EXCEPT !.h.disconnect = command]
<1>1. s \in States
  BY DEF Inv
<1>2. /\ d \in States /\ d.a = s.a /\ d.n = s.n /\ d.h.connect = s.h.connect
      /\ d.h.commands = s.h.commands /\ d.h.responses = s.h.responses
      /\ d.h.outboundMsgs = s.h.outboundMsgs /\ d.h.pending_write = s.h.pending_write
      /\ d.h.connected = s.h.connected /\ d.h.connect_state = s.h.connect_state
      /\ d.h.socket = s.h.socket /\ d.h.writing = s.h.writing
      /\ d.h.to_broker = s.h.to_broker /\ d.h.to_client = s.h.to_client
  BY <1>1 DEF States, Handles
<1>. HIDE DEF d
<1>3. ~InUse(d.h) /\ d.h.connect_state # -2 /\ ~Connecting(d.h)
  BY <1>2 DEF InUse, Connecting
<1>4. PacketsOwned(d)
  BY <1>2 DEF Inv, OwnedInv, PacketsOwned
<1>5. StateInv(d.h) /\ TokenInv(d.h)
  BY <1>2 DEF Inv, LinkInv, StateInv, SocketInv, InUse, TokenInv, NoConnect
<1>6. Inv(d, R, T)
  <2>1. \A i \in 1..Len(d.h.to_client) : d.h.to_client[i].result \in R[d.h.to_client[i].call]
    BY <1>2 DEF Inv, TrueInv
  <2>2. \A k \in 1..Len(s.a.calls) : R[k] \subseteq R[k]
    OBVIOUS
  <2>. QED
    BY <1>2, <1>3, <1>4, <1>5, <2>1, <2>2, HandleInv
<1>7. Counted(d)
  BY <1>2 DEF Counted
<1>. QED
  BY <1>3, <1>6, <1>7 DEF d

-----------------------------------------------------------------------------
(* A step of the program.                                                  *)

LEMMA BecomesState ==
    ASSUME NEW e \in States, Becomes(e)
    PROVE  State' = e
  BY DEF Becomes, State, States

LEMMA InvPrime ==
    ASSUME options' = options, Inv(State', replied', tried')
    PROVE  Inv(State, replied, tried)'
<1>1. TriedInv(State, tried)'
  BY DEF Inv, TriedInv, TriedFor, AllTried
<1>. QED
  BY <1>1 DEF Inv

\* What is to be shown of a step after which the client is in state e
LEMMA StepInv ==
    ASSUME ConnInv, options' = options, NEW e \in States, Becomes(e), SocketInv(e.h),
           received' \in {IdlePack, ErrorPack} \cup AnswerReceived,
           replied' \in [APICall -> SUBSET Results], tried' \in Seq(Nat \X Nat),
           astray' \in [connects : SUBSET APICall, response : BOOLEAN],
           ended' \in {"no"} \cup Endings,
           ended' = "no" =>
              Inv(e, replied', tried') /\ Counted(e) /\ ReceivedInv(received', e, replied')
    PROVE  ConnInv'
<1>1. State' = e /\ handle' = e.h
  BY BecomesState DEF Becomes
<1>2. TypeInv'
  BY <1>1 DEF ConnInv, TypeInv
<1>3. SocketInv(handle)'
  BY <1>1
<1>4. ASSUME ended' = "no"
      PROVE  /\ Inv(State, replied, tried)' /\ Counted(State)'
             /\ ReceivedInv(received, State, replied)'
  <2>1. Inv(State', replied', tried')
    BY <1>1, <1>4
  <2>2. Inv(State, replied, tried)'
    BY <2>1, InvPrime
  <2>. QED
    BY <1>1, <1>4, <2>2
<1>. QED
  BY <1>2, <1>3, <1>4 DEF ConnInv, Defined

\* What is known before a step
LEMMA BeforeInv ==
    ASSUME ConnInv, ended = "no"
    PROVE  /\ Inv(State, replied, tried) /\ Counted(State) /\ ReceivedInv(received, State, replied)
           /\ State \in States /\ State.h = handle /\ State.a = app /\ State.n = links
           /\ options \in ConnectOptions
           /\ received \in {IdlePack, ErrorPack} \cup AnswerReceived
           /\ replied \in [APICall -> SUBSET Results] /\ tried \in Seq(Nat \X Nat)
           /\ astray \in [connects : SUBSET APICall, response : BOOLEAN]
           /\ ended \in {"no"} \cup Endings
  BY DEF ConnInv, TypeInv, Defined, State

\* What has been read remains an answer to the connection, or there is none
LEMMA ReceivedKept ==
    ASSUME NEW p, NEW s, NEW R, ReceivedInv(p, s, R), NEW d, NEW U,
           \A type, k : IsCall(s.a, type, k) => IsCall(d.a, type, k) /\ R[k] \subseteq U[k],
           \/ ~InUse(d.h) /\ StateInv(d.h)
           \/ /\ InUse(s.h) /\ d.h.connected = s.h.connected /\ d.h.connect_state # 1
              /\ d.h.connect.call = s.h.connect.call
              /\ ~s.h.connected /\ NoConnect(s.h.to_broker) /\ NoConnect(s.h.to_client)
                    => NoConnect(d.h.to_broker) /\ NoConnect(d.h.to_client)
           \/ p.type # "CONNECT"
    PROVE  ReceivedInv(p, d, U)
<1>1. ASSUME ~InUse(d.h) /\ StateInv(d.h)
      PROVE  /\ ~d.h.connected /\ d.h.connect_state # 1
             /\ NoConnect(d.h.to_broker) /\ NoConnect(d.h.to_client)
  <2>1. d.h.to_broker = <<>> /\ d.h.to_client = <<>>
    BY <1>1 DEF StateInv, SocketInv
  <2>. QED
    BY <1>1, <2>1 DEF InUse, NoConnect
<1>. QED
  BY <1>1 DEF ReceivedInv

\* The same, when nothing is sent or received
LEMMA ReceivedStays ==
    ASSUME NEW p, NEW s, NEW R, ReceivedInv(p, s, R), NEW d,
           d.a.calls = s.a.calls,
           \/ ~InUse(d.h) /\ StateInv(d.h)
           \/ /\ d.h.connected = s.h.connected /\ d.h.connect_state = s.h.connect_state
              /\ d.h.connect.call = s.h.connect.call
              /\ d.h.to_broker = s.h.to_broker /\ d.h.to_client = s.h.to_client
    PROVE  ReceivedInv(p, d, R)
<1>1. ASSUME ~InUse(d.h) /\ StateInv(d.h)
      PROVE  /\ ~d.h.connected /\ d.h.connect_state # 1
             /\ NoConnect(d.h.to_broker) /\ NoConnect(d.h.to_client)
  <2>1. d.h.to_broker = <<>> /\ d.h.to_client = <<>>
    BY <1>1 DEF StateInv, SocketInv
  <2>. QED
    BY <1>1, <2>1 DEF InUse, NoConnect
<1>. QED
  BY <1>1 DEF ReceivedInv, IsCall, InUse

-----------------------------------------------------------------------------
(* The application.                                                        *)

\* A command of the application goes to the end of the queue
LEMMA AppendInv ==
    ASSUME NEW s, NEW R, NEW T, Inv(s, R, T), NEW c \in Commands, c.type # "CONNECT", ~c.internal,
           IsCall(s.a, c.type, c.call), Free(s, c.call), s.a.told[c.call] = <<>>
    PROVE  Inv([s EXCEPT !.h.commands = Append(s.h.commands, c)], R, T)
<1>. DEFINE d == [s EXCEPT !.h.commands = Append(s.h.commands, c)]
            n == Len(s.h.commands) + 1
<1>1. s \in States /\ s.h.commands \in Seq(Commands) /\ Append(s.h.commands, c) \in Seq(Commands)
  BY StateFields DEF Inv
<1>2. /\ d \in States /\ d.a = s.a /\ d.n = s.n /\ d.h.commands = Append(s.h.commands, c)
      /\ d.h.connected = s.h.connected /\ d.h.connect_state = s.h.connect_state
      /\ d.h.socket = s.h.socket /\ d.h.writing = s.h.writing
      /\ d.h.to_broker = s.h.to_broker /\ d.h.to_client = s.h.to_client
      /\ d.h.pending_write = s.h.pending_write /\ d.h.outboundMsgs = s.h.outboundMsgs
      /\ d.h.connect = s.h.connect /\ d.h.disconnect = s.h.disconnect
      /\ d.h.responses = s.h.responses
  BY <1>1, ButCommands, ZenonT(40)
<1>3. /\ d.h.commands[n] = c
      /\ \A i \in 1..Len(d.h.commands) : i # n =>
             i \in 1..Len(s.h.commands) /\ d.h.commands[i] = s.h.commands[i]
  <2>. DEFINE q == Append(s.h.commands, c)
  <2>1. q[n] = c /\ Len(q) = n
    BY <1>1
  <2>2. \A i \in 1..n : i # n => i \in 1..Len(s.h.commands) /\ q[i] = s.h.commands[i]
    BY <1>1
  <2>. HIDE DEF q
  <2>3. d.h.commands = q
    BY <1>2 DEF q
  <2>. QED
    BY <2>1, <2>2, <2>3
<1>. HIDE DEF d, n
<1>4. OwnedInv(d)
  <2>1. \A i \in 1..Len(d.h.commands) : Owned(d.a, d.h.commands[i])
    BY <1>2, <1>3 DEF Inv, OwnedInv, QueuesOwned, Owned
  <2>. QED
    BY <1>2, <2>1 DEF Inv, OwnedInv, QueuesOwned, PacketsOwned, OthersOwned
<1>5. StateInv(d.h) /\ TokenInv(d.h)
  BY <1>2 DEF Inv, LinkInv, StateInv, SocketInv, InUse, TokenInv, NoConnect
<1>6. \A i \in 1..Len(d.h.commands) : d.h.commands[i].type = "CONNECT" =>
         i \in 1..Len(s.h.commands) /\ d.h.commands[i] = s.h.commands[i]
  BY <1>3
<1>7. QueueInv(d.h)
  BY <1>2, <1>6 DEF Inv, LinkInv, QueueInv, InUse
<1>8. NoConnect(s.h.commands) => NoConnect(d.h.commands)
  BY <1>6 DEF NoConnect
<1>9. ConnectInv(d)
  BY <1>2, <1>8 DEF Inv, LinkInv, ConnectInv, InUse, Connecting, LastConnect
<1>10. CommandsInv(d)
  <2>1. ASSUME NEW i \in 1..Len(d.h.commands), NEW j \in 1..Len(d.h.commands),
               d.h.commands[i].call # 0, d.h.commands[j].call = d.h.commands[i].call
        PROVE  j = i
    <3>1. CASE i = n \/ j = n
      BY <1>3, <2>1, <3>1 DEF Free
    <3>2. CASE i # n /\ j # n
      <4>1. /\ i \in 1..Len(s.h.commands) /\ d.h.commands[i] = s.h.commands[i]
            /\ j \in 1..Len(s.h.commands) /\ d.h.commands[j] = s.h.commands[j]
        BY <1>3, <3>2
      <4>2. s.h.commands[i].call # 0 /\ s.h.commands[j].call = s.h.commands[i].call
        BY <2>1, <4>1
      <4>3. CommandsInv(s)
        BY DEF Inv, OnceInv
      <4>. QED
        BY <4>1, <4>2, <4>3 DEF CommandsInv
    <3>. QED
      BY <3>1, <3>2
  <2>2. ASSUME NEW i \in 1..Len(d.h.commands), d.h.commands[i].call # 0
        PROVE  /\ d.a.told[d.h.commands[i].call] = <<>>
               /\ d.h.commands[i].call # d.h.pending_write
               /\ d.h.connect_state = -2 => d.h.commands[i].call # d.h.disconnect.call
               /\ \A j \in 1..Len(d.h.responses) :
                    d.h.responses[j].call = d.h.commands[i].call => d.h.responses[j].type = "PUBLISH0"
    <3>1. CASE i = n
      BY <1>2, <1>3, <3>1 DEF Free
    <3>2. CASE i # n
      <4>1. i \in 1..Len(s.h.commands) /\ d.h.commands[i] = s.h.commands[i]
        BY <1>3, <3>2
      <4>2. CommandsInv(s) /\ s.h.commands[i].call # 0
        BY <2>2, <4>1 DEF Inv, OnceInv
      <4>. QED
        BY <1>2, <4>1, <4>2 DEF CommandsInv
    <3>. QED
      BY <3>1, <3>2
  <2>. QED
    BY <2>1, <2>2 DEF CommandsInv
<1>11. OnceInv(d)
  BY <1>2, <1>10 DEF Inv, OnceInv, ResponsesInv, OthersInv, Connecting
<1>12. TrueInv(d, R)
  BY <1>2 DEF Inv, TrueInv
<1>13. TriedInv(d, T)
  BY <1>2, <1>6 DEF Inv, TriedInv, Connecting, LastConnect
<1>. QED
  BY <1>2, <1>4, <1>5, <1>7, <1>9, <1>11, <1>12, <1>13 DEF Inv, LinkInv, d

LEMMA AppConnectsInv ==
    ASSUME ConnInv, ended = "no", options' = options, AppConnects
    PROVE  ConnInv'
<1>. DEFINE e == connectCall(State)
<1>1. /\ app.is = "off" /\ Becomes(e)
      /\ received' = received /\ replied' = replied /\ tried' = tried /\ astray' = astray
      /\ ended' = ended
  BY DEF AppConnects, AppOnlyCalls
<1>2. ~InUse(handle) /\ NoConnect(handle.commands)
  BY <1>1, BeforeInv DEF Inv, LinkInv, ConnectInv
<1>3. Inv(e, replied, tried) /\ e.n = links /\ ~InUse(e.h) /\ Extends(e.a, app)
  BY <1>2, BeforeInv, ConnectCallInv
<1>4. e \in States /\ StateInv(e.h) /\ SocketInv(e.h)
  BY <1>3 DEF Inv, LinkInv, StateInv
<1>5. Counted(e)
  BY <1>2, <1>3, BeforeInv DEF Counted, InUse
<1>6. ReceivedInv(received, e, replied)
  BY <1>3, <1>4, BeforeInv, ReceivedKept DEF Extends
<1>. HIDE DEF e
<1>. QED
  BY <1>1, <1>3, <1>4, <1>5, <1>6, BeforeInv, StepInv

LEMMA AppCallsInv ==
    ASSUME ConnInv, ended = "no", options' = options,
           NEW type \in Kinds \ {"CONNECT"}, NEW is \in {"on", "leaving"}, NEW waits \in BOOLEAN,
           AppCalls(type, is, waits)
    PROVE  ConnInv'
<1>. DEFINE n == Len(app.calls) + 1
            c == [Command(type, n) EXCEPT !.waits = waits]
            d == [State EXCEPT !.a.calls = Append(@, type), !.a.is = is]
            e == addCommand(d, c)
            f == [d EXCEPT !.h.commands = Append(d.h.commands, c)]
<1>1. /\ Len(app.calls) < MaxAPICalls /\ handle.connected /\ Becomes(e)
      /\ received' = received /\ replied' = replied /\ tried' = tried /\ astray' = astray
      /\ ended' = ended
  BY DEF AppCalls, AppOnlyCalls, CanCall
<1>2. /\ State \in States /\ State.a = app /\ State.h = handle /\ State.n = links
      /\ app.calls \in Seq(Kinds) /\ app \in Apps
  BY BeforeInv, StateFields
<1>3. /\ d \in States /\ d.h = handle /\ d.n = links
      /\ d.a.calls = Append(app.calls, type) /\ d.a.told = app.told /\ d.a.is = is
  <2>. DEFINE a == [app EXCEPT !.calls = Append(@, type), !.is = is]
  <2>1. Append(app.calls, type) \in Seq(Kinds)
    BY <1>2
  <2>2. /\ a \in Apps /\ a.calls = Append(app.calls, type) /\ a.told = app.told /\ a.is = is
    BY <1>2, <2>1 DEF Apps
  <2>3. d = [State EXCEPT !.a = a]
    BY <1>2 DEF States
  <2>. HIDE DEF a, d
  <2>. QED
    BY <1>2, <2>2, <2>3 DEF States
<1>4. n \in 0..MaxAPICalls
  BY <1>1, <1>2, BoundTypes
<1>5. c \in Commands /\ c.type = type /\ c.call = n /\ ~c.internal
  BY <1>4, CommandType DEF Command, Commands
<1>. HIDE DEF c, d
<1>6. /\ Inv(d, replied, tried) /\ IsCall(d.a, type, n) /\ d.a.told[n] = <<>> /\ Free(d, n)
  <2>1. Inv(State, replied, tried)
    BY BeforeInv
  <2>. QED
    BY <1>1, <1>2, <1>3, <2>1, CallMade, SMTT(30)
<1>7. e = f
  <2>1. /\ e.h.commands = Append(d.h.commands, c) /\ e = [d EXCEPT !.h.commands = e.h.commands]
    BY <1>3, <1>5, AddFields
  <2>. QED
    BY <2>1
<1>8. Inv(f, replied, tried)
  BY <1>5, <1>6, AppendInv
<1>9. /\ f \in States /\ f.a = d.a /\ f.n = d.n
      /\ f.h.connected = d.h.connected /\ f.h.connect_state = d.h.connect_state
      /\ f.h.connect = d.h.connect
      /\ f.h.to_broker = d.h.to_broker /\ f.h.to_client = d.h.to_client
  <2>1. d.h.commands \in Seq(Commands) /\ Append(d.h.commands, c) \in Seq(Commands)
    BY <1>3, <1>5, StateFields
  <2>. QED
    BY <1>3, <2>1, ButCommands, ZenonT(40)
<1>. HIDE DEF e, f
<1>10. SocketInv(f.h)
  BY <1>8 DEF Inv, LinkInv, StateInv
<1>11. Counted(f)
  BY <1>2, <1>3, <1>9, BeforeInv DEF Counted
<1>12. ReceivedInv(received, f, replied)
  <2>1. \A t, k : IsCall(app, t, k) => IsCall(f.a, t, k)
    BY <1>2, <1>3, <1>9 DEF IsCall
  <2>2. received.type \in {"CONNECT", "SUBSCRIBE", "UNSUBSCRIBE"} => received.type # "CONNECT"
    BY <1>1, <1>2, BeforeInv DEF ReceivedInv
  <2>. QED
    BY <1>2, <2>1, <2>2, BeforeInv DEF ReceivedInv
<1>. QED
  BY <1>1, <1>7, <1>8, <1>9, <1>10, <1>11, <1>12, BeforeInv, StepInv

LEMMA AppInv ==
    ASSUME ConnInv, ended = "no", options' = options, AppConnects \/ AppDisconnects \/ AppAsks
    PROVE  ConnInv'
<1>1. CASE AppConnects
  BY <1>1, AppConnectsInv
<1>2. CASE AppDisconnects
  <2>1. PICK waits \in MayWait : AppCalls("DISCONNECT", "leaving", waits)
    BY <1>2 DEF AppDisconnects
  <2>2. waits \in BOOLEAN /\ "DISCONNECT" \in Kinds \ {"CONNECT"}
    BY ConnectAssumption DEF Kinds
  <2>. QED
    BY <2>1, <2>2, AppCallsInv
<1>3. CASE AppAsks
  <2>1. PICK type \in Asks : AppCalls(type, "on", FALSE)
    BY <1>3 DEF AppAsks
  <2>2. type \in Kinds \ {"CONNECT"}
    BY ConnectAssumption DEF Kinds
  <2>. QED
    BY <2>1, <2>2, AppCallsInv
<1>. QED
  BY <1>1, <1>2, <1>3

-----------------------------------------------------------------------------
(* The send thread.                                                        *)

\* The command that is processed, and the client without it
LEMMA HeadInv ==
    ASSUME ConnInv, ended = "no", handle.commands # <<>>, NEW c, c = Head(handle.commands)
    PROVE  LET d == Taken
           IN /\ Inv(d, replied, tried) /\ NoConnect(d.h.commands) /\ Counted(d)
              /\ d \in States /\ d.a = app /\ d.n = links
              /\ d.h.connected = handle.connected /\ d.h.connect_state = handle.connect_state
              /\ d.h.socket = handle.socket /\ d.h.writing = handle.writing
              /\ d.h.to_broker = handle.to_broker /\ d.h.to_client = handle.to_client
              /\ d.h.pending_write = handle.pending_write
              /\ d.h.outboundMsgs = handle.outboundMsgs
              /\ d.h.connect = handle.connect /\ d.h.disconnect = handle.disconnect
              /\ d.h.responses = handle.responses
              /\ c \in Commands /\ Owned(app, c)
              /\ c.call # 0 =>
                    /\ app.told[c.call] = <<>>
                    /\ c.call # handle.pending_write
                    /\ handle.connect_state = -2 => c.call # handle.disconnect.call
                    /\ \A i \in 1..Len(d.h.commands) : d.h.commands[i].call # c.call
                    /\ \A i \in 1..Len(handle.responses) :
                           handle.responses[i].call = c.call => handle.responses[i].type = "PUBLISH0"
              /\ c.type = "CONNECT" =>
                    /\ TriedFor(c, tried) /\ ~InUse(handle) /\ c.call = handle.connect.call
                    /\ LastConnect(State) /\ app.is # "off"
<1>. DEFINE d == Taken
<1>1. /\ State \in States /\ State.h = handle /\ State.a = app /\ State.n = links
      /\ Inv(State, replied, tried) /\ Counted(State) /\ handle.commands \in Seq(Commands)
  BY BeforeInv, StateFields
<1>2. /\ c = handle.commands[1] /\ 1 \in 1..Len(handle.commands) /\ c \in Commands
      /\ Tail(handle.commands) \in Seq(Commands)
      /\ \A i \in 1..Len(Tail(handle.commands)) :
            i + 1 \in 1..Len(handle.commands) /\ Tail(handle.commands)[i] = handle.commands[i + 1]
  BY <1>1, TailProps
<1>3. Inv(d, replied, tried) /\ NoConnect(d.h.commands)
  <2>1. State.h.commands # <<>>
    BY <1>1
  <2>. QED
    BY <1>1, <2>1, TakenInv DEF Taken
<1>4. d = [State EXCEPT !.h.commands = Tail(handle.commands)]
  BY <1>1 DEF Taken
<1>5. /\ d \in States /\ d.a = app /\ d.n = links /\ d.h.commands = Tail(handle.commands)
      /\ d.h.connected = handle.connected /\ d.h.connect_state = handle.connect_state
      /\ d.h.socket = handle.socket /\ d.h.writing = handle.writing
      /\ d.h.to_broker = handle.to_broker /\ d.h.to_client = handle.to_client
      /\ d.h.pending_write = handle.pending_write
      /\ d.h.outboundMsgs = handle.outboundMsgs
      /\ d.h.connect = handle.connect /\ d.h.disconnect = handle.disconnect
      /\ d.h.responses = handle.responses
  <2>. DEFINE q == Tail(handle.commands)
  <2>1. q \in Seq(Commands)
    BY <1>2
  <2>. HIDE DEF q
  <2>2. d = [State EXCEPT !.h.commands = q]
    BY <1>4 DEF q
  <2>. HIDE DEF d
  <2>. State \in States
    BY <1>1
  <2>3. d \in States /\ d.a = State.a /\ d.n = State.n /\ d.h.commands = q
        /\ d.h.connected = State.h.connected /\ d.h.connect_state = State.h.connect_state
        /\ d.h.socket = State.h.socket /\ d.h.writing = State.h.writing
        /\ d.h.to_broker = State.h.to_broker /\ d.h.to_client = State.h.to_client
        /\ d.h.pending_write = State.h.pending_write
        /\ d.h.outboundMsgs = State.h.outboundMsgs
        /\ d.h.connect = State.h.connect /\ d.h.disconnect = State.h.disconnect
        /\ d.h.responses = State.h.responses
    BY <2>1, <2>2, ButCommands, ZenonT(40)
  <2>. QED
    BY <1>1, <2>3 DEF q
<1>. HIDE DEF d
<1>6. Owned(app, c)
  BY <1>1, <1>2 DEF Inv, OwnedInv, QueuesOwned
<1>7. c.call # 0 =>
         /\ app.told[c.call] = <<>>
         /\ c.call # handle.pending_write
         /\ handle.connect_state = -2 => c.call # handle.disconnect.call
         /\ \A i \in 1..Len(handle.responses) :
                handle.responses[i].call = c.call => handle.responses[i].type = "PUBLISH0"
         /\ \A i \in 1..Len(handle.commands) : handle.commands[i].call = c.call => i = 1
  BY <1>1, <1>2 DEF Inv, OnceInv, CommandsInv
<1>8. c.call # 0 => \A i \in 1..Len(d.h.commands) : d.h.commands[i].call # c.call
  <2>1. \A i \in 1..Len(d.h.commands) : i + 1 # 1 /\ i + 1 \in 1..Len(handle.commands)
                                        /\ d.h.commands[i] = handle.commands[i + 1]
    BY <1>2, <1>5
  <2>. QED
    BY <1>7, <2>1
<1>9. c.type = "CONNECT" =>
         /\ TriedFor(c, tried) /\ ~InUse(handle) /\ c.call = handle.connect.call
         /\ LastConnect(State) /\ app.is # "off"
  BY <1>1, <1>2 DEF Inv, LinkInv, QueueInv, ConnectInv, TriedInv, NoConnect
<1>10. Counted(d)
  BY <1>1, <1>5 DEF Counted
<1>. QED
  BY <1>2, <1>3, <1>5, <1>6, <1>7, <1>8, <1>9, <1>10 DEF d

\* The connect that a disconnect overtakes is a call
LEMMA OvertakenType ==
    ASSUME ConnInv, ended = "no"
    PROVE  [astray EXCEPT !.connects = Overtaken(State)] \in [connects : SUBSET APICall, response : BOOLEAN]
<1>1. Inv(State, replied, tried) /\ State.h = handle /\ astray \in [connects : SUBSET APICall, response : BOOLEAN]
  BY BeforeInv
<1>2. handle.connect_state > 0 => handle.connect.call \in APICall
  <2>1. handle.connect_state > 0 => Connecting(handle)
    <3>1. handle.connect_state > 0 => handle.connect_state \notin {0, -2}
      OBVIOUS
    <3>. QED
      BY <1>1, <3>1 DEF Inv, LinkInv, StateInv, Connecting
  <2>. QED
    BY <1>1, <2>1, CallsAreAPICalls DEF Inv, LinkInv, ConnectInv, LastConnect
<1>. QED
  BY <1>1, <1>2 DEF Overtaken

\* What a disconnect that is due leaves
LEMMA EndsInv ==
    ASSUME ConnInv, ended = "no", NEW e, Inv(e, replied, tried), Counted(e), ~InUse(e.h),
           Extends(e.a, app)
    PROVE  e \in States /\ SocketInv(e.h) /\ ReceivedInv(received, e, replied)
<1>1. e \in States /\ StateInv(e.h) /\ SocketInv(e.h)
  BY DEF Inv, LinkInv, StateInv
<1>. QED
  BY <1>1, BeforeInv, ReceivedKept DEF Extends

LEMMA DisconnectDueInv ==
    ASSUME ConnInv, ended = "no", options' = options, DisconnectDue
    PROVE  ConnInv'
<1>1. /\ handle.connect_state = -2
      /\ received' = received /\ replied' = replied /\ tried' = tried /\ astray' = astray
      /\ ended' = ended
  BY DEF DisconnectDue
<1>2. PICK expired \in BOOLEAN : Becomes(checkDisconnect(State, handle.disconnect, expired))
  BY DEF DisconnectDue
<1>. DEFINE e == checkDisconnect(State, handle.disconnect, expired)
<1>3. /\ Inv(State, replied, tried) /\ Counted(State) /\ ReceivedInv(received, State, replied)
      /\ State \in States /\ State.h = handle /\ State.a = app
  BY BeforeInv
<1>4. CASE ~IsDue(State, handle.disconnect, expired)
  <2>1. e = State
    BY <1>4 DEF checkDisconnect
  <2>2. SocketInv(State.h)
    BY <1>3 DEF Inv, LinkInv, StateInv
  <2>. QED
    BY <1>1, <1>2, <1>3, <2>1, <2>2, BeforeInv, StepInv
<1>5. CASE IsDue(State, handle.disconnect, expired)
  <2>1. NoConnect(State.h.commands)
    BY <1>1, <1>3 DEF Inv, LinkInv, QueueInv, NoConnect, InUse
  <2>2. /\ handle.disconnect \in Commands /\ handle.disconnect.type = "DISCONNECT"
        /\ IsCall(app, "DISCONNECT", handle.disconnect.call)
        /\ app.told[handle.disconnect.call] = <<>>
    BY <1>1, <1>3, StateFields DEF Inv, OwnedInv, OthersOwned, OnceInv, OthersInv
  <2>3. \A i \in 1..Len(handle.commands) : handle.commands[i].call # handle.disconnect.call
    <3>1. handle.disconnect.call # 0
      BY <1>3, <2>2, StateFields DEF IsCall
    <3>. QED
      BY <1>1, <1>3, <3>1 DEF Inv, OnceInv, CommandsInv
  <2>4. Inv(e, replied, tried) /\ Counted(e) /\ ~InUse(e.h) /\ Extends(e.a, app)
    BY <1>3, <1>5, <2>1, <2>2, <2>3, DisconnectInv
  <2>5. Becomes(e)
    BY <1>2
  <2>. HIDE DEF e
  <2>6. e \in States /\ SocketInv(e.h) /\ ReceivedInv(received, e, replied)
    BY <2>4, EndsInv
  <2>. QED
    BY <1>1, <2>4, <2>5, <2>6, BeforeInv, StepInv
<1>. QED
  BY <1>4, <1>5

LEMMA ProcessDisconnectInv ==
    ASSUME ConnInv, ended = "no", options' = options, ProcessDisconnect
    PROVE  ConnInv'
<1>. DEFINE c == Head(handle.commands)
            s == Taken
            t == [Taken EXCEPT !.h.connect_state = -2]
            u == IF InUse(handle) THEN checkDisconnect(t, c, FALSE) ELSE s
            e == [u EXCEPT !.h.disconnect = c]
<1>1. /\ handle.commands # <<>> /\ c.type = "DISCONNECT" /\ Becomes(e)
      /\ received' = received /\ replied' = replied /\ tried' = tried /\ ended' = ended
      /\ astray' = [astray EXCEPT !.connects = Overtaken(State)]
  BY DEF ProcessDisconnect, NextCommand
<1>2. /\ Inv(s, replied, tried) /\ NoConnect(s.h.commands) /\ Counted(s)
      /\ s \in States /\ s.a = app /\ s.n = links
      /\ s.h.connected = handle.connected /\ s.h.connect_state = handle.connect_state
      /\ s.h.socket = handle.socket /\ s.h.writing = handle.writing
      /\ s.h.to_broker = handle.to_broker /\ s.h.to_client = handle.to_client
      /\ s.h.connect = handle.connect
      /\ c \in Commands /\ Owned(app, c)
      /\ c.call # 0 =>
            /\ app.told[c.call] = <<>>
            /\ \A i \in 1..Len(s.h.commands) : s.h.commands[i].call # c.call
  BY <1>1, HeadInv
<1>3. /\ Inv(State, replied, tried) /\ ReceivedInv(received, State, replied)
      /\ State \in States /\ State.h = handle /\ State.a = app
  BY BeforeInv
<1>4. [astray EXCEPT !.connects = Overtaken(State)] \in [connects : SUBSET APICall, response : BOOLEAN]
  BY OvertakenType
<1>5. s.h \in Handles
  BY <1>2, StateFields
<1>6. /\ t \in States /\ t.a = s.a /\ t.n = s.n /\ t.h.connected = s.h.connected
      /\ t.h.connect_state = -2
      /\ t.h.commands = s.h.commands /\ t.h.responses = s.h.responses
      /\ t.h.outboundMsgs = s.h.outboundMsgs /\ t.h.pending_write = s.h.pending_write
      /\ t.h.connect = s.h.connect /\ t.h.disconnect = s.h.disconnect
      /\ t.h.socket = s.h.socket /\ t.h.writing = s.h.writing
      /\ t.h.to_broker = s.h.to_broker /\ t.h.to_client = s.h.to_client
  BY <1>2, <1>5 DEF States, Handles
<1>. HIDE DEF c, s, t
<1>7. ~c.internal => c.call # 0 /\ IsCall(app, "DISCONNECT", c.call)
  BY <1>1, <1>2, <1>3, StateFields DEF Owned, IsCall
<1>8. SUFFICES ASSUME TRUE
               PROVE  /\ e \in States /\ SocketInv(e.h) /\ Inv(e, replied, tried) /\ Counted(e)
                      /\ ReceivedInv(received, e, replied)
  <2>. HIDE DEF e
  <2>. QED
    BY <1>1, <1>4, BeforeInv, StepInv
<1>9. ASSUME NEW v, Inv(v, replied, tried), Counted(v), ~InUse(v.h), Extends(v.a, app)
      PROVE  LET d == [v EXCEPT !.h.disconnect = c]
             IN /\ d \in States /\ SocketInv(d.h) /\ Inv(d, replied, tried) /\ Counted(d)
                /\ ReceivedInv(received, d, replied)
  <2>. DEFINE d == [v EXCEPT !.h.disconnect = c]
  <2>1. Inv(d, replied, tried) /\ Counted(d) /\ ~InUse(d.h)
    BY <1>2, <1>9, KeptInv
  <2>2. d.a = v.a
    BY <1>9 DEF Inv, States
  <2>. HIDE DEF d
  <2>3. d \in States /\ SocketInv(d.h) /\ ReceivedInv(received, d, replied)
    BY <1>9, <2>1, <2>2, EndsInv
  <2>. QED
    BY <2>1, <2>3 DEF d
<1>10. CASE ~InUse(handle)
  <2>1. u = s /\ ~InUse(s.h)
    BY <1>2, <1>10 DEF InUse
  <2>2. Extends(s.a, app)
    BY <1>2 DEF Extends
  <2>. QED
    BY <1>2, <1>9, <2>1, <2>2
<1>11. CASE InUse(handle) /\ IsDue(t, c, FALSE)
  <2>1. u = checkDisconnect(t, c, FALSE)
    BY <1>11
  <2>2. Inv(u, replied, tried) /\ Counted(u) /\ ~InUse(u.h) /\ Extends(u.a, app)
    <3>. HIDE DEF u
    <3>. QED
      BY <1>1, <1>2, <1>6, <1>7, <1>11, <2>1, DisconnectInv
  <2>. HIDE DEF u
  <2>. QED
    BY <1>9, <2>2
<1>12. CASE InUse(handle) /\ ~IsDue(t, c, FALSE)
  <2>1. u = t
    BY <1>12 DEF checkDisconnect
  <2>2. ~c.internal
    BY <1>2, <1>12 DEF IsDue, Owned
  <2>3. t.h \in Handles
    BY <1>6, StateFields
  <2>4. e = [t EXCEPT !.h.disconnect = c]
    BY <2>1
  <2>. HIDE DEF e, u
  <2>5. /\ e \in States /\ e.a = t.a /\ e.n = t.n /\ e.h.connected = t.h.connected
        /\ e.h.connect_state = -2 /\ e.h.disconnect = c
        /\ e.h.commands = t.h.commands /\ e.h.responses = t.h.responses
        /\ e.h.outboundMsgs = t.h.outboundMsgs /\ e.h.pending_write = t.h.pending_write
        /\ e.h.connect = t.h.connect
        /\ e.h.socket = t.h.socket /\ e.h.writing = t.h.writing
        /\ e.h.to_broker = t.h.to_broker /\ e.h.to_client = t.h.to_client
    BY <1>2, <1>6, <2>3, <2>4 DEF States, Handles
  <2>6. PacketsOwned(e) /\ TokenInv(e.h)
    BY <1>2, <1>6, <2>5 DEF Inv, OwnedInv, PacketsOwned, LinkInv, TokenInv, NoConnect
  <2>7. StateInv(e.h)
    BY <1>2, <1>6, <1>12, <2>5 DEF Inv, LinkInv, StateInv, SocketInv, InUse
  <2>8. Connecting(e.h) =>
           /\ LastConnect(s) /\ s.a.told[s.h.connect.call] = <<>>
           /\ TriedFor(e.h.connect, tried) /\ e.h.connect.MQTTVersion # 0
    <3>1. Connecting(e.h) => Connecting(s.h)
      BY <1>2, <1>6, <1>12, <2>5 DEF InUse, Connecting
    <3>. QED
      BY <1>2, <1>6, <2>5, <3>1 DEF Inv, LinkInv, ConnectInv, OnceInv, OthersInv, TriedInv
  <2>9. Inv(e, replied, tried)
    <3>1. InUse(e.h) => InUse(s.h)
      BY <1>2, <1>12 DEF InUse
    <3>2. \A i \in 1..Len(e.h.to_client) : e.h.to_client[i].result \in replied[e.h.to_client[i].call]
      BY <1>2, <1>6, <2>5 DEF Inv, TrueInv
    <3>3. \A k \in 1..Len(s.a.calls) : replied[k] \subseteq replied[k]
      OBVIOUS
    <3>4. /\ ~e.h.disconnect.internal /\ e.h.disconnect.type = "DISCONNECT"
          /\ IsCall(s.a, "DISCONNECT", e.h.disconnect.call)
          /\ s.a.told[e.h.disconnect.call] = <<>>
          /\ \A i \in 1..Len(s.h.commands) :
                 s.h.commands[i].call # 0 => s.h.commands[i].call # e.h.disconnect.call
      BY <1>1, <1>2, <1>7, <2>2, <2>5
    <3>. QED
      BY <1>2, <1>6, <2>5, <2>6, <2>7, <2>8, <3>1, <3>2, <3>3, <3>4, HandleInv, SMTT(30)
  <2>10. Counted(e)
    BY <1>2, <1>6, <2>5 DEF Counted
  <2>11. ReceivedInv(received, e, replied)
    BY <1>2, <1>3, <1>6, <1>12, <2>5 DEF ReceivedInv
  <2>. QED
    BY <2>5, <2>7, <2>9, <2>10, <2>11 DEF StateInv
<1>. QED
  BY <1>10, <1>11, <1>12

\* The server and the version that a connect goes on with
LEMMA NextServerInv ==
    ASSUME options \in ConnectOptions, NEW c \in Commands, NEW T \in Seq(Nat \X Nat), TriedFor(c, T)
    PROVE  LET d == NextServer(c)
               V == Append(IF c.MQTTVersion = 0 THEN <<>> ELSE T, <<d.currentURI, d.MQTTVersion>>)
           IN /\ d \in Commands /\ d.MQTTVersion # 0 /\ d.call = c.call /\ d.type = c.type
              /\ d.internal = c.internal /\ V \in Seq(Nat \X Nat) /\ TriedFor(d, V)
<1>. DEFINE d == NextServer(c)
            old == IF c.MQTTVersion = 0 THEN <<>> ELSE T
            V == Append(old, <<d.currentURI, d.MQTTVersion>>)
            turn == options.serverURIcount > 0 /\ (options.MQTTVersion = 0 => c.MQTTVersion = 3)
            version == IF options.MQTTVersion # 0 THEN options.MQTTVersion
                       ELSE IF c.MQTTVersion = 0 /\ ~turn THEN 4 ELSE 3
            uri == IF turn THEN c.currentURI + 1 ELSE c.currentURI
<1>1. /\ options.serverURIcount \in Nat /\ options.MQTTVersion \in {0, 3, 4}
      /\ c.currentURI \in Nat /\ c.MQTTVersion \in {0, 3, 4}
  BY OptionType DEF Commands
<1>2. d = [c EXCEPT !.currentURI = uri, !.MQTTVersion = version]
  <2>. DEFINE both == options.MQTTVersion = 0
              found == IF turn /\ both THEN 4 ELSE c.MQTTVersion
              next == IF ~both THEN options.MQTTVersion ELSE IF found = 0 THEN 4 ELSE 3
  <2>1. next = version
    BY <1>1
  <2>2. d = [c EXCEPT !.currentURI = IF turn THEN @ + 1 ELSE @, !.MQTTVersion = next]
    BY DEF NextServer
  <2>. HIDE DEF next, version, turn
  <2>. QED
    BY <2>1, <2>2 DEF Commands
<1>3. uri \in Nat /\ version \in {3, 4}
  BY <1>1
<1>. HIDE DEF uri, version
<1>4. /\ d \in Commands /\ d.currentURI = uri /\ d.MQTTVersion = version
      /\ d.call = c.call /\ d.type = c.type /\ d.internal = c.internal
  BY <1>2, <1>3 DEF Commands
<1>. HIDE DEF d
<1>5. old \in Seq(Nat \X Nat) /\ <<uri, version>> \in Nat \X Nat
  BY <1>3
<1>. HIDE DEF old
<1>6. /\ V \in Seq(Nat \X Nat) /\ Len(V) = Len(old) + 1
      /\ V[Len(old) + 1] = <<uri, version>>
      /\ \A i \in 1..Len(old) : V[i] = old[i] /\ i \in 1..Len(V)
  BY <1>4, <1>5
<1>7. Len(old) \in Nat /\ Len(old) + 1 \in 1..Len(V) /\ <<uri, version>>[1] = uri
  BY <1>5, <1>6
<1>13. V = Append(old, <<uri, version>>)
  BY <1>4
<1>. HIDE DEF V
<1>8. ASSUME options.MQTTVersion # 0
      PROVE  TriedFor(d, V)
  BY <1>4, <1>3, <1>8 DEF TriedFor
<1>9. ASSUME options.MQTTVersion = 0 /\ c.MQTTVersion = 0
      PROVE  TriedFor(d, V)
  <2>1. uri = 0 /\ version = 4
    BY <1>1, <1>9 DEF TriedFor, uri, version
  <2>2. V = <<<<0, 4>>>>
    BY <1>9, <1>13, <2>1 DEF old
  <2>. QED
    BY <1>4, <2>1, <2>2 DEF TriedFor
<1>10. ASSUME options.MQTTVersion = 0 /\ c.MQTTVersion = 4
      PROVE  TriedFor(d, V)
  <2>1. uri = 0 /\ version = 3 /\ old = <<<<0, 4>>>>
    BY <1>1, <1>10 DEF TriedFor, uri, version, old
  <2>2. Len(old) = 1 /\ old[1] = <<0, 4>>
    BY <2>1
  <2>3. Len(V) = 2 /\ V[1] = <<0, 4>> /\ V[2] = <<0, 3>>
    BY <1>6, <2>1, <2>2
  <2>4. BothVersions(V)
    BY <2>3 DEF BothVersions
  <2>5. \A u \in 0..0 : V[1][1] = u /\ 1 \in 1..Len(V)
    BY <2>3
  <2>6. Reached(0, V)
    BY <2>5 DEF Reached
  <2>. QED
    BY <1>4, <2>1, <2>4, <2>6 DEF TriedFor
<1>11. ASSUME options.MQTTVersion = 0 /\ c.MQTTVersion = 3
      PROVE  TriedFor(d, V)
  <2>1. version = 3 /\ old = T /\ uri \in {c.currentURI, c.currentURI + 1}
    BY <1>1, <1>11 DEF uri, version, old
  <2>2. BothVersions(T) /\ Reached(c.currentURI, T)
    BY <1>11 DEF TriedFor
  <2>3. Len(T) >= 2 /\ 1 \in 1..Len(T) /\ 2 \in 1..Len(T)
    BY <2>2 DEF BothVersions
  <2>4. BothVersions(V)
    <3>1. V[1] = T[1] /\ V[2] = T[2] /\ Len(V) >= 2
      BY <1>6, <1>7, <2>1, <2>3, SMTT(30)
    <3>. QED
      BY <2>2, <3>1 DEF BothVersions
  <2>5. Reached(uri, V)
    <3>. SUFFICES ASSUME NEW u \in 0..uri PROVE \E i \in 1..Len(V) : V[i][1] = u
      BY DEF Reached
    <3>1. CASE u = uri
      BY <1>6, <1>7, <3>1
    <3>2. CASE u # uri
      <4>1. u \in 0..c.currentURI
        BY <1>1, <2>1, <3>2
      <4>2. PICK i \in 1..Len(T) : T[i][1] = u
        BY <2>2, <4>1 DEF Reached
      <4>. QED
        BY <1>6, <2>1, <4>2
    <3>. QED
      BY <3>1, <3>2
  <2>. QED
    BY <1>4, <2>1, <2>4, <2>5 DEF TriedFor
<1>12. TriedFor(d, V)
  BY <1>1, <1>8, <1>9, <1>10, <1>11
<1>. QED
  BY <1>3, <1>4, <1>6, <1>12 DEF d, old, V

\* The attempt of the connect that is first in the queue
LEMMA AttemptInv ==
    ASSUME ConnInv, ended = "no", NEW c, Attempting(c)
    PROVE  LET s == Taken
           IN /\ c \in Commands /\ c.MQTTVersion # 0 /\ c.type = "CONNECT" /\ ~c.internal
              /\ c.call = handle.connect.call /\ c.call # 0 /\ tried' \in Seq(Nat \X Nat)
              /\ TriedFor(c, tried') /\ LastConnect(s) /\ app.told[c.call] = <<>>
              /\ ~InUse(handle) /\ app.is # "off" /\ Free(s, c.call)
<1>. DEFINE b == Head(handle.commands)
            s == Taken
<1>1. /\ handle.commands # <<>> /\ b.type = "CONNECT" /\ ~InUse(handle) /\ c = NextServer(b)
      /\ tried' = Append(IF b.MQTTVersion = 0 THEN <<>> ELSE tried, <<c.currentURI, c.MQTTVersion>>)
  BY DEF Attempting, NextCommand
<1>2. /\ Inv(s, replied, tried) /\ s.a = app
      /\ s.h.connect_state = handle.connect_state /\ s.h.connected = handle.connected
      /\ s.h.connect = handle.connect /\ s.h.responses = handle.responses
      /\ s.h.pending_write = handle.pending_write
      /\ b \in Commands /\ Owned(app, b)
      /\ b.call # 0 =>
            /\ app.told[b.call] = <<>> /\ b.call # handle.pending_write
            /\ \A i \in 1..Len(s.h.commands) : s.h.commands[i].call # b.call
            /\ \A i \in 1..Len(handle.responses) :
                   handle.responses[i].call = b.call => handle.responses[i].type = "PUBLISH0"
      /\ TriedFor(b, tried) /\ b.call = handle.connect.call
      /\ LastConnect(State) /\ app.is # "off"
  BY <1>1, HeadInv
<1>3. options \in ConnectOptions /\ tried \in Seq(Nat \X Nat) /\ State.h = handle /\ State.a = app
  BY BeforeInv
<1>. HIDE DEF b, s
<1>4. /\ c \in Commands /\ c.MQTTVersion # 0 /\ c.call = b.call /\ c.type = b.type
      /\ c.internal = b.internal /\ tried' \in Seq(Nat \X Nat) /\ TriedFor(c, tried')
  BY <1>1, <1>2, <1>3, NextServerInv
<1>5. ~b.internal /\ b.call # 0
  <2>1. ~b.internal
    BY <1>1, <1>2 DEF Owned
  <2>2. app.calls \in Seq(Kinds)
    BY <1>3, BeforeInv, StateFields
  <2>. QED
    BY <1>2, <2>1, <2>2 DEF Owned, IsCall
<1>6. LastConnect(s)
  BY <1>2, <1>3 DEF LastConnect
<1>7. Free(s, c.call)
  BY <1>1, <1>2, <1>4, <1>5 DEF Free, Connecting, InUse
<1>. QED
  BY <1>1, <1>2, <1>4, <1>5, <1>6, <1>7 DEF s

LEMMA ConnectStartsInv ==
    ASSUME ConnInv, ended = "no", options' = options, NEW c, ConnectStarts(c)
    PROVE  ConnInv'
<1>. DEFINE s == Taken
<1>1. PICK done \in BOOLEAN :
         Becomes([Taken EXCEPT !.h.connect = c,
                               !.h.connect_state = IF done THEN 3 ELSE 1,
                               !.h.socket = IF done THEN "open" ELSE "opening",
                               !.h.to_broker = IF done THEN <<c>> ELSE <<>>])
  BY DEF ConnectStarts
<1>2. /\ Attempting(c) /\ received' \in {received, IdlePack}
      /\ ended' = (IF received'.type = "CONNECT" THEN "stale" ELSE ended)
      /\ replied' = replied /\ astray' = astray
  BY DEF ConnectStarts
<1>3. /\ c \in Commands /\ c.MQTTVersion # 0 /\ c.type = "CONNECT" /\ ~c.internal
      /\ c.call = handle.connect.call /\ tried' \in Seq(Nat \X Nat)
      /\ TriedFor(c, tried') /\ LastConnect(s) /\ app.told[c.call] = <<>>
      /\ ~InUse(handle) /\ app.is # "off" /\ handle.commands # <<>>
  BY <1>2, AttemptInv DEF Attempting, NextCommand
<1>4. /\ Inv(s, replied, tried) /\ NoConnect(s.h.commands) /\ Counted(s)
      /\ s \in States /\ s.a = app /\ s.n = links
      /\ s.h.connected = handle.connected /\ s.h.connect_state = handle.connect_state
      /\ s.h.connect = handle.connect
  BY <1>3, HeadInv
<1>. DEFINE h == [s.h EXCEPT !.connect = c,
                             !.connect_state = IF done THEN 3 ELSE 1,
                             !.socket = IF done THEN "open" ELSE "opening",
                             !.to_broker = IF done THEN <<c>> ELSE <<>>]
            e == [s EXCEPT !.h = h]
<1>5. s.h \in Handles /\ <<c>> \in Seq(Commands) /\ <<>> \in Seq(Commands)
  BY <1>3, <1>4, StateFields
<1>6. Becomes(e)
  BY <1>1, <1>4 DEF States, Becomes
<1>. HIDE DEF s
<1>7. /\ h \in Handles /\ h.connect = c /\ h.connected = s.h.connected
      /\ h.connect_state = (IF done THEN 3 ELSE 1)
      /\ h.socket = (IF done THEN "open" ELSE "opening")
      /\ h.to_broker = (IF done THEN <<c>> ELSE <<>>)
      /\ h.commands = s.h.commands /\ h.responses = s.h.responses
      /\ h.outboundMsgs = s.h.outboundMsgs /\ h.pending_write = s.h.pending_write
      /\ h.writing = s.h.writing /\ h.to_client = s.h.to_client
  BY <1>3, <1>5 DEF Handles
<1>. HIDE DEF h
<1>8. e \in States /\ e.h = h /\ e.a = s.a /\ e.n = s.n
  BY <1>4, <1>7 DEF States
<1>. HIDE DEF e
<1>9. h.connect_state \in {1, 3} /\ ~h.connected /\ h.writing = <<>> /\ h.to_client = <<>>
  BY <1>3, <1>4, <1>7 DEF Inv, LinkInv, StateInv, SocketInv, InUse
<1>10. PacketsOwned(e)
  BY <1>3, <1>4, <1>7, <1>8, <1>9 DEF PacketsOwned, LastConnect
<1>11. StateInv(e.h)
  BY <1>7, <1>8, <1>9 DEF StateInv, SocketInv, InUse
<1>12. TokenInv(e.h)
  BY <1>7, <1>8, <1>9 DEF TokenInv, NoConnect
<1>13. s.h.connect.type = "CONNECT" /\ ~s.h.connect.internal
  BY <1>4 DEF Inv, LinkInv, ConnectInv
<1>14. Inv(e, replied, tried')
  <2>1. \A i \in 1..Len(e.h.to_client) : e.h.to_client[i].result \in replied[e.h.to_client[i].call]
    BY <1>8, <1>9
  <2>2. \A k \in 1..Len(s.a.calls) : replied[k] \subseteq replied[k]
    OBVIOUS
  <2>3. /\ e.h.connect.call = s.h.connect.call /\ e.h.connect.type = s.h.connect.type
        /\ e.h.connect.internal = s.h.connect.internal
    <3>1. c.internal \in BOOLEAN /\ s.h.connect.internal \in BOOLEAN
      BY <1>3, <1>4, StateFields DEF Commands
    <3>. QED
      BY <1>3, <1>4, <1>7, <1>8, <1>13, <3>1
  <2>4. e.h.connect_state # -2
    BY <1>8, <1>9
  <2>5. NoConnect(s.h.commands) /\ s.a.told[s.h.connect.call] = <<>> /\ s.a.is # "off"
    BY <1>3, <1>4
  <2>6. TriedFor(e.h.connect, tried') /\ e.h.connect.MQTTVersion # 0 /\ LastConnect(s)
    BY <1>3, <1>7, <1>8
  <2>. QED
    BY <1>4, <1>7, <1>8, <1>10, <1>11, <1>12, <2>1, <2>2, <2>3, <2>4, <2>5, <2>6, HandleInv
<1>15. Counted(e)
  BY <1>4, <1>7, <1>8 DEF Counted
<1>16. ended' = "no" => ReceivedInv(received', e, replied)
  <2>1. IdlePack.type # "CONNECT" /\ "stale" # "no"
    BY DEF IdlePack
  <2>2. IdlePack.type \notin {"CONNECT", "SUBSCRIBE", "UNSUBSCRIBE"}
    BY DEF IdlePack
  <2>3. ended' = "no" => received'.type # "CONNECT"
    BY <1>2, <2>1
  <2>. QED
    BY <1>2, <1>4, <1>8, <2>2, <2>3, BeforeInv DEF ReceivedInv
<1>17. /\ received' \in {IdlePack, ErrorPack} \cup AnswerReceived
       /\ ended' \in {"no"} \cup Endings
  BY <1>2, BeforeInv DEF Endings
<1>18. SocketInv(e.h)
  BY <1>11 DEF StateInv
<1>. QED
  BY <1>2, <1>3, <1>6, <1>8, <1>14, <1>15, <1>16, <1>17, <1>18, BeforeInv, StepInv

LEMMA ConnectFailsInv ==
    ASSUME ConnInv, ended = "no", options' = options, NEW c, ConnectFails(c)
    PROVE  ConnInv'
<1>. DEFINE s == Taken
            e == IF checkConn(c) THEN addCommand(s, c) ELSE Called(s, c, "failure")
<1>1. /\ Attempting(c) /\ Becomes(e)
      /\ received' = received /\ replied' = replied /\ astray' = astray
      /\ ended' \in {"no", "overrun"}
  BY DEF ConnectFails
<1>2. /\ c \in Commands /\ c.MQTTVersion # 0 /\ c.type = "CONNECT" /\ ~c.internal
      /\ c.call = handle.connect.call /\ tried' \in Seq(Nat \X Nat)
      /\ TriedFor(c, tried') /\ LastConnect(s) /\ app.told[c.call] = <<>>
      /\ ~InUse(handle) /\ app.is # "off" /\ handle.commands # <<>> /\ Free(s, c.call)
  BY <1>1, AttemptInv DEF Attempting, NextCommand
<1>3. /\ Inv(s, replied, tried) /\ NoConnect(s.h.commands) /\ Counted(s)
      /\ s \in States /\ s.a = app /\ s.n = links
      /\ s.h.connected = handle.connected /\ s.h.connect_state = handle.connect_state
      /\ s.h.connect = handle.connect
  BY <1>2, HeadInv
<1>4. ~InUse(s.h) /\ ~s.h.connected /\ s.h.connect_state = 0
  BY <1>2, <1>3 DEF InUse
<1>. HIDE DEF s
<1>5. Inv(s, replied, tried')
  <2>1. PacketsOwned(s) /\ StateInv(s.h) /\ TokenInv(s.h) /\ ~Connecting(s.h)
    BY <1>3, <1>4 DEF Inv, OwnedInv, LinkInv, Connecting
  <2>2. \A i \in 1..Len(s.h.to_client) : s.h.to_client[i].result \in replied[s.h.to_client[i].call]
    BY <1>3 DEF Inv, TrueInv
  <2>3. \A k \in 1..Len(s.a.calls) : replied[k] \subseteq replied[k]
    OBVIOUS
  <2>4. NoConnect(s.h.commands) /\ s.a.told[s.h.connect.call] = <<>>
    BY <1>2, <1>3
  <2>5. s.h.connect_state # -2
    BY <1>4
  <2>. QED
    BY <1>3, <1>4, <2>1, <2>2, <2>3, <2>4, <2>5, HandleInv
<1>6. /\ Inv(e, replied, tried') /\ e.n = s.n /\ ~InUse(e.h) /\ e.a.calls = s.a.calls
  <2>1. CASE checkConn(c)
    BY <1>2, <1>3, <1>4, <1>5, <2>1, FrontInv
  <2>2. CASE ~checkConn(c)
    <3>1. AllTried(tried')
      BY <1>2, <2>2, BeforeInv, TriedAtEnd
    <3>2. IsCall(s.a, c.type, c.call) /\ s.a.told[c.call] = <<>> /\ "failure" \in Results
      BY <1>2, <1>3 DEF LastConnect, Results
    <3>3. /\ Inv(Called(s, c, "failure"), replied, tried') /\ Called(s, c, "failure").h = s.h
          /\ Called(s, c, "failure").n = s.n /\ Called(s, c, "failure").a.calls = s.a.calls
      BY <1>2, <1>3, <1>4, <1>5, <3>1, <3>2, CalledInv
    <3>. QED
      BY <1>4, <2>2, <3>3
  <2>. QED
    BY <2>1, <2>2
<1>. HIDE DEF e
<1>7. e \in States /\ StateInv(e.h) /\ SocketInv(e.h)
  BY <1>6 DEF Inv, LinkInv, StateInv
<1>8. Counted(e)
  BY <1>3, <1>4, <1>6 DEF Counted, InUse
<1>9. ReceivedInv(received, e, replied)
  BY <1>3, <1>6, <1>7, BeforeInv, ReceivedStays
<1>10. ended' \in {"no"} \cup Endings
  BY <1>1 DEF Endings
<1>. QED
  BY <1>1, <1>2, <1>6, <1>7, <1>8, <1>9, <1>10, BeforeInv, StepInv

\* A request is taken, its message kept: nobody else is going to reply to it
LEMMA RequestInv ==
    ASSUME ConnInv, ended = "no", NEW c, NextRequest(c)
    PROVE  LET k == Kept(Taken, c)
           IN /\ Inv(k, replied, tried) /\ k \in States /\ k.a = app /\ k.n = links
              /\ k.h.connected = TRUE /\ k.h.connect_state = 0
              /\ k.h.socket = handle.socket /\ k.h.writing = <<>>
              /\ k.h.to_broker = handle.to_broker /\ k.h.to_client = handle.to_client
              /\ k.h.pending_write = handle.pending_write /\ k.h.responses = handle.responses
              /\ k.h.connect = handle.connect /\ k.h.disconnect = handle.disconnect
              /\ c \in Commands /\ c.type \in Asks /\ c.call # 0
              /\ IsCall(app, c.type, c.call) /\ app.told[c.call] = <<>> /\ Free(k, c.call)
<1>. DEFINE s == Taken
            k == Kept(s, c)
<1>1. /\ handle.commands # <<>> /\ c = Head(handle.commands) /\ c.type \in Asks
      /\ handle.connected /\ handle.connect_state = 0 /\ handle.writing = <<>>
  BY DEF NextRequest
<1>. HIDE DEF k
<1>2. /\ Inv(s, replied, tried) /\ NoConnect(s.h.commands)
      /\ s \in States /\ s.a = app /\ s.n = links
      /\ s.h.connected = handle.connected /\ s.h.connect_state = handle.connect_state
      /\ s.h.socket = handle.socket /\ s.h.writing = handle.writing
      /\ s.h.to_broker = handle.to_broker /\ s.h.to_client = handle.to_client
      /\ s.h.pending_write = handle.pending_write /\ s.h.outboundMsgs = handle.outboundMsgs
      /\ s.h.connect = handle.connect /\ s.h.disconnect = handle.disconnect
      /\ s.h.responses = handle.responses
      /\ c \in Commands /\ Owned(app, c)
      /\ c.call # 0 =>
            /\ app.told[c.call] = <<>> /\ c.call # handle.pending_write
            /\ \A i \in 1..Len(s.h.commands) : s.h.commands[i].call # c.call
            /\ \A i \in 1..Len(handle.responses) :
                   handle.responses[i].call = c.call => handle.responses[i].type = "PUBLISH0"
  <2>. DEFINE b == Head(handle.commands)
  <2>1. c = b
    BY <1>1
  <2>2. /\ Inv(s, replied, tried) /\ NoConnect(s.h.commands)
        /\ s \in States /\ s.a = app /\ s.n = links
        /\ s.h.connected = handle.connected /\ s.h.connect_state = handle.connect_state
        /\ s.h.socket = handle.socket /\ s.h.writing = handle.writing
        /\ s.h.to_broker = handle.to_broker /\ s.h.to_client = handle.to_client
        /\ s.h.pending_write = handle.pending_write /\ s.h.outboundMsgs = handle.outboundMsgs
        /\ s.h.connect = handle.connect /\ s.h.disconnect = handle.disconnect
        /\ s.h.responses = handle.responses
    BY <1>1, HeadInv
  <2>3. b \in Commands /\ Owned(app, b)
    BY <1>1, HeadInv
  <2>4. b.call # 0 =>
          /\ app.told[b.call] = <<>> /\ b.call # handle.pending_write
          /\ \A i \in 1..Len(s.h.commands) : s.h.commands[i].call # b.call
          /\ \A i \in 1..Len(handle.responses) :
                 handle.responses[i].call = b.call => handle.responses[i].type = "PUBLISH0"
    BY <1>1, HeadInv
  <2>. HIDE DEF b, s
  <2>. QED
    BY <2>1, <2>2, <2>3, <2>4
<1>3. IsCall(app, c.type, c.call) /\ c.call # 0 /\ c.call \in APICall
  <2>1. IsCall(app, c.type, c.call)
    BY <1>1, <1>2, ConnectAssumption DEF Owned
  <2>2. c.call \in APICall
    BY <1>2, <2>1, CallsAreAPICalls
  <2>. QED
    BY <2>1, <2>2 DEF APICall
<1>. HIDE DEF s
<1>4. s.h \in Handles /\ s.h.outboundMsgs \in SUBSET APICall
  BY <1>2, StateFields
<1>5. k = s \/ (k = [s EXCEPT !.h.outboundMsgs = @ \cup {c.call}] /\ c.type = "PUBLISH1")
  BY DEF Kept, k
<1>6. [s EXCEPT !.h.outboundMsgs = @ \cup {c.call}] = [s EXCEPT !.h = [s.h EXCEPT !.outboundMsgs = @ \cup {c.call}]]
  BY <1>2 DEF States
<1>7. LET h == [s.h EXCEPT !.outboundMsgs = @ \cup {c.call}]
      IN h \in Handles /\ h = [s.h EXCEPT !.outboundMsgs = h.outboundMsgs]
         /\ h.outboundMsgs = s.h.outboundMsgs \cup {c.call}
  BY <1>3, <1>4 DEF Handles
<1>8. /\ k \in States /\ k.a = s.a /\ k.n = s.n /\ k.h \in Handles
      /\ k.h = [s.h EXCEPT !.outboundMsgs = k.h.outboundMsgs]
      /\ \/ k.h.outboundMsgs = s.h.outboundMsgs
         \/ k.h.outboundMsgs = s.h.outboundMsgs \cup {c.call} /\ c.type = "PUBLISH1"
  <2>1. CASE k = s
    BY <1>2, <1>4, <2>1 DEF Handles
  <2>2. CASE k = [s EXCEPT !.h.outboundMsgs = @ \cup {c.call}] /\ c.type = "PUBLISH1"
    BY <1>2, <1>6, <1>7, <2>2 DEF States
  <2>. QED
    BY <1>5, <2>1, <2>2
<1>9. /\ k.h.connected = s.h.connected /\ k.h.connect_state = s.h.connect_state
      /\ k.h.socket = s.h.socket /\ k.h.writing = s.h.writing /\ k.h.commands = s.h.commands
      /\ k.h.to_broker = s.h.to_broker /\ k.h.to_client = s.h.to_client
      /\ k.h.pending_write = s.h.pending_write /\ k.h.responses = s.h.responses
      /\ k.h.connect = s.h.connect /\ k.h.disconnect = s.h.disconnect
  BY <1>4, <1>8 DEF Handles
<1>10. Inv(k, replied, tried)
  <2>1. \A m \in k.h.outboundMsgs : IsCall(s.a, "PUBLISH1", m)
    BY <1>2, <1>3, <1>8 DEF Inv, OwnedInv, OthersOwned
  <2>2. \A i \in 1..Len(k.h.responses) :
          /\ k.h.responses[i].type \in Asks
          /\ IsCall(s.a, k.h.responses[i].type, k.h.responses[i].call)
          /\ k.h.responses[i].type # "PUBLISH0" =>
                /\ s.a.told[k.h.responses[i].call] = <<>>
                /\ \A j \in 1..Len(s.h.commands) : s.h.commands[j].call # k.h.responses[i].call
                /\ \A j \in 1..Len(k.h.responses) :
                       k.h.responses[j].call = k.h.responses[i].call => j = i
    <3>1. \A i \in 1..Len(s.h.responses) : s.h.responses[i].call # 0
      BY <1>2, StateFields DEF Inv, OwnedInv, QueuesOwned, IsCall
    <3>. QED
      BY <1>2, <1>9, <3>1, SMTT(30) DEF Inv, OwnedInv, QueuesOwned, OnceInv, ResponsesInv, CommandsInv
  <2>. QED
    BY <1>2, <1>8, <1>9, <2>1, <2>2, QueuesInv
<1>11. Free(k, c.call)
  BY <1>1, <1>2, <1>3, <1>9 DEF Free, Connecting
<1>. QED
  BY <1>1, <1>2, <1>3, <1>8, <1>9, <1>10, <1>11, ZenonT(40) DEF k, s

\* Its response is going to come
Answering(k, c) == [k EXCEPT !.h.responses = Append(@, c)]

LEMMA AnsweringInv ==
    ASSUME NEW k, NEW R, NEW T, Inv(k, R, T), NEW c \in Commands, c.type \in Asks, c.call # 0,
           IsCall(k.a, c.type, c.call), k.a.told[c.call] = <<>>, Free(k, c.call)
    PROVE  LET d == Answering(k, c)
           IN /\ Inv(d, R, T) /\ d \in States /\ d.a = k.a /\ d.n = k.n
              /\ d.h.connected = k.h.connected /\ d.h.connect_state = k.h.connect_state
              /\ d.h.socket = k.h.socket /\ d.h.writing = k.h.writing /\ d.h.commands = k.h.commands
              /\ d.h.to_broker = k.h.to_broker /\ d.h.to_client = k.h.to_client
              /\ d.h.pending_write = k.h.pending_write /\ d.h.outboundMsgs = k.h.outboundMsgs
              /\ d.h.connect = k.h.connect /\ d.h.disconnect = k.h.disconnect
<1>. DEFINE n == Len(k.h.responses) + 1
            q == Append(k.h.responses, c)
            d == Answering(k, c)
<1>1. k \in States /\ k.h.responses \in Seq(Commands)
  BY StateFields DEF Inv
<1>2. /\ q \in Seq(Commands) /\ q[n] = c
      /\ \A i \in 1..Len(q) : i # n => i \in 1..Len(k.h.responses) /\ q[i] = k.h.responses[i]
  BY <1>1
<1>. HIDE DEF n, q
<1>3. d = [k EXCEPT !.h.responses = q]
  BY <1>1 DEF Answering, q
<1>. HIDE DEF d
<1>4. /\ d \in States /\ d.a = k.a /\ d.n = k.n /\ d.h.responses = q
      /\ d.h.connected = k.h.connected /\ d.h.connect_state = k.h.connect_state
      /\ d.h.socket = k.h.socket /\ d.h.writing = k.h.writing /\ d.h.commands = k.h.commands
      /\ d.h.to_broker = k.h.to_broker /\ d.h.to_client = k.h.to_client
      /\ d.h.pending_write = k.h.pending_write /\ d.h.outboundMsgs = k.h.outboundMsgs
      /\ d.h.connect = k.h.connect /\ d.h.disconnect = k.h.disconnect
  BY <1>1, <1>2, <1>3, ButResponses
<1>5. \A i \in 1..Len(k.h.responses) :
          k.h.responses[i].type # "PUBLISH0" => k.h.responses[i].call # c.call
  BY DEF Free
<1>6. \A i \in 1..Len(k.h.responses) : k.h.responses[i].call = c.call => c.type = "PUBLISH0"
  BY <1>5 DEF Inv, OwnedInv, QueuesOwned, IsCall
<1>7. \A i \in 1..Len(k.h.responses) : k.h.responses[i].call # 0
  BY <1>1, StateFields DEF Inv, OwnedInv, QueuesOwned, IsCall
<1>8. ASSUME NEW i \in 1..Len(d.h.responses)
      PROVE  /\ d.h.responses[i].type \in Asks
             /\ IsCall(k.a, d.h.responses[i].type, d.h.responses[i].call)
             /\ d.h.responses[i].type # "PUBLISH0" =>
                   /\ k.a.told[d.h.responses[i].call] = <<>>
                   /\ \A j \in 1..Len(k.h.commands) : k.h.commands[j].call # d.h.responses[i].call
                   /\ \A j \in 1..Len(d.h.responses) :
                          d.h.responses[j].call = d.h.responses[i].call => j = i
  <2>1. CASE i = n
    BY <1>2, <1>4, <1>6, <2>1 DEF Free
  <2>2. CASE i # n
    <3>1. i \in 1..Len(k.h.responses) /\ d.h.responses[i] = k.h.responses[i]
      BY <1>2, <1>4, <2>2
    <3>2. /\ d.h.responses[i].type \in Asks
          /\ IsCall(k.a, d.h.responses[i].type, d.h.responses[i].call)
      BY <3>1 DEF Inv, OwnedInv, QueuesOwned
    <3>3. d.h.responses[i].type # "PUBLISH0" =>
             /\ k.a.told[d.h.responses[i].call] = <<>>
             /\ \A j \in 1..Len(k.h.commands) : k.h.commands[j].call # d.h.responses[i].call
      BY <1>7, <3>1 DEF Inv, OnceInv, ResponsesInv, CommandsInv
    <3>4. ASSUME d.h.responses[i].type # "PUBLISH0", NEW j \in 1..Len(d.h.responses),
                 d.h.responses[j].call = d.h.responses[i].call
          PROVE  j = i
      <4>1. CASE j = n
        BY <1>2, <1>4, <1>5, <3>1, <3>4, <4>1
      <4>2. CASE j # n
        <5>1. j \in 1..Len(k.h.responses) /\ d.h.responses[j] = k.h.responses[j]
          BY <1>2, <1>4, <4>2
        <5>. QED
          BY <3>1, <3>4, <5>1 DEF Inv, OnceInv, ResponsesInv
      <4>. QED
        BY <4>1, <4>2
    <3>. QED
      BY <3>2, <3>3, <3>4
  <2>. QED
    BY <2>1, <2>2
<1>9. \A m \in d.h.outboundMsgs : IsCall(k.a, "PUBLISH1", m)
  BY <1>4 DEF Inv, OwnedInv, OthersOwned
<1>10. Inv(d, R, T)
  BY <1>4, <1>8, <1>9, QueuesInv
<1>. QED
  BY <1>4, <1>10 DEF d

\* A packet of a request is written to a connection that is up
LEMMA WrittenInv ==
    ASSUME NEW s, NEW R, NEW T, Inv(s, R, T), s.h.connected, NEW c \in Commands, c.type \in Asks,
           IsCall(s.a, c.type, c.call), NEW d \in States, d.a = s.a,
           d.h.connected = s.h.connected, d.h.connect_state = s.h.connect_state,
           d.h.commands = s.h.commands, d.h.responses = s.h.responses,
           d.h.outboundMsgs = s.h.outboundMsgs, d.h.pending_write = s.h.pending_write,
           d.h.connect = s.h.connect, d.h.disconnect = s.h.disconnect,
           d.h.socket = s.h.socket, d.h.to_client = s.h.to_client,
           \/ d.h.to_broker = s.h.to_broker /\ d.h.writing = s.h.writing
           \/ /\ s.h.socket = "open"
              /\ \/ d.h.to_broker = Append(s.h.to_broker, c) /\ d.h.writing = s.h.writing
                 \/ d.h.to_broker = s.h.to_broker /\ d.h.writing = <<c>>
    PROVE  Inv(d, R, T)
<1>1. s \in States /\ s.h.to_broker \in Seq(Commands) /\ c.type \notin {"CONNECT", "DISCONNECT"}
  BY StateFields, ConnectAssumption DEF Inv
<1>2. \A i \in 1..Len(d.h.to_broker) :
         \/ i \in 1..Len(s.h.to_broker) /\ d.h.to_broker[i] = s.h.to_broker[i]
         \/ d.h.to_broker[i] = c
  <2>1. CASE d.h.to_broker = s.h.to_broker
    BY <2>1
  <2>2. CASE d.h.to_broker = Append(s.h.to_broker, c)
    BY <1>1, <2>2
  <2>. QED
    BY <2>1, <2>2
<1>3. \A i \in 1..Len(d.h.writing) :
         \/ i \in 1..Len(s.h.writing) /\ d.h.writing[i] = s.h.writing[i]
         \/ d.h.writing[i] = c
  <2>1. CASE d.h.writing = s.h.writing
    BY <2>1
  <2>2. CASE d.h.writing = <<c>>
    BY <2>2
  <2>. QED
    BY <2>1, <2>2
<1>4. PacketsOwned(d)
  <2>1. \A i \in 1..Len(d.h.to_broker) :
           /\ d.h.to_broker[i].type # "DISCONNECT"
           /\ IsCall(d.a, d.h.to_broker[i].type, d.h.to_broker[i].call)
    BY <1>1, <1>2 DEF Inv, OwnedInv, PacketsOwned
  <2>2. \A i \in 1..Len(d.h.writing) :
           d.h.writing[i].type \in Asks /\ IsCall(d.a, d.h.writing[i].type, d.h.writing[i].call)
    BY <1>3 DEF Inv, OwnedInv, PacketsOwned
  <2>. QED
    BY <2>1, <2>2 DEF Inv, OwnedInv, PacketsOwned
<1>5. StateInv(d.h)
  <2>1. d.h.socket \in {"closed", "opening"} =>
           d.h.writing = <<>> /\ d.h.to_broker = <<>> /\ d.h.to_client = <<>>
    BY DEF Inv, LinkInv, StateInv
  <2>. QED
    BY <2>1 DEF Inv, LinkInv, StateInv, SocketInv, InUse
<1>6. TokenInv(d.h)
  <2>1. NoConnect(s.h.to_broker) /\ NoConnect(s.h.to_client)
    BY DEF Inv, LinkInv, TokenInv, NoConnect
  <2>2. NoConnect(d.h.to_broker)
    BY <1>1, <1>2, <2>1 DEF NoConnect
  <2>. QED
    BY <2>1, <2>2 DEF TokenInv, NoConnect
<1>7. \A i \in 1..Len(d.h.to_client) : d.h.to_client[i].result \in R[d.h.to_client[i].call]
  BY DEF Inv, TrueInv
<1>8. /\ InUse(d.h) => InUse(s.h)
      /\ Connecting(d.h) => Connecting(s.h)
      /\ d.h.connect_state = -2 => s.h.connect_state = -2
      /\ \A k \in 1..Len(s.a.calls) : R[k] \subseteq R[k]
  BY DEF InUse, Connecting
<1>. QED
  BY <1>4, <1>5, <1>6, <1>7, <1>8, PacketsInv

\* What is left to show of a step that is taken while the client is connected,
\* and remains so
LEMMA StaysInv ==
    ASSUME ConnInv, ended = "no", handle.connected, NEW e, Inv(e, replied, tried),
           e.n = links, e.a.calls = app.calls, e.h.connected = handle.connected
    PROVE  e \in States /\ SocketInv(e.h) /\ Counted(e) /\ ReceivedInv(received, e, replied)
<1>1. e \in States /\ SocketInv(e.h)
  BY DEF Inv, LinkInv, StateInv
<1>2. Counted(e)
  BY BeforeInv DEF Counted
<1>3. ReceivedInv(received, e, replied)
  <2>1. received.type \in {"CONNECT", "SUBSCRIBE", "UNSUBSCRIBE"} => received.type # "CONNECT"
    BY BeforeInv DEF ReceivedInv
  <2>2. \A type, k : IsCall(app, type, k) => IsCall(e.a, type, k)
    BY DEF IsCall
  <2>. QED
    BY <2>1, <2>2, BeforeInv DEF ReceivedInv
<1>. QED
  BY <1>1, <1>2, <1>3

LEMMA RequestSentInv ==
    ASSUME ConnInv, ended = "no", options' = options, NEW c, RequestSent(c)
    PROVE  ConnInv'
<1>. DEFINE k == Kept(Taken, c)
            a == Answering(k, c)
            sent(x) == [x EXCEPT !.h.to_broker = IF handle.socket = "open" THEN Append(@, c) ELSE @]
            left == [a EXCEPT !.h.writing = <<c>>,
                              !.h.pending_write = IF c.type = "PUBLISH0" THEN c.call ELSE @]
<1>1. /\ NextRequest(c)
      /\ received' = received /\ replied' = replied /\ tried' = tried /\ astray' = astray
      /\ ended' = ended
      /\ \/ Becomes(sent(IF c.type = "PUBLISH0" THEN Called(k, c, "success") ELSE a))
         \/ handle.socket = "open" /\ Becomes(left)
  BY DEF RequestSent, Answering
<1>2. handle.connected
  BY <1>1 DEF NextRequest
<1>3. /\ Inv(k, replied, tried) /\ k \in States /\ k.a = app /\ k.n = links
      /\ k.h.connected = TRUE /\ k.h.connect_state = 0
      /\ k.h.socket = handle.socket /\ k.h.writing = <<>>
      /\ c \in Commands /\ c.type \in Asks /\ c.call # 0
      /\ IsCall(app, c.type, c.call) /\ app.told[c.call] = <<>> /\ Free(k, c.call)
  BY <1>1, RequestInv
<1>. HIDE DEF k
<1>4. /\ Inv(a, replied, tried) /\ a \in States /\ a.a = k.a /\ a.n = k.n
      /\ a.h.connected = k.h.connected /\ a.h.connect_state = k.h.connect_state
      /\ a.h.socket = k.h.socket /\ a.h.commands = k.h.commands
  BY <1>3, AnsweringInv
<1>. HIDE DEF a
<1>5. ASSUME NEW e, Inv(e, replied, tried), e.n = links, e.a.calls = app.calls,
             e.h.connected = handle.connected, Becomes(e)
      PROVE  ConnInv'
  BY <1>1, <1>2, <1>5, BeforeInv, StaysInv, StepInv
<1>6. ASSUME NEW x, Inv(x, replied, tried), x.n = links, x.a.calls = app.calls,
             x.h.connected = TRUE, x.h.socket = handle.socket
      PROVE  /\ Inv(sent(x), replied, tried) /\ sent(x).n = links /\ sent(x).a.calls = app.calls
             /\ sent(x).h.connected = TRUE
  <2>. DEFINE q == IF handle.socket = "open" THEN Append(x.h.to_broker, c) ELSE x.h.to_broker
              h == [x.h EXCEPT !.to_broker = q]
              e == [x EXCEPT !.h = h]
  <2>1. x \in States /\ x.h \in Handles /\ x.h.to_broker \in Seq(Commands)
    BY <1>6, StateFields DEF Inv
  <2>2. q \in Seq(Commands)
    BY <1>3, <2>1
  <2>3. sent(x) = e
    BY <2>1 DEF States
  <2>4. q = x.h.to_broker \/ (x.h.socket = "open" /\ q = Append(x.h.to_broker, c))
    BY <1>6
  <2>. HIDE DEF q
  <2>5. /\ h \in Handles /\ h.connected = x.h.connected /\ h.connect_state = x.h.connect_state
        /\ h.commands = x.h.commands /\ h.responses = x.h.responses
        /\ h.outboundMsgs = x.h.outboundMsgs /\ h.pending_write = x.h.pending_write
        /\ h.connect = x.h.connect /\ h.disconnect = x.h.disconnect
        /\ h.socket = x.h.socket /\ h.to_client = x.h.to_client
        /\ h.writing = x.h.writing /\ h.to_broker = q
    BY <2>1, <2>2 DEF Handles
  <2>. HIDE DEF h, sent
  <2>6. e \in States /\ e.h = h /\ e.a = x.a /\ e.n = x.n
    BY <2>1, <2>5 DEF States
  <2>. HIDE DEF e
  <2>7. IsCall(x.a, c.type, c.call)
    BY <1>3, <1>6 DEF IsCall
  <2>8. Inv(e, replied, tried)
    BY <1>3, <1>6, <2>4, <2>5, <2>6, <2>7, WrittenInv
  <2>. QED
    BY <1>6, <2>3, <2>5, <2>6, <2>8
<1>7. CASE c.type = "PUBLISH0" /\ Becomes(sent(Called(k, c, "success")))
  <2>. DEFINE x == Called(k, c, "success")
  <2>1. "success" \in Results
    BY DEF Results
  <2>2. Inv(x, replied, tried) /\ x.h = k.h /\ x.n = k.n /\ x.a.calls = k.a.calls
    BY <1>3, <1>7, <2>1, CalledInv
  <2>. HIDE DEF x
  <2>3. /\ Inv(sent(x), replied, tried) /\ sent(x).n = links /\ sent(x).a.calls = app.calls
        /\ sent(x).h.connected = TRUE
    BY <1>3, <1>6, <2>2
  <2>4. Becomes(sent(x))
    BY <1>7 DEF x
  <2>. HIDE DEF sent
  <2>. QED
    BY <1>2, <1>5, <2>3, <2>4, BeforeInv, StateFields DEF Handles
<1>8. CASE c.type # "PUBLISH0" /\ Becomes(sent(a))
  <2>1. /\ Inv(sent(a), replied, tried) /\ sent(a).n = links /\ sent(a).a.calls = app.calls
        /\ sent(a).h.connected = TRUE
    BY <1>3, <1>4, <1>6
  <2>2. Becomes(sent(a))
    BY <1>8
  <2>. HIDE DEF sent
  <2>. QED
    BY <1>2, <1>5, <2>1, <2>2, BeforeInv, StateFields DEF Handles
<1>9. CASE handle.socket = "open" /\ Becomes(left)
  <2>. DEFINE p == IF c.type = "PUBLISH0" THEN c.call ELSE a.h.pending_write
              g == [a.h EXCEPT !.pending_write = p]
              b == [a EXCEPT !.h = g]
              h == [g EXCEPT !.writing = <<c>>]
              e == [a EXCEPT !.h = h]
  <2>1. a.h \in Handles /\ c.call \in 0..MaxAPICalls /\ <<c>> \in Seq(Commands)
    BY <1>3, <1>4, StateFields DEF Commands
  <2>2. p \in 0..MaxAPICalls /\ (p = a.h.pending_write \/ (p = c.call /\ c.type = "PUBLISH0"))
    BY <2>1 DEF Handles
  <2>3. left = e
    BY <1>4, <2>1 DEF States, Handles
  <2>. HIDE DEF p, left
  <2>4. /\ g \in Handles /\ g.connected = a.h.connected /\ g.connect_state = a.h.connect_state
        /\ g.commands = a.h.commands /\ g.responses = a.h.responses
        /\ g.outboundMsgs = a.h.outboundMsgs /\ g.pending_write = p
        /\ g.connect = a.h.connect /\ g.disconnect = a.h.disconnect
        /\ g.socket = a.h.socket /\ g.to_client = a.h.to_client
        /\ g.writing = a.h.writing /\ g.to_broker = a.h.to_broker
    BY <2>1, <2>2 DEF Handles
  <2>. HIDE DEF g
  <2>5. /\ h \in Handles /\ h.connected = g.connected /\ h.connect_state = g.connect_state
        /\ h.commands = g.commands /\ h.responses = g.responses
        /\ h.outboundMsgs = g.outboundMsgs /\ h.pending_write = g.pending_write
        /\ h.connect = g.connect /\ h.disconnect = g.disconnect
        /\ h.socket = g.socket /\ h.to_client = g.to_client
        /\ h.writing = <<c>> /\ h.to_broker = g.to_broker
    BY <2>1, <2>4 DEF Handles
  <2>. HIDE DEF h
  <2>6. /\ b \in States /\ b.h = g /\ b.a = a.a /\ b.n = a.n
        /\ e \in States /\ e.h = h /\ e.a = a.a /\ e.n = a.n
    BY <1>4, <2>4, <2>5 DEF States
  <2>. HIDE DEF b, e
  <2>7. Inv(b, replied, tried)
    <3>1. \A m \in b.h.outboundMsgs : IsCall(a.a, "PUBLISH1", m)
      BY <1>4, <2>4, <2>6 DEF Inv, OwnedInv, OthersOwned
    <3>2. \A i \in 1..Len(b.h.responses) :
            /\ b.h.responses[i].type \in Asks
            /\ IsCall(a.a, b.h.responses[i].type, b.h.responses[i].call)
            /\ b.h.responses[i].type # "PUBLISH0" =>
                  /\ a.a.told[b.h.responses[i].call] = <<>>
                  /\ \A j \in 1..Len(a.h.commands) : a.h.commands[j].call # b.h.responses[i].call
                  /\ \A j \in 1..Len(b.h.responses) :
                         b.h.responses[j].call = b.h.responses[i].call => j = i
      <4>1. \A i \in 1..Len(a.h.responses) : a.h.responses[i].call # 0
        BY <1>4, StateFields DEF Inv, OwnedInv, QueuesOwned, IsCall
      <4>2. b.h.responses = a.h.responses
        BY <2>4, <2>6
      <4>3. QueuesOwned(a) /\ ResponsesInv(a) /\ CommandsInv(a)
        BY <1>4 DEF Inv, OwnedInv, OnceInv
      <4>4. \A i \in 1..Len(a.h.responses) : \A j \in 1..Len(a.h.commands) :
               a.h.responses[i].type # "PUBLISH0" => a.h.commands[j].call # a.h.responses[i].call
        BY <4>1, <4>3 DEF CommandsInv
      <4>. QED
        BY <4>2, <4>3, <4>4 DEF QueuesOwned, ResponsesInv
    <3>3. b.h.pending_write \notin {0, a.h.pending_write} =>
            /\ IsCall(a.a, "PUBLISH0", b.h.pending_write)
            /\ a.a.told[b.h.pending_write] = <<>>
            /\ \A i \in 1..Len(a.h.commands) : a.h.commands[i].call # b.h.pending_write
      BY <1>3, <1>4, <2>2, <2>4, <2>6 DEF Free
    <3>. QED
      BY <1>4, <2>4, <2>6, <3>1, <3>2, <3>3, QueuesInv
  <2>8. IsCall(b.a, c.type, c.call) /\ b.h.connected = TRUE /\ b.h.socket = "open"
    BY <1>3, <1>4, <1>9, <2>4, <2>6
  <2>9. Inv(e, replied, tried)
    BY <1>3, <2>4, <2>5, <2>6, <2>7, <2>8, WrittenInv
  <2>10. Becomes(e)
    BY <1>9, <2>3
  <2>11. e.n = links /\ e.a.calls = app.calls /\ e.h.connected = handle.connected
    <3>1. handle.connected \in BOOLEAN
      BY BeforeInv, StateFields DEF Handles
    <3>. QED
      BY <1>2, <1>3, <1>4, <2>4, <2>5, <2>6, <3>1
  <2>. QED
    BY <1>5, <2>9, <2>10, <2>11
<1>. QED
  BY <1>1, <1>7, <1>8, <1>9

LEMMA RequestFailsInv ==
    ASSUME ConnInv, ended = "no", options' = options, NEW c, RequestFails(c)
    PROVE  ConnInv'
<1>. DEFINE k == Kept(Taken, c)
            b == [k EXCEPT !.h.pending_write = c.call]
            x == disconnectInternal(k)
            y == Called(x, c, "failure")
<1>1. /\ NextRequest(c)
      /\ received' = received /\ replied' = replied /\ tried' = tried /\ astray' = astray
      /\ ended' = ended
      /\ \/ c.type = "PUBLISH0" /\ Becomes(b)
         \/ Becomes(y)
  BY DEF RequestFails
<1>2. handle.connected
  BY <1>1 DEF NextRequest
<1>3. /\ Inv(k, replied, tried) /\ k \in States /\ k.a = app /\ k.n = links
      /\ k.h.connected = TRUE /\ k.h.connect_state = 0
      /\ c \in Commands /\ c.type \in Asks /\ c.call # 0
      /\ IsCall(app, c.type, c.call) /\ app.told[c.call] = <<>> /\ Free(k, c.call)
  BY <1>1, RequestInv
<1>. HIDE DEF k
<1>4. ASSUME NEW e, Inv(e, replied, tried), e.n = links, e.a.calls = app.calls,
             e.h.connected = TRUE, Becomes(e)
      PROVE  ConnInv'
  <2>1. handle.connected \in BOOLEAN
    BY BeforeInv, StateFields DEF Handles
  <2>2. e.h.connected = handle.connected
    BY <1>2, <1>4, <2>1
  <2>. QED
    BY <1>1, <1>2, <1>4, <2>2, BeforeInv, StaysInv, StepInv
<1>5. CASE c.type = "PUBLISH0" /\ Becomes(b)
  <2>. DEFINE g == [k.h EXCEPT !.pending_write = c.call]
  <2>1. k.h \in Handles /\ c.call \in 0..MaxAPICalls
    BY <1>3, StateFields DEF Commands
  <2>2. b = [k EXCEPT !.h = g]
    BY <1>3, <2>1 DEF States, Handles
  <2>. HIDE DEF b
  <2>3. /\ g \in Handles /\ g.connected = k.h.connected /\ g.connect_state = k.h.connect_state
        /\ g.commands = k.h.commands /\ g.responses = k.h.responses
        /\ g.outboundMsgs = k.h.outboundMsgs /\ g.pending_write = c.call
        /\ g.connect = k.h.connect /\ g.disconnect = k.h.disconnect
        /\ g.socket = k.h.socket /\ g.to_client = k.h.to_client
        /\ g.writing = k.h.writing /\ g.to_broker = k.h.to_broker
    BY <2>1 DEF Handles
  <2>. HIDE DEF g
  <2>4. b \in States /\ b.h = g /\ b.a = k.a /\ b.n = k.n
    BY <1>3, <2>2, <2>3 DEF States
  <2>5. \A m \in b.h.outboundMsgs : IsCall(k.a, "PUBLISH1", m)
    BY <1>3, <2>3, <2>4 DEF Inv, OwnedInv, OthersOwned
  <2>6. \A i \in 1..Len(b.h.responses) :
          /\ b.h.responses[i].type \in Asks
          /\ IsCall(k.a, b.h.responses[i].type, b.h.responses[i].call)
          /\ b.h.responses[i].type # "PUBLISH0" =>
                /\ k.a.told[b.h.responses[i].call] = <<>>
                /\ \A j \in 1..Len(k.h.commands) : k.h.commands[j].call # b.h.responses[i].call
                /\ \A j \in 1..Len(b.h.responses) :
                       b.h.responses[j].call = b.h.responses[i].call => j = i
    <3>1. \A i \in 1..Len(k.h.responses) : k.h.responses[i].call # 0
      BY <1>3, StateFields DEF Inv, OwnedInv, QueuesOwned, IsCall
    <3>2. b.h.responses = k.h.responses
      BY <2>3, <2>4
    <3>3. QueuesOwned(k) /\ ResponsesInv(k) /\ CommandsInv(k)
      BY <1>3 DEF Inv, OwnedInv, OnceInv
    <3>4. \A i \in 1..Len(k.h.responses) : \A j \in 1..Len(k.h.commands) :
             k.h.responses[i].type # "PUBLISH0" => k.h.commands[j].call # k.h.responses[i].call
      BY <3>1, <3>3 DEF CommandsInv
    <3>. QED
      BY <3>2, <3>3, <3>4 DEF QueuesOwned, ResponsesInv
  <2>7. /\ IsCall(k.a, "PUBLISH0", b.h.pending_write) /\ k.a.told[b.h.pending_write] = <<>>
        /\ \A i \in 1..Len(k.h.commands) : k.h.commands[i].call # b.h.pending_write
    BY <1>3, <1>5, <2>3, <2>4 DEF Free
  <2>8. Inv(b, replied, tried)
    BY <1>3, <2>3, <2>4, <2>5, <2>6, <2>7, QueuesInv
  <2>. QED
    BY <1>3, <1>4, <1>5, <2>3, <2>4, <2>8
<1>6. CASE Becomes(y)
  <2>1. /\ Inv(x, replied, tried)
        /\ x.n = k.n /\ x.a = k.a /\ x.h.connected = k.h.connected
        /\ x.h.connect_state = k.h.connect_state /\ x.h.connect = k.h.connect
        /\ x.h.responses = k.h.responses /\ x.h.pending_write = k.h.pending_write
        /\ x.h.disconnect = k.h.disconnect
        /\ \A i \in 1..Len(x.h.commands) :
               \/ x.h.commands[i].call = 0
               \/ \E j \in 1..Len(k.h.commands) : k.h.commands[j] = x.h.commands[i]
    BY <1>3, InternalInv
  <2>. HIDE DEF x
  <2>2. Free(x, c.call)
    BY <1>3, <2>1 DEF Free, Connecting
  <2>3. "failure" \in Results /\ "failure" # "success" /\ c.type \notin {"CONNECT", "DISCONNECT"}
    BY <1>3, ConnectAssumption DEF Results
  <2>4. Inv(y, replied, tried) /\ y.h = x.h /\ y.n = x.n /\ y.a.calls = x.a.calls
    BY <1>3, <2>1, <2>2, <2>3, CalledInv
  <2>5. Becomes(y)
    BY <1>6
  <2>. HIDE DEF y
  <2>. QED
    BY <1>3, <1>4, <2>1, <2>4, <2>5
<1>. QED
  BY <1>1, <1>5, <1>6

-----------------------------------------------------------------------------
(* Attempts that fail.                                                     *)

LEMMA CalledTypes ==
    ASSUME NEW s \in States, NEW c \in Commands, NEW result \in Results
    PROVE  Called(s, c, result) \in States /\ Called(s, c, result).h = s.h
<1>1. CASE c.call \in APICall
  BY <1>1, CalledFields
<1>2. CASE c.call \notin APICall
  <2>. DEFINE is == IF c.type = "CONNECT" THEN IF result = "success" THEN "on" ELSE "off"
                    ELSE IF c.type = "DISCONNECT" THEN "off" ELSE s.a.is
              told == [s.a.told EXCEPT ![c.call] = Append(@, result)]
              a == [s.a EXCEPT !.told = told, !.is = is]
  <2>1. s.a \in Apps /\ s.a.told \in [APICall -> Seq(Results)]
    BY StateFields
  <2>2. told = s.a.told
    BY <1>2, <2>1
  <2>3. is \in {"off", "connecting", "on", "leaving", "done"}
    BY <2>1 DEF Apps
  <2>4. Called(s, c, result) = [s EXCEPT !.a = a]
    BY <2>1 DEF Called, States, Apps
  <2>. HIDE DEF told, is
  <2>5. a \in Apps
    BY <2>1, <2>2, <2>3 DEF Apps
  <2>. HIDE DEF a
  <2>. QED
    BY <2>4, <2>5 DEF States
<1>. QED
  BY <1>1, <1>2

\* The types, also where the connect had been done
LEMMA NextAttemptTypes ==
    ASSUME NEW s \in States
    PROVE  NextAttempt(s) \in States /\ SocketInv(NextAttempt(s).h)
<1>. DEFINE d == closeOnly(s)
            e == closeSession(s)
            c == s.h.connect
<1>1. c \in Commands
  BY StateFields
<1>2. /\ d \in States /\ d.h.connected = FALSE /\ d.h.connect_state = 0 /\ d.h.socket = "closed"
  BY CloseFields
<1>3. /\ e \in States /\ e.h.connected = FALSE /\ e.h.connect_state = 0 /\ e.h.socket = "closed"
  BY <1>2, CleanFields DEF closeSession
<1>. HIDE DEF c, d, e
<1>4. CASE checkConn(c)
  <2>. DEFINE f == addCommand(d, c)
  <2>1. NextAttempt(s) = f
    BY <1>4 DEF NextAttempt, c, d
  <2>2. f \in States /\ f = [d EXCEPT !.h.commands = f.h.commands]
    BY <1>1, <1>2, AddFields
  <2>3. f.h.commands \in Seq(Commands)
    BY <2>2, StateFields
  <2>. HIDE DEF f
  <2>4. /\ f.h.connected = d.h.connected /\ f.h.connect_state = d.h.connect_state
        /\ f.h.socket = d.h.socket
    <3>. DEFINE q == f.h.commands
    <3>1. q \in Seq(Commands) /\ f = [d EXCEPT !.h.commands = q]
      BY <2>2, <2>3
    <3>. HIDE DEF q
    <3>. QED
      BY <1>2, <3>1, ButCommands
  <2>. QED
    BY <1>2, <2>1, <2>2, <2>4 DEF SocketInv, InUse
<1>5. CASE ~checkConn(c)
  <2>1. NextAttempt(s) = Called(e, c, "failure")
    BY <1>5 DEF NextAttempt, c, e
  <2>2. Called(e, c, "failure") \in States /\ Called(e, c, "failure").h = e.h
    BY <1>1, <1>3, CalledTypes DEF Results
  <2>. QED
    BY <1>3, <2>1, <2>2 DEF SocketInv, InUse
<1>. QED
  BY <1>4, <1>5

\* What is known after an attempt that has failed
LEMMA AttemptFails ==
    ASSUME ConnInv, ended = "no", Connecting(handle)
    PROVE  LET e == NextAttempt(State)
           IN /\ e \in States /\ SocketInv(e.h) /\ Inv(e, replied, tried) /\ Counted(e)
              /\ ReceivedInv(received, e, replied)
<1>. DEFINE e == NextAttempt(State)
<1>1. Inv(e, replied, tried) /\ e.n = links /\ ~InUse(e.h) /\ e.a.calls = app.calls
  BY BeforeInv, NextAttemptInv
<1>. HIDE DEF e
<1>2. e \in States /\ StateInv(e.h) /\ SocketInv(e.h)
  BY <1>1 DEF Inv, LinkInv, StateInv
<1>3. Counted(e)
  BY <1>1, BeforeInv DEF Counted, InUse, Connecting
<1>4. ReceivedInv(received, e, replied)
  BY <1>1, <1>2, BeforeInv, ReceivedStays
<1>. QED
  BY <1>1, <1>2, <1>3, <1>4 DEF e

LEMMA ConnectTimesOutInv ==
    ASSUME ConnInv, ended = "no", options' = options, ConnectTimesOut
    PROVE  ConnInv'
<1>. DEFINE e == NextAttempt(State)
<1>1. /\ handle.connect_state # 0 /\ Becomes(e)
      /\ received' = received /\ replied' = replied /\ tried' = tried /\ astray' = astray
      /\ IF handle.connect_state = -2 THEN ended' = "undone" ELSE ended' = ended
  BY DEF ConnectTimesOut
<1>2. e \in States /\ SocketInv(e.h)
  BY BeforeInv, NextAttemptTypes
<1>3. CASE handle.connect_state = -2
  <2>1. ended' \in {"no"} \cup Endings /\ ended' # "no"
    BY <1>1, <1>3 DEF Endings
  <2>. HIDE DEF e
  <2>. QED
    BY <1>1, <1>2, <2>1, BeforeInv, StepInv
<1>4. CASE handle.connect_state # -2
  <2>1. Connecting(handle)
    BY <1>1, <1>4, BeforeInv DEF Inv, LinkInv, StateInv, Connecting
  <2>2. Inv(e, replied, tried) /\ Counted(e) /\ ReceivedInv(received, e, replied)
    BY <2>1, AttemptFails
  <2>. HIDE DEF e
  <2>. QED
    BY <1>1, <1>2, <1>4, <2>2, BeforeInv, StepInv
<1>. QED
  BY <1>3, <1>4

LEMMA TcpFailsInv ==
    ASSUME ConnInv, ended = "no", options' = options, TcpFails
    PROVE  ConnInv'
<1>. DEFINE e == NextAttempt(State)
<1>1. /\ handle.connect_state = 1 /\ Becomes(e) /\ received' \in {IdlePack, ErrorPack}
      /\ replied' = replied /\ tried' = tried /\ astray' = astray /\ ended' = ended
  BY DEF TcpFails
<1>2. Connecting(handle)
  BY <1>1, BeforeInv DEF Inv, LinkInv, StateInv, Connecting
<1>3. e \in States /\ SocketInv(e.h) /\ Inv(e, replied, tried) /\ Counted(e)
  BY <1>2, AttemptFails
<1>. HIDE DEF e
<1>4. ReceivedInv(received', e, replied)
  BY <1>1 DEF ReceivedInv, IdlePack, ErrorPack
<1>. QED
  BY <1>1, <1>3, <1>4, BeforeInv, StepInv

LEMMA CycleFailsInv ==
    ASSUME ConnInv, ended = "no", options' = options, CycleFails
    PROVE  ConnInv'
<1>. DEFINE e == IF handle.connect_state = 3 THEN NextAttempt(State) ELSE State
<1>1. /\ Becomes(e) /\ received' = ErrorPack
      /\ replied' = replied /\ tried' = tried /\ astray' = astray /\ ended' = ended
  BY DEF CycleFails
<1>2. e \in States /\ SocketInv(e.h) /\ Inv(e, replied, tried) /\ Counted(e)
  <2>1. CASE handle.connect_state = 3
    <3>1. Connecting(handle)
      BY <2>1, BeforeInv DEF Inv, LinkInv, StateInv, Connecting
    <3>. QED
      BY <2>1, <3>1, AttemptFails
  <2>2. CASE handle.connect_state # 3
    BY <2>2, BeforeInv DEF Inv, LinkInv, StateInv
  <2>. QED
    BY <2>1, <2>2
<1>. HIDE DEF e
<1>3. ReceivedInv(received', e, replied)
  BY <1>1 DEF ReceivedInv, ErrorPack
<1>. QED
  BY <1>1, <1>2, <1>3, BeforeInv, StepInv

-----------------------------------------------------------------------------
(* The receive thread.                                                     *)

\* The state with another handle
LEMMA WithHandle ==
    ASSUME NEW s \in States, NEW h \in Handles
    PROVE  LET d == [s EXCEPT !.h = h]
           IN d \in States /\ d.h = h /\ d.a = s.a /\ d.n = s.n
  BY DEF States

\* What is left to show of a step that only changes the connection
LEMMA LinkStep ==
    ASSUME ConnInv, ended = "no", NEW h \in Handles, NEW U,
           h.commands = handle.commands, h.responses = handle.responses,
           h.outboundMsgs = handle.outboundMsgs, h.pending_write = handle.pending_write,
           h.connect = handle.connect, h.disconnect = handle.disconnect,
           StateInv(h), TokenInv(h), h.connected = handle.connected,
           InUse(h) => InUse(handle),
           h.connect_state = -2 => handle.connect_state = -2,
           Connecting(h) => Connecting(handle),
           \A k \in 1..Len(app.calls) : replied[k] \subseteq U[k],
           \A i \in 1..Len(h.writing) :
              h.writing[i].type \in Asks /\ IsCall(app, h.writing[i].type, h.writing[i].call),
           \A i \in 1..Len(h.to_broker) :
              /\ h.to_broker[i].type # "DISCONNECT"
              /\ IsCall(app, h.to_broker[i].type, h.to_broker[i].call),
           \A i \in 1..Len(h.to_client) :
              /\ h.to_client[i].type \notin {"DISCONNECT", "PUBLISH0"}
              /\ IsCall(app, h.to_client[i].type, h.to_client[i].call)
              /\ h.to_client[i].type = "PUBLISH1" => h.to_client[i].result = "success"
              /\ h.to_client[i].result \in U[h.to_client[i].call]
    PROVE  LET d == [State EXCEPT !.h = h]
           IN /\ Inv(d, U, tried) /\ Counted(d) /\ SocketInv(d.h)
              /\ d \in States /\ d.h = h /\ d.a = app /\ d.n = links
<1>. DEFINE d == [State EXCEPT !.h = h]
<1>1. /\ Inv(State, replied, tried) /\ Counted(State) /\ State \in States
      /\ State.h = handle /\ State.a = app /\ State.n = links
  BY BeforeInv
<1>2. d \in States /\ d.h = h /\ d.a = app /\ d.n = links
  BY <1>1, WithHandle
<1>. HIDE DEF d
<1>3. PacketsOwned(d)
  BY <1>2 DEF PacketsOwned
<1>4. \A i \in 1..Len(d.h.to_client) : d.h.to_client[i].result \in U[d.h.to_client[i].call]
  BY <1>2
<1>5. Inv(d, U, tried)
  BY <1>1, <1>2, <1>3, <1>4, PacketsInv
<1>6. Counted(d) /\ SocketInv(d.h)
  BY <1>1, <1>2 DEF Counted, StateInv
<1>. QED
  BY <1>2, <1>5, <1>6 DEF d

\* What is known of the packets
LEMMA PacketsBefore ==
    ASSUME ConnInv, ended = "no"
    PROVE  /\ handle \in Handles /\ handle.to_broker \in Seq(Commands)
           /\ handle.to_client \in Seq(Answers) /\ handle.writing \in Seq(Commands)
           /\ StateInv(handle) /\ TokenInv(handle)
           /\ \A k \in 1..Len(app.calls) : replied[k] \subseteq replied[k]
           /\ \A i \in 1..Len(handle.writing) :
                 /\ handle.writing[i].type \in Asks
                 /\ IsCall(app, handle.writing[i].type, handle.writing[i].call)
           /\ \A i \in 1..Len(handle.to_broker) :
                 /\ handle.to_broker[i].type # "DISCONNECT"
                 /\ IsCall(app, handle.to_broker[i].type, handle.to_broker[i].call)
           /\ \A i \in 1..Len(handle.to_client) :
                 /\ handle.to_client[i].type \notin {"DISCONNECT", "PUBLISH0"}
                 /\ IsCall(app, handle.to_client[i].type, handle.to_client[i].call)
                 /\ handle.to_client[i].type = "PUBLISH1" => handle.to_client[i].result = "success"
                 /\ handle.to_client[i].result \in replied[handle.to_client[i].call]
<1>1. /\ Inv(State, replied, tried) /\ State \in States /\ State.h = handle /\ State.a = app
  BY BeforeInv
<1>2. /\ handle \in Handles /\ handle.to_broker \in Seq(Commands)
      /\ handle.to_client \in Seq(Answers) /\ handle.writing \in Seq(Commands)
  BY <1>1, StateFields
<1>3. StateInv(handle) /\ TokenInv(handle)
  BY <1>1 DEF Inv, LinkInv
<1>4. PacketsOwned(State) /\ TrueInv(State, replied)
  BY <1>1 DEF Inv, OwnedInv
<1>5. /\ \A i \in 1..Len(handle.writing) :
            /\ handle.writing[i].type \in Asks
            /\ IsCall(app, handle.writing[i].type, handle.writing[i].call)
      /\ \A i \in 1..Len(handle.to_broker) :
            /\ handle.to_broker[i].type # "DISCONNECT"
            /\ IsCall(app, handle.to_broker[i].type, handle.to_broker[i].call)
  BY <1>1, <1>4 DEF PacketsOwned
<1>6. \A i \in 1..Len(handle.to_client) :
            /\ handle.to_client[i].type \notin {"DISCONNECT", "PUBLISH0"}
            /\ IsCall(app, handle.to_client[i].type, handle.to_client[i].call)
            /\ handle.to_client[i].type = "PUBLISH1" => handle.to_client[i].result = "success"
  BY <1>1, <1>4 DEF PacketsOwned
<1>7. \A i \in 1..Len(handle.to_client) :
            handle.to_client[i].result \in replied[handle.to_client[i].call]
  BY <1>1, <1>4 DEF TrueInv
<1>8. \A k \in 1..Len(app.calls) : replied[k] \subseteq replied[k]
  OBVIOUS
<1>. QED
  BY <1>2, <1>3, <1>5, <1>6, <1>7, <1>8

LEMMA IdleInv ==
    ASSUME NEW s, NEW R
    PROVE  ReceivedInv(IdlePack, s, R) /\ ReceivedInv(ErrorPack, s, R)
  BY DEF ReceivedInv, IdlePack, ErrorPack

LEMMA TcpDoneInv ==
    ASSUME ConnInv, ended = "no", options' = options, TcpDone
    PROVE  ConnInv'
<1>. DEFINE h == [handle EXCEPT !.connect_state = 3, !.socket = "open",
                                !.to_broker = <<handle.connect>>]
            e == [State EXCEPT !.h = h]
<1>1. /\ handle.connect_state = 1 /\ received = IdlePack
      /\ received' = received /\ replied' = replied /\ tried' = tried /\ astray' = astray
      /\ ended' = ended
  BY DEF TcpDone, AtCycle
<1>2. /\ Inv(State, replied, tried) /\ State \in States /\ State.h = handle /\ State.a = app
  BY BeforeInv
<1>3. Becomes(e)
  BY <1>2 DEF TcpDone, Becomes, States
<1>4. handle \in Handles /\ <<handle.connect>> \in Seq(Commands)
  BY <1>2, StateFields
<1>5. /\ h \in Handles /\ h.connected = handle.connected /\ h.connect_state = 3
      /\ h.socket = "open" /\ h.to_broker = <<handle.connect>>
      /\ h.commands = handle.commands /\ h.responses = handle.responses
      /\ h.outboundMsgs = handle.outboundMsgs /\ h.pending_write = handle.pending_write
      /\ h.connect = handle.connect /\ h.disconnect = handle.disconnect
      /\ h.writing = handle.writing /\ h.to_client = handle.to_client
  BY <1>4 DEF Handles
<1>. HIDE DEF h
<1>6. /\ ~handle.connected /\ handle.writing = <<>> /\ handle.to_client = <<>>
      /\ Connecting(handle) /\ InUse(handle)
  BY <1>1, <1>2 DEF Inv, LinkInv, StateInv, Connecting, InUse
<1>7. handle.connect.type = "CONNECT" /\ IsCall(app, "CONNECT", handle.connect.call)
  BY <1>2, <1>6 DEF Inv, LinkInv, ConnectInv, LastConnect
<1>8. StateInv(h)
  BY <1>5, <1>6 DEF StateInv, SocketInv, InUse
<1>9. TokenInv(h)
  BY <1>5, <1>6 DEF TokenInv, NoConnect
<1>10. \A k \in 1..Len(app.calls) : replied[k] \subseteq replied[k]
  OBVIOUS
<1>11. /\ Inv(e, replied, tried) /\ Counted(e) /\ SocketInv(e.h) /\ e \in States
  BY <1>5, <1>6, <1>7, <1>8, <1>9, <1>10, LinkStep
<1>. HIDE DEF e
<1>. QED
  BY <1>1, <1>3, <1>11, BeforeInv, IdleInv, StepInv

\* The first answer is taken from the connection
LEMMA ArrivedInv ==
    ASSUME ConnInv, ended = "no", Arriving
    PROVE  LET e == Arrived
           IN /\ Inv(e, replied, tried) /\ Counted(e) /\ SocketInv(e.h)
              /\ e \in States /\ e.a = app /\ e.n = links
              /\ e.h = [handle EXCEPT !.to_client = Tail(handle.to_client)]
              /\ ReceivedInv(Head(handle.to_client), e, replied)
              /\ Head(handle.to_client) = handle.to_client[1] /\ 1 \in 1..Len(handle.to_client)
              /\ Head(handle.to_client) \in Answers
<1>. DEFINE q == Tail(handle.to_client)
            h == [handle EXCEPT !.to_client = q]
            e == [State EXCEPT !.h = h]
            p == Head(handle.to_client)
<1>1. handle.socket = "open" /\ handle.connect_state # 1 /\ handle.to_client # <<>>
  BY DEF Arriving
<1>2. /\ State \in States /\ State.h = handle /\ State.a = app
  BY BeforeInv
<1>3. /\ handle \in Handles /\ handle.to_client \in Seq(Answers)
      /\ StateInv(handle) /\ TokenInv(handle)
  BY PacketsBefore
<1>4. Arrived = e
  BY <1>2 DEF Arrived, States
<1>5. /\ q \in Seq(Answers) /\ p = handle.to_client[1] /\ 1 \in 1..Len(handle.to_client)
      /\ \A i \in 1..Len(q) :
            i + 1 \in 1..Len(handle.to_client) /\ q[i] = handle.to_client[i + 1] /\ i + 1 # 1
      /\ p \in Answers
  BY <1>1, <1>3, TailProps
<1>. HIDE DEF q, p
<1>6. /\ h \in Handles /\ h.connected = handle.connected
      /\ h.connect_state = handle.connect_state
      /\ h.socket = handle.socket /\ h.to_broker = handle.to_broker
      /\ h.commands = handle.commands /\ h.responses = handle.responses
      /\ h.outboundMsgs = handle.outboundMsgs /\ h.pending_write = handle.pending_write
      /\ h.connect = handle.connect /\ h.disconnect = handle.disconnect
      /\ h.writing = handle.writing /\ h.to_client = q
  BY <1>3, <1>5 DEF Handles
<1>7. h = [handle EXCEPT !.to_client = q]
  OBVIOUS
<1>. HIDE DEF h
<1>8. StateInv(h)
  BY <1>1, <1>3, <1>6 DEF StateInv, SocketInv, InUse
<1>9. TokenInv(h)
  <2>1. \A i, j \in 1..Len(q) : q[i].type = "CONNECT" /\ q[j].type = "CONNECT" => i = j
    <3>. SUFFICES ASSUME NEW i \in 1..Len(q), NEW j \in 1..Len(q),
                         q[i].type = "CONNECT", q[j].type = "CONNECT"
                  PROVE  i = j
      OBVIOUS
    <3>1. i + 1 = j + 1
      BY <1>3, <1>5 DEF TokenInv
    <3>. QED
      BY <3>1
  <2>2. \A i \in 1..Len(q) : q[i].type = "CONNECT" => ~h.connected /\ q[i].call = h.connect.call
    BY <1>3, <1>5, <1>6 DEF TokenInv
  <2>3. NoConnect(handle.to_client) => NoConnect(q)
    BY <1>5 DEF NoConnect
  <2>. QED
    BY <1>3, <1>6, <2>1, <2>2, <2>3 DEF TokenInv
<1>10. /\ \A k \in 1..Len(app.calls) : replied[k] \subseteq replied[k]
       /\ \A i \in 1..Len(h.writing) :
             h.writing[i].type \in Asks /\ IsCall(app, h.writing[i].type, h.writing[i].call)
       /\ \A i \in 1..Len(h.to_broker) :
             /\ h.to_broker[i].type # "DISCONNECT"
             /\ IsCall(app, h.to_broker[i].type, h.to_broker[i].call)
  BY <1>6, PacketsBefore
<1>11. \A i \in 1..Len(h.to_client) :
             /\ h.to_client[i].type \notin {"DISCONNECT", "PUBLISH0"}
             /\ IsCall(app, h.to_client[i].type, h.to_client[i].call)
             /\ h.to_client[i].type = "PUBLISH1" => h.to_client[i].result = "success"
             /\ h.to_client[i].result \in replied[h.to_client[i].call]
  BY <1>5, <1>6, PacketsBefore
<1>12. /\ InUse(h) => InUse(handle)
       /\ h.connect_state = -2 => handle.connect_state = -2
       /\ Connecting(h) => Connecting(handle)
  BY <1>6 DEF InUse, Connecting
<1>13. /\ Inv(e, replied, tried) /\ Counted(e) /\ SocketInv(e.h)
       /\ e \in States /\ e.h = h /\ e.a = app /\ e.n = links
  BY <1>6, <1>8, <1>9, <1>10, <1>11, <1>12, LinkStep
<1>. HIDE DEF e
<1>14. ReceivedInv(p, e, replied)
  <2>1. IsCall(app, p.type, p.call) /\ p.result \in replied[p.call]
    BY <1>5, PacketsBefore
  <2>2. ASSUME p.type = "CONNECT"
        PROVE  /\ ~handle.connected /\ NoConnect(handle.to_broker) /\ NoConnect(q)
               /\ p.call = handle.connect.call
    <3>1. ~handle.connected /\ p.call = handle.connect.call /\ ~NoConnect(handle.to_client)
      BY <1>3, <1>5, <2>2 DEF TokenInv, NoConnect
    <3>2. \A i \in 1..Len(q) : q[i].type # "CONNECT"
      BY <1>3, <1>5, <2>2 DEF TokenInv
    <3>. QED
      BY <1>3, <3>1, <3>2 DEF TokenInv, NoConnect
  <2>. QED
    BY <1>1, <1>6, <1>13, <2>1, <2>2 DEF ReceivedInv
<1>. QED
  BY <1>4, <1>5, <1>7, <1>13, <1>14 DEF p, q

LEMMA CycleReadsInv ==
    ASSUME ConnInv, ended = "no", options' = options, CycleReads
    PROVE  ConnInv'
<1>. DEFINE e == Arrived
            p == Head(handle.to_client)
<1>1. /\ Arriving /\ p.type # "PUBLISH1" /\ Becomes(e) /\ received' = p
      /\ replied' = replied /\ tried' = tried /\ astray' = astray /\ ended' = ended
  BY DEF CycleReads
<1>2. /\ Inv(e, replied, tried) /\ Counted(e) /\ SocketInv(e.h) /\ e \in States
      /\ ReceivedInv(p, e, replied) /\ p \in Answers
      /\ p = handle.to_client[1] /\ 1 \in 1..Len(handle.to_client)
  BY <1>1, ArrivedInv
<1>. HIDE DEF e, p
<1>3. p \in AnswerReceived
  <2>1. p.type \notin {"DISCONNECT", "PUBLISH0", "PUBLISH1"}
    BY <1>1, <1>2, PacketsBefore
  <2>2. p.type \in Kinds
    BY <1>2 DEF Answers
  <2>. QED
    BY <1>2, <2>1, <2>2, ConnectAssumption DEF AnswerReceived, Kinds
<1>. QED
  BY <1>1, <1>2, <1>3, BeforeInv, StepInv


LEMMA CyclePubackInv ==
    ASSUME ConnInv, ended = "no", options' = options, CyclePuback
    PROVE  ConnInv'
<1>. DEFINE p == Head(handle.to_client)
            s == Arrived
            m == handle.outboundMsgs \ {p.call}
            h == [s.h EXCEPT !.outboundMsgs = m]
            t == [s EXCEPT !.h = h]
            e == Answer(t, p.call, "success")
<1>1. /\ Arriving /\ p.type = "PUBLISH1" /\ AtCycle
      /\ received' = received /\ replied' = replied /\ tried' = tried /\ astray' = astray
      /\ ended' = ended
  BY DEF CyclePuback, Arriving
<1>2. /\ Inv(s, replied, tried) /\ Counted(s) /\ s \in States /\ s.a = app /\ s.n = links
      /\ s.h = [handle EXCEPT !.to_client = Tail(handle.to_client)]
      /\ p = handle.to_client[1] /\ 1 \in 1..Len(handle.to_client)
  BY <1>1, ArrivedInv
<1>3. handle \in Handles
  BY PacketsBefore
<1>4. /\ s.h \in Handles /\ s.h.outboundMsgs = handle.outboundMsgs
      /\ s.h.responses = handle.responses
  BY <1>2, <1>3, StateFields DEF Handles
<1>5. [Arrived EXCEPT !.h.outboundMsgs = @ \ {p.call}] = t
  BY <1>2, <1>4 DEF States
<1>6. Becomes(e)
  <2>1. Becomes(Answer([Arrived EXCEPT !.h.outboundMsgs = @ \ {p.call}], p.call, "success"))
    BY DEF CyclePuback
  <2>. HIDE DEF s, h, m, p
  <2>. QED
    BY <1>5, <2>1
<1>7. IsCall(app, "PUBLISH1", p.call) /\ p.result = "success" /\ "success" \in replied[p.call]
  BY <1>1, <1>2, PacketsBefore
<1>. HIDE DEF s, p
<1>8. m \subseteq handle.outboundMsgs
  OBVIOUS
<1>. HIDE DEF m
<1>9. /\ h \in Handles /\ h.outboundMsgs = m
      /\ h.connected = s.h.connected /\ h.connect_state = s.h.connect_state
      /\ h.socket = s.h.socket /\ h.to_broker = s.h.to_broker /\ h.to_client = s.h.to_client
      /\ h.commands = s.h.commands /\ h.responses = s.h.responses
      /\ h.pending_write = s.h.pending_write /\ h.writing = s.h.writing
      /\ h.connect = s.h.connect /\ h.disconnect = s.h.disconnect
  BY <1>4, <1>8 DEF Handles
<1>. HIDE DEF h
<1>10. t \in States /\ t.h = h /\ t.a = s.a /\ t.n = s.n
  BY <1>2, <1>9, WithHandle
<1>. HIDE DEF t
<1>11. Inv(t, replied, tried)
  <2>1. \A k \in t.h.outboundMsgs : IsCall(s.a, "PUBLISH1", k)
    BY <1>2, <1>4, <1>8, <1>9, <1>10 DEF Inv, OwnedInv, OthersOwned
  <2>2. \A i \in 1..Len(t.h.responses) :
              /\ t.h.responses[i].type \in Asks
              /\ IsCall(s.a, t.h.responses[i].type, t.h.responses[i].call)
    BY <1>2, <1>9, <1>10 DEF Inv, OwnedInv, QueuesOwned
  <2>3. \A i \in 1..Len(t.h.responses) : t.h.responses[i].type # "PUBLISH0" =>
                    /\ s.a.told[t.h.responses[i].call] = <<>>
                    /\ \A j \in 1..Len(t.h.responses) :
                           t.h.responses[j].call = t.h.responses[i].call => j = i
    BY <1>2, <1>9, <1>10 DEF Inv, OnceInv, ResponsesInv
  <2>4. \A i \in 1..Len(t.h.responses) : t.h.responses[i].type # "PUBLISH0" =>
                    \A j \in 1..Len(s.h.commands) : s.h.commands[j].call # t.h.responses[i].call
    <3>. SUFFICES ASSUME NEW i \in 1..Len(s.h.responses), s.h.responses[i].type # "PUBLISH0",
                         NEW j \in 1..Len(s.h.commands),
                         s.h.commands[j].call = s.h.responses[i].call
                  PROVE  FALSE
      BY <1>9, <1>10
    <3>1. IsCall(s.a, s.h.responses[i].type, s.h.responses[i].call)
      BY <1>2 DEF Inv, OwnedInv, QueuesOwned
    <3>2. s.h.responses[i].call # 0
      BY <3>1 DEF IsCall
    <3>. QED
      BY <1>2, <3>2 DEF Inv, OnceInv, CommandsInv
  <2>5. t.h.pending_write = s.h.pending_write
    BY <1>9, <1>10
  <2>. QED
    BY <1>2, <1>9, <1>10, <2>1, <2>2, <2>3, <2>4, <2>5, QueuesInv
<1>12. "PUBLISH1" \in Asks \ {"PUBLISH0"}
  <2>1. app.calls \in Seq(Kinds)
    BY <1>2, StateFields
  <2>2. "PUBLISH1" \in Kinds
    BY <1>7, <2>1 DEF IsCall
  <2>. QED
    BY <2>2 DEF Kinds
<1>13. Inv(e, replied, tried) /\ e.n = links /\ e.h.connected = t.h.connected
  <2>1. t.h.responses = handle.responses
    BY <1>4, <1>9, <1>10
  <2>2. IsCall(t.a, "PUBLISH1", p.call) /\ t.n = links
    BY <1>2, <1>7, <1>10
  <2>3. "success" \in Results
    BY DEF Results
  <2>. QED
    BY <1>7, <1>11, <1>12, <2>1, <2>2, <2>3, AnswerInv
<1>. HIDE DEF e
<1>14. e \in States /\ Counted(e) /\ SocketInv(e.h)
  BY <1>2, <1>9, <1>10, <1>13 DEF Counted, Inv, LinkInv, StateInv
<1>15. received = IdlePack /\ ReceivedInv(received, e, replied)
  BY <1>1, IdleInv DEF AtCycle
<1>. QED
  BY <1>1, <1>6, <1>13, <1>14, <1>15, BeforeInv, StepInv


\* One list after the other
LEMMA ConcatElems ==
    ASSUME NEW S, NEW s \in Seq(S), NEW t \in Seq(S)
    PROVE  /\ s \o t \in Seq(S)
           /\ \A i \in 1..Len(s \o t) :
                 \/ i \in 1..Len(s) /\ (s \o t)[i] = s[i]
                 \/ i - Len(s) \in 1..Len(t) /\ (s \o t)[i] = t[i - Len(s)]
  OBVIOUS

\* The rest of what was being written is sent
LEMMA SentInv ==
    ASSUME ConnInv, ended = "no", handle.socket = "open", AtCycle
    PROVE  LET h == [handle EXCEPT !.writing = <<>>, !.to_broker = handle.to_broker \o handle.writing]
               d == [State EXCEPT !.h = h]
           IN /\ Inv(d, replied, tried) /\ Counted(d) /\ SocketInv(d.h)
              /\ d \in States /\ d.h = h /\ d.a = app /\ d.n = links
              /\ h.pending_write = handle.pending_write /\ h.responses = handle.responses
              /\ h.commands = handle.commands /\ h.connected = handle.connected
<1>. DEFINE q == handle.to_broker \o handle.writing
            h == [handle EXCEPT !.writing = <<>>, !.to_broker = q]
            d == [State EXCEPT !.h = h]
<1>1. /\ handle \in Handles /\ handle.to_broker \in Seq(Commands) /\ handle.writing \in Seq(Commands)
      /\ StateInv(handle) /\ TokenInv(handle) /\ <<>> \in Seq(Commands)
  BY PacketsBefore
<1>2. /\ q \in Seq(Commands)
      /\ \A i \in 1..Len(q) :
            \/ i \in 1..Len(handle.to_broker) /\ q[i] = handle.to_broker[i]
            \/ i - Len(handle.to_broker) \in 1..Len(handle.writing)
               /\ q[i] = handle.writing[i - Len(handle.to_broker)]
  BY <1>1, ConcatElems
<1>. HIDE DEF q
<1>3. /\ h \in Handles /\ h.connected = handle.connected
      /\ h.connect_state = handle.connect_state
      /\ h.socket = handle.socket /\ h.to_broker = q
      /\ h.commands = handle.commands /\ h.responses = handle.responses
      /\ h.outboundMsgs = handle.outboundMsgs /\ h.pending_write = handle.pending_write
      /\ h.connect = handle.connect /\ h.disconnect = handle.disconnect
      /\ h.writing = <<>> /\ h.to_client = handle.to_client
  BY <1>1, <1>2 DEF Handles
<1>. HIDE DEF h
<1>4. "CONNECT" \notin Asks
  BY ConnectAssumption
<1>5. \A i \in 1..Len(q) :
         /\ q[i].type # "DISCONNECT" /\ IsCall(app, q[i].type, q[i].call)
         /\ q[i].type = "CONNECT" =>
               i \in 1..Len(handle.to_broker) /\ q[i] = handle.to_broker[i]
  <2>. SUFFICES ASSUME NEW i \in 1..Len(q)
                PROVE  /\ q[i].type # "DISCONNECT" /\ IsCall(app, q[i].type, q[i].call)
                       /\ q[i].type = "CONNECT" =>
                             i \in 1..Len(handle.to_broker) /\ q[i] = handle.to_broker[i]
    OBVIOUS
  <2>1. CASE i \in 1..Len(handle.to_broker) /\ q[i] = handle.to_broker[i]
    BY <2>1, PacketsBefore
  <2>2. CASE /\ i - Len(handle.to_broker) \in 1..Len(handle.writing)
             /\ q[i] = handle.writing[i - Len(handle.to_broker)]
    <3>1. q[i].type \in Asks /\ IsCall(app, q[i].type, q[i].call)
      BY <2>2, PacketsBefore
    <3>. QED
      BY <1>4, <3>1, ConnectAssumption
  <2>. QED
    BY <1>2, <2>1, <2>2
<1>6. StateInv(h)
  BY <1>1, <1>3 DEF StateInv, SocketInv, InUse
<1>7. TokenInv(h)
  <2>1. \A i \in 1..Len(q) : q[i].type = "CONNECT" => ~h.connected /\ q[i].call = h.connect.call
    BY <1>1, <1>3, <1>5 DEF TokenInv
  <2>2. \A i, j \in 1..Len(q) : q[i].type = "CONNECT" /\ q[j].type = "CONNECT" => i = j
    BY <1>1, <1>5 DEF TokenInv
  <2>3. NoConnect(handle.to_broker) => NoConnect(q)
    BY <1>5 DEF NoConnect
  <2>. QED
    BY <1>1, <1>3, <2>1, <2>2, <2>3 DEF TokenInv
<1>8. /\ \A k \in 1..Len(app.calls) : replied[k] \subseteq replied[k]
      /\ \A i \in 1..Len(h.to_client) :
             /\ h.to_client[i].type \notin {"DISCONNECT", "PUBLISH0"}
             /\ IsCall(app, h.to_client[i].type, h.to_client[i].call)
             /\ h.to_client[i].type = "PUBLISH1" => h.to_client[i].result = "success"
             /\ h.to_client[i].result \in replied[h.to_client[i].call]
  BY <1>3, PacketsBefore
<1>9. /\ \A i \in 1..Len(h.writing) :
             h.writing[i].type \in Asks /\ IsCall(app, h.writing[i].type, h.writing[i].call)
      /\ \A i \in 1..Len(h.to_broker) :
             /\ h.to_broker[i].type # "DISCONNECT"
             /\ IsCall(app, h.to_broker[i].type, h.to_broker[i].call)
  BY <1>3, <1>5
<1>10. /\ InUse(h) => InUse(handle)
       /\ h.connect_state = -2 => handle.connect_state = -2
       /\ Connecting(h) => Connecting(handle)
  BY <1>3 DEF InUse, Connecting
<1>11. /\ Inv(d, replied, tried) /\ Counted(d) /\ SocketInv(d.h)
       /\ d \in States /\ d.h = h /\ d.a = app /\ d.n = links
  BY <1>3, <1>6, <1>7, <1>8, <1>9, <1>10, LinkStep
<1>. QED
  BY <1>3, <1>11 DEF h, q

\* The write that was pending is done; the first response is taken for its own
LEMMA WriteDoneInv ==
    ASSUME NEW s, NEW R, NEW T, Inv(s, R, T), s.h.pending_write # 0, s.h.responses # <<>>,
           NEW t \in States, t.a = s.a, t.n = s.n,
           t.h.responses = Tail(s.h.responses), t.h.pending_write = 0,
           t.h.connected = s.h.connected, t.h.connect_state = s.h.connect_state,
           t.h.socket = s.h.socket, t.h.writing = s.h.writing,
           t.h.to_broker = s.h.to_broker, t.h.to_client = s.h.to_client,
           t.h.commands = s.h.commands, t.h.outboundMsgs = s.h.outboundMsgs,
           t.h.connect = s.h.connect, t.h.disconnect = s.h.disconnect
    PROVE  LET e == Called(t, Command("PUBLISH0", s.h.pending_write), "success")
           IN Inv(e, R, T) /\ e.n = s.n /\ e.h = t.h
<1>. DEFINE call == s.h.pending_write
            c == Command("PUBLISH0", call)
            q == Tail(s.h.responses)
<1>1. /\ s \in States /\ s.h.responses \in Seq(Commands) /\ s.a.calls \in Seq(Kinds)
      /\ IsCall(s.a, "PUBLISH0", call) /\ s.a.told[call] = <<>>
  BY StateFields DEF Inv, OwnedInv, OthersOwned, OnceInv, OthersInv
<1>2. call \in APICall /\ "PUBLISH0" \in Kinds /\ call # 0
  BY <1>1, CallsAreAPICalls DEF IsCall
<1>3. /\ c \in Commands /\ c.type = "PUBLISH0" /\ c.call = call /\ "success" \in Results
  BY <1>2, BoundTypes, CommandType DEF Results
<1>4. \A i \in 1..Len(q) :
         i + 1 \in 1..Len(s.h.responses) /\ q[i] = s.h.responses[i + 1]
  BY <1>1, TailProps
<1>5. \A i, j \in 1..Len(q) : i + 1 = j + 1 => i = j
  BY <1>1
<1>. HIDE DEF q
<1>6. t.h.responses = q
  BY DEF q
<1>7. \A i \in 1..Len(q) : q[i].type \in Asks /\ IsCall(s.a, q[i].type, q[i].call)
  BY <1>4 DEF Inv, OwnedInv, QueuesOwned
<1>8. \A i \in 1..Len(q) : q[i].type # "PUBLISH0" =>
         /\ s.a.told[q[i].call] = <<>>
         /\ \A j \in 1..Len(q) : q[j].call = q[i].call => j = i
  <2>. SUFFICES ASSUME NEW i \in 1..Len(q), q[i].type # "PUBLISH0"
                PROVE  /\ s.a.told[q[i].call] = <<>>
                       /\ \A j \in 1..Len(q) : q[j].call = q[i].call => j = i
    OBVIOUS
  <2>1. i + 1 \in 1..Len(s.h.responses) /\ q[i] = s.h.responses[i + 1]
    BY <1>4
  <2>2. /\ s.a.told[s.h.responses[i + 1].call] = <<>>
        /\ \A k \in 1..Len(s.h.responses) :
              s.h.responses[k].call = s.h.responses[i + 1].call => k = i + 1
    BY <2>1 DEF Inv, OnceInv, ResponsesInv
  <2>3. ASSUME NEW j \in 1..Len(q), q[j].call = q[i].call
        PROVE  j = i
    <3>1. j + 1 \in 1..Len(s.h.responses) /\ q[j] = s.h.responses[j + 1]
      BY <1>4
    <3>2. j + 1 = i + 1
      BY <2>1, <2>2, <2>3, <3>1
    <3>. QED
      BY <1>5, <3>2
  <2>. QED
    BY <2>1, <2>2, <2>3
<1>9. \A i \in 1..Len(q) : q[i].type # "PUBLISH0" =>
         \A j \in 1..Len(s.h.commands) : s.h.commands[j].call # q[i].call
  <2>. SUFFICES ASSUME NEW i \in 1..Len(q), q[i].type # "PUBLISH0",
                       NEW j \in 1..Len(s.h.commands), s.h.commands[j].call = q[i].call
                PROVE  FALSE
    OBVIOUS
  <2>1. q[i].call # 0
    BY <1>7 DEF IsCall
  <2>2. i + 1 \in 1..Len(s.h.responses) /\ q[i] = s.h.responses[i + 1]
    BY <1>4
  <2>3. \A k \in 1..Len(s.h.responses) :
           s.h.responses[k].call = s.h.commands[j].call => s.h.responses[k].type = "PUBLISH0"
    BY <2>1 DEF Inv, OnceInv, CommandsInv
  <2>. QED
    BY <2>2, <2>3
<1>10. Inv(t, R, T)
  <2>1. \A k \in t.h.outboundMsgs : IsCall(s.a, "PUBLISH1", k)
    BY DEF Inv, OwnedInv, OthersOwned
  <2>2. t.h.pending_write \in {0, s.h.pending_write}
    OBVIOUS
  <2>. QED
    BY <1>6, <1>7, <1>8, <1>9, <2>1, <2>2, QueuesInv
<1>11. Free(t, call)
  <2>1. \A i \in 1..Len(t.h.commands) : t.h.commands[i].call # call
    BY <1>2 DEF Inv, OnceInv, CommandsInv
  <2>2. \A i \in 1..Len(q) : q[i].call = call => q[i].type = "PUBLISH0"
    BY <1>1, <1>7 DEF IsCall
  <2>3. t.h.connect_state = -2 => t.h.disconnect.call # call
    BY <1>1 DEF Inv, OwnedInv, OthersOwned, IsCall
  <2>4. Connecting(t.h) => t.h.connect.call # call
    <3>1. Connecting(t.h) => IsCall(t.a, "CONNECT", t.h.connect.call)
      BY <1>10 DEF Inv, LinkInv, ConnectInv, LastConnect
    <3>. QED
      BY <1>1, <3>1 DEF IsCall
  <2>. QED
    BY <1>2, <1>6, <2>1, <2>2, <2>3, <2>4 DEF Free
<1>. HIDE DEF c
<1>12. Inv(Called(t, c, "success"), R, T) /\ Called(t, c, "success").h = t.h
       /\ Called(t, c, "success").n = t.n
  BY <1>1, <1>3, <1>10, <1>11, CalledInv
<1>. QED
  BY <1>12 DEF c

LEMMA WriteCompletesInv ==
    ASSUME ConnInv, ended = "no", options' = options, WriteCompletes
    PROVE  ConnInv'
<1>. DEFINE call == handle.pending_write
            w == [handle EXCEPT !.writing = <<>>, !.to_broker = handle.to_broker \o handle.writing]
            s == [State EXCEPT !.h = w]
            q == IF handle.responses = <<>> THEN handle.responses ELSE Tail(handle.responses)
            h == [w EXCEPT !.pending_write = 0, !.responses = q]
            t == [s EXCEPT !.h = h]
            c == Command("PUBLISH0", call)
            e == IF call = 0 THEN s
                 ELSE IF handle.responses = <<>> THEN t ELSE Called(t, c, "success")
<1>1. /\ AtCycle /\ handle.socket = "open"
      /\ received' = received /\ replied' = replied /\ tried' = tried
  BY DEF WriteCompletes
<1>2. /\ Inv(s, replied, tried) /\ Counted(s) /\ SocketInv(s.h)
      /\ s \in States /\ s.h = w /\ s.a = app /\ s.n = links
      /\ w.pending_write = handle.pending_write /\ w.responses = handle.responses
      /\ w.commands = handle.commands /\ w.connected = handle.connected
  BY <1>1, SentInv
<1>3. handle \in Handles /\ State \in States /\ State.h = handle /\ received = IdlePack
  BY <1>1, PacketsBefore, BeforeInv DEF AtCycle
<1>4. [State EXCEPT !.h.writing = <<>>, !.h.to_broker = @ \o handle.writing] = s
  BY <1>3 DEF States
<1>5. [s EXCEPT !.h.pending_write = 0, !.h.responses = IF @ = <<>> THEN @ ELSE Tail(@)] = t
  <2>. HIDE DEF w, s
  <2>1. w \in Handles
    BY <1>2, StateFields
  <2>2. w.responses = [w EXCEPT !.pending_write = 0].responses
    BY <2>1 DEF Handles
  <2>. QED
    BY <1>2, <2>1, <2>2 DEF States, Handles
<1>6. /\ Becomes(e)
      /\ call = 0 => astray' = astray /\ ended' = ended
      /\ call # 0 => /\ ended' \in {"no", "freed"}
                     /\ handle.responses = <<>> => ended' = "freed"
                     /\ \E b : astray' = [astray EXCEPT !.response = b]
                               /\ b = (astray.response
                                       \/ (\A i \in DOMAIN handle.responses : handle.responses[i].call # call)
                                       \/ handle.responses[1].call # call)
  <2>. HIDE DEF w, h, q
  <2>. QED
    BY <1>4, <1>5, ZenonT(40) DEF WriteCompletes
<1>7. /\ astray' \in [connects : SUBSET APICall, response : BOOLEAN]
      /\ ended' \in {"no"} \cup Endings
  <2>1. /\ astray \in [connects : SUBSET APICall, response : BOOLEAN]
        /\ ended \in {"no"} \cup Endings
    BY BeforeInv
  <2>. HIDE DEF w, h, q, s, t, e
  <2>2. CASE call = 0
    BY <1>6, <2>1, <2>2
  <2>3. CASE call # 0
    <3>1. PICK b \in BOOLEAN : astray' = [astray EXCEPT !.response = b]
      BY <1>6, <2>3
    <3>. QED
      BY <1>6, <2>1, <2>3, <3>1 DEF Endings
  <2>. QED
    BY <2>2, <2>3
<1>8. w \in Handles /\ w.responses \in Seq(Commands)
  BY <1>2, StateFields
<1>9. q \in Seq(Commands) /\ 0 \in 0..MaxAPICalls
  BY <1>2, <1>8, BoundTypes
<1>. HIDE DEF w, q
<1>10. /\ h \in Handles /\ h.pending_write = 0 /\ h.responses = q
       /\ h.connected = w.connected /\ h.connect_state = w.connect_state
       /\ h.socket = w.socket /\ h.writing = w.writing
       /\ h.to_broker = w.to_broker /\ h.to_client = w.to_client
       /\ h.commands = w.commands /\ h.outboundMsgs = w.outboundMsgs
       /\ h.connect = w.connect /\ h.disconnect = w.disconnect
  BY <1>8, <1>9 DEF Handles
<1>. HIDE DEF h
<1>11. t \in States /\ t.h = h /\ t.a = s.a /\ t.n = s.n
  BY <1>2, <1>10, WithHandle
<1>. HIDE DEF s, t
<1>12. /\ e \in States /\ SocketInv(e.h)
       /\ ended' = "no" => Inv(e, replied, tried) /\ Counted(e)
  <2>1. CASE call = 0
    BY <1>2, <2>1
  <2>2. CASE call # 0 /\ handle.responses = <<>>
    <3>1. SocketInv(t.h)
      BY <1>2, <1>10, <1>11 DEF SocketInv, InUse
    <3>. QED
      BY <1>6, <1>11, <2>2, <3>1
  <2>3. CASE call # 0 /\ handle.responses # <<>>
    <3>1. s.h.pending_write = call /\ s.h.responses # <<>> /\ q = Tail(s.h.responses)
      BY <1>2, <2>3 DEF q
    <3>2. Inv(Called(t, c, "success"), replied, tried)
          /\ Called(t, c, "success").n = s.n /\ Called(t, c, "success").h = t.h
      BY <1>2, <1>10, <1>11, <2>3, <3>1, WriteDoneInv
    <3>. DEFINE f == Called(t, c, "success")
    <3>3. e = f
      BY <2>3
    <3>. HIDE DEF e, f, c
    <3>4. Inv(f, replied, tried) /\ f.n = s.n /\ f.h = t.h
      BY <3>2 DEF f
    <3>5. f \in States /\ SocketInv(f.h)
      BY <3>4 DEF Inv, LinkInv, StateInv
    <3>6. Counted(f)
      BY <1>2, <1>10, <1>11, <3>4 DEF Counted
    <3>. QED
      BY <3>3, <3>4, <3>5, <3>6
  <2>. QED
    BY <2>1, <2>2, <2>3
<1>. HIDE DEF e
<1>13. ReceivedInv(received, e, replied)
  BY <1>3, IdleInv
<1>. QED
  BY <1>1, <1>3, <1>6, <1>7, <1>12, <1>13, BeforeInv, StepInv


-----------------------------------------------------------------------------
(* The rest of the receive thread's turn.                                  *)

\* The messages of a session as a list of commands
LEMMA RepeatedMessages ==
    ASSUME NEW K \in SUBSET APICall, "PUBLISH1" \in Kinds \/ K = {}
    PROVE  LET q == SetToSeq({Command("PUBLISH1", k) : k \in K})
           IN /\ q \in Seq(Commands)
              /\ \A i \in 1..Len(q) : q[i].type = "PUBLISH1" /\ q[i].call \in K
<1>. DEFINE M == {Command("PUBLISH1", k) : k \in K}
            f == [m \in M |-> m.call]
            q == SetToSeq(M)
<1>1. \A k \in K : /\ Command("PUBLISH1", k) \in Commands
                   /\ Command("PUBLISH1", k).type = "PUBLISH1"
                   /\ Command("PUBLISH1", k).call = k
  BY BoundTypes, CommandType
<1>2. \A m \in M : m \in Commands /\ m.type = "PUBLISH1" /\ m.call \in K
                   /\ m = Command("PUBLISH1", m.call)
  BY <1>1
<1>. HIDE DEF M
<1>3. f \in Injection(M, K)
  <2>1. f \in [M -> K] /\ \A m \in M : f[m] = m.call
    BY <1>2
  <2>. HIDE DEF f
  <2>2. \A m, n \in DOMAIN f : f[m] = f[n] => m = n
    BY <1>2, <2>1
  <2>. QED
    BY <2>1, <2>2 DEF Injection, IsInjective
<1>4. IsFiniteSet(M)
  <2>1. IsFiniteSet(APICall)
    BY ConnectAssumption, FS_Interval DEF APICall
  <2>2. IsFiniteSet(K)
    BY <2>1, FS_Subset
  <2>. HIDE DEF f
  <2>. QED
    BY <1>3, <2>2, FS_Injection
<1>5. /\ Cardinality(M) \in Nat
      /\ \E g \in [1..Cardinality(M) -> M] : IsInjective(g)
  BY <1>4, FS_CardinalityType DEF ExistsBijection, Bijection, Injection
<1>6. q \in [1..Cardinality(M) -> M]
  BY <1>5 DEF SetToSeq
<1>. HIDE DEF q
<1>7. q \in Seq(M) /\ Len(q) = Cardinality(M)
  BY <1>5, <1>6
<1>8. \A i \in 1..Len(q) : q[i] \in M
  BY <1>7
<1>9. q \in Seq(Commands)
  BY <1>2, <1>7
<1>. QED
  BY <1>2, <1>8, <1>9 DEF q, M

\* MQTTProtocol_retry
LEMMA RepeatedInv ==
    ASSUME NEW s, NEW R, NEW T, Inv(s, R, T), s.h.connected, NEW t \in Repeated(s),
           NoConnect(s.h.to_client), NoConnect(s.h.to_broker)
    PROVE  /\ Inv(t, R, T) /\ t.a = s.a /\ t.n = s.n
           /\ t.h.connected = s.h.connected /\ t.h.connect = s.h.connect
<1>1. CASE s.h.socket # "open"
  <2>1. t = s \/ t = disconnectInternal(s)
    BY <1>1 DEF Repeated
  <2>. QED
    BY <2>1, InternalInv
<1>2. CASE s.h.socket = "open"
  <2>. DEFINE q == SetToSeq({Command("PUBLISH1", k) : k \in s.h.outboundMsgs})
              h == [s.h EXCEPT !.to_broker = q]
  <2>1. s \in States /\ s.h \in Handles /\ s.h.outboundMsgs \in SUBSET APICall
        /\ s.a.calls \in Seq(Kinds)
    BY StateFields DEF Inv
  <2>2. \A k \in s.h.outboundMsgs : IsCall(s.a, "PUBLISH1", k)
    BY DEF Inv, OwnedInv, OthersOwned
  <2>3. "PUBLISH1" \in Kinds \/ s.h.outboundMsgs = {}
    BY <2>1, <2>2 DEF IsCall
  <2>4. /\ q \in Seq(Commands)
        /\ \A i \in 1..Len(q) : q[i].type = "PUBLISH1" /\ q[i].call \in s.h.outboundMsgs
    BY <2>1, <2>3, RepeatedMessages
  <2>5. t = [s EXCEPT !.h = h]
    BY <1>2, <2>1 DEF Repeated, States
  <2>. HIDE DEF q
  <2>6. /\ h \in Handles /\ h.connected = s.h.connected
        /\ h.connect_state = s.h.connect_state
        /\ h.socket = s.h.socket /\ h.to_broker = q
        /\ h.commands = s.h.commands /\ h.responses = s.h.responses
        /\ h.outboundMsgs = s.h.outboundMsgs /\ h.pending_write = s.h.pending_write
        /\ h.connect = s.h.connect /\ h.disconnect = s.h.disconnect
        /\ h.writing = s.h.writing /\ h.to_client = s.h.to_client
    BY <2>1, <2>4 DEF Handles
  <2>. HIDE DEF h
  <2>7. t \in States /\ t.h = h /\ t.a = s.a /\ t.n = s.n
    BY <2>1, <2>5, <2>6, WithHandle
  <2>8. PacketsOwned(t)
    <3>1. PacketsOwned(s)
      BY DEF Inv, OwnedInv
    <3>2. \A i \in 1..Len(q) : q[i].type # "DISCONNECT" /\ IsCall(s.a, q[i].type, q[i].call)
      BY <2>2, <2>4
    <3>. QED
      BY <2>6, <2>7, <3>1, <3>2 DEF PacketsOwned
  <2>9. StateInv(t.h)
    <3>1. StateInv(s.h)
      BY DEF Inv, LinkInv
    <3>. QED
      BY <1>2, <2>6, <2>7, <3>1 DEF StateInv, SocketInv, InUse
  <2>10. TokenInv(t.h)
    <3>1. \A i \in 1..Len(q) : q[i].type # "CONNECT"
      BY <2>4
    <3>. QED
      BY <2>6, <2>7, <3>1 DEF TokenInv, NoConnect
  <2>11. /\ InUse(t.h) => InUse(s.h)
         /\ t.h.connect_state = -2 => s.h.connect_state = -2
         /\ Connecting(t.h) => Connecting(s.h)
    BY <2>6, <2>7 DEF InUse, Connecting
  <2>12. /\ \A k \in 1..Len(s.a.calls) : R[k] \subseteq R[k]
         /\ \A i \in 1..Len(t.h.to_client) : t.h.to_client[i].result \in R[t.h.to_client[i].call]
    BY <2>6, <2>7 DEF Inv, TrueInv
  <2>13. Inv(t, R, T)
    BY <2>6, <2>7, <2>8, <2>9, <2>10, <2>11, <2>12, PacketsInv
  <2>. QED
    BY <2>6, <2>7, <2>13
<1>. QED
  BY <1>1, <1>2

\* Nobody is going to reply to the connect of a client that is connected
LEMMA ConnectFree ==
    ASSUME NEW s, NEW R, NEW T, Inv(s, R, T), s.h.connected, NEW k, IsCall(s.a, "CONNECT", k)
    PROVE  Free(s, k)
<1>1. s \in States /\ s.a.calls \in Seq(Kinds) /\ k # 0
  BY StateFields DEF Inv, IsCall
<1>2. \A i \in 1..Len(s.h.commands) : s.h.commands[i].call # k
  <2>. SUFFICES ASSUME NEW i \in 1..Len(s.h.commands), s.h.commands[i].call = k
                PROVE  FALSE
    OBVIOUS
  <2>1. Owned(s.a, s.h.commands[i])
    BY DEF Inv, OwnedInv, QueuesOwned
  <2>2. s.h.commands[i].type = "CONNECT"
    BY <1>1, <2>1 DEF Owned, IsCall
  <2>. QED
    BY <2>2 DEF Inv, LinkInv, QueueInv, InUse
<1>3. \A i \in 1..Len(s.h.responses) : s.h.responses[i].call # k
  <2>1. "CONNECT" \notin Asks
    BY ConnectAssumption
  <2>. QED
    BY <2>1 DEF Inv, OwnedInv, QueuesOwned, IsCall
<1>4. s.h.pending_write # k
  BY <1>1 DEF Inv, OwnedInv, OthersOwned, IsCall
<1>5. s.h.connect_state = -2 => s.h.disconnect.call # k
  BY DEF Inv, OwnedInv, OthersOwned, IsCall
<1>. QED
  BY <1>2, <1>3, <1>4, <1>5 DEF Free, Connecting


\* What is known when a CONNACK has been read and the connection is there
LEMMA ConnackInv ==
    ASSUME ConnInv, ended = "no", received.type = "CONNECT", handle.socket # "closed"
    PROVE  /\ Connecting(handle) /\ handle.connect_state # 1
           /\ NoConnect(handle.to_broker) /\ NoConnect(handle.to_client)
           /\ received.call = handle.connect.call /\ received.result \in replied[handle.connect.call]
           /\ handle.connect \in Commands /\ handle.connect.type = "CONNECT"
           /\ IsCall(app, "CONNECT", handle.connect.call)
           /\ app.told[handle.connect.call] = <<>>
<1>1. /\ Inv(State, replied, tried) /\ State.h = handle /\ State.a = app /\ State \in States
      /\ ReceivedInv(received, State, replied)
  BY BeforeInv
<1>2. InUse(handle)
  BY PacketsBefore DEF StateInv, SocketInv
<1>3. /\ ~handle.connected /\ handle.connect_state # 1
      /\ NoConnect(handle.to_broker) /\ NoConnect(handle.to_client)
      /\ received.call = handle.connect.call /\ received.result \in replied[received.call]
  BY <1>1, <1>2 DEF ReceivedInv
<1>4. Connecting(handle)
  BY <1>2, <1>3 DEF InUse, Connecting
<1>5. LastConnect(State) /\ handle.connect.type = "CONNECT"
  BY <1>1, <1>4 DEF Inv, LinkInv, ConnectInv
<1>6. app.told[handle.connect.call] = <<>>
  BY <1>1, <1>4 DEF Inv, OnceInv, OthersInv
<1>7. handle.connect \in Commands
  BY <1>1, StateFields
<1>. QED
  BY <1>1, <1>3, <1>4, <1>5, <1>6, <1>7 DEF LastConnect

\* The client is connected
LEMMA UpInv ==
    ASSUME ConnInv, ended = "no", received.type = "CONNECT", handle.socket # "closed",
           handle.connect_state = 3
    PROVE  LET s == [State EXCEPT !.h.connected = TRUE, !.h.connect_state = 0,
                                  !.n.up = @ + 1, !.n.since = Len(app.calls)]
           IN /\ Inv(s, replied, tried) /\ Counted(s) /\ s \in States /\ s.a = app
              /\ s.h.connected /\ s.h.connect = handle.connect
              /\ NoConnect(s.h.to_broker) /\ NoConnect(s.h.to_client)
<1>. DEFINE h == [handle EXCEPT !.connected = TRUE, !.connect_state = 0]
            n == [links EXCEPT !.up = @ + 1, !.since = Len(app.calls)]
            s == [State EXCEPT !.h = h, !.n = n]
<1>1. /\ Inv(State, replied, tried) /\ Counted(State) /\ State.h = handle /\ State.a = app
      /\ State.n = links /\ State \in States
  BY BeforeInv
<1>2. /\ handle \in Handles /\ links \in Links /\ app.calls \in Seq(Kinds) /\ app \in Apps
      /\ StateInv(handle) /\ TokenInv(handle)
  BY <1>1, PacketsBefore, StateFields
<1>3. [State EXCEPT !.h.connected = TRUE, !.h.connect_state = 0,
                    !.n.up = @ + 1, !.n.since = Len(app.calls)] = s
  BY <1>1, <1>2 DEF States, Handles, Links
<1>4. /\ h \in Handles /\ h.connected = TRUE /\ h.connect_state = 0
      /\ h.socket = handle.socket /\ h.to_broker = handle.to_broker
      /\ h.commands = handle.commands /\ h.responses = handle.responses
      /\ h.outboundMsgs = handle.outboundMsgs /\ h.pending_write = handle.pending_write
      /\ h.connect = handle.connect /\ h.disconnect = handle.disconnect
      /\ h.writing = handle.writing /\ h.to_client = handle.to_client
  BY <1>2 DEF Handles
<1>5. n \in Links /\ n.up = links.up + 1 /\ n.lost = links.lost /\ n.left = links.left
  <2>. DEFINE x == links.up + 1
              y == Len(app.calls)
  <2>1. x \in Nat /\ y \in Nat
    BY <1>2 DEF Links
  <2>2. n = [links EXCEPT !.up = x, !.since = y]
    OBVIOUS
  <2>. HIDE DEF n, x, y
  <2>3. n \in Links /\ n.up = x /\ n.lost = links.lost /\ n.left = links.left
    BY <1>2, <2>1, <2>2 DEF Links
  <2>. QED
    BY <2>3 DEF x
<1>. HIDE DEF h, n
<1>6. s \in States /\ s.h = h /\ s.a = app /\ s.n = n
  BY <1>1, <1>2, <1>4, <1>5 DEF States
<1>. HIDE DEF s
<1>7. /\ Connecting(handle) /\ NoConnect(handle.to_broker) /\ NoConnect(handle.to_client)
  BY ConnackInv
<1>8. StateInv(s.h)
  BY <1>2, <1>4, <1>6, <1>7 DEF StateInv, SocketInv, InUse, Connecting
<1>9. TokenInv(s.h)
  BY <1>4, <1>6, <1>7 DEF TokenInv, NoConnect
<1>10. PacketsOwned(s)
  BY <1>1, <1>4, <1>6 DEF Inv, OwnedInv, PacketsOwned
<1>11. /\ InUse(s.h) => InUse(handle)
       /\ s.h.connect_state # -2 /\ ~Connecting(s.h)
  BY <1>4, <1>6, <1>7 DEF InUse, Connecting
<1>12. /\ \A k \in 1..Len(app.calls) : replied[k] \subseteq replied[k]
       /\ \A i \in 1..Len(s.h.to_client) : s.h.to_client[i].result \in replied[s.h.to_client[i].call]
  BY <1>4, <1>6, PacketsBefore
<1>13. Inv(s, replied, tried)
  BY <1>1, <1>4, <1>6, <1>8, <1>9, <1>10, <1>11, <1>12, PacketsInv
<1>14. Counted(s)
  BY <1>1, <1>2, <1>4, <1>5, <1>6, <1>7 DEF Counted, Connecting, Links
<1>. QED
  BY <1>3, <1>4, <1>6, <1>7, <1>13, <1>14

LEMMA TurnConnackInv ==
    ASSUME ConnInv, ended = "no", options' = options, TurnConnack
    PROVE  ConnInv'
<1>. DEFINE u == [State EXCEPT !.h.connected = TRUE, !.h.connect_state = 0,
                               !.n.up = @ + 1, !.n.since = Len(app.calls)]
<1>1. /\ received.type = "CONNECT" /\ handle.socket # "closed" /\ received' = IdlePack
      /\ replied' = replied /\ tried' = tried /\ astray' = astray /\ ended' = ended
  BY DEF TurnConnack
<1>2. CASE CompletesConnection
  <2>1. PICK s \in Repeated(cleanedSession(u)) : Becomes(Called(s, handle.connect, "success"))
    BY <1>2 DEF TurnConnack
  <2>2. handle.connect_state = 3 /\ received.result = "success"
    BY <1>2 DEF CompletesConnection
  <2>3. /\ Inv(u, replied, tried) /\ Counted(u) /\ u \in States /\ u.a = app
        /\ u.h.connected /\ u.h.connect = handle.connect
        /\ NoConnect(u.h.to_broker) /\ NoConnect(u.h.to_client)
    BY <1>1, <2>2, UpInv
  <2>. HIDE DEF u
  <2>. DEFINE v == cleanedSession(u)
  <2>4. /\ Inv(v, replied, tried) /\ v.a = app /\ v.n = u.n
        /\ v.h.connected /\ v.h.connect = handle.connect
        /\ NoConnect(v.h.to_broker) /\ NoConnect(v.h.to_client)
    BY <2>3, CleanInv, CleanFields
  <2>. HIDE DEF v
  <2>5. s \in Repeated(v)
    BY <2>1 DEF v
  <2>6. /\ Inv(s, replied, tried) /\ s.a = app /\ s.n = u.n
        /\ s.h.connected /\ s.h.connect = handle.connect
    BY <2>4, <2>5, RepeatedInv
  <2>7. /\ handle.connect \in Commands /\ handle.connect.type = "CONNECT"
        /\ IsCall(app, "CONNECT", handle.connect.call)
        /\ app.told[handle.connect.call] = <<>> /\ "success" \in replied[handle.connect.call]
    BY <1>1, <2>2, ConnackInv
  <2>8. Free(s, handle.connect.call)
    BY <2>6, <2>7, ConnectFree
  <2>. DEFINE e == Called(s, handle.connect, "success")
  <2>9. Inv(e, replied, tried) /\ e.h = s.h /\ e.n = s.n
    <3>1. "success" \in Results
      BY DEF Results
    <3>. QED
      BY <2>6, <2>7, <2>8, <3>1, CalledInv
  <2>. HIDE DEF e
  <2>10. e \in States /\ SocketInv(e.h)
    BY <2>9 DEF Inv, LinkInv, StateInv
  <2>11. Counted(e)
    BY <2>3, <2>6, <2>9 DEF Counted
  <2>12. Becomes(e)
    BY <2>1 DEF e
  <2>13. ReceivedInv(received', e, replied)
    BY <1>1, IdleInv
  <2>. QED
    BY <1>1, <2>9, <2>10, <2>11, <2>12, <2>13, BeforeInv, StepInv
<1>3. CASE ~CompletesConnection
  <2>. DEFINE e == NextAttempt(State)
  <2>1. Becomes(e)
    BY <1>3 DEF TurnConnack
  <2>2. e \in States /\ SocketInv(e.h) /\ Inv(e, replied, tried) /\ Counted(e)
    BY <1>1, ConnackInv, AttemptFails
  <2>. HIDE DEF e
  <2>3. ReceivedInv(received', e, replied)
    BY <1>1, IdleInv
  <2>. QED
    BY <1>1, <2>1, <2>2, <2>3, BeforeInv, StepInv
<1>. QED
  BY <1>2, <1>3

LEMMA TurnAnswerInv ==
    ASSUME ConnInv, ended = "no", options' = options, TurnAnswer
    PROVE  ConnInv'
<1>. DEFINE e == Answer(State, received.call, received.result)
<1>1. /\ received.type \in {"SUBSCRIBE", "UNSUBSCRIBE"} /\ received' = IdlePack /\ Becomes(e)
      /\ replied' = replied /\ tried' = tried /\ astray' = astray /\ ended' = ended
  BY DEF TurnAnswer
<1>2. /\ Inv(State, replied, tried) /\ Counted(State) /\ State.h = handle /\ State.a = app
      /\ State.n = links /\ State \in States /\ ReceivedInv(received, State, replied)
      /\ received \in {IdlePack, ErrorPack} \cup AnswerReceived
  BY BeforeInv
<1>3. IsCall(app, received.type, received.call) /\ received.result \in replied[received.call]
  BY <1>1, <1>2 DEF ReceivedInv
<1>4. received.result \in Results
  <2>1. received \in Answers
    BY <1>1, <1>2 DEF AnswerReceived, IdlePack, ErrorPack
  <2>. QED
    BY <2>1 DEF Answers
<1>5. received.type \in Asks \ {"PUBLISH0"}
  <2>1. app.calls \in Seq(Kinds)
    BY <1>2, StateFields
  <2>2. received.type \in Kinds
    BY <1>3, <2>1 DEF IsCall
  <2>. QED
    BY <1>1, <2>2 DEF Kinds
<1>6. Inv(e, replied, tried) /\ e.n = links /\ e.h.connected = handle.connected
  BY <1>2, <1>3, <1>4, <1>5, AnswerInv
<1>. HIDE DEF e
<1>7. e \in States /\ SocketInv(e.h) /\ Counted(e)
  BY <1>2, <1>6 DEF Inv, LinkInv, StateInv, Counted
<1>8. ReceivedInv(received', e, replied)
  BY <1>1, IdleInv
<1>. QED
  BY <1>1, <1>6, <1>7, <1>8, BeforeInv, StepInv

LEMMA TurnErrorInv ==
    ASSUME ConnInv, ended = "no", options' = options, TurnError
    PROVE  ConnInv'
<1>. DEFINE e == IF handle.connected THEN disconnectInternal(State) ELSE closeOnly(State)
<1>1. /\ received' = IdlePack /\ Becomes(e)
      /\ replied' = replied /\ tried' = tried /\ ended' = ended
      /\ astray' = astray \/ astray' = [astray EXCEPT !.connects = Overtaken(State)]
  BY DEF TurnError
<1>2. /\ Inv(State, replied, tried) /\ Counted(State) /\ State.h = handle
      /\ State.n = links /\ State \in States
  BY BeforeInv
<1>3. Inv(e, replied, tried) /\ e.n = links /\ e.h.connected = handle.connected
  <2>1. CASE handle.connected
    BY <1>2, <2>1, InternalInv
  <2>2. CASE ~handle.connected
    <3>1. handle.connected = FALSE
      BY <1>2, <2>2, StateFields DEF Handles
    <3>. QED
      BY <1>2, <2>2, <3>1, CloseInv, CloseFields
  <2>. QED
    BY <2>1, <2>2
<1>. HIDE DEF e
<1>4. e \in States /\ SocketInv(e.h) /\ Counted(e)
  BY <1>2, <1>3 DEF Inv, LinkInv, StateInv, Counted
<1>5. astray' \in [connects : SUBSET APICall, response : BOOLEAN]
  BY <1>1, BeforeInv, OvertakenType
<1>6. ReceivedInv(received', e, replied)
  BY <1>1, IdleInv
<1>. QED
  BY <1>1, <1>3, <1>4, <1>5, <1>6, BeforeInv, StepInv

LEMMA TurnWithoutClientInv ==
    ASSUME ConnInv, ended = "no", options' = options, TurnWithoutClient
    PROVE  ConnInv'
<1>1. /\ received' = IdlePack /\ handle' = handle /\ app' = app /\ links' = links
      /\ replied' = replied /\ tried' = tried /\ astray' = astray /\ ended' = ended
  BY DEF TurnWithoutClient
<1>2. Becomes(State)
  BY <1>1, BeforeInv DEF Becomes
<1>3. SocketInv(State.h)
  BY BeforeInv, PacketsBefore DEF StateInv
<1>4. ReceivedInv(received', State, replied)
  BY <1>1, IdleInv
<1>. QED
  BY <1>1, <1>2, <1>3, <1>4, BeforeInv, StepInv

LEMMA KeepaliveEndsInv ==
    ASSUME ConnInv, ended = "no", options' = options, KeepaliveEnds
    PROVE  ConnInv'
<1>. DEFINE e == disconnectInternal(State)
<1>1. /\ received' = received /\ Becomes(e) /\ handle.connected
      /\ replied' = replied /\ tried' = tried /\ ended' = ended /\ astray' = astray
  BY DEF KeepaliveEnds
<1>2. Inv(e, replied, tried) /\ e.n = links /\ e.h.connected = handle.connected /\ e.a = app
  BY BeforeInv, InternalInv, ZenonT(40)
<1>. HIDE DEF e
<1>3. e \in States /\ SocketInv(e.h) /\ Counted(e) /\ ReceivedInv(received, e, replied)
  BY <1>1, <1>2, StaysInv
<1>. QED
  BY <1>1, <1>2, <1>3, BeforeInv, StepInv


-----------------------------------------------------------------------------
(* The broker and the network.                                             *)

LEMMA AppendElems ==
    ASSUME NEW S, NEW s \in Seq(S), NEW e \in S
    PROVE  /\ Append(s, e) \in Seq(S) /\ Len(Append(s, e)) = Len(s) + 1 /\ Len(s) \in Nat
           /\ \A i \in 1..Len(Append(s, e)) :
                 \/ i \in 1..Len(s) /\ Append(s, e)[i] = s[i]
                 \/ i = Len(s) + 1 /\ Append(s, e)[i] = e
  OBVIOUS

\* The broker takes packet p, and answers it but for QoS 0: what is then on the way
LEMMA ServerPackets ==
    ASSUME ConnInv, ended = "no", handle.to_broker # <<>>, NEW result \in Results,
           result = "failure" => Head(handle.to_broker).type \in {"CONNECT", "SUBSCRIBE"},
           NEW U, \A k \in 1..Len(app.calls) : replied[k] \subseteq U[k],
           result \in U[Head(handle.to_broker).call]
    PROVE  LET p == Head(handle.to_broker)
               answer == [type |-> p.type, call |-> p.call, result |-> result]
               q == Tail(handle.to_broker)
               r == IF p.type = "PUBLISH0" THEN handle.to_client ELSE Append(handle.to_client, answer)
           IN /\ q \in Seq(Commands) /\ r \in Seq(Answers)
              /\ \A i \in 1..Len(q) : i + 1 \in 1..Len(handle.to_broker) /\ q[i] = handle.to_broker[i + 1]
              /\ \A i \in 1..Len(r) :
                    /\ r[i].type \notin {"DISCONNECT", "PUBLISH0"}
                    /\ IsCall(app, r[i].type, r[i].call)
                    /\ r[i].type = "PUBLISH1" => r[i].result = "success"
                    /\ r[i].result \in U[r[i].call]
                    /\ \/ i \in 1..Len(handle.to_client) /\ r[i] = handle.to_client[i]
                       \/ i = Len(handle.to_client) + 1 /\ r[i].type = p.type /\ r[i].call = p.call
              /\ 1 \in 1..Len(handle.to_broker) /\ p = handle.to_broker[1]
              /\ IsCall(app, p.type, p.call) /\ p.call \in APICall
<1>. DEFINE p == Head(handle.to_broker)
            answer == [type |-> p.type, call |-> p.call, result |-> result]
            q == Tail(handle.to_broker)
            r == IF p.type = "PUBLISH0" THEN handle.to_client ELSE Append(handle.to_client, answer)
<1>1. handle.to_broker \in Seq(Commands) /\ handle.to_client \in Seq(Answers)
  BY PacketsBefore
<1>2. /\ q \in Seq(Commands) /\ p = handle.to_broker[1] /\ 1 \in 1..Len(handle.to_broker)
      /\ \A i \in 1..Len(q) : i + 1 \in 1..Len(handle.to_broker) /\ q[i] = handle.to_broker[i + 1]
  BY <1>1, TailProps
<1>. HIDE DEF q
<1>3. p \in Commands /\ p.type # "DISCONNECT" /\ IsCall(app, p.type, p.call)
  <2>1. p \in Commands
    BY <1>1, <1>2
  <2>. HIDE DEF p
  <2>. QED
    BY <1>2, <2>1, PacketsBefore
<1>4. p.call \in APICall
  <2>1. Inv(State, replied, tried) /\ State.a = app
    BY BeforeInv
  <2>. QED
    BY <1>3, <2>1, CallsAreAPICalls
<1>. HIDE DEF p
<1>5. answer \in Answers
  BY <1>3, <1>4 DEF Answers, Commands
<1>6. answer.type = p.type /\ answer.call = p.call /\ answer.result = result
  OBVIOUS
<1>. HIDE DEF answer
<1>7. /\ r \in Seq(Answers)
      /\ \A i \in 1..Len(r) :
            \/ i \in 1..Len(handle.to_client) /\ r[i] = handle.to_client[i]
            \/ i = Len(handle.to_client) + 1 /\ r[i] = answer /\ p.type # "PUBLISH0"
  <2>1. CASE p.type = "PUBLISH0"
    BY <1>1, <2>1
  <2>2. CASE p.type # "PUBLISH0"
    BY <1>1, <1>5, <2>2, AppendElems
  <2>. QED
    BY <2>1, <2>2
<1>. HIDE DEF r
<1>8. ASSUME NEW i \in 1..Len(r)
      PROVE  /\ r[i].type \notin {"DISCONNECT", "PUBLISH0"}
             /\ IsCall(app, r[i].type, r[i].call)
             /\ r[i].type = "PUBLISH1" => r[i].result = "success"
             /\ r[i].result \in U[r[i].call]
             /\ \/ i \in 1..Len(handle.to_client) /\ r[i] = handle.to_client[i]
                \/ i = Len(handle.to_client) + 1 /\ r[i].type = p.type /\ r[i].call = p.call
  <2>1. CASE i \in 1..Len(handle.to_client) /\ r[i] = handle.to_client[i]
    <3>1. /\ r[i].type \notin {"DISCONNECT", "PUBLISH0"}
          /\ IsCall(app, r[i].type, r[i].call)
          /\ r[i].type = "PUBLISH1" => r[i].result = "success"
          /\ r[i].result \in replied[r[i].call]
      BY <2>1, PacketsBefore
    <3>2. replied[r[i].call] \subseteq U[r[i].call]
      BY <3>1 DEF IsCall
    <3>. QED
      BY <2>1, <3>1, <3>2
  <2>2. CASE i = Len(handle.to_client) + 1 /\ r[i] = answer /\ p.type # "PUBLISH0"
    <3>1. p.type = "PUBLISH1" => result = "success"
      BY DEF Results, p
    <3>2. result \in U[p.call]
      BY DEF p
    <3>. QED
      BY <1>3, <1>6, <2>2, <3>1, <3>2
  <2>. QED
    BY <1>7, <2>1, <2>2
<1>. QED
  BY <1>2, <1>3, <1>4, <1>7, <1>8 DEF p, q, r, answer

LEMMA ServerTurnInv ==
    ASSUME ConnInv, ended = "no", options' = options, NEW result \in Results, ServerTurn(result)
    PROVE  ConnInv'
<1>. DEFINE p == Head(handle.to_broker)
            answer == [type |-> p.type, call |-> p.call, result |-> result]
            q == Tail(handle.to_broker)
            r == IF p.type = "PUBLISH0" THEN handle.to_client ELSE Append(handle.to_client, answer)
            U == [replied EXCEPT ![p.call] = @ \cup {result}]
            h == [handle EXCEPT !.to_broker = q, !.to_client = r]
            d == [State EXCEPT !.h = h]
<1>1. /\ handle.socket = "open" /\ handle.to_broker # <<>> /\ replied' = U
      /\ result = "failure" => p.type \in {"CONNECT", "SUBSCRIBE"}
      /\ received' = received /\ tried' = tried /\ ended' = ended /\ astray' = astray
      /\ Becomes(IF p.type = "PUBLISH0" THEN [State EXCEPT !.h.to_broker = q]
                 ELSE [[State EXCEPT !.h.to_broker = q]
                          EXCEPT !.h.to_client = Append([State EXCEPT !.h.to_broker = q].h.to_client, answer)])
  BY BeforeInv DEF ServerTurn, States
<1>2. /\ Inv(State, replied, tried) /\ State \in States /\ State.h = handle /\ State.a = app
      /\ replied \in [APICall -> SUBSET Results] /\ ReceivedInv(received, State, replied)
  BY BeforeInv
<1>3. /\ handle \in Handles /\ StateInv(handle) /\ TokenInv(handle)
      /\ handle.to_client \in Seq(Answers)
  BY PacketsBefore
<1>4. p.call \in APICall
  <2>1. /\ handle.to_broker \in Seq(Commands) /\ p = handle.to_broker[1]
        /\ 1 \in 1..Len(handle.to_broker)
    BY <1>1, PacketsBefore, TailProps
  <2>. HIDE DEF p
  <2>2. IsCall(app, p.type, p.call)
    BY <2>1, PacketsBefore
  <2>. QED
    BY <1>2, <2>2, CallsAreAPICalls
<1>5. U \in [APICall -> SUBSET Results] /\ result \in U[p.call]
      /\ \A k \in APICall : replied[k] \subseteq U[k]
  <2>. HIDE DEF p
  <2>. QED
    BY <1>2, <1>4
<1>6. /\ \A k \in 1..Len(app.calls) : replied[k] \subseteq U[k]
      /\ \A type, k : IsCall(app, type, k) => IsCall(app, type, k) /\ replied[k] \subseteq U[k]
  <2>. HIDE DEF U
  <2>. QED
    BY <1>2, <1>5, CallsAreAPICalls
<1>. HIDE DEF U
<1>7. /\ q \in Seq(Commands) /\ r \in Seq(Answers)
      /\ \A i \in 1..Len(q) : i + 1 \in 1..Len(handle.to_broker) /\ q[i] = handle.to_broker[i + 1]
      /\ \A i \in 1..Len(r) :
            /\ r[i].type \notin {"DISCONNECT", "PUBLISH0"}
            /\ IsCall(app, r[i].type, r[i].call)
            /\ r[i].type = "PUBLISH1" => r[i].result = "success"
            /\ r[i].result \in U[r[i].call]
            /\ \/ i \in 1..Len(handle.to_client) /\ r[i] = handle.to_client[i]
               \/ i = Len(handle.to_client) + 1 /\ r[i].type = p.type /\ r[i].call = p.call
      /\ 1 \in 1..Len(handle.to_broker) /\ p = handle.to_broker[1]
  BY <1>1, <1>5, <1>6, ServerPackets
<1>8. Becomes(d)
  <2>. HIDE DEF p, q, answer
  <2>1. [State EXCEPT !.h.to_broker = q].h.to_client = handle.to_client
    BY <1>2, <1>3 DEF States, Handles
  <2>2. handle.to_client = [handle EXCEPT !.to_broker = q].to_client
    BY <1>3 DEF Handles
  <2>3. p.type = "PUBLISH0" => d = [State EXCEPT !.h.to_broker = q]
    <3>1. [handle EXCEPT !.to_broker = q] = [handle EXCEPT !.to_broker = q, !.to_client = handle.to_client]
      BY <1>3 DEF Handles
    <3>. QED
      BY <1>2, <3>1 DEF States
  <2>4. p.type # "PUBLISH0" =>
           d = [[State EXCEPT !.h.to_broker = q] EXCEPT !.h.to_client = Append(handle.to_client, answer)]
    BY <1>2 DEF States
  <2>. QED
    BY <1>1, <2>1, <2>3, <2>4
<1>. HIDE DEF p, q, r
<1>9. /\ h \in Handles /\ h.connected = handle.connected
      /\ h.connect_state = handle.connect_state
      /\ h.socket = handle.socket /\ h.to_broker = q
      /\ h.commands = handle.commands /\ h.responses = handle.responses
      /\ h.outboundMsgs = handle.outboundMsgs /\ h.pending_write = handle.pending_write
      /\ h.connect = handle.connect /\ h.disconnect = handle.disconnect
      /\ h.writing = handle.writing /\ h.to_client = r
  BY <1>3, <1>7 DEF Handles
<1>. HIDE DEF h
<1>10. StateInv(h)
  BY <1>1, <1>3, <1>9 DEF StateInv, SocketInv, InUse
<1>11. p.type # "CONNECT" => (NoConnect(handle.to_client) => NoConnect(r))
  BY <1>7 DEF NoConnect
<1>12. NoConnect(handle.to_broker) => NoConnect(q)
  BY <1>7 DEF NoConnect
<1>13. TokenInv(h)
  <2>1. \A i \in 1..Len(q) : q[i].type = "CONNECT" =>
           ~handle.connected /\ q[i].call = handle.connect.call
    BY <1>3, <1>7, SMTT(30) DEF TokenInv
  <2>2. \A i, j \in 1..Len(q) : q[i].type = "CONNECT" /\ q[j].type = "CONNECT" => i = j
    <3>. SUFFICES ASSUME NEW i \in 1..Len(q), NEW j \in 1..Len(q),
                         q[i].type = "CONNECT", q[j].type = "CONNECT"
                  PROVE  i = j
      OBVIOUS
    <3>1. /\ i + 1 \in 1..Len(handle.to_broker) /\ q[i] = handle.to_broker[i + 1]
          /\ j + 1 \in 1..Len(handle.to_broker) /\ q[j] = handle.to_broker[j + 1]
      BY <1>7
    <3>2. i + 1 = j + 1
      BY <1>3, <3>1 DEF TokenInv
    <3>. QED
      BY <3>2
  <2>3. CASE p.type # "CONNECT"
    <3>1. \A i \in 1..Len(r) : r[i].type = "CONNECT" =>
             i \in 1..Len(handle.to_client) /\ r[i] = handle.to_client[i]
      BY <1>7, <2>3
    <3>2. \A i \in 1..Len(r) : r[i].type = "CONNECT" =>
             ~handle.connected /\ r[i].call = handle.connect.call
      BY <1>3, <3>1 DEF TokenInv
    <3>3. \A i, j \in 1..Len(r) : r[i].type = "CONNECT" /\ r[j].type = "CONNECT" => i = j
      BY <1>3, <3>1 DEF TokenInv
    <3>4. NoConnect(q) \/ NoConnect(r)
      BY <1>3, <1>11, <1>12, <2>3 DEF TokenInv
    <3>. QED
      BY <1>9, <2>1, <2>2, <3>2, <3>3, <3>4 DEF TokenInv
  <2>4. CASE p.type = "CONNECT"
    <3>1. NoConnect(handle.to_client) /\ ~handle.connected /\ p.call = handle.connect.call
      BY <1>3, <1>7, <2>4 DEF TokenInv, NoConnect
    <3>2. NoConnect(q)
      <4>. SUFFICES ASSUME NEW i \in 1..Len(q), q[i].type = "CONNECT"
                    PROVE  FALSE
        BY DEF NoConnect
      <4>1. i + 1 \in 1..Len(handle.to_broker) /\ q[i] = handle.to_broker[i + 1]
        BY <1>7
      <4>2. i + 1 = 1
        BY <1>3, <1>7, <2>4, <4>1 DEF TokenInv
      <4>. QED
        BY <4>2
    <3>3. \A i \in 1..Len(r) : r[i].type = "CONNECT" =>
             i = Len(handle.to_client) + 1 /\ r[i].call = p.call
      BY <1>7, <3>1 DEF NoConnect
    <3>. QED
      BY <1>9, <2>1, <2>2, <3>1, <3>2, <3>3 DEF TokenInv
  <2>. QED
    BY <2>3, <2>4
<1>14. /\ \A i \in 1..Len(h.writing) :
             h.writing[i].type \in Asks /\ IsCall(app, h.writing[i].type, h.writing[i].call)
       /\ \A i \in 1..Len(h.to_broker) :
             /\ h.to_broker[i].type # "DISCONNECT"
             /\ IsCall(app, h.to_broker[i].type, h.to_broker[i].call)
  BY <1>7, <1>9, PacketsBefore, ZenonT(40)
<1>15. \A i \in 1..Len(h.to_client) :
             /\ h.to_client[i].type \notin {"DISCONNECT", "PUBLISH0"}
             /\ IsCall(app, h.to_client[i].type, h.to_client[i].call)
             /\ h.to_client[i].type = "PUBLISH1" => h.to_client[i].result = "success"
             /\ h.to_client[i].result \in U[h.to_client[i].call]
  BY <1>7, <1>9
<1>16. /\ InUse(h) => InUse(handle)
       /\ h.connect_state = -2 => handle.connect_state = -2
       /\ Connecting(h) => Connecting(handle)
  BY <1>9 DEF InUse, Connecting
<1>17. /\ Inv(d, U, tried) /\ Counted(d) /\ SocketInv(d.h)
       /\ d \in States /\ d.h = h /\ d.a = app
  BY <1>6, <1>9, <1>10, <1>13, <1>14, <1>15, <1>16, LinkStep
<1>. HIDE DEF d
<1>18. ReceivedInv(received, d, U)
  <2>1. InUse(handle) /\ handle.connect_state # 1
    BY <1>1, <1>3 DEF StateInv, SocketInv
  <2>2. NoConnect(handle.to_broker) /\ NoConnect(handle.to_client) => NoConnect(q) /\ NoConnect(r)
    <3>1. NoConnect(handle.to_broker) => p.type # "CONNECT"
      BY <1>7 DEF NoConnect
    <3>. QED
      BY <1>11, <1>12, <3>1
  <2>. QED
    BY <1>2, <1>6, <1>9, <1>17, <2>1, <2>2, ReceivedKept
<1>. QED
  BY <1>1, <1>5, <1>8, <1>17, <1>18, BeforeInv, StepInv

LEMMA LinkBreaksInv ==
    ASSUME ConnInv, ended = "no", options' = options, LinkBreaks
    PROVE  ConnInv'
<1>. DEFINE h == [handle EXCEPT !.socket = "broken", !.to_broker = <<>>, !.to_client = <<>>]
            d == [State EXCEPT !.h = h]
<1>1. /\ handle.socket = "open" /\ replied' = replied
      /\ received' = received /\ tried' = tried /\ ended' = ended /\ astray' = astray
  BY DEF LinkBreaks
<1>2. /\ Inv(State, replied, tried) /\ State \in States /\ State.h = handle /\ State.a = app
      /\ ReceivedInv(received, State, replied)
  BY BeforeInv
<1>3. /\ handle \in Handles /\ StateInv(handle)
      /\ <<>> \in Seq(Answers) /\ <<>> \in Seq(Commands)
  BY PacketsBefore
<1>4. Becomes(d)
  BY <1>2 DEF LinkBreaks, Becomes, States
<1>5. /\ h \in Handles /\ h.connected = handle.connected
      /\ h.connect_state = handle.connect_state
      /\ h.socket = "broken" /\ h.to_broker = <<>>
      /\ h.commands = handle.commands /\ h.responses = handle.responses
      /\ h.outboundMsgs = handle.outboundMsgs /\ h.pending_write = handle.pending_write
      /\ h.connect = handle.connect /\ h.disconnect = handle.disconnect
      /\ h.writing = handle.writing /\ h.to_client = <<>>
  BY <1>3 DEF Handles
<1>. HIDE DEF h
<1>6. InUse(handle) /\ handle.connect_state # 1
  BY <1>1, <1>3 DEF StateInv, SocketInv
<1>7. StateInv(h)
  BY <1>1, <1>3, <1>5, <1>6 DEF StateInv, SocketInv, InUse
<1>8. TokenInv(h)
  BY <1>5 DEF TokenInv, NoConnect
<1>9. /\ \A k \in 1..Len(app.calls) : replied[k] \subseteq replied[k]
      /\ \A i \in 1..Len(h.writing) :
             h.writing[i].type \in Asks /\ IsCall(app, h.writing[i].type, h.writing[i].call)
  BY <1>5, PacketsBefore
<1>10. Len(h.to_broker) = 0 /\ Len(h.to_client) = 0
  BY <1>5
<1>11. /\ InUse(h) => InUse(handle)
       /\ h.connect_state = -2 => handle.connect_state = -2
       /\ Connecting(h) => Connecting(handle)
  BY <1>5 DEF InUse, Connecting
<1>12. /\ Inv(d, replied, tried) /\ Counted(d) /\ SocketInv(d.h)
       /\ d \in States /\ d.h = h /\ d.a = app
  BY <1>5, <1>7, <1>8, <1>9, <1>10, <1>11, LinkStep
<1>. HIDE DEF d
<1>13. ReceivedInv(received, d, replied)
  <2>1. NoConnect(h.to_broker) /\ NoConnect(h.to_client)
    BY <1>5 DEF NoConnect
  <2>2. \A type, k : IsCall(app, type, k) => IsCall(app, type, k) /\ replied[k] \subseteq replied[k]
    OBVIOUS
  <2>. QED
    BY <1>2, <1>5, <1>6, <1>12, <2>1, <2>2, ReceivedKept
<1>. QED
  BY <1>1, <1>4, <1>12, <1>13, BeforeInv, StepInv


-----------------------------------------------------------------------------
(* The specification.                                                      *)

LEMMA StaysStill ==
    ASSUME ConnInv, UNCHANGED connVars
    PROVE  ConnInv'
<1>1. /\ options' = options /\ handle' = handle /\ received' = received /\ app' = app
      /\ replied' = replied /\ tried' = tried /\ links' = links /\ astray' = astray
      /\ ended' = ended
  BY DEF connVars
<1>2. Becomes(State) /\ SocketInv(State.h) /\ State \in States
  BY <1>1 DEF Becomes, State, ConnInv, TypeInv
<1>. QED
  BY <1>1, <1>2, StepInv DEF ConnInv, TypeInv, Defined

LEMMA ConnStarts ==
    ASSUME ConnInit
    PROVE  ConnInv
<1>1. /\ options \in ConnectOptions /\ received = IdlePack /\ ended = "no" /\ tried = <<>>
      /\ replied = [k \in APICall |-> {}] /\ astray = [connects |-> {}, response |-> FALSE]
  BY DEF ConnInit
<1>2. /\ Command("CONNECT", 0) \in Commands /\ Command("DISCONNECT", 0) \in Commands
      /\ Command("CONNECT", 0).type = "CONNECT" /\ ~Command("CONNECT", 0).internal
      /\ Command("CONNECT", 0).call = 0
  BY BoundTypes, CommandType DEF Kinds
<1>3. /\ handle \in Handles /\ handle.connected = FALSE /\ handle.connect_state = 0
      /\ handle.outboundMsgs = {} /\ handle.commands = <<>> /\ handle.responses = <<>>
      /\ handle.pending_write = 0 /\ handle.connect.type = "CONNECT" /\ ~handle.connect.internal
      /\ handle.socket = "closed" /\ handle.writing = <<>> /\ handle.to_broker = <<>>
      /\ handle.to_client = <<>>
  <2>. DEFINE c == Command("CONNECT", 0)
              b == Command("DISCONNECT", 0)
  <2>1. /\ handle = [connected |-> FALSE, connect_state |-> 0, outboundMsgs |-> {},
                     commands |-> <<>>, responses |-> <<>>, pending_write |-> 0,
                     connect |-> c, disconnect |-> b,
                     socket |-> "closed", writing |-> <<>>, to_broker |-> <<>>, to_client |-> <<>>]
        /\ c \in Commands /\ b \in Commands /\ c.type = "CONNECT" /\ ~c.internal
    BY <1>2 DEF ConnInit
  <2>2. <<>> \in Seq(Commands) /\ <<>> \in Seq(Answers) /\ 0 \in 0..MaxAPICalls
    BY BoundTypes
  <2>. HIDE DEF c, b
  <2>. QED
    BY <2>1, <2>2 DEF Handles
<1>4. /\ app \in Apps /\ app.calls = <<>> /\ \A k \in APICall : app.told[k] = <<>>
      /\ app.is = "off"
  <2>1. [k \in APICall |-> <<>>] \in [APICall -> Seq(Results)] /\ <<>> \in Seq(Kinds)
    OBVIOUS
  <2>. QED
    BY <2>1 DEF ConnInit, Apps
<1>5. links \in Links /\ links.up = 0 /\ links.lost = 0 /\ links.left = 0
  BY DEF ConnInit, Links
<1>6. State \in States /\ State.h = handle /\ State.a = app /\ State.n = links
  BY <1>3, <1>4, <1>5 DEF State, States
<1>7. TypeInv
  BY <1>1, <1>6 DEF TypeInv
<1>8. ~InUse(handle) /\ SocketInv(handle) /\ ~Connecting(handle) /\ NoConnect(handle.commands)
  BY <1>3 DEF InUse, SocketInv, Connecting, NoConnect
<1>9. ~LastConnect(State)
  BY <1>4, <1>6 DEF LastConnect, IsCall
<1>10. OwnedInv(State)
  BY <1>3, <1>4, <1>6, BoundTypes DEF OwnedInv, QueuesOwned, PacketsOwned, OthersOwned
<1>11. LinkInv(State)
  <2>1. StateInv(handle) /\ TokenInv(handle) /\ QueueInv(handle)
    BY <1>3, <1>8 DEF StateInv, TokenInv, NoConnect, QueueInv
  <2>2. ConnectInv(State)
    BY <1>3, <1>4, <1>6, <1>8 DEF ConnectInv
  <2>. QED
    BY <1>6, <2>1, <2>2 DEF LinkInv
<1>12. OnceInv(State)
  BY <1>3, <1>4, <1>6, <1>8 DEF OnceInv, ToldInv, CommandsInv, ResponsesInv, OthersInv
<1>13. TrueInv(State, replied)
  BY <1>3, <1>4, <1>6 DEF TrueInv
<1>14. TriedInv(State, tried)
  BY <1>3, <1>6, <1>8, <1>9 DEF TriedInv
<1>15. Counted(State)
  BY <1>3, <1>5, <1>6 DEF Counted
<1>16. ReceivedInv(received, State, replied)
  BY <1>1, IdleInv
<1>. QED
  BY <1>6, <1>7, <1>8, <1>10, <1>11, <1>12, <1>13, <1>14, <1>15, <1>16 DEF ConnInv, Inv

LEMMA ConnStep ==
    ASSUME ConnInv, ConnNext
    PROVE  ConnInv'
<1>1. ended = "no" /\ options' = options
  BY DEF ConnNext
<1>2. CASE AppConnects \/ AppDisconnects \/ AppAsks
  BY <1>1, <1>2, AppInv
<1>3. CASE SendTurn
  <2>1. CASE ProcessDisconnect
    BY <1>1, <2>1, ProcessDisconnectInv
  <2>2. CASE DisconnectDue
    BY <1>1, <2>2, DisconnectDueInv
  <2>3. ASSUME NEW command, ConnectStarts(command) \/ ConnectFails(command)
        PROVE  ConnInv'
    BY <1>1, <2>3, ConnectStartsInv, ConnectFailsInv
  <2>4. ASSUME NEW command, RequestSent(command) \/ RequestFails(command)
        PROVE  ConnInv'
    BY <1>1, <2>4, RequestSentInv, RequestFailsInv
  <2>. QED
    BY <1>3, <2>1, <2>2, <2>3, <2>4 DEF SendTurn
<1>4. CASE ReceiveTurn
  <2>1. CASE TcpDone \/ TcpFails
    BY <1>1, <2>1, TcpDoneInv, TcpFailsInv
  <2>2. CASE CyclePuback \/ CycleReads \/ CycleFails
    BY <1>1, <2>2, CyclePubackInv, CycleReadsInv, CycleFailsInv
  <2>3. CASE WriteCompletes
    BY <1>1, <2>3, WriteCompletesInv
  <2>4. CASE TurnConnack \/ TurnAnswer
    BY <1>1, <2>4, TurnConnackInv, TurnAnswerInv
  <2>5. CASE TurnError \/ TurnWithoutClient
    BY <1>1, <2>5, TurnErrorInv, TurnWithoutClientInv
  <2>. QED
    BY <1>4, <2>1, <2>2, <2>3, <2>4, <2>5 DEF ReceiveTurn
<1>5. CASE ConnectTimesOut
  BY <1>1, <1>5, ConnectTimesOutInv
<1>6. CASE KeepaliveEnds
  BY <1>1, <1>6, KeepaliveEndsInv
<1>7. CASE ServerAnswers \/ ServerRefuses
  <2>1. "success" \in Results /\ "failure" \in Results
    BY DEF Results
  <2>2. ServerTurn("success") \/ ServerTurn("failure")
    BY <1>7 DEF ServerAnswers, ServerRefuses
  <2>. QED
    BY <1>1, <2>1, <2>2, ServerTurnInv
<1>8. CASE LinkBreaks
  BY <1>1, <1>8, LinkBreaksInv
<1>. QED
  BY <1>2, <1>3, <1>4, <1>5, <1>6, <1>7, <1>8 DEF ConnNext

-----------------------------------------------------------------------------
(* What the invariant says of the replies.                                 *)

LEMMA TypesHold ==
    ASSUME ConnInv
    PROVE  ConnTypeOK
<1>1. handle \in Handles /\ received \in {IdlePack, ErrorPack} \cup AnswerReceived
      /\ ended \in {"no"} \cup Endings
  BY DEF ConnInv, TypeInv, State, States
<1>2. received.type \in {"none", "error", "CONNECT", "SUBSCRIBE", "UNSUBSCRIBE"}
  BY <1>1 DEF IdlePack, ErrorPack, AnswerReceived
<1>3. /\ handle.connected \in BOOLEAN /\ handle.connect_state \in {0, 1, 3, -2}
      /\ handle.socket \in {"closed", "opening", "open", "broken"}
  BY <1>1 DEF Handles
<1>. QED
  BY <1>1, <1>2, <1>3 DEF ConnTypeOK, ConnInv, SocketInv

LEMMA TriedHolds ==
    ASSUME ConnInv
    PROVE  ConnectIsTried
<1>. SUFFICES ASSUME ended = "no", NextCommand("CONNECT"), InUse(handle)
              PROVE  FALSE
  BY DEF ConnectIsTried, Defined
<1>1. Inv(State, replied, tried) /\ State.h = handle /\ State \in States
  BY BeforeInv
<1>2. handle.commands \in Seq(Commands) /\ handle.commands # <<>>
      /\ Head(handle.commands).type = "CONNECT"
  BY <1>1, StateFields DEF NextCommand
<1>3. 1 \in 1..Len(handle.commands) /\ handle.commands[1].type = "CONNECT"
  BY <1>2
<1>. QED
  BY <1>1, <1>3 DEF Inv, LinkInv, QueueInv

LEMMA OnceHolds ==
    ASSUME ConnInv
    PROVE  ToldOnce
<1>. SUFFICES ASSUME ended = "no"
              PROVE  \A k \in APICall : Len(app.told[k]) <= 1
  BY DEF ToldOnce, Defined
<1>. QED
  BY BeforeInv DEF Inv, OnceInv, ToldInv

LEMMA AnsweredHolds ==
    ASSUME ConnInv
    PROVE  ToldIsAnswered
<1>. SUFFICES ASSUME ended = "no", NEW k \in DOMAIN app.calls,
                     app.calls[k] \in {"CONNECT"} \cup (Asks \ {"PUBLISH0"}),
                     app.told[k] = <<"success">>
              PROVE  "success" \in replied[k]
  BY DEF ToldIsAnswered, Defined
<1>1. Inv(State, replied, tried) /\ State.a = app /\ State \in States
  BY BeforeInv
<1>2. k \in 1..Len(app.calls)
  BY <1>1, StateFields
<1>3. app.calls[k] \notin {"DISCONNECT", "PUBLISH0"}
  BY ConnectAssumption
<1>. QED
  BY <1>1, <1>2, <1>3 DEF Inv, TrueInv

LEMMA LossHolds ==
    ASSUME ConnInv
    PROVE  LossIsTold
  BY DEF ConnInv, LossIsTold, Defined, Counted, State

LEMMA ServersHold ==
    ASSUME ConnInv, \A o \in ConnectOptions : o.serverURIcount > 0 => o.MQTTVersion = 0
    PROVE  ServersAreTried
<1>. SUFFICES ASSUME ended = "no", NEW k \in DOMAIN app.calls,
                     app.calls[k] = "CONNECT", app.told[k] = <<"failure">>,
                     \A j \in k + 1 .. Len(app.calls) : app.calls[j] # "CONNECT"
              PROVE  /\ 0 .. options.serverURIcount - 1 \subseteq {t[1] : t \in ToSet(tried)}
                     /\ options.MQTTVersion = 0 => SubSeq(tried, 1, 2) = <<<<0, 4>>, <<0, 3>>>>
  BY DEF ServersAreTried, Defined
<1>1. /\ Inv(State, replied, tried) /\ State.a = app /\ State.h = handle /\ State \in States
      /\ options \in ConnectOptions /\ tried \in Seq(Nat \X Nat)
  BY BeforeInv
<1>2. k \in 1..Len(app.calls) /\ Len(app.calls) \in Nat
  BY <1>1, StateFields
<1>3. LastConnect(State)
  BY <1>1, <1>2 DEF Inv, LinkInv, ConnectInv
<1>4. k = handle.connect.call
  <2>1. /\ handle.connect.call \in 1..Len(app.calls) /\ app.calls[handle.connect.call] = "CONNECT"
        /\ \A j \in handle.connect.call + 1 .. Len(app.calls) : app.calls[j] # "CONNECT"
    BY <1>1, <1>3 DEF LastConnect, IsCall
  <2>2. ~(k < handle.connect.call) /\ ~(handle.connect.call < k)
    BY <1>2, <2>1
  <2>. QED
    BY <1>2, <2>1, <2>2
<1>5. AllTried(tried)
  BY <1>1, <1>3, <1>4 DEF Inv, TriedInv
<1>6. options.serverURIcount \in Nat /\ (options.serverURIcount > 0 => options.MQTTVersion = 0)
  BY <1>1, OptionType
<1>7. 0 .. options.serverURIcount - 1 \subseteq {t[1] : t \in ToSet(tried)}
  <2>. SUFFICES ASSUME NEW u \in 0 .. options.serverURIcount - 1
                PROVE  \E t \in ToSet(tried) : t[1] = u
    OBVIOUS
  <2>1. options.MQTTVersion = 0
    BY <1>6
  <2>2. PICK i \in 1..Len(tried) : tried[i][1] = u
    BY <1>5, <2>1 DEF AllTried, Reached
  <2>3. tried[i] \in ToSet(tried)
    BY <1>1, <2>2 DEF ToSet
  <2>. QED
    BY <2>2, <2>3
<1>8. ASSUME options.MQTTVersion = 0
      PROVE  SubSeq(tried, 1, 2) = <<<<0, 4>>, <<0, 3>>>>
  <2>1. Len(tried) >= 2 /\ tried[1] = <<0, 4>> /\ tried[2] = <<0, 3>>
    BY <1>5, <1>8 DEF AllTried, BothVersions
  <2>2. /\ SubSeq(tried, 1, 2) \in Seq(Nat \X Nat) /\ Len(SubSeq(tried, 1, 2)) = 2
        /\ SubSeq(tried, 1, 2)[1] = tried[1] /\ SubSeq(tried, 1, 2)[2] = tried[2]
    BY <1>1, <2>1
  <2>3. \A q \in Seq(Nat \X Nat) : Len(q) = 2 => q = <<q[1], q[2]>>
    OBVIOUS
  <2>. QED
    BY <2>1, <2>2, <2>3
<1>. QED
  BY <1>7, <1>8

(***************************************************************************)
(* At most one reply to a call, and a true one: no connect is dropped,     *)
(* nothing is replied twice (ToldOnce), onSuccess says that the broker     *)
(* accepted the call (ToldIsAnswered), and connectionLost is called once   *)
(* for each connection that neither lasts nor was left (LossIsTold); for   *)
(* all options, servers, numbers of calls, and faults.                     *)
(***************************************************************************)
THEOREM CallsToldOnce ==
    ConnInit /\ [][ConnNext]_connVars
        => [](ConnTypeOK /\ ConnectIsTried /\ ToldOnce /\ ToldIsAnswered /\ LossIsTold)
<1>1. ConnInit => ConnInv
  BY ConnStarts
<1>2. ConnInv /\ [ConnNext]_connVars => ConnInv'
  BY ConnStep, StaysStill
<1>3. ConnInv => ConnTypeOK /\ ConnectIsTried /\ ToldOnce /\ ToldIsAnswered /\ LossIsTold
  BY TypesHold, TriedHolds, OnceHolds, AnsweredHolds, LossHolds
<1>. QED
  BY <1>1, <1>2, <1>3, PTL

(***************************************************************************)
(* The same, and that onFailure of a connect comes when every server and   *)
(* version was tried.  With a list of servers and one given version        *)
(* MQTTAsync_processCommand skips the first server, hence the hypothesis.  *)
(***************************************************************************)
THEOREM CallsTold ==
    ASSUME \A o \in ConnectOptions : o.serverURIcount > 0 => o.MQTTVersion = 0
    PROVE  ConnInit /\ [][ConnNext]_connVars => []CallsAreTold
<1>1. ConnInit => ConnInv
  BY ConnStarts
<1>2. ConnInv /\ [ConnNext]_connVars => ConnInv'
  BY ConnStep, StaysStill
<1>3. ConnInv => CallsAreTold
  BY TypesHold, TriedHolds, OnceHolds, AnsweredHolds, LossHolds, ServersHold DEF CallsAreTold
<1>. QED
  BY <1>1, <1>2, <1>3, PTL
=============================================================================

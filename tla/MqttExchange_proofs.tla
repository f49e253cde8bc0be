------------------------ MODULE MqttExchange_proofs ------------------------
(***************************************************************************)
(* The exchanges of MqttDelivery in a session that is kept: onSuccess is   *)
(* true, a QoS 2 message is delivered once in each direction, and what is  *)
(* acknowledged is kept; for any number of messages, breaks, refusals and  *)
(* retries.  The last part is about a clean session, which the nodes ask   *)
(* for: a callback is about its own message.                               *)
(*                                                                         *)
(* From the application to the broker (OutInv) a message is followed by    *)
(* its id through the queue, the list of messages under way, the packets   *)
(* in flight, and the broker.  An id, once given, has one message for      *)
(* good, because ids do not come round (KeptSession).  A QoS 2 message the *)
(* broker has published is not with it any more, and is not sent to it     *)
(* again: PUBREL is all that is still repeated.                            *)
(*                                                                         *)
(* From the broker to the application (InInv) there is one token for an    *)
(* exchange: the PUBLISH or PUBREL on its way to the client, or the answer *)
(* on its way back; a break takes it, a reconnect makes it anew from what  *)
(* the broker owes.  Each packet in flight and each message stored says    *)
(* how far the broker can be with that id.                                 *)
(***************************************************************************)
EXTENDS MqttDelivery_proofs

-----------------------------------------------------------------------------
(* Messages of the application.                                            *)

USE DEF sendVars, connVars, sessionVars, linkVars, brokerVars, bounds, history

\* A packet of one of the types T with this id
Holds(s, T, id) == \E i \in 1..Len(s) : s[i].type \in T /\ s[i].id = id

\* Where a message may be, with its id
Queued(id, m) == \E i \in 1..Len(commands) :
                    commands[i].type = "PUBLISH" /\ commands[i].id = id /\ commands[i].msg = m
Awaited(id, m) == \E i \in 1..Len(responses) : responses[i].id = id /\ responses[i].msg = m
UnderWay(id, m) == \E i \in 1..Len(outboundMsgs) : outboundMsgs[i].id = id /\ outboundMsgs[i].msg = m
InFlight(id, m) == \E i \in 1..Len(to_broker) :
                      to_broker[i].type = "PUBLISH" /\ to_broker[i].id = id /\ to_broker[i].msg = m
WithBroker(id, m) == \E r \in b_received : r.id = id /\ r.msg = m
Published(m) == \E i \in 1..Len(published) : published[i] = m
Carried(id, m) == \/ Queued(id, m) \/ Awaited(id, m) \/ UnderWay(id, m) \/ InFlight(id, m)
                  \/ WithBroker(id, m) \/ (Published(m) /\ id = m.seq)

\* The ids are the numbers of the messages
Numbered ==
    /\ msgID = sends
    /\ \A id \in Nat, m \in Sent : Carried(id, m) => id = m.seq /\ id <= sends
    /\ \A id \in Nat, m \in Sent, k \in Sent : Carried(id, m) /\ Carried(id, k) => m = k
    /\ \A r \in b_received : r.msg.qos = 2

\* What waits in the queue has not been sent, and waits once
Sending(n) == \/ HasId(outboundMsgs, n)
              \/ Holds(to_broker, {"PUBLISH", "PUBREL"}, n)
              \/ \E r \in b_received : r.id = n
              \/ \E i \in 1..Len(published) : published[i].seq = n
Fresh ==
    /\ \A i \in 1..Len(commands), n \in Nat :
          commands[i].type = "PUBLISH" /\ commands[i].id = n => ~Sending(n)
    /\ \A i, j \in 1..Len(commands) :
          /\ commands[i].type = "PUBLISH" /\ commands[j].type = "PUBLISH"
          /\ commands[i].id = commands[j].id
          => i = j

\* The messages under way with this id are known to be with the broker
Released(n) == \A i \in 1..Len(outboundMsgs) :
                  outboundMsgs[i].id = n => outboundMsgs[i].next = "PUBCOMP"

(***************************************************************************)
(* A QoS 2 message that the broker has published is not on its way to the  *)
(* broker again, and behind a PUBREL there is no PUBLISH of its id.        *)
(***************************************************************************)
PublishedOnce ==
    /\ SentAtMostOnce /\ UniqueIds
    /\ \A m \in Sent : Published(m) /\ m.qos = 2 =>
          /\ \A i \in 1..Len(to_broker) : to_broker[i].type = "PUBLISH" => to_broker[i].msg # m
          /\ \A r \in b_received : r.msg # m
          /\ Released(m.seq)
    /\ \A i \in 1..Len(to_broker), n \in Nat :
          to_broker[i].type = "PUBREL" /\ to_broker[i].id = n => Released(n)
    /\ \A i, j \in 1..Len(to_broker) :
          /\ to_broker[i].type = "PUBREL" /\ to_broker[j].type = "PUBLISH"
          /\ to_broker[i].id = to_broker[j].id
          => j < i
    /\ \A i \in 1..Len(outboundMsgs) : outboundMsgs[i].next = "PUBCOMP" => outboundMsgs[i].msg.qos = 2

(***************************************************************************)
(* The broker acknowledges what it has published, and says so of a QoS 2   *)
(* message it has got.                                                     *)
(***************************************************************************)
PublishedNo(n) == \E i \in 1..Len(published) : published[i].seq = n
Got(n) == (\E r \in b_received : r.id = n) \/ PublishedNo(n)
Recorded1(n) == \E i \in 1..Len(outboundMsgs) :
                   outboundMsgs[i].next = "PUBCOMP" /\ outboundMsgs[i].id = n
Acknowledged ==
    /\ \A m \in succeeded : Published(m)
    /\ \A n \in Nat : Holds(to_client, {"PUBACK", "PUBCOMP"}, n) => PublishedNo(n)
    /\ \A n \in Nat : \/ Holds(to_client, {"PUBREC"}, n)
                      \/ Holds(to_broker, {"PUBREL"}, n)
                      \/ Recorded1(n)
                      => Got(n)

OutInv == Numbered /\ Fresh /\ PublishedOnce /\ Acknowledged

LEMMA OutInit == Init => OutInv
<1>. SUFFICES ASSUME Init PROVE OutInv
  OBVIOUS
<1>. USE DEF Init
<1>1. /\ \A i \in 1..Len(commands) : commands[i].type # "PUBLISH"
      /\ \A i \in 1..Len(to_broker) : FALSE
      /\ \A i \in 1..Len(to_client) : FALSE
      /\ \A i \in 1..Len(outboundMsgs) : FALSE
      /\ \A i \in 1..Len(responses) : FALSE
      /\ \A i \in 1..Len(published) : FALSE
      /\ b_received = {} /\ succeeded = {} /\ msgID = sends
  BY DEF Connect
<1>2. \A id, m : ~Carried(id, m)
  BY <1>1 DEF Carried, Queued, Awaited, UnderWay, InFlight, WithBroker, Published
<1>3. Numbered
  BY <1>1, <1>2 DEF Numbered
<1>4. Fresh
  BY <1>1 DEF Fresh
<1>5. PublishedOnce
  BY <1>1 DEF PublishedOnce, SentAtMostOnce, UniqueIds, Published
<1>6. Acknowledged
  BY <1>1 DEF Acknowledged, Holds, Recorded1
<1>. QED
  BY <1>3, <1>4, <1>5, <1>6 DEF OutInv

\* The messages go from one place to another
LEMMA NumberedKept ==
    ASSUME Numbered, UNCHANGED <<msgID, sends>>,
           \A id \in Nat, m \in Sent : Carried(id, m)' => Carried(id, m),
           \A r \in b_received' : r.msg.qos = 2
    PROVE  Numbered'
BY DEF Numbered

LEMMA FreshKept ==
    ASSUME Fresh, TypeInv, TypeInv', WithinFor(commands', commands, {"PUBLISH"}),
           \A n \in Nat : Sending(n)' => Sending(n)
    PROVE  Fresh'
<1>1. PICK f \in [1..Len(commands') -> Int] :
         /\ \A i \in 1..Len(commands') : commands'[i].type \in {"PUBLISH"} =>
               f[i] \in 1..Len(commands) /\ commands'[i] = commands[f[i]]
         /\ \A i, j \in 1..Len(commands') :
               commands'[i].type \in {"PUBLISH"} /\ commands'[j].type \in {"PUBLISH"} /\ i < j => f[i] < f[j]
  BY DEF WithinFor
<1>2. commands' \in Seq(Command)
  BY DEF TypeInv, SendTypes
<1>3. ASSUME NEW i \in 1..Len(commands'), NEW n \in Nat, commands'[i].type = "PUBLISH" /\ commands'[i].id = n
      PROVE  ~Sending(n)'
  <2>1. f[i] \in 1..Len(commands) /\ commands'[i] = commands[f[i]]
    BY <1>1, <1>3
  <2>2. ~Sending(n)
    BY <1>3, <2>1 DEF Fresh
  <2>. QED
    BY <2>2
<1>4. ASSUME NEW i \in 1..Len(commands'), NEW j \in 1..Len(commands'),
             commands'[i].type = "PUBLISH" /\ commands'[j].type = "PUBLISH",
             commands'[i].id = commands'[j].id
      PROVE  i = j
  <2>1. /\ f[i] \in 1..Len(commands) /\ commands'[i] = commands[f[i]]
        /\ f[j] \in 1..Len(commands) /\ commands'[j] = commands[f[j]]
    BY <1>1, <1>4
  <2>2. f[i] = f[j]
    BY <1>4, <2>1 DEF Fresh
  <2>. QED
    BY <1>1, <1>2, <1>4, <2>2
<1>. QED
  BY <1>3, <1>4 DEF Fresh

-----------------------------------------------------------------------------
(* What there is in a sequence that was changed.                           *)

LEMMA HoldsWithin ==
    ASSUME NEW S, NEW s \in Seq(S), NEW t \in Seq(S), NEW U, WithinFor(t, s, U),
           NEW T \in SUBSET U, NEW n, Holds(t, T, n)
    PROVE  Holds(s, T, n)
BY DEF Holds, WithinFor

LEMMA HoldsAppend ==
    ASSUME NEW S, NEW s \in Seq(S), NEW e \in S, NEW T, NEW n, Holds(Append(s, e), T, n)
    PROVE  Holds(s, T, n) \/ (e.type \in T /\ e.id = n)
<1>. DEFINE l == Len(s)
            t == Append(s, e)
<1>1. /\ l \in Nat /\ Len(t) = l + 1 /\ t[l + 1] = e /\ \A i \in 1..l : t[i] = s[i]
  OBVIOUS
<1>2. Holds(t, T, n) /\ l = Len(s)
  OBVIOUS
<1>. HIDE DEF l, t
<1>3. PICK i \in 1..l + 1 : t[i].type \in T /\ t[i].id = n
  BY <1>1, <1>2 DEF Holds
<1>4. CASE i = l + 1
  BY <1>1, <1>3, <1>4
<1>5. CASE i \in 1..l
  BY <1>1, <1>2, <1>3, <1>5 DEF Holds
<1>. QED
  BY <1>1, <1>4, <1>5

LEMMA HoldsTail ==
    ASSUME NEW S, NEW s \in Seq(S), s # <<>>, NEW T, NEW n
    PROVE  /\ Holds(Tail(s), T, n) => Holds(s, T, n)
           /\ Head(s).type \in T => Holds(s, T, Head(s).id)
<1>1. ASSUME Holds(Tail(s), T, n)
      PROVE  Holds(s, T, n)
  <2>1. PICK i \in 1..Len(Tail(s)) : Tail(s)[i].type \in T /\ Tail(s)[i].id = n
    BY <1>1 DEF Holds
  <2>2. i + 1 \in 1..Len(s) /\ Tail(s)[i] = s[i + 1]
    BY <2>1
  <2>. QED
    BY <2>1, <2>2 DEF Holds
<1>2. Head(s).type \in T => Holds(s, T, Head(s).id)
  <2>1. 1 \in 1..Len(s) /\ Head(s) = s[1]
    OBVIOUS
  <2>. QED
    BY <2>1 DEF Holds
<1>. QED
  BY <1>1, <1>2

LEMMA WithinHas ==
    ASSUME NEW S, NEW s \in Seq(S), NEW t \in Seq(S), Within(t, s), NEW i \in 1..Len(t)
    PROVE  \E k \in 1..Len(s) : t[i] = s[k]
BY DEF Within

LEMMA PublishedOnceKept ==
    ASSUME PublishedOnce, TypeInv, TypeInv', Within(outboundMsgs', outboundMsgs),
           WithinFor(to_broker', to_broker, {"PUBLISH", "PUBREL"}),
           b_received' \subseteq b_received, published' = published
    PROVE  PublishedOnce'
<1>1. PICK f \in [1..Len(outboundMsgs') -> 1..Len(outboundMsgs)] :
         /\ \A i \in 1..Len(outboundMsgs') : outboundMsgs'[i] = outboundMsgs[f[i]]
         /\ \A i, j \in 1..Len(outboundMsgs') : i < j => f[i] < f[j]
  BY DEF Within
<1>. DEFINE U == {"PUBLISH", "PUBREL"}
<1>0. WithinFor(to_broker', to_broker, U) /\ "PUBLISH" \in U /\ "PUBREL" \in U
  OBVIOUS
<1>. HIDE DEF U
<1>2. PICK g \in [1..Len(to_broker') -> Int] :
         /\ \A i \in 1..Len(to_broker') : to_broker'[i].type \in U =>
               g[i] \in 1..Len(to_broker) /\ to_broker'[i] = to_broker[g[i]]
         /\ \A i, j \in 1..Len(to_broker') :
               to_broker'[i].type \in U /\ to_broker'[j].type \in U /\ i < j => g[i] < g[j]
  BY <1>0 DEF WithinFor
<1>3. outboundMsgs' \in Seq(Entries(Sent)) /\ to_broker' \in Seq(ToBroker)
  BY DEF TypeInv, SessionTypes, LinkTypes
<1>4. SentAtMostOnce'
  BY DEF PublishedOnce, SentAtMostOnce
<1>5. UniqueIds'
  <2>. SUFFICES ASSUME NEW i \in 1..Len(outboundMsgs'), NEW j \in 1..Len(outboundMsgs'),
                       outboundMsgs'[i].id = outboundMsgs'[j].id
                PROVE  i = j
    BY DEF UniqueIds
  <2>1. f[i] = f[j] /\ f[i] \in Int
    BY <1>1 DEF PublishedOnce, UniqueIds
  <2>2. ~(i < j) /\ ~(j < i)
    BY <1>1, <2>1
  <2>. QED
    BY <1>3, <2>2
<1>6. \A n \in Nat : Released(n) => Released(n)'
  BY <1>1 DEF Released
<1>7. ASSUME NEW m \in Sent, Published(m)', m.qos = 2
      PROVE  /\ \A i \in 1..Len(to_broker') : to_broker'[i].type = "PUBLISH" => to_broker'[i].msg # m
             /\ \A r \in b_received' : r.msg # m
             /\ Released(m.seq)'
  <2>1. Published(m) /\ m.seq \in Nat
    BY <1>7 DEF Published, Sent
  <2>. QED
    BY <1>0, <1>2, <1>6, <1>7, <2>1 DEF PublishedOnce
<1>8. ASSUME NEW i \in 1..Len(to_broker'), NEW n \in Nat, to_broker'[i].type = "PUBREL" /\ to_broker'[i].id = n
      PROVE  Released(n)'
  BY <1>0, <1>2, <1>6, <1>8 DEF PublishedOnce
<1>9. ASSUME NEW i \in 1..Len(to_broker'), NEW j \in 1..Len(to_broker'),
             to_broker'[i].type = "PUBREL" /\ to_broker'[j].type = "PUBLISH", to_broker'[i].id = to_broker'[j].id
      PROVE  j < i
  <2>1. g[j] < g[i]
    BY <1>0, <1>2, <1>9 DEF PublishedOnce
  <2>2. ~(i < j) /\ i # j
    BY <1>0, <1>2, <1>9, <2>1
  <2>. QED
    BY <1>3, <2>2
<1>10. \A i \in 1..Len(outboundMsgs') : outboundMsgs'[i].next = "PUBCOMP" => outboundMsgs'[i].msg.qos = 2
  BY <1>1 DEF PublishedOnce
<1>. QED
  BY <1>4, <1>5, <1>7, <1>8, <1>9, <1>10 DEF PublishedOnce

LEMMA AcknowledgedKept ==
    ASSUME Acknowledged, TypeInv,
           \A m \in succeeded' : Published(m)',
           \A n \in Nat : PublishedNo(n) => PublishedNo(n)',
           \A n \in Nat : Got(n) => Got(n)',
           \A n \in Nat : Holds(to_client, {"PUBACK", "PUBCOMP"}, n)' =>
                             Holds(to_client, {"PUBACK", "PUBCOMP"}, n) \/ PublishedNo(n)',
           \A n \in Nat : Holds(to_client, {"PUBREC"}, n)' => Holds(to_client, {"PUBREC"}, n) \/ Got(n)',
           \A n \in Nat : Holds(to_broker, {"PUBREL"}, n)' => Holds(to_broker, {"PUBREL"}, n) \/ Got(n)',
           \A n \in Nat : Recorded1(n)' => Recorded1(n) \/ Got(n)'
    PROVE  Acknowledged'
BY DEF Acknowledged

\* A step that sends nothing new, as far as the application's messages go
QuietOut ==
    /\ WithinFor(commands', commands, {"PUBLISH"})
    /\ Within(responses', responses) /\ Within(outboundMsgs', outboundMsgs)
    /\ WithinFor(to_broker', to_broker, {"PUBLISH", "PUBREL"})
    /\ WithinFor(to_client', to_client, Acks)
    /\ UNCHANGED <<b_received, published, sends, msgID>>
    /\ \A m \in succeeded' : m \in succeeded \/ Published(m)

LEMMA QuietOutKept ==
    ASSUME OutInv, TypeInv, TypeInv', QuietOut
    PROVE  OutInv'
<1>0. /\ commands \in Seq(Command) /\ commands' \in Seq(Command)
      /\ responses \in Seq(Response) /\ responses' \in Seq(Response)
      /\ outboundMsgs \in Seq(Entries(Sent)) /\ outboundMsgs' \in Seq(Entries(Sent))
      /\ to_broker \in Seq(ToBroker) /\ to_broker' \in Seq(ToBroker)
      /\ to_client \in Seq(ToClient) /\ to_client' \in Seq(ToClient)
  BY DEF TypeInv, SendTypes, SessionTypes, LinkTypes
<1>1. ASSUME NEW id \in Nat, NEW m \in Sent, Carried(id, m)'
      PROVE  Carried(id, m)
  <2>1. Queued(id, m)' => Queued(id, m)
    BY DEF QuietOut, WithinFor, Queued
  <2>2. Awaited(id, m)' => Awaited(id, m)
    BY DEF QuietOut, Within, Awaited
  <2>3. UnderWay(id, m)' => UnderWay(id, m)
    BY DEF QuietOut, Within, UnderWay
  <2>4. InFlight(id, m)' => InFlight(id, m)
    BY DEF QuietOut, WithinFor, InFlight
  <2>5. (WithBroker(id, m)' => WithBroker(id, m)) /\ (Published(m)' => Published(m))
    BY DEF QuietOut, WithBroker, Published
  <2>. QED
    BY <1>1, <2>1, <2>2, <2>3, <2>4, <2>5 DEF Carried
<1>2. Numbered'
  BY <1>1, NumberedKept DEF OutInv, QuietOut, Numbered
<1>3. ASSUME NEW n \in Nat, Sending(n)'
      PROVE  Sending(n)
  <2>1. HasId(outboundMsgs, n)' => HasId(outboundMsgs, n)
    BY DEF QuietOut, Within, HasId
  <2>2. Holds(to_broker, {"PUBLISH", "PUBREL"}, n)' => Holds(to_broker, {"PUBLISH", "PUBREL"}, n)
    BY <1>0, HoldsWithin DEF QuietOut
  <2>. QED
    BY <1>3, <2>1, <2>2 DEF Sending, QuietOut
<1>4. Fresh'
  BY <1>3, FreshKept DEF OutInv, QuietOut
<1>5. PublishedOnce'
  BY PublishedOnceKept DEF OutInv, QuietOut
<1>6. \A n \in Nat : (PublishedNo(n) => PublishedNo(n)') /\ (Got(n) => Got(n)')
  BY DEF QuietOut, PublishedNo, Got
<1>7. \A m \in succeeded' : Published(m)'
  BY DEF OutInv, Acknowledged, QuietOut, Published
<1>8. ASSUME NEW n \in Nat
      PROVE  /\ Holds(to_client, {"PUBACK", "PUBCOMP"}, n)' => Holds(to_client, {"PUBACK", "PUBCOMP"}, n)
             /\ Holds(to_client, {"PUBREC"}, n)' => Holds(to_client, {"PUBREC"}, n)
             /\ Holds(to_broker, {"PUBREL"}, n)' => Holds(to_broker, {"PUBREL"}, n)
             /\ Recorded1(n)' => Recorded1(n)
  <2>1. {"PUBACK", "PUBCOMP"} \in SUBSET Acks /\ {"PUBREC"} \in SUBSET Acks
        /\ {"PUBREL"} \in SUBSET {"PUBLISH", "PUBREL"}
    BY DEF Acks
  <2>2. Recorded1(n)' => Recorded1(n)
    BY DEF QuietOut, Within, Recorded1
  <2>3. Holds(to_client, {"PUBACK", "PUBCOMP"}, n)' => Holds(to_client, {"PUBACK", "PUBCOMP"}, n)
    BY <1>0, <2>1, HoldsWithin DEF QuietOut
  <2>4. Holds(to_client, {"PUBREC"}, n)' => Holds(to_client, {"PUBREC"}, n)
    BY <1>0, <2>1, HoldsWithin DEF QuietOut
  <2>5. Holds(to_broker, {"PUBREL"}, n)' => Holds(to_broker, {"PUBREL"}, n)
    BY <1>0, <2>1, HoldsWithin DEF QuietOut
  <2>. QED
    BY <2>2, <2>3, <2>4, <2>5
<1>9. Acknowledged'
  BY <1>6, <1>7, <1>8, AcknowledgedKept DEF OutInv
<1>. QED
  BY <1>2, <1>4, <1>5, <1>9 DEF OutInv

\* Changes of the queue that put no PUBLISH there
LEMMA QueueChanges ==
    ASSUME TypeInv
    PROVE  /\ WithinFor(commands, commands, {"PUBLISH"})
           /\ commands # <<>> => WithinFor(Tail(commands), commands, {"PUBLISH"})
           /\ \A c \in Command : c.type # "PUBLISH" =>
                 /\ WithinFor(AddFirst(c, commands), commands, {"PUBLISH"})
                 /\ commands # <<>> => /\ WithinFor(AddFirst(c, Tail(commands)), commands, {"PUBLISH"})
                                       /\ WithinFor(<<c>> \o Tail(commands), commands, {"PUBLISH"})
<1>0. commands \in Seq(Command)
  BY DEF TypeInv, SendTypes
<1>1. WithinFor(commands, commands, {"PUBLISH"})
  BY <1>0, WithinSame, WithinForAny
<1>2. commands # <<>> => Tail(commands) \in Seq(Command) /\ WithinFor(Tail(commands), commands, {"PUBLISH"})
  BY <1>0, WithinSame, WithinForAny, TailType
<1>3. ASSUME NEW c \in Command, c.type # "PUBLISH", NEW t \in Seq(Command),
             WithinFor(t, commands, {"PUBLISH"})
      PROVE  /\ WithinFor(<<c>> \o t, commands, {"PUBLISH"})
             /\ WithinFor(AddFirst(c, t), commands, {"PUBLISH"})
  <2>1. c.type \notin {"PUBLISH"}
    BY <1>3
  <2>2. WithinFor(<<c>> \o t, commands, {"PUBLISH"})
    BY <1>0, <1>3, <2>1, WithinForFront
  <2>. QED
    BY <1>3, <2>2 DEF AddFirst
<1>. QED
  BY <1>0, <1>1, <1>2, <1>3

\* Changes of what is in flight that put no message of the application there
LEMMA FlightChanges ==
    ASSUME TypeInv, TypeInv'
    PROVE  /\ Within(responses, responses) /\ Within(outboundMsgs, outboundMsgs)
           /\ to_broker' = to_broker \/ to_broker' = <<>> => WithinFor(to_broker', to_broker, {"PUBLISH", "PUBREL"})
           /\ to_broker # <<>> /\ to_broker' = Tail(to_broker) => WithinFor(to_broker', to_broker, {"PUBLISH", "PUBREL"})
           /\ Extends(to_broker', to_broker, Acks) => WithinFor(to_broker', to_broker, {"PUBLISH", "PUBREL"})
           /\ to_client' = to_client \/ to_client' = <<>> => WithinFor(to_client', to_client, Acks)
           /\ to_client # <<>> /\ to_client' = Tail(to_client) => WithinFor(to_client', to_client, Acks)
           /\ Extends(to_client', to_client, {"CONNACK", "PUBLISH", "PUBREL"}) => WithinFor(to_client', to_client, Acks)
<1>0. /\ to_broker \in Seq(ToBroker) /\ to_broker' \in Seq(ToBroker)
      /\ to_client \in Seq(ToClient) /\ to_client' \in Seq(ToClient)
      /\ responses \in Seq(Response) /\ outboundMsgs \in Seq(Entries(Sent))
  BY DEF TypeInv, LinkTypes, SendTypes, SessionTypes
<1>1. Within(responses, responses) /\ Within(outboundMsgs, outboundMsgs)
  BY <1>0, WithinSame
<1>2. ASSUME NEW S, NEW s \in Seq(S), NEW t \in Seq(S), NEW U,
             t = s \/ t = <<>> \/ (s # <<>> /\ t = Tail(s))
      PROVE  WithinFor(t, s, U)
  <2>1. Within(t, s)
    BY <1>2, WithinSame
  <2>. QED
    BY <2>1, WithinForAny
<1>3. /\ to_broker' = to_broker \/ to_broker' = <<>> => WithinFor(to_broker', to_broker, {"PUBLISH", "PUBREL"})
      /\ to_broker # <<>> /\ to_broker' = Tail(to_broker) => WithinFor(to_broker', to_broker, {"PUBLISH", "PUBREL"})
  BY <1>0, <1>2
<1>4. /\ to_client' = to_client \/ to_client' = <<>> => WithinFor(to_client', to_client, Acks)
      /\ to_client # <<>> /\ to_client' = Tail(to_client) => WithinFor(to_client', to_client, Acks)
  BY <1>0, <1>2
<1>5. {"PUBLISH", "PUBREL"} \cap Acks = {} /\ Acks \cap {"CONNACK", "PUBLISH", "PUBREL"} = {}
  BY DEF Acks
<1>6. Extends(to_broker', to_broker, Acks) => WithinFor(to_broker', to_broker, {"PUBLISH", "PUBREL"})
  BY <1>0, <1>5, ExtendsWithin
<1>7. Extends(to_client', to_client, {"CONNACK", "PUBLISH", "PUBREL"}) => WithinFor(to_client', to_client, Acks)
  BY <1>0, <1>5, ExtendsWithin
<1>. QED
  BY <1>1, <1>3, <1>4, <1>6, <1>7

\* Sessions that are kept, and whose ids have not come round: a new id is searched
\* among the commands and the responses only, and once ids come round it may be
\* that of a message under way.
KeptSession == ~CleanSession /\ MaxSends <= MaxMsgId

\* In a kept session the messages outlive the connection
LEMMA ConnectFailedQuiet ==
    ASSUME KeptSession, TypeInv, TypeInv', NEW messages, ConnectFailed(messages)
    PROVE  /\ WithinFor(commands', commands, {"PUBLISH"})
           /\ UNCHANGED <<responses, msgID, outboundMsgs, inboundMsgs>>
           /\ messageQueue' = messages /\ to_broker' = <<>> /\ to_client' = <<>>
           /\ UNCHANGED <<b_received, b_unacked>>
<1>0. commands \in Seq(Command)
  BY DEF TypeInv, SendTypes
<1>1. CASE version = 4
  <2>1. Connect(4) \in Command /\ Connect(4).type # "PUBLISH"
    BY CommandTypes DEF Connect
  <2>2. commands' = AddFirst(Connect(4), commands)
    BY <1>1 DEF ConnectFailed
  <2>. HIDE DEF Connect
  <2>3. WithinFor(commands', commands, {"PUBLISH"})
    BY <2>1, <2>2, QueueChanges
  <2>. QED
    BY <1>1, <2>3 DEF ConnectFailed, Close
<1>2. CASE version # 4
  <2>1. CloseSession(commands, <<>>, messages)
    BY <1>2 DEF ConnectFailed
  <2>2. commands' = commands
    BY <1>0, <2>1 DEF CloseSession, KeptSession
  <2>3. WithinFor(commands', commands, {"PUBLISH"})
    BY <2>2, QueueChanges
  <2>. QED
    BY <1>2, <2>1, <2>3 DEF ConnectFailed, CloseSession, Close, KeptSession
<1>. QED
  BY <1>1, <1>2

LEMMA QuietSend ==
    ASSUME KeptSession, TypeInv, TypeInv',
           StartConnect \/ CannotConnect \/ LoseConnection \/ NothingToLose
           \/ ConnectTimeout \/ Break \/ PingTimeout
    PROVE  QuietOut
<1>0. /\ Connect(0) \in Command /\ Connect(4) \in Command /\ Disconnect \in Command
      /\ Connect(0).type # "PUBLISH" /\ Connect(4).type # "PUBLISH" /\ Disconnect.type # "PUBLISH"
  BY CommandTypes DEF Connect, Disconnect
<1>. HIDE DEF Connect, Disconnect
<1>1. ASSUME StartConnect
      PROVE  QuietOut
  <2>1. /\ commands # <<>> /\ commands' = Tail(commands) /\ to_client' = <<>>
        /\ to_broker' = <<[type |-> "CONNECT"]>>
        /\ UNCHANGED <<responses, outboundMsgs, b_received, published, succeeded, sends, msgID>>
    BY <1>1 DEF StartConnect, NextIs
  <2>2. WithinFor(to_broker', to_broker, {"PUBLISH", "PUBREL"})
    <3>1. Len(to_broker') = 1 /\ to_broker'[1].type \notin {"PUBLISH", "PUBREL"}
      BY <2>1
    <3>2. [i \in 1..Len(to_broker') |-> 0] \in [1..Len(to_broker') -> Int]
      OBVIOUS
    <3>3. \A i \in 1..Len(to_broker') : to_broker'[i].type \notin {"PUBLISH", "PUBREL"}
      BY <3>1
    <3>. QED
      BY <3>2, <3>3 DEF WithinFor
  <2>. QED
    BY <2>1, <2>2, QueueChanges, FlightChanges DEF QuietOut
<1>2. ASSUME CannotConnect
      PROVE  QuietOut
  <2>1. /\ commands # <<>>
        /\ commands' = Tail(commands) \/ commands' = <<Connect(4)>> \o Tail(commands)
        /\ UNCHANGED <<responses, outboundMsgs, to_broker, to_client, b_received, published,
                       succeeded, sends, msgID>>
    BY <1>2 DEF CannotConnect, NextIs
  <2>2. WithinFor(commands', commands, {"PUBLISH"})
    BY <1>0, <2>1, QueueChanges
  <2>. QED
    BY <2>1, <2>2, FlightChanges DEF QuietOut
<1>3. ASSUME LoseConnection
      PROVE  QuietOut
  <2>1. /\ commands # <<>> /\ to_broker' = <<>> /\ to_client' = <<>>
        /\ commands' = (IF connected THEN <<Connect(0)>> ELSE <<>>) \o Tail(commands)
        /\ UNCHANGED <<responses, outboundMsgs, b_received, published, succeeded, sends, msgID>>
    BY <1>3 DEF LoseConnection, NextIs, CloseSession, Close, KeptSession
  <2>2. <<>> \o Tail(commands) = Tail(commands)
    BY <2>1 DEF TypeInv, SendTypes
  <2>3. WithinFor(commands', commands, {"PUBLISH"})
    BY <1>0, <2>1, <2>2, QueueChanges
  <2>. QED
    BY <2>1, <2>3, FlightChanges DEF QuietOut
<1>4. ASSUME NothingToLose
      PROVE  QuietOut
  <2>1. /\ commands # <<>> /\ commands' = Tail(commands)
        /\ UNCHANGED <<responses, outboundMsgs, to_broker, to_client, b_received, published,
                       succeeded, sends, msgID>>
    BY <1>4 DEF NothingToLose, NextIs
  <2>. QED
    BY <2>1, QueueChanges, FlightChanges DEF QuietOut
<1>5. ASSUME ConnectTimeout
      PROVE  QuietOut
  <2>1. UNCHANGED <<published, succeeded, sends>> /\ ConnectFailed(messageQueue)
    BY <1>5 DEF ConnectTimeout
  <2>. QED
    BY <2>1, ConnectFailedQuiet, FlightChanges DEF QuietOut
<1>6. ASSUME Break
      PROVE  QuietOut
  <2>1. /\ commands' = commands /\ to_broker' = <<>> /\ to_client' = <<>>
        /\ UNCHANGED <<responses, outboundMsgs, b_received, published, succeeded, sends, msgID>>
    BY <1>6 DEF Break
  <2>. QED
    BY <2>1, QueueChanges, FlightChanges DEF QuietOut
<1>7. ASSUME PingTimeout
      PROVE  QuietOut
  <2>1. /\ commands' = AddFirst(Disconnect, commands)
        /\ UNCHANGED <<responses, outboundMsgs, to_broker, to_client, b_received, published,
                       succeeded, sends, msgID>>
    BY <1>7 DEF PingTimeout
  <2>2. WithinFor(commands', commands, {"PUBLISH"})
    BY <1>0, <2>1, QueueChanges
  <2>. QED
    BY <2>1, <2>2, FlightChanges DEF QuietOut
<1>. QED
  BY <1>1, <1>2, <1>3, <1>4, <1>5, <1>6, <1>7

LEMMA QuietReceive ==
    ASSUME KeptSession, TypeInv, TypeInv',
           RecvPublish1 \/ RecvPublish2 \/ RecvPubrel \/ RecvStrayPubrel \/ RecvPingresp
           \/ RecvConnack
    PROVE  QuietOut
<1>0. /\ to_broker \in Seq(ToBroker) /\ LinkTypes
  BY DEF TypeInv, LinkTypes
<1>1. ASSUME to_client # <<>> /\ to_client' = Tail(to_client),
             to_broker' = to_broker \/ Extends(to_broker', to_broker, Acks),
             UNCHANGED <<commands, responses, outboundMsgs, b_received, published, succeeded, sends, msgID>>
      PROVE  QuietOut
  BY <1>1, QueueChanges, FlightChanges DEF QuietOut
<1>2. ASSUME NEW type, Reads(type)
      PROVE  /\ to_client # <<>> /\ to_client' = Tail(to_client)
             /\ \A t \in Acks : Answer(Packet(t, Head(to_client).id)) => Extends(to_broker', to_broker, Acks)
  <2>1. Head(to_client).id \in Nat /\ to_client # <<>> /\ to_client' = Tail(to_client)
    BY <1>0, <1>2, ReadsProps, PacketTypes DEF Reads
  <2>2. ASSUME NEW t \in Acks, Answer(Packet(t, Head(to_client).id))
        PROVE  Extends(to_broker', to_broker, Acks)
    <3>. DEFINE p == Packet(t, Head(to_client).id)
    <3>1. p \in ToBroker
      BY <2>1, PacketTypes DEF Acks
    <3>2. p.type \in Acks /\ to_broker' = Append(to_broker, p)
      BY <2>2 DEF Packet, Answer
    <3>. HIDE DEF p
    <3>. QED
      BY <1>0, <3>1, <3>2, ExtendsAppend
  <2>. QED
    BY <2>1, <2>2
<1>a. "PUBACK" \in Acks /\ "PUBREC" \in Acks /\ "PUBCOMP" \in Acks
  BY DEF Acks
<1>3. ASSUME RecvPublish1
      PROVE  QuietOut
  BY <1>1, <1>2, <1>3, <1>a DEF RecvPublish1
<1>4. ASSUME RecvPublish2
      PROVE  QuietOut
  BY <1>1, <1>2, <1>4, <1>a DEF RecvPublish2
<1>5. ASSUME RecvPubrel
      PROVE  QuietOut
  BY <1>1, <1>2, <1>5, <1>a DEF RecvPubrel
<1>6. ASSUME RecvStrayPubrel
      PROVE  QuietOut
  <2>1. to_broker' = to_broker \/ Extends(to_broker', to_broker, Acks)
    BY <1>2, <1>6, <1>a DEF RecvStrayPubrel, AnswerStray
  <2>. QED
    BY <1>1, <1>2, <1>6, <2>1 DEF RecvStrayPubrel
<1>7. ASSUME RecvPingresp
      PROVE  QuietOut
  BY <1>7, QueueChanges, FlightChanges DEF RecvPingresp, QuietOut
<1>8. ASSUME RecvConnack
      PROVE  QuietOut
  BY <1>1, <1>2, <1>8 DEF RecvConnack
<1>. QED
  BY <1>3, <1>4, <1>5, <1>6, <1>7, <1>8

LEMMA QuietTurn ==
    ASSUME KeptSession, TypeInv, TypeInv',
           ReadFails \/ TurnLost \/ TurnFails \/ TurnEnds \/ ConnackUnexpected
    PROVE  QuietOut
<1>1. ASSUME NEW messages, ConnectFailed(messages), UNCHANGED <<published, succeeded, sends>>
      PROVE  QuietOut
  BY <1>1, ConnectFailedQuiet, FlightChanges DEF QuietOut
<1>2. ASSUME UNCHANGED <<commands, responses, outboundMsgs, to_broker, to_client, b_received, published,
                         succeeded, sends, msgID>>
      PROVE  QuietOut
  BY <1>2, QueueChanges, FlightChanges DEF QuietOut
<1>3. ASSUME ReadFails
      PROVE  QuietOut
  BY <1>1, <1>2, <1>3 DEF ReadFails
<1>4. ASSUME TurnLost \/ TurnEnds
      PROVE  QuietOut
  BY <1>2, <1>4 DEF TurnLost, TurnEnds
<1>5. ASSUME TurnFails
      PROVE  QuietOut
  <2>1. UNCHANGED <<responses, outboundMsgs, b_received, published, succeeded, sends, msgID>>
    BY <1>5 DEF TurnFails
  <2>2. CASE connected
    <3>1. commands' = AddFirst(Disconnect, commands) /\ UNCHANGED <<to_broker, to_client>>
      BY <1>5, <2>2 DEF TurnFails
    <3>2. Disconnect \in Command /\ Disconnect.type # "PUBLISH"
      BY CommandTypes DEF Disconnect
    <3>. HIDE DEF Disconnect
    <3>3. WithinFor(commands', commands, {"PUBLISH"})
      BY <3>1, <3>2, QueueChanges
    <3>. QED
      BY <2>1, <3>1, <3>3, FlightChanges DEF QuietOut
  <2>3. CASE ~connected
    BY <1>5, <2>1, <2>3, QueueChanges, FlightChanges DEF TurnFails, Close, QuietOut
  <2>. QED
    BY <2>2, <2>3
<1>6. ASSUME ConnackUnexpected
      PROVE  QuietOut
  BY <1>1, <1>6 DEF ConnackUnexpected
<1>. QED
  BY <1>3, <1>4, <1>5, <1>6

LEMMA QuietBroker ==
    ASSUME KeptSession, TypeInv, TypeInv', Linked,
           BrokerConnect \/ BrokerPubrec \/ BrokerEnd \/ \E q \in Qos : BrokerSend(q)
    PROVE  QuietOut
<1>0. /\ to_broker \in Seq(ToBroker) /\ to_client \in Seq(ToClient) /\ b_unacked \in Seq(Owing)
      /\ to_client' \in Seq(ToClient) /\ LinkTypes
  BY DEF TypeInv, LinkTypes, BrokerTypes
<1>. DEFINE T == {"CONNACK", "PUBLISH", "PUBREL"}
<1>1. ASSUME NEW type, BrokerReads(type)
      PROVE  to_broker # <<>> /\ to_broker' = Tail(to_broker)
  BY <1>1 DEF BrokerReads
<1>2. ASSUME to_broker # <<>> /\ to_broker' = Tail(to_broker), WithinFor(to_client', to_client, Acks), BrokerOnly,
             UNCHANGED <<b_received, published>>
      PROVE  QuietOut
  BY <1>2, QueueChanges, FlightChanges DEF BrokerOnly, QuietOut
<1>3. ASSUME BrokerConnect
      PROVE  QuietOut
  <2>1. \A i \in 1..Len(to_client') : to_client'[i].type \in T
    <3>1. /\ Len(to_client') = Len(b_unacked) + 1 /\ to_client'[1] = Packet("CONNACK", 0)
          /\ \A k \in 1..Len(b_unacked) : to_client'[k + 1] = BrokerAgain(b_unacked[k])
      BY <1>0, <1>3, GreetingType DEF KeptSession
    <3>2. \A k \in 1..Len(b_unacked) : to_client'[k + 1].type \in {"PUBLISH", "PUBREL"}
      BY <1>0, <3>1, BrokerAgainType
    <3>. TAKE i \in 1..Len(to_client')
    <3>3. CASE i = 1
      BY <3>1, <3>3 DEF Packet
    <3>4. CASE i # 1
      <4>1. i - 1 \in 1..Len(b_unacked) /\ (i - 1) + 1 = i
        BY <1>0, <3>1, <3>4
      <4>. QED
        BY <3>2, <4>1
    <3>. QED
      BY <3>3, <3>4
  <2>2. WithinFor(to_client', to_client, Acks)
    <3>1. [i \in 1..Len(to_client') |-> 0] \in [1..Len(to_client') -> Int]
      OBVIOUS
    <3>2. \A i \in 1..Len(to_client') : to_client'[i].type \notin Acks
      BY <2>1 DEF Acks
    <3>. QED
      BY <3>1, <3>2 DEF WithinFor
  <2>. QED
    BY <1>1, <1>2, <1>3, <2>2 DEF BrokerConnect, KeptSession
<1>4. ASSUME BrokerPubrec
      PROVE  QuietOut
  <2>. DEFINE p == Packet("PUBREL", Head(to_broker).id)
  <2>1. Head(to_broker).id \in Nat
    BY <1>0, <1>4, BrokerReadsProps, PacketTypes DEF BrokerPubrec
  <2>2. p \in ToClient
    BY <2>1, PacketTypes
  <2>3. p.type \in T /\ to_client' = Append(to_client, p)
    BY <1>4 DEF BrokerPubrec, BrokerAnswers, Packet
  <2>. HIDE DEF p, T
  <2>4. Extends(to_client', to_client, T)
    BY <1>0, <2>2, <2>3, ExtendsAppend
  <2>5. WithinFor(to_client', to_client, Acks)
    BY <2>4, FlightChanges DEF T
  <2>. QED
    BY <1>1, <1>2, <1>4, <2>5 DEF BrokerPubrec
<1>5. ASSUME BrokerEnd
      PROVE  QuietOut
  BY <1>1, <1>2, <1>5, FlightChanges DEF BrokerEnd
<1>6. ASSUME NEW q \in Qos, BrokerSend(q)
      PROVE  QuietOut
  <2>1. PICK e \in Owing : to_client' = IF b_up THEN Append(to_client, Publish(e.id, FALSE, e.msg)) ELSE to_client
    BY <1>6, BrokerSendProps
  <2>. DEFINE p == Publish(e.id, FALSE, e.msg)
  <2>2. e.id \in Nat /\ e.msg \in Incoming
    BY DEF Owing
  <2>3. p \in ToClient
    BY <2>2, PacketTypes
  <2>4. p.type \in T
    BY DEF Publish
  <2>5. to_client' = to_client \/ to_client' = Append(to_client, p)
    BY <2>1
  <2>. HIDE DEF p, T
  <2>6. WithinFor(to_client', to_client, Acks)
    <3>1. CASE to_client' = to_client
      BY <3>1, FlightChanges
    <3>2. CASE to_client' = Append(to_client, p)
      <4>1. Extends(to_client', to_client, T)
        BY <1>0, <2>3, <2>4, <3>2, ExtendsAppend
      <4>. QED
        BY <4>1, FlightChanges DEF T
    <3>. QED
      BY <2>5, <3>1, <3>2
  <2>7. UNCHANGED <<sendVars, connVars, sessionVars, sends, succeeded, b_received, to_broker, published>>
    BY <1>6 DEF BrokerSend, BrokerOnly
  <2>. QED
    BY <2>6, <2>7, QueueChanges, FlightChanges DEF QuietOut
<1>. QED
  BY <1>3, <1>4, <1>5, <1>6

-----------------------------------------------------------------------------
(* The steps of an exchange with the broker.                               *)

\* What is sent has a message that is carried with this id
LEMMA SendingCarried ==
    ASSUME OutInv, TypeInv, NEW n \in Nat, Sending(n)
    PROVE  \E m \in Sent : Carried(n, m)
<1>0. /\ outboundMsgs \in Seq(Entries(Sent)) /\ to_broker \in Seq(ToBroker)
      /\ b_received \subseteq Response /\ published \in Seq(Sent)
  BY DEF TypeInv, SessionTypes, LinkTypes, BrokerTypes, HistoryTypes
<1>1. CASE HasId(outboundMsgs, n)
  <2>1. PICK i \in 1..Len(outboundMsgs) : outboundMsgs[i].id = n
    BY <1>1 DEF HasId
  <2>2. outboundMsgs[i] \in Entries(Sent)
    BY <1>0
  <2>3. outboundMsgs[i].msg \in Sent /\ UnderWay(n, outboundMsgs[i].msg)
    BY <2>1, <2>2 DEF Entries, UnderWay
  <2>. QED
    BY <2>3 DEF Carried
<1>2. ASSUME NEW r \in b_received, r.id = n
      PROVE  \E m \in Sent : Carried(n, m)
  <2>1. r.msg \in Sent /\ WithBroker(n, r.msg)
    BY <1>0, <1>2 DEF Response, WithBroker
  <2>2. PICK m \in Sent : m = r.msg
    BY <2>1
  <2>3. WithBroker(n, m)
    BY <2>1, <2>2
  <2>. QED
    BY <2>3 DEF Carried
<1>3. ASSUME PublishedNo(n)
      PROVE  \E m \in Sent : Carried(n, m)
  <2>1. PICK i \in 1..Len(published) : published[i].seq = n
    BY <1>3 DEF PublishedNo
  <2>2. published[i] \in Sent /\ Published(published[i])
    BY <1>0 DEF Published
  <2>. QED
    BY <2>1, <2>2 DEF Carried
<1>4. CASE Holds(to_broker, {"PUBLISH", "PUBREL"}, n)
  <2>1. PICK i \in 1..Len(to_broker) : to_broker[i].type \in {"PUBLISH", "PUBREL"} /\ to_broker[i].id = n
    BY <1>4 DEF Holds
  <2>2. CASE to_broker[i].type = "PUBLISH"
    <3>1. to_broker[i] \in ToBroker
      BY <1>0
    <3>2. to_broker[i].msg \in Sent /\ InFlight(n, to_broker[i].msg)
      BY <2>1, <2>2, <3>1, PacketTypes DEF InFlight
    <3>. QED
      BY <3>2 DEF Carried
  <2>3. CASE to_broker[i].type = "PUBREL"
    <3>1. Holds(to_broker, {"PUBREL"}, n)
      BY <2>1, <2>3 DEF Holds
    <3>2. Got(n)
      BY <3>1 DEF OutInv, Acknowledged
    <3>. QED
      BY <1>2, <1>3, <3>2 DEF Got
  <2>. QED
    BY <2>1, <2>2, <2>3
<1>. QED
  BY <1>1, <1>2, <1>3, <1>4 DEF Sending, PublishedNo

LEMMA OutSend ==
    ASSUME KeptSession, OutInv, TypeInv, TypeInv', NEW q \in Qos, Send(q)
    PROVE  OutInv'
<1>. DEFINE m0 == [seq |-> sends + 1, qos |-> q]
            c == [type |-> "PUBLISH", id |-> sends + 1, msg |-> m0]
<1>0. /\ commands \in Seq(Command) /\ commands' \in Seq(Command) /\ responses \in Seq(Response)
      /\ sends \in Nat /\ msgID = sends
  BY DEF TypeInv, SendTypes, BoundTypes, OutInv, Numbered
<1>1. NextMsgId = sends + 1
  <2>1. sends < MaxMsgId
    BY <1>0, DeliveryAssumption DEF Send, KeptSession
  <2>2. ~IdInUse(sends + 1)
    <3>1. ASSUME IdInCommands(sends + 1)
          PROVE  FALSE
      <4>1. PICK i \in 1..Len(commands) : commands[i].type = "PUBLISH" /\ commands[i].id = sends + 1
        BY <3>1 DEF IdInCommands
      <4>2. commands[i].msg \in Sent
        BY <1>0, <4>1, CommandTypes
      <4>3. Carried(sends + 1, commands[i].msg)
        BY <4>1 DEF Carried, Queued
      <4>. QED
        BY <1>0, <4>2, <4>3 DEF OutInv, Numbered
    <3>2. ASSUME HasId(responses, sends + 1)
          PROVE  FALSE
      <4>1. PICK i \in 1..Len(responses) : responses[i].id = sends + 1
        BY <3>2 DEF HasId
      <4>2. responses[i] \in Response
        BY <1>0
      <4>3. responses[i].msg \in Sent /\ Carried(sends + 1, responses[i].msg)
        BY <4>1, <4>2 DEF Carried, Awaited, Response
      <4>. QED
        BY <1>0, <4>3 DEF OutInv, Numbered
    <3>. QED
      BY <3>1, <3>2 DEF IdInUse
  <2>. QED
    BY <1>0, <2>1, <2>2, NextIdProps DEF Send
<1>2. /\ commands' = Append(commands, c) /\ sends' = sends + 1 /\ msgID' = sends + 1
      /\ UNCHANGED <<responses, outboundMsgs, to_broker, to_client, b_received, published, succeeded>>
  BY <1>1 DEF Send
<1>. DEFINE l == Len(commands)
            w == commands'
<1>3. /\ l \in Nat /\ Len(w) = l + 1 /\ w[l + 1] = c /\ \A i \in 1..l : w[i] = commands[i]
  BY <1>0, <1>2
<1>4. l = Len(commands) /\ w = commands'
  OBVIOUS
<1>5. c.id = sends + 1 /\ c.msg = m0 /\ c.type = "PUBLISH" /\ m0.seq = sends + 1
  OBVIOUS
<1>. HIDE DEF l, w, c, m0
<1>6. ASSUME NEW id \in Nat, NEW m \in Sent, Carried(id, m)'
      PROVE  Carried(id, m) \/ (id = sends + 1 /\ m = m0)
  <2>1. Queued(id, m)' => Queued(id, m) \/ (id = sends + 1 /\ m = m0)
    <3>. SUFFICES ASSUME NEW i \in 1..l + 1, w[i].type = "PUBLISH" /\ w[i].id = id /\ w[i].msg = m
                  PROVE  Queued(id, m) \/ (id = sends + 1 /\ m = m0)
      BY <1>3, <1>4 DEF Queued
    <3>1. CASE i = l + 1
      BY <1>3, <1>5, <3>1
    <3>2. CASE i \in 1..l
      BY <1>3, <1>4, <3>2 DEF Queued
    <3>. QED
      BY <1>3, <3>1, <3>2
  <2>. QED
    BY <1>2, <1>6, <2>1 DEF Carried, Awaited, UnderWay, InFlight, WithBroker, Published
<1>7. Numbered'
  <2>1. \A id \in Nat, m \in Sent : Carried(id, m) => id <= sends /\ id = m.seq
    BY DEF OutInv, Numbered
  <2>2. \A id \in Nat, m \in Sent : Carried(id, m)' => id = m.seq /\ id <= sends'
    <3>. TAKE id \in Nat, m \in Sent
    <3>. HAVE Carried(id, m)'
    <3>1. CASE Carried(id, m)
      <4>1. id = m.seq /\ id <= sends
        BY <2>1, <3>1
      <4>. QED
        BY <1>0, <1>2, <4>1
    <3>2. CASE id = sends + 1 /\ m = m0
      BY <1>0, <1>2, <1>5, <3>2
    <3>. QED
      BY <1>6, <3>1, <3>2
  <2>3. \A id \in Nat, m \in Sent, k \in Sent : Carried(id, m)' /\ Carried(id, k)' => m = k
    <3>. TAKE id \in Nat, m \in Sent, k \in Sent
    <3>. HAVE Carried(id, m)' /\ Carried(id, k)'
    <3>1. CASE id = sends + 1
      <4>1. ~(id <= sends)
        BY <1>0, <3>1
      <4>. QED
        BY <1>6, <2>1, <4>1
    <3>2. CASE id # sends + 1
      BY <1>6, <3>2 DEF OutInv, Numbered
    <3>. QED
      BY <3>1, <3>2
  <2>. QED
    BY <1>2, <2>2, <2>3 DEF OutInv, Numbered
<1>8. Fresh'
  <2>1. \A n \in Nat : Sending(n)' <=> Sending(n)
    BY <1>2 DEF Sending, HasId, Holds
  <2>2. ~Sending(sends + 1)
    <3>. SUFFICES ASSUME Sending(sends + 1) PROVE FALSE
      OBVIOUS
    <3>1. sends + 1 \in Nat
      BY <1>0
    <3>2. PICK m \in Sent : Carried(sends + 1, m)
      BY <3>1, SendingCarried
    <3>3. \A id \in Nat : Carried(id, m) => id <= sends
      BY DEF OutInv, Numbered
    <3>4. sends + 1 <= sends
      BY <3>1, <3>2, <3>3
    <3>. QED
      BY <1>0, <3>4
  <2>3. ASSUME NEW i \in 1..l, commands[i].type = "PUBLISH"
        PROVE  commands[i].id # sends + 1
    <3>1. commands[i] \in Command
      BY <1>0, <1>4
    <3>2. commands[i].id \in MsgId /\ commands[i].msg \in Sent
      BY <2>3, <3>1, CommandTypes
    <3>3. Carried(commands[i].id, commands[i].msg) /\ commands[i].id \in Nat
      BY <1>4, <2>3, <3>2, DeliveryAssumption DEF Carried, Queued, MsgId
    <3>. QED
      BY <1>0, <3>2, <3>3 DEF OutInv, Numbered
  <2>4. \A i \in 1..l + 1, n \in Nat : w[i].type = "PUBLISH" /\ w[i].id = n => ~Sending(n)'
    <3>. TAKE i \in 1..l + 1, n \in Nat
    <3>. HAVE w[i].type = "PUBLISH" /\ w[i].id = n
    <3>1. CASE i = l + 1
      BY <1>3, <1>5, <2>1, <2>2, <3>1
    <3>2. CASE i \in 1..l
      BY <1>3, <1>4, <2>1, <3>2 DEF OutInv, Fresh
    <3>. QED
      BY <1>3, <3>1, <3>2
  <2>5. ASSUME NEW i \in 1..l + 1, NEW j \in 1..l + 1,
               w[i].type = "PUBLISH" /\ w[j].type = "PUBLISH", w[i].id = w[j].id
        PROVE  i = j
    <3>1. CASE i \in 1..l /\ j \in 1..l
      BY <1>3, <1>4, <2>5, <3>1 DEF OutInv, Fresh
    <3>2. CASE i = l + 1 /\ j \in 1..l
      BY <1>3, <1>5, <2>3, <2>5, <3>2
    <3>3. CASE i \in 1..l /\ j = l + 1
      BY <1>3, <1>5, <2>3, <2>5, <3>3
    <3>. QED
      BY <1>3, <3>1, <3>2, <3>3
  <2>. QED
    BY <1>3, <2>4, <2>5 DEF Fresh, w
<1>9. PublishedOnce'
  BY <1>2 DEF OutInv, PublishedOnce, SentAtMostOnce, UniqueIds, Published, Released
<1>10. Acknowledged'
  BY <1>2 DEF OutInv, Acknowledged, Published, Holds, PublishedNo, Got, Recorded1
<1>. QED
  BY <1>7, <1>8, <1>9, <1>10 DEF OutInv

LEMMA AppendAt ==
    ASSUME NEW S, NEW s \in Seq(S), NEW e \in S
    PROVE  /\ Append(s, e) \in Seq(S) /\ Len(s) \in Nat
           /\ Len(Append(s, e)) = Len(s) + 1 /\ Append(s, e)[Len(s) + 1] = e
           /\ \A i \in 1..Len(s) : Append(s, e)[i] = s[i]
           /\ \A i \in 1..Len(Append(s, e)) : i = Len(s) + 1 \/ i \in 1..Len(s)
OBVIOUS

(***************************************************************************)
(* A message leaves the queue for the list of messages under way, and is   *)
(* sent, or is found to have failed.                                       *)
(***************************************************************************)
Started(c) ==
    /\ Stored(c)
    /\ to_broker' = to_broker \/ to_broker' = Append(to_broker, Publish(c.id, FALSE, c.msg))
    /\ responses' = responses \/ responses' = Append(responses, [id |-> c.id, msg |-> c.msg])
    /\ WithinFor(commands', Tail(commands), {"PUBLISH"})
    /\ UNCHANGED <<msgID, sends, to_client, b_received, published, succeeded>>

LEMMA StartedProps ==
    ASSUME OutInv, TypeInv, TypeInv', NextIs("PUBLISH"), NEW c, c = Head(commands), Started(c)
    PROVE  /\ c.id \in Nat /\ c.msg \in Sent /\ Queued(c.id, c.msg) /\ c.id = c.msg.seq /\ ~Sending(c.id)
           /\ \A i \in 1..Len(outboundMsgs') :
                 \/ i \in 1..Len(outboundMsgs) /\ outboundMsgs'[i] = outboundMsgs[i]
                 \/ /\ i = Len(outboundMsgs) + 1
                    /\ outboundMsgs'[i] = [id |-> c.id, msg |-> c.msg, next |-> "PUBREC"]
           /\ \A i \in 1..Len(to_broker') :
                 \/ i \in 1..Len(to_broker) /\ to_broker'[i] = to_broker[i]
                 \/ i = Len(to_broker) + 1 /\ to_broker'[i] = Publish(c.id, FALSE, c.msg)
           /\ \A i \in 1..Len(responses') :
                 \/ i \in 1..Len(responses) /\ responses'[i] = responses[i]
                 \/ responses'[i] = [id |-> c.id, msg |-> c.msg]
           /\ \A i \in 1..Len(commands') : commands'[i].type = "PUBLISH" =>
                 \E k \in 1..Len(commands) : k # 1 /\ commands'[i] = commands[k]
<1>0. /\ commands \in Seq(Command) /\ responses \in Seq(Response) /\ commands # <<>>
      /\ outboundMsgs \in Seq(Entries(Sent)) /\ to_broker \in Seq(ToBroker) /\ c.type = "PUBLISH"
  BY DEF TypeInv, SendTypes, SessionTypes, LinkTypes, NextIs
<1>1. 1 \in 1..Len(commands) /\ commands[1] = c /\ c \in Command
  BY <1>0
<1>2. c.id \in MsgId /\ c.id \in Nat /\ c.msg \in Sent
  BY <1>0, <1>1, CommandTypes, DeliveryAssumption DEF MsgId
<1>3. Queued(c.id, c.msg)
  BY <1>0, <1>1 DEF Queued
<1>4. c.id = c.msg.seq
  BY <1>2, <1>3 DEF OutInv, Numbered, Carried
<1>5. ~Sending(c.id)
  BY <1>0, <1>1, <1>2 DEF OutInv, Fresh
<1>6. \A i \in 1..Len(outboundMsgs') :
         \/ i \in 1..Len(outboundMsgs) /\ outboundMsgs'[i] = outboundMsgs[i]
         \/ /\ i = Len(outboundMsgs) + 1
            /\ outboundMsgs'[i] = [id |-> c.id, msg |-> c.msg, next |-> "PUBREC"]
  <2>. DEFINE e == [id |-> c.id, msg |-> c.msg, next |-> "PUBREC"]
  <2>1. e \in Entries(Sent) /\ outboundMsgs' = Append(outboundMsgs, e)
    BY <1>2 DEF Entries, Started, Stored
  <2>. HIDE DEF e
  <2>2. \A i \in 1..Len(outboundMsgs') :
           \/ i \in 1..Len(outboundMsgs) /\ outboundMsgs'[i] = outboundMsgs[i]
           \/ i = Len(outboundMsgs) + 1 /\ outboundMsgs'[i] = e
    BY <1>0, <2>1, AppendAt
  <2>. QED
    BY <2>2 DEF e
<1>7. \A i \in 1..Len(to_broker') :
         \/ i \in 1..Len(to_broker) /\ to_broker'[i] = to_broker[i]
         \/ i = Len(to_broker) + 1 /\ to_broker'[i] = Publish(c.id, FALSE, c.msg)
  <2>. DEFINE e == Publish(c.id, FALSE, c.msg)
  <2>1. e \in ToBroker
    BY <1>2, PacketTypes
  <2>2. to_broker' = to_broker \/ to_broker' = Append(to_broker, e)
    BY DEF Started
  <2>. HIDE DEF e
  <2>3. \A i \in 1..Len(to_broker') :
         \/ i \in 1..Len(to_broker) /\ to_broker'[i] = to_broker[i]
         \/ i = Len(to_broker) + 1 /\ to_broker'[i] = e
    BY <1>0, <2>1, <2>2, AppendAt
  <2>. QED
    BY <2>3 DEF e
<1>8. \A i \in 1..Len(responses') :
         \/ i \in 1..Len(responses) /\ responses'[i] = responses[i]
         \/ responses'[i] = [id |-> c.id, msg |-> c.msg]
  <2>. DEFINE e == [id |-> c.id, msg |-> c.msg]
  <2>1. e \in Response
    BY <1>2 DEF Response
  <2>2. responses' = responses \/ responses' = Append(responses, e)
    BY DEF Started
  <2>. HIDE DEF e
  <2>3. \A i \in 1..Len(responses') :
         \/ i \in 1..Len(responses) /\ responses'[i] = responses[i]
         \/ responses'[i] = e
    BY <1>0, <2>1, <2>2, AppendAt
  <2>. QED
    BY <2>3 DEF e
<1>9. ASSUME NEW i \in 1..Len(commands'), commands'[i].type = "PUBLISH"
      PROVE  \E k \in 1..Len(commands) : k # 1 /\ commands'[i] = commands[k]
  <2>1. PICK k \in 1..Len(Tail(commands)) : commands'[i] = Tail(commands)[k]
    BY <1>9 DEF Started, WithinFor
  <2>2. k + 1 \in 1..Len(commands) /\ k + 1 # 1 /\ Tail(commands)[k] = commands[k + 1]
    BY <1>0, <2>1
  <2>. QED
    BY <2>1, <2>2
<1>. QED
  BY <1>2, <1>3, <1>4, <1>5, <1>6, <1>7, <1>8, <1>9

LEMMA OutStarted ==
    ASSUME OutInv, TypeInv, TypeInv', NextIs("PUBLISH"), NEW c, c = Head(commands), Started(c)
    PROVE  OutInv'
<1>. DEFINE n0 == c.id
            m0 == c.msg
            e == [id |-> c.id, msg |-> c.msg, next |-> "PUBREC"]
            p == Publish(c.id, FALSE, c.msg)
<1>0. /\ n0 \in Nat /\ m0 \in Sent /\ Queued(n0, m0) /\ n0 = m0.seq /\ ~Sending(n0)
      /\ e.id = n0 /\ e.msg = m0 /\ e.next = "PUBREC"
      /\ p.id = n0 /\ p.msg = m0 /\ p.type = "PUBLISH"
  BY StartedProps DEF Publish
<1>1. \A i \in 1..Len(outboundMsgs') :
         \/ i \in 1..Len(outboundMsgs) /\ outboundMsgs'[i] = outboundMsgs[i]
         \/ i = Len(outboundMsgs) + 1 /\ outboundMsgs'[i] = e
  BY StartedProps
<1>2. \A i \in 1..Len(to_broker') :
         \/ i \in 1..Len(to_broker) /\ to_broker'[i] = to_broker[i]
         \/ i = Len(to_broker) + 1 /\ to_broker'[i] = p
  BY StartedProps
<1>3. /\ \A i \in 1..Len(responses') :
            \/ i \in 1..Len(responses) /\ responses'[i] = responses[i]
            \/ responses'[i].id = n0 /\ responses'[i].msg = m0
      /\ \A i \in 1..Len(commands') : commands'[i].type = "PUBLISH" =>
            \E k \in 1..Len(commands) : k # 1 /\ commands'[i] = commands[k]
  <2>1. [id |-> c.id, msg |-> c.msg].id = n0 /\ [id |-> c.id, msg |-> c.msg].msg = m0
    OBVIOUS
  <2>. QED
    BY <2>1, StartedProps
<1>4. /\ commands \in Seq(Command) /\ commands' \in Seq(Command) /\ commands # <<>>
      /\ outboundMsgs \in Seq(Entries(Sent)) /\ to_broker \in Seq(ToBroker)
      /\ 1 \in 1..Len(commands) /\ commands[1].type = "PUBLISH" /\ commands[1].id = n0
  BY SMTT(30) DEF TypeInv, SendTypes, SessionTypes, LinkTypes, NextIs
<1>5. UNCHANGED <<msgID, sends, to_client, b_received, published, succeeded>>
  BY DEF Started
<1>6. WithinFor(commands', Tail(commands), {"PUBLISH"})
  BY DEF Started
<1>. HIDE DEF n0, m0, e, p
<1>7. ASSUME NEW id \in Nat, NEW m \in Sent, Carried(id, m)'
      PROVE  Carried(id, m)
  <2>1. Queued(id, m)' => Queued(id, m)
    BY <1>3 DEF Queued
  <2>2. Awaited(id, m)' => Awaited(id, m) \/ (id = n0 /\ m = m0)
    BY <1>3 DEF Awaited
  <2>3. UnderWay(id, m)' => UnderWay(id, m) \/ (id = n0 /\ m = m0)
    BY <1>0, <1>1 DEF UnderWay
  <2>4. InFlight(id, m)' => InFlight(id, m) \/ (id = n0 /\ m = m0)
    BY <1>0, <1>2 DEF InFlight
  <2>5. (WithBroker(id, m)' => WithBroker(id, m)) /\ (Published(m)' => Published(m))
    BY <1>5 DEF WithBroker, Published
  <2>. QED
    BY <1>0, <1>7, <2>1, <2>2, <2>3, <2>4, <2>5 DEF Carried
<1>8. Numbered'
  BY <1>5, <1>7, NumberedKept DEF OutInv, Numbered
<1>9. ASSUME NEW n \in Nat, Sending(n)'
      PROVE  Sending(n) \/ n = n0
  <2>1. HasId(outboundMsgs, n)' => HasId(outboundMsgs, n) \/ n = n0
    BY <1>0, <1>1 DEF HasId
  <2>2. Holds(to_broker, {"PUBLISH", "PUBREL"}, n)' => Holds(to_broker, {"PUBLISH", "PUBREL"}, n) \/ n = n0
    BY <1>0, <1>2 DEF Holds
  <2>. QED
    BY <1>5, <1>9, <2>1, <2>2 DEF Sending
<1>10. Fresh'
  <2>1. ASSUME NEW i \in 1..Len(commands'), NEW n \in Nat, commands'[i].type = "PUBLISH" /\ commands'[i].id = n
        PROVE  ~Sending(n)'
    <3>1. PICK k \in 1..Len(commands) : k # 1 /\ commands'[i] = commands[k]
      BY <1>3, <2>1
    <3>2. n # n0
      BY <1>4, <2>1, <3>1 DEF OutInv, Fresh
    <3>3. ~Sending(n)
      BY <2>1, <3>1 DEF OutInv, Fresh
    <3>. QED
      BY <1>9, <3>2, <3>3
  <2>2. ASSUME NEW i \in 1..Len(commands'), NEW j \in 1..Len(commands'),
               commands'[i].type = "PUBLISH" /\ commands'[j].type = "PUBLISH",
               commands'[i].id = commands'[j].id
        PROVE  i = j
    <3>. DEFINE t == Tail(commands)
    <3>1. t \in Seq(Command) /\ \A k \in 1..Len(t) : k + 1 \in 1..Len(commands) /\ t[k] = commands[k + 1]
      BY <1>4
    <3>2. WithinFor(commands', t, {"PUBLISH"})
      BY <1>6
    <3>. HIDE DEF t
    <3>3. PICK f \in [1..Len(commands') -> Int] :
             /\ \A k \in 1..Len(commands') : commands'[k].type \in {"PUBLISH"} =>
                   f[k] \in 1..Len(t) /\ commands'[k] = t[f[k]]
             /\ \A k, h \in 1..Len(commands') :
                   commands'[k].type \in {"PUBLISH"} /\ commands'[h].type \in {"PUBLISH"} /\ k < h => f[k] < f[h]
      BY <3>2 DEF WithinFor
    <3>4. /\ f[i] \in 1..Len(t) /\ commands'[i] = t[f[i]]
          /\ f[j] \in 1..Len(t) /\ commands'[j] = t[f[j]]
      BY <2>2, <3>3
    <3>5. f[i] + 1 = f[j] + 1
      <4>1. PICK a \in 1..Len(commands), b \in 1..Len(commands) :
               a = f[i] + 1 /\ b = f[j] + 1 /\ commands[a] = commands'[i] /\ commands[b] = commands'[j]
        BY <3>1, <3>4
      <4>2. a = b
        BY <2>2, <4>1 DEF OutInv, Fresh
      <4>. QED
        BY <4>1, <4>2
    <3>6. ~(i < j) /\ ~(j < i)
      BY <2>2, <3>1, <3>3, <3>4, <3>5
    <3>. QED
      BY <1>4, <3>6
  <2>. QED
    BY <2>1, <2>2 DEF Fresh
<1>11. PublishedOnce'
  <2>1. SentAtMostOnce'
    BY <1>5 DEF OutInv, PublishedOnce, SentAtMostOnce
  <2>2. \A i \in 1..Len(outboundMsgs) : outboundMsgs[i].id # n0
    BY <1>0 DEF Sending, HasId
  <2>3. UniqueIds'
    <3>. SUFFICES ASSUME NEW i \in 1..Len(outboundMsgs'), NEW j \in 1..Len(outboundMsgs'),
                         outboundMsgs'[i].id = outboundMsgs'[j].id
                  PROVE  i = j
      BY DEF UniqueIds
    <3>. QED
      BY <1>0, <1>1, <2>2 DEF OutInv, PublishedOnce, UniqueIds
  <2>4. \A n \in Nat : Released(n) /\ n # n0 => Released(n)'
    BY <1>0, <1>1 DEF Released
  <2>5. ASSUME NEW m \in Sent, Published(m)', m.qos = 2
        PROVE  /\ \A i \in 1..Len(to_broker') : to_broker'[i].type = "PUBLISH" => to_broker'[i].msg # m
               /\ \A r \in b_received' : r.msg # m
               /\ Released(m.seq)'
    <3>1. Published(m) /\ m.seq \in Nat
      BY <1>5, <2>5 DEF Published, Sent
    <3>2. m.seq # n0 /\ m # m0
      BY <1>0, <3>1 DEF Published, Sending
    <3>3. Released(m.seq)'
      BY <2>4, <2>5, <3>1, <3>2 DEF OutInv, PublishedOnce
    <3>4. \A i \in 1..Len(to_broker') : to_broker'[i].type = "PUBLISH" => to_broker'[i].msg # m
      BY <1>0, <1>2, <2>5, <3>1, <3>2 DEF OutInv, PublishedOnce
    <3>5. \A r \in b_received' : r.msg # m
      BY <1>5, <2>5, <3>1 DEF OutInv, PublishedOnce
    <3>. QED
      BY <3>3, <3>4, <3>5
  <2>6. ASSUME NEW i \in 1..Len(to_broker'), to_broker'[i].type = "PUBREL"
        PROVE  i \in 1..Len(to_broker) /\ to_broker'[i] = to_broker[i] /\ to_broker[i].id # n0
    <3>1. i \in 1..Len(to_broker) /\ to_broker'[i] = to_broker[i]
      BY <1>0, <1>2, <2>6
    <3>. QED
      BY <1>0, <2>6, <3>1 DEF Sending, Holds
  <2>7. ASSUME NEW i \in 1..Len(to_broker'), NEW n \in Nat, to_broker'[i].type = "PUBREL" /\ to_broker'[i].id = n
        PROVE  Released(n)'
    BY <2>4, <2>6, <2>7 DEF OutInv, PublishedOnce
  <2>8. ASSUME NEW i \in 1..Len(to_broker'), NEW j \in 1..Len(to_broker'),
               to_broker'[i].type = "PUBREL" /\ to_broker'[j].type = "PUBLISH", to_broker'[i].id = to_broker'[j].id
        PROVE  j < i
    <3>1. i \in 1..Len(to_broker) /\ to_broker'[i] = to_broker[i] /\ to_broker[i].id # n0
      BY <2>6, <2>8
    <3>2. j \in 1..Len(to_broker) /\ to_broker'[j] = to_broker[j]
      BY <1>0, <1>2, <2>8, <3>1
    <3>. QED
      BY <2>8, <3>1, <3>2 DEF OutInv, PublishedOnce
  <2>9. \A i \in 1..Len(outboundMsgs') : outboundMsgs'[i].next = "PUBCOMP" => outboundMsgs'[i].msg.qos = 2
    BY <1>0, <1>1 DEF OutInv, PublishedOnce
  <2>. QED
    BY <2>1, <2>3, <2>5, <2>7, <2>8, <2>9 DEF PublishedOnce
<1>12. Acknowledged'
  <2>1. \A n \in Nat : (PublishedNo(n) => PublishedNo(n)') /\ (Got(n) => Got(n)')
    BY <1>5 DEF PublishedNo, Got
  <2>2. \A m \in succeeded' : Published(m)'
    BY <1>5 DEF OutInv, Acknowledged, Published
  <2>3. \A n \in Nat : /\ Holds(to_client, {"PUBACK", "PUBCOMP"}, n)' => Holds(to_client, {"PUBACK", "PUBCOMP"}, n)
                       /\ Holds(to_client, {"PUBREC"}, n)' => Holds(to_client, {"PUBREC"}, n)
    BY <1>5 DEF Holds
  <2>4. \A n \in Nat : Holds(to_broker, {"PUBREL"}, n)' => Holds(to_broker, {"PUBREL"}, n)
    BY <1>0, <1>2 DEF Holds
  <2>5. \A n \in Nat : Recorded1(n)' => Recorded1(n)
    BY <1>0, <1>1 DEF Recorded1
  <2>. QED
    BY <2>1, <2>2, <2>3, <2>4, <2>5, AcknowledgedKept DEF OutInv
<1>. QED
  BY <1>8, <1>10, <1>11, <1>12 DEF OutInv

LEMMA OutPublish ==
    ASSUME OutInv, TypeInv, TypeInv', PublishCommand \/ PublishFails
    PROVE  OutInv'
<1>0. commands \in Seq(Command)
  BY DEF TypeInv, SendTypes
<1>1. NextIs("PUBLISH") /\ commands # <<>>
  BY DEF PublishCommand, PublishFails, CanPublish, NextIs
<1>2. Tail(commands) \in Seq(Command)
  BY <1>0, <1>1, TailType
<1>3. WithinFor(Tail(commands), Tail(commands), {"PUBLISH"})
  BY <1>2, WithinSame, WithinForAny
<1>4. CASE PublishCommand
  <2>1. Started(Head(commands))
    BY <1>3, <1>4 DEF PublishCommand, Started
  <2>. QED
    BY <1>1, <2>1, OutStarted
<1>5. CASE PublishFails
  <2>1. Disconnect \in Command /\ Disconnect.type \notin {"PUBLISH"}
    BY CommandTypes DEF Disconnect
  <2>. DEFINE d == Disconnect
              t == Tail(commands)
  <2>2. d \in Command /\ d.type \notin {"PUBLISH"} /\ t \in Seq(Command) /\ WithinFor(t, t, {"PUBLISH"})
    BY <1>2, <1>3, <2>1
  <2>3. commands' = AddFirst(d, t)
    BY <1>5 DEF PublishFails
  <2>. HIDE DEF d, t
  <2>4. WithinFor(<<d>> \o t, t, {"PUBLISH"})
    BY <2>2, WithinForFront
  <2>5. WithinFor(commands', t, {"PUBLISH"})
    BY <2>2, <2>3, <2>4 DEF AddFirst
  <2>6. Started(Head(commands))
    BY <1>5, <2>5 DEF PublishFails, Started, t
  <2>. QED
    BY <1>1, <2>6, OutStarted
<1>. QED
  BY <1>4, <1>5

\* The answer the broker gave is about a message it has
LEMMA OutPubrec ==
    ASSUME OutInv, TypeInv, TypeInv', RecvPubrec
    PROVE  OutInv'
<1>. DEFINE id0 == Head(to_client).id
            x == IndexOf(outboundMsgs, id0)
            p == Packet("PUBREL", id0)
<1>0. /\ commands \in Seq(Command) /\ responses \in Seq(Response)
      /\ outboundMsgs \in Seq(Entries(Sent)) /\ to_broker \in Seq(ToBroker) /\ to_client \in Seq(ToClient)
      /\ LinkTypes
  BY DEF TypeInv, SendTypes, SessionTypes, LinkTypes
<1>1. /\ to_client # <<>> /\ Head(to_client).type = "PUBREC" /\ Head(to_client) \in ToClient
      /\ to_client' = Tail(to_client)
  BY <1>0, ReadsProps DEF RecvPubrec, Reads
<1>2. id0 \in Nat
  BY <1>1, PacketTypes
<1>3. UNCHANGED <<commands, responses, msgID, sends, b_received, published, succeeded>>
  BY DEF RecvPubrec
<1>4. CASE ~Expecting("PUBREC", id0, 2)
  <2>1. UNCHANGED <<outboundMsgs, to_broker>>
    BY <1>4 DEF RecvPubrec
  <2>2. QuietOut
    BY <1>1, <1>3, <2>1, QueueChanges, FlightChanges DEF QuietOut
  <2>. QED
    BY <2>2, QuietOutKept
<1>5. CASE Expecting("PUBREC", id0, 2)
  <2>1. Recorded(id0) /\ to_broker' = Append(to_broker, p) /\ HasId(outboundMsgs, id0)
    BY <1>5 DEF RecvPubrec, Answer, Expecting
  <2>2. outboundMsgs[x].msg.qos = 2
    BY <1>5 DEF Expecting
  <2>3. x \in 1..Len(outboundMsgs) /\ outboundMsgs[x].id = id0
    BY <1>0, <2>1, IndexOfFirst
  <2>4. /\ Len(outboundMsgs') = Len(outboundMsgs)
        /\ \A i \in 1..Len(outboundMsgs) :
              /\ i # x => outboundMsgs'[i] = outboundMsgs[i]
              /\ outboundMsgs'[i].id = outboundMsgs[i].id
              /\ outboundMsgs'[i].msg = outboundMsgs[i].msg
        /\ outboundMsgs'[x].next = "PUBCOMP"
    BY <1>0, <2>1, RecordedType
  <2>5. Got(id0)
    <3>1. Holds(to_client, {"PUBREC"}, id0)
      BY <1>0, <1>1, HoldsTail
    <3>. QED
      BY <1>2, <3>1 DEF OutInv, Acknowledged
  <2>6. p \in ToBroker /\ p.type = "PUBREL" /\ p.id = id0
    BY <1>2, PacketTypes DEF Packet
  <2>. HIDE DEF id0, x, p
  <2>7. \A i \in 1..Len(to_broker') :
           \/ i \in 1..Len(to_broker) /\ to_broker'[i] = to_broker[i]
           \/ i = Len(to_broker) + 1 /\ to_broker'[i] = p
    BY <1>0, <2>1, <2>6, AppendAt
  <2>8. ASSUME NEW id \in Nat, NEW m \in Sent, Carried(id, m)'
        PROVE  Carried(id, m)
    <3>1. UnderWay(id, m)' => UnderWay(id, m)
      BY <2>4 DEF UnderWay
    <3>2. InFlight(id, m)' => InFlight(id, m)
      BY <2>6, <2>7 DEF InFlight
    <3>. QED
      BY <1>3, <2>8, <3>1, <3>2 DEF Carried, Queued, Awaited, WithBroker, Published
  <2>9. Numbered'
    BY <1>3, <2>8, NumberedKept DEF OutInv, Numbered
  <2>10. \A n \in Nat : Sending(n)' => Sending(n)
    <3>. SUFFICES ASSUME NEW n \in Nat, Sending(n)' PROVE Sending(n)
      OBVIOUS
    <3>1. HasId(outboundMsgs, n)' => HasId(outboundMsgs, n)
      BY <2>4 DEF HasId
    <3>2. Holds(to_broker, {"PUBLISH", "PUBREL"}, n)' => Holds(to_broker, {"PUBLISH", "PUBREL"}, n) \/ n = id0
      BY <2>6, <2>7 DEF Holds
    <3>. QED
      BY <1>3, <2>1, <3>1, <3>2 DEF Sending
  <2>11. Fresh'
    BY <1>3, <2>10, QueueChanges, FreshKept DEF OutInv
  <2>12. PublishedOnce'
    <3>1. SentAtMostOnce'
      BY <1>3 DEF OutInv, PublishedOnce, SentAtMostOnce
    <3>2. UniqueIds'
      BY <2>4 DEF OutInv, PublishedOnce, UniqueIds
    <3>3. \A n \in Nat : Released(n) => Released(n)'
      <4>1. \A i \in 1..Len(outboundMsgs) : outboundMsgs[i].next = "PUBCOMP" => outboundMsgs'[i].next = "PUBCOMP"
        BY <2>4
      <4>. QED
        BY <2>4, <4>1 DEF Released
    <3>4. \A n \in Nat : n = id0 => Released(n)'
      BY <2>3, <2>4 DEF OutInv, PublishedOnce, UniqueIds, Released
    <3>5. ASSUME NEW m \in Sent, Published(m)', m.qos = 2
          PROVE  /\ \A i \in 1..Len(to_broker') : to_broker'[i].type = "PUBLISH" => to_broker'[i].msg # m
                 /\ \A r \in b_received' : r.msg # m
                 /\ Released(m.seq)'
      <4>1. Published(m) /\ m.seq \in Nat
        BY <1>3, <3>5 DEF Published, Sent
      <4>2. Released(m.seq)'
        BY <3>3, <3>5, <4>1 DEF OutInv, PublishedOnce
      <4>3. \A i \in 1..Len(to_broker') : to_broker'[i].type = "PUBLISH" => to_broker'[i].msg # m
        BY <2>6, <2>7, <3>5, <4>1 DEF OutInv, PublishedOnce
      <4>4. \A r \in b_received' : r.msg # m
        BY <1>3, <3>5, <4>1 DEF OutInv, PublishedOnce
      <4>. QED
        BY <4>2, <4>3, <4>4
    <3>6. ASSUME NEW i \in 1..Len(to_broker'), NEW n \in Nat, to_broker'[i].type = "PUBREL" /\ to_broker'[i].id = n
          PROVE  Released(n)'
      BY <2>6, <2>7, <3>3, <3>4, <3>6 DEF OutInv, PublishedOnce
    <3>7. ASSUME NEW i \in 1..Len(to_broker'), NEW j \in 1..Len(to_broker'),
                 to_broker'[i].type = "PUBREL" /\ to_broker'[j].type = "PUBLISH", to_broker'[i].id = to_broker'[j].id
          PROVE  j < i
      <4>1. j \in 1..Len(to_broker) /\ to_broker'[j] = to_broker[j]
        BY <2>6, <2>7, <3>7
      <4>2. CASE i \in 1..Len(to_broker) /\ to_broker'[i] = to_broker[i]
        BY <3>7, <4>1, <4>2 DEF OutInv, PublishedOnce
      <4>3. CASE i = Len(to_broker) + 1
        BY <1>0, <4>1, <4>3
      <4>. QED
        BY <2>7, <4>2, <4>3
    <3>8. \A i \in 1..Len(outboundMsgs') : outboundMsgs'[i].next = "PUBCOMP" => outboundMsgs'[i].msg.qos = 2
      BY <2>2, <2>4 DEF OutInv, PublishedOnce
    <3>. QED
      BY <3>1, <3>2, <3>5, <3>6, <3>7, <3>8 DEF PublishedOnce
  <2>13. Acknowledged'
    <3>1. \A n \in Nat : (PublishedNo(n) => PublishedNo(n)') /\ (Got(n) => Got(n)')
      BY <1>3 DEF PublishedNo, Got
    <3>2. \A m \in succeeded' : Published(m)'
      BY <1>3 DEF OutInv, Acknowledged, Published
    <3>3. \A n \in Nat : /\ Holds(to_client, {"PUBACK", "PUBCOMP"}, n)' => Holds(to_client, {"PUBACK", "PUBCOMP"}, n)
                         /\ Holds(to_client, {"PUBREC"}, n)' => Holds(to_client, {"PUBREC"}, n)
      BY <1>0, <1>1, HoldsTail
    <3>4. \A n \in Nat : Holds(to_broker, {"PUBREL"}, n)' => Holds(to_broker, {"PUBREL"}, n) \/ n = id0
      BY <2>6, <2>7 DEF Holds
    <3>5. \A n \in Nat : Recorded1(n)' => Recorded1(n) \/ n = id0
      BY <2>3, <2>4 DEF Recorded1
    <3>6. \A n \in Nat : n = id0 => Got(n)'
      BY <1>2, <2>5, <3>1
    <3>. QED
      BY <3>1, <3>2, <3>3, <3>4, <3>5, <3>6, AcknowledgedKept DEF OutInv
  <2>. QED
    BY <2>9, <2>11, <2>12, <2>13 DEF OutInv
<1>. QED
  BY <1>4, <1>5

\* The command whose onSuccess is called has the message the broker answers for
LEMMA QuietEnd ==
    ASSUME OutInv, TypeInv, TypeInv', RecvPuback \/ RecvPubcomp
    PROVE  QuietOut
<1>. DEFINE id0 == Head(to_client).id
<1>0. /\ responses \in Seq(Response) /\ outboundMsgs \in Seq(Entries(Sent)) /\ to_client \in Seq(ToClient)
      /\ LinkTypes /\ published \in Seq(Sent)
  BY DEF TypeInv, SendTypes, SessionTypes, LinkTypes, HistoryTypes
<1>1. PICK type \in {"PUBACK", "PUBCOMP"}, q \in {1, 2} : RecvEnd(type, q)
  BY DEF RecvPuback, RecvPubcomp
<1>2. /\ to_client # <<>> /\ Head(to_client).type = type /\ Head(to_client) \in ToClient
      /\ to_client' = Tail(to_client)
  BY <1>0, <1>1, ReadsProps DEF RecvEnd, Reads
<1>3. id0 \in Nat /\ Holds(to_client, {"PUBACK", "PUBCOMP"}, id0)
  BY <1>0, <1>1, <1>2, PacketTypes, HoldsTail
<1>4. /\ UNCHANGED <<commands, to_broker, b_received, published, sends, msgID>>
      /\ outboundMsgs' = Without(outboundMsgs, id0) \/ outboundMsgs' = outboundMsgs
      /\ responses' = Without(responses, id0)
      /\ succeeded' = IF HasId(responses, id0)
                      THEN succeeded \cup {responses[IndexOf(responses, id0)].msg} ELSE succeeded
  BY <1>1 DEF RecvEnd, Completed
<1>. HIDE DEF id0
<1>5. Within(responses', responses) /\ Within(outboundMsgs', outboundMsgs)
  BY <1>0, <1>4, WithinWithout, WithinSame
<1>6. ASSUME NEW m \in succeeded', m \notin succeeded
      PROVE  Published(m)
  <2>1. HasId(responses, id0) /\ m = responses[IndexOf(responses, id0)].msg
    BY <1>4, <1>6
  <2>2. IndexOf(responses, id0) \in 1..Len(responses) /\ responses[IndexOf(responses, id0)].id = id0
    BY <1>0, <2>1, IndexOfFirst
  <2>3. responses[IndexOf(responses, id0)] \in Response
    BY <1>0, <2>2
  <2>4. m \in Sent /\ Awaited(id0, m)
    BY <2>1, <2>2, <2>3 DEF Response, Awaited
  <2>5. PICK i \in 1..Len(published) : published[i].seq = id0
    BY <1>3 DEF OutInv, Acknowledged, PublishedNo
  <2>6. PICK k \in Sent : k = published[i]
    BY <1>0
  <2>7. Published(k) /\ k.seq = id0
    BY <2>5, <2>6 DEF Published
  <2>8. Carried(id0, k) /\ Carried(id0, m)
    BY <2>4, <2>7 DEF Carried
  <2>9. m = k
    BY <1>3, <2>4, <2>8 DEF OutInv, Numbered
  <2>. QED
    BY <2>7, <2>9
<1>. QED
  BY <1>2, <1>4, <1>5, <1>6, QueueChanges, FlightChanges DEF QuietOut

(***************************************************************************)
(* Messages not yet acknowledged are sent again, behind what is in flight. *)
(***************************************************************************)
Repeated ==
    /\ UNCHANGED <<commands, responses, outboundMsgs, to_client, b_received, published, succeeded, sends, msgID>>
    /\ \A i \in 1..Len(to_broker') :
          \/ i \in 1..Len(to_broker) /\ to_broker'[i] = to_broker[i]
          \/ i > Len(to_broker) /\ \E k \in 1..Len(outboundMsgs) : to_broker'[i] = Again(outboundMsgs[k])

LEMMA RepeatedProps ==
    ASSUME OutInv, TypeInv, NEW k \in 1..Len(outboundMsgs), NEW p, p = Again(outboundMsgs[k])
    PROVE  /\ p.id = outboundMsgs[k].id /\ p.type \in {"PUBLISH", "PUBREL"}
           /\ outboundMsgs[k].id \in Nat /\ outboundMsgs[k].msg \in Sent
           /\ outboundMsgs[k].id = outboundMsgs[k].msg.seq
           /\ p.type = "PUBLISH" => p.msg = outboundMsgs[k].msg
           /\ p.type = "PUBLISH" => outboundMsgs[k].next # "PUBCOMP"
           /\ p.type = "PUBREL" => outboundMsgs[k].next = "PUBCOMP"
<1>0. outboundMsgs[k] \in Entries(Sent)
  BY DEF TypeInv, SessionTypes
<1>1. /\ outboundMsgs[k].id \in Nat /\ outboundMsgs[k].msg \in Sent
      /\ outboundMsgs[k].next \in {"PUBREC", "PUBCOMP"}
  BY <1>0, DeliveryAssumption DEF Entries, MsgId
<1>2. Carried(outboundMsgs[k].id, outboundMsgs[k].msg)
  BY <1>1 DEF Carried, UnderWay
<1>3. outboundMsgs[k].id = outboundMsgs[k].msg.seq
  BY <1>1, <1>2 DEF OutInv, Numbered
<1>4. outboundMsgs[k].next = "PUBCOMP" => outboundMsgs[k].msg.qos = 2
  BY DEF OutInv, PublishedOnce
<1>. HIDE DEF Again
<1>5. /\ p.id = outboundMsgs[k].id /\ p.type \in {"PUBLISH", "PUBREL"}
      /\ p.type = "PUBLISH" => p.msg = outboundMsgs[k].msg
      /\ p.type = "PUBREL" => outboundMsgs[k].next = "PUBCOMP"
  BY <1>0, AgainType
<1>6. p.type = "PUBLISH" => outboundMsgs[k].msg.qos = 1 \/ outboundMsgs[k].next = "PUBREC"
  BY <1>0, AgainType
<1>. QED
  BY <1>1, <1>3, <1>4, <1>5, <1>6

LEMMA OutRepeated ==
    ASSUME OutInv, TypeInv, TypeInv', Repeated
    PROVE  OutInv'
<1>0. to_broker \in Seq(ToBroker) /\ to_broker' \in Seq(ToBroker) /\ outboundMsgs \in Seq(Entries(Sent))
  BY DEF TypeInv, LinkTypes, SessionTypes
<1>1. UNCHANGED <<commands, responses, outboundMsgs, to_client, b_received, published, succeeded, sends, msgID>>
  BY DEF Repeated
\* A packet in flight is an old one, or repeats a message
<1>2. \A i \in 1..Len(to_broker') :
         \/ i \in 1..Len(to_broker) /\ to_broker'[i] = to_broker[i]
         \/ /\ i > Len(to_broker)
            /\ \E k \in 1..Len(outboundMsgs) :
                  /\ to_broker'[i].id = outboundMsgs[k].id
                  /\ outboundMsgs[k].id = outboundMsgs[k].msg.seq
                  /\ to_broker'[i].type = "PUBLISH" => to_broker'[i].msg = outboundMsgs[k].msg
                  /\ to_broker'[i].type = "PUBLISH" => outboundMsgs[k].next # "PUBCOMP"
                  /\ to_broker'[i].type = "PUBREL" => outboundMsgs[k].next = "PUBCOMP"
  <2>. TAKE i \in 1..Len(to_broker')
  <2>1. CASE i \in 1..Len(to_broker) /\ to_broker'[i] = to_broker[i]
    BY <2>1
  <2>2. CASE i > Len(to_broker) /\ \E k \in 1..Len(outboundMsgs) : to_broker'[i] = Again(outboundMsgs[k])
    BY <2>2, RepeatedProps
  <2>. QED
    BY <2>1, <2>2 DEF Repeated
<1>3. ASSUME NEW id \in Nat, NEW m \in Sent, Carried(id, m)'
      PROVE  Carried(id, m)
  <2>1. InFlight(id, m)' => InFlight(id, m) \/ UnderWay(id, m)
    BY <1>2 DEF InFlight, UnderWay
  <2>. QED
    BY <1>1, <1>3, <2>1 DEF Carried, Queued, Awaited, UnderWay, WithBroker, Published
<1>4. Numbered'
  BY <1>1, <1>3, NumberedKept DEF OutInv, Numbered
<1>5. \A n \in Nat : Sending(n)' => Sending(n)
  <2>1. \A n \in Nat : Holds(to_broker, {"PUBLISH", "PUBREL"}, n)' =>
                          Holds(to_broker, {"PUBLISH", "PUBREL"}, n) \/ HasId(outboundMsgs, n)
    BY <1>2 DEF Holds, HasId
  <2>. QED
    BY <1>1, <2>1 DEF Sending, HasId
<1>6. Fresh'
  BY <1>1, <1>5, QueueChanges, FreshKept DEF OutInv
<1>7. \A n \in Nat : Released(n) <=> Released(n)'
  BY <1>1 DEF Released
<1>8. ASSUME NEW m \in Sent, Published(m)', m.qos = 2
      PROVE  /\ \A i \in 1..Len(to_broker') : to_broker'[i].type = "PUBLISH" => to_broker'[i].msg # m
             /\ \A r \in b_received' : r.msg # m
             /\ Released(m.seq)'
  <2>1. Published(m) /\ m.seq \in Nat
    BY <1>1, <1>8 DEF Published, Sent
  <2>2. Released(m.seq) /\ (\A r \in b_received : r.msg # m)
    BY <1>8, <2>1 DEF OutInv, PublishedOnce
  <2>3. ASSUME NEW i \in 1..Len(to_broker'), to_broker'[i].type = "PUBLISH", to_broker'[i].msg = m
        PROVE  FALSE
    <3>1. CASE i \in 1..Len(to_broker) /\ to_broker'[i] = to_broker[i]
      BY <1>8, <2>1, <2>3, <3>1 DEF OutInv, PublishedOnce
    <3>2. CASE i > Len(to_broker)
      <4>1. PICK k \in 1..Len(outboundMsgs) :
               outboundMsgs[k].id = m.seq /\ outboundMsgs[k].next # "PUBCOMP"
        BY <1>2, <2>3, <3>2
      <4>. QED
        BY <2>2, <4>1 DEF Released
    <3>. QED
      BY <1>2, <3>1, <3>2
  <2>. QED
    BY <1>1, <1>7, <2>1, <2>2, <2>3
<1>9. UniqueIds
  BY DEF OutInv, PublishedOnce
<1>10. ASSUME NEW i \in 1..Len(to_broker'), NEW n \in Nat, to_broker'[i].type = "PUBREL" /\ to_broker'[i].id = n
       PROVE  Released(n)
  <2>1. CASE i \in 1..Len(to_broker) /\ to_broker'[i] = to_broker[i]
    BY <1>10, <2>1 DEF OutInv, PublishedOnce
  <2>2. CASE i > Len(to_broker)
    <3>1. PICK k \in 1..Len(outboundMsgs) : outboundMsgs[k].id = n /\ outboundMsgs[k].next = "PUBCOMP"
      BY <1>2, <1>10, <2>2
    <3>. QED
      BY <1>9, <3>1 DEF UniqueIds, Released
  <2>. QED
    BY <1>2, <2>1, <2>2
<1>11. ASSUME NEW i \in 1..Len(to_broker'), NEW j \in 1..Len(to_broker'),
              to_broker'[i].type = "PUBREL" /\ to_broker'[j].type = "PUBLISH", to_broker'[i].id = to_broker'[j].id
       PROVE  j < i
  <2>1. CASE j \in 1..Len(to_broker) /\ to_broker'[j] = to_broker[j]
    <3>1. CASE i \in 1..Len(to_broker) /\ to_broker'[i] = to_broker[i]
      BY <1>11, <2>1, <3>1 DEF OutInv, PublishedOnce
    <3>2. CASE i > Len(to_broker)
      BY <1>0, <2>1, <3>2
    <3>. QED
      BY <1>2, <3>1, <3>2
  <2>2. CASE j > Len(to_broker)
    <3>1. PICK k \in 1..Len(outboundMsgs) :
             outboundMsgs[k].id = to_broker'[j].id /\ outboundMsgs[k].next # "PUBCOMP"
      BY <1>2, <1>11, <2>2
    <3>2. outboundMsgs[k] \in Entries(Sent)
      BY <1>0
    <3>3. to_broker'[i].id \in Nat
      BY <1>11, <3>1, <3>2, DeliveryAssumption DEF Entries, MsgId
    <3>4. Released(to_broker'[i].id)
      BY <1>10, <1>11, <3>3
    <3>. QED
      BY <1>11, <3>1, <3>4 DEF Released
  <2>. QED
    BY <1>2, <2>1, <2>2
<1>12. PublishedOnce'
  <2>1. SentAtMostOnce' /\ UniqueIds'
    BY <1>1 DEF OutInv, PublishedOnce, SentAtMostOnce, UniqueIds
  <2>2. \A i \in 1..Len(outboundMsgs') : outboundMsgs'[i].next = "PUBCOMP" => outboundMsgs'[i].msg.qos = 2
    BY <1>1 DEF OutInv, PublishedOnce
  <2>. QED
    BY <1>7, <1>8, <1>10, <1>11, <2>1, <2>2 DEF PublishedOnce
<1>13. Acknowledged'
  <2>1. \A n \in Nat : (PublishedNo(n) => PublishedNo(n)') /\ (Got(n) => Got(n)')
    BY <1>1 DEF PublishedNo, Got
  <2>2. \A m \in succeeded' : Published(m)'
    BY <1>1 DEF OutInv, Acknowledged, Published
  <2>3. \A n \in Nat : /\ Holds(to_client, {"PUBACK", "PUBCOMP"}, n)' => Holds(to_client, {"PUBACK", "PUBCOMP"}, n)
                       /\ Holds(to_client, {"PUBREC"}, n)' => Holds(to_client, {"PUBREC"}, n)
                       /\ Recorded1(n)' => Recorded1(n)
    BY <1>1 DEF Holds, Recorded1
  <2>4. \A n \in Nat : Holds(to_broker, {"PUBREL"}, n)' => Holds(to_broker, {"PUBREL"}, n) \/ Recorded1(n)
    BY <1>2 DEF Holds, Recorded1
  <2>5. \A n \in Nat : Recorded1(n) => Got(n)'
    BY <2>1 DEF OutInv, Acknowledged
  <2>. QED
    BY <2>1, <2>2, <2>3, <2>4, <2>5, AcknowledgedKept DEF OutInv
<1>. QED
  BY <1>4, <1>6, <1>12, <1>13 DEF OutInv

LEMMA OutComplete ==
    ASSUME KeptSession, OutInv, TypeInv, TypeInv', ConnectionComplete
    PROVE  OutInv'
<1>0. to_broker \in Seq(ToBroker) /\ outboundMsgs \in Seq(Entries(Sent))
  BY DEF TypeInv, LinkTypes, SessionTypes
<1>1. /\ UNCHANGED <<commands, responses, outboundMsgs, to_client, b_received, published, succeeded, sends, msgID>>
      /\ to_broker' = to_broker \/ to_broker' = Resume
  BY DEF ConnectionComplete, KeptSession
<1>2. ASSUME NEW i \in 1..Len(to_broker')
      PROVE  \/ i \in 1..Len(to_broker) /\ to_broker'[i] = to_broker[i]
             \/ i > Len(to_broker) /\ \E k \in 1..Len(outboundMsgs) : to_broker'[i] = Again(outboundMsgs[k])
  <2>1. CASE to_broker' = to_broker
    BY <2>1
  <2>2. CASE to_broker' = Resume
    <3>. DEFINE l == Len(to_broker)
                n == Len(outboundMsgs)
                w == to_broker'
    <3>1. /\ l \in Nat /\ n \in Nat /\ Len(w) = l + n /\ w = to_broker' /\ l = Len(to_broker) /\ n = Len(outboundMsgs)
          /\ \A h \in 1..l : w[h] = to_broker[h]
          /\ \A h \in 1..n : w[l + h] = Again(outboundMsgs[h])
      BY <1>0, <2>2, ResumeType
    <3>. HIDE DEF l, n, w, Again
    <3>2. CASE i <= l
      BY <3>1, <3>2
    <3>3. CASE i > l
      <4>1. i - l \in 1..n /\ l + (i - l) = i
        BY <3>1, <3>3
      <4>2. w[i] = Again(outboundMsgs[i - l])
        BY <3>1, <4>1
      <4>. QED
        BY <3>1, <3>3, <4>1, <4>2
    <3>. QED
      BY <3>1, <3>2, <3>3
  <2>. QED
    BY <1>1, <2>1, <2>2
<1>3. Repeated
  BY <1>1, <1>2 DEF Repeated
<1>. QED
  BY <1>3, OutRepeated

LEMMA OutRetry ==
    ASSUME OutInv, TypeInv, TypeInv', NEW n \in 1..Len(outboundMsgs),
           NEW due \in [1..n -> 1..Len(outboundMsgs)], RetryTimer(due)
    PROVE  OutInv'
<1>0. to_broker \in Seq(ToBroker) /\ outboundMsgs \in Seq(Entries(Sent))
  BY DEF TypeInv, LinkTypes, SessionTypes
<1>1. UNCHANGED <<commands, responses, outboundMsgs, to_client, b_received, published, succeeded, sends, msgID>>
  BY DEF RetryTimer
<1>2. ASSUME NEW i \in 1..Len(to_broker')
      PROVE  \/ i \in 1..Len(to_broker) /\ to_broker'[i] = to_broker[i]
             \/ i > Len(to_broker) /\ \E k \in 1..Len(outboundMsgs) : to_broker'[i] = Again(outboundMsgs[k])
  <2>. DEFINE l == Len(to_broker)
              w == to_broker'
  <2>1. /\ l \in Nat /\ n \in Nat /\ Len(w) = l + n /\ w = to_broker' /\ l = Len(to_broker)
        /\ \A h \in 1..l : w[h] = to_broker[h]
        /\ \A h \in 1..n : \E k \in 1..Len(outboundMsgs) : w[l + h] = Again(outboundMsgs[k])
    <3>1. l \in Nat /\ n \in Nat
      BY <1>0
    <3>. HIDE DEF Again
    <3>2. /\ Len(to_broker') = Len(to_broker) + n
          /\ \A h \in 1..Len(to_broker) : to_broker'[h] = to_broker[h]
          /\ \A h \in 1..n : \E k \in 1..Len(outboundMsgs) : to_broker'[Len(to_broker) + h] = Again(outboundMsgs[k])
      BY RetryType
    <3>. QED
      BY <3>1, <3>2
  <2>. HIDE DEF l, w, Again
  <2>2. CASE i <= l
    BY <2>1, <2>2
  <2>3. CASE i > l
    <3>1. i - l \in 1..n /\ l + (i - l) = i
      BY <2>1, <2>3
    <3>2. \E k \in 1..Len(outboundMsgs) : w[i] = Again(outboundMsgs[k])
      BY <2>1, <3>1
    <3>. QED
      BY <2>1, <2>3, <3>2
  <2>. QED
    BY <2>1, <2>2, <2>3
<1>3. Repeated
  BY <1>1, <1>2 DEF Repeated
<1>. QED
  BY <1>3, OutRepeated

(***************************************************************************)
(* The broker handles the first packet, and answers what it says it has.   *)
(***************************************************************************)
LEMMA OutHandled ==
    ASSUME OutInv, TypeInv, TypeInv', to_broker # <<>>, to_broker' = Tail(to_broker),
           UNCHANGED <<commands, responses, outboundMsgs, succeeded, sends, msgID>>,
           NEW t \in Acks, to_client' = Append(to_client, Packet(t, Head(to_broker).id)),
           \A id \in Nat, m \in Sent : WithBroker(id, m)' \/ (Published(m)' /\ id = m.seq) => Carried(id, m),
           \A r \in b_received' : r.msg.qos = 2,
           \A n \in Nat : (\E r \in b_received' : r.id = n) \/ PublishedNo(n)' => Sending(n),
           SentAtMostOnce',
           \A m \in Sent : Published(m)' /\ m.qos = 2 =>
              /\ \A i \in 1..Len(to_broker') : to_broker'[i].type = "PUBLISH" => to_broker'[i].msg # m
              /\ \A r \in b_received' : r.msg # m
              /\ Released(m.seq),
           \A m \in Sent : Published(m) => Published(m)',
           \A n \in Nat : (PublishedNo(n) => PublishedNo(n)') /\ (Got(n) => Got(n)'),
           t \in {"PUBACK", "PUBCOMP"} => \A n \in Nat : n = Head(to_broker).id => PublishedNo(n)',
           t = "PUBREC" => \A n \in Nat : n = Head(to_broker).id => Got(n)'
    PROVE  OutInv'
<1>. DEFINE id0 == Head(to_broker).id
            p == Packet(t, id0)
<1>0. /\ to_broker \in Seq(ToBroker) /\ to_broker' \in Seq(ToBroker)
      /\ to_client \in Seq(ToClient) /\ to_client' \in Seq(ToClient)
      /\ commands \in Seq(Command) /\ succeeded \subseteq Sent
  BY DEF TypeInv, LinkTypes, SendTypes, HistoryTypes
<1>1. \A i \in 1..Len(to_broker') : i + 1 \in 1..Len(to_broker) /\ to_broker'[i] = to_broker[i + 1]
  BY <1>0
<1>2. ASSUME NEW id \in Nat, NEW m \in Sent, Carried(id, m)'
      PROVE  Carried(id, m)
  <2>1. InFlight(id, m)' => InFlight(id, m)
    BY <1>1 DEF InFlight
  <2>. QED
    BY <1>2, <2>1 DEF Carried, Queued, Awaited, UnderWay
<1>3. Numbered'
  BY <1>2, NumberedKept DEF OutInv, Numbered
<1>4. \A n \in Nat : Sending(n)' => Sending(n)
  <2>. TAKE n \in Nat
  <2>1. Holds(to_broker, {"PUBLISH", "PUBREL"}, n)' => Holds(to_broker, {"PUBLISH", "PUBREL"}, n)
    BY <1>1 DEF Holds
  <2>2. (\E r \in b_received' : r.id = n) \/ PublishedNo(n)' => Sending(n)
    OBVIOUS
  <2>. QED
    BY <2>1, <2>2 DEF Sending, HasId, PublishedNo
<1>5. Fresh'
  BY <1>4, QueueChanges, FreshKept DEF OutInv
<1>6. PublishedOnce'
  <2>1. UniqueIds' /\ \A n \in Nat : Released(n) <=> Released(n)'
    BY DEF OutInv, PublishedOnce, UniqueIds, Released
  <2>2. \A m \in Sent : m.seq \in Nat
    BY DEF Sent
  <2>3. ASSUME NEW i \in 1..Len(to_broker'), NEW n \in Nat, to_broker'[i].type = "PUBREL" /\ to_broker'[i].id = n
        PROVE  Released(n)'
    BY <1>1, <2>1, <2>3 DEF OutInv, PublishedOnce
  <2>4. ASSUME NEW i \in 1..Len(to_broker'), NEW j \in 1..Len(to_broker'),
               to_broker'[i].type = "PUBREL" /\ to_broker'[j].type = "PUBLISH", to_broker'[i].id = to_broker'[j].id
        PROVE  j < i
    <3>1. PICK a \in 1..Len(to_broker), b \in 1..Len(to_broker) :
             a = i + 1 /\ b = j + 1 /\ to_broker'[i] = to_broker[a] /\ to_broker'[j] = to_broker[b]
      BY <1>1
    <3>2. b < a
      BY <2>4, <3>1 DEF OutInv, PublishedOnce
    <3>. QED
      BY <1>0, <3>1, <3>2
  <2>5. \A i \in 1..Len(outboundMsgs') : outboundMsgs'[i].next = "PUBCOMP" => outboundMsgs'[i].msg.qos = 2
    BY DEF OutInv, PublishedOnce
  <2>6. \A m \in Sent : Published(m)' /\ m.qos = 2 =>
              /\ \A i \in 1..Len(to_broker') : to_broker'[i].type = "PUBLISH" => to_broker'[i].msg # m
              /\ \A r \in b_received' : r.msg # m
              /\ Released(m.seq)'
    BY <2>1, <2>2
  <2>. QED
    BY <2>1, <2>3, <2>4, <2>5, <2>6 DEF PublishedOnce
<1>7. Acknowledged'
  <2>1. p \in ToClient /\ p.type = t /\ p.id = id0 /\ id0 \in Nat
    <3>1. Head(to_broker) \in ToBroker /\ to_client' = Append(to_client, p)
      BY <1>0
    <3>2. p = to_client'[Len(to_client')] /\ Len(to_client') \in 1..Len(to_client')
      BY <1>0, <3>1
    <3>3. p \in ToClient
      BY <1>0, <3>2
    <3>4. p.type = t /\ p.id = id0
      BY DEF Packet
    <3>. QED
      BY <3>3, <3>4, PacketTypes
  <2>2. to_client' = Append(to_client, p)
    OBVIOUS
  <2>. HIDE DEF p, id0
  <2>3. \A n \in Nat : \A T : Holds(to_client', T, n) => Holds(to_client, T, n) \/ (t \in T /\ n = id0)
    BY <1>0, <2>1, <2>2, HoldsAppend
  <2>4. \A n \in Nat : Holds(to_client, {"PUBACK", "PUBCOMP"}, n)' =>
                          Holds(to_client, {"PUBACK", "PUBCOMP"}, n) \/ PublishedNo(n)'
    BY <2>3 DEF id0
  <2>5. \A n \in Nat : Holds(to_client, {"PUBREC"}, n)' => Holds(to_client, {"PUBREC"}, n) \/ Got(n)'
    BY <2>3 DEF id0
  <2>6. \A n \in Nat : /\ Holds(to_broker, {"PUBREL"}, n)' => Holds(to_broker, {"PUBREL"}, n)
                       /\ Recorded1(n)' => Recorded1(n)
    BY <1>1 DEF Holds, Recorded1
  <2>7. \A m \in succeeded' : Published(m)'
    BY <1>0 DEF OutInv, Acknowledged
  <2>. QED
    BY <2>4, <2>5, <2>6, <2>7, AcknowledgedKept DEF OutInv
<1>. QED
  BY <1>3, <1>5, <1>6, <1>7 DEF OutInv

LEMMA FirstInFlight ==
    ASSUME OutInv, TypeInv, NEW type \in {"PUBLISH", "PUBREL"}, BrokerReads(type)
    PROVE  /\ 1 \in 1..Len(to_broker) /\ to_broker[1] = Head(to_broker) /\ to_broker[1].type = type
           /\ to_broker # <<>> /\ to_broker' = Tail(to_broker) /\ to_broker[1].id \in Nat
           /\ \A i \in 1..Len(to_broker') : i + 1 \in 1..Len(to_broker) /\ to_broker'[i] = to_broker[i + 1]
           /\ type = "PUBLISH" => /\ to_broker[1].msg \in Sent /\ to_broker[1].id \in MsgId
                                  /\ InFlight(to_broker[1].id, to_broker[1].msg)
                                  /\ to_broker[1].id = to_broker[1].msg.seq
<1>0. to_broker \in Seq(ToBroker) /\ LinkTypes
  BY DEF TypeInv, LinkTypes
<1>1. /\ 1 \in 1..Len(to_broker) /\ to_broker[1] = Head(to_broker) /\ to_broker[1].type = type
      /\ to_broker # <<>> /\ to_broker' = Tail(to_broker) /\ to_broker[1] \in ToBroker
  BY <1>0 DEF BrokerReads
<1>2. \A i \in 1..Len(to_broker') : i + 1 \in 1..Len(to_broker) /\ to_broker'[i] = to_broker[i + 1]
  BY <1>0, <1>1
<1>3. to_broker[1].id \in Nat
  BY <1>1, PacketTypes
<1>4. ASSUME type = "PUBLISH"
      PROVE  /\ to_broker[1].msg \in Sent /\ to_broker[1].id \in MsgId
             /\ InFlight(to_broker[1].id, to_broker[1].msg)
             /\ to_broker[1].id = to_broker[1].msg.seq
  <2>1. to_broker[1].msg \in Sent /\ to_broker[1].id \in MsgId
    BY <1>1, <1>4, PacketTypes
  <2>2. InFlight(to_broker[1].id, to_broker[1].msg)
    BY <1>1, <1>4 DEF InFlight
  <2>3. Carried(to_broker[1].id, to_broker[1].msg)
    BY <2>2 DEF Carried
  <2>. QED
    BY <1>3, <2>1, <2>2, <2>3 DEF OutInv, Numbered
<1>. QED
  BY <1>1, <1>2, <1>3, <1>4

LEMMA OutPublish1 ==
    ASSUME OutInv, TypeInv, TypeInv', BrokerPublish1
    PROVE  OutInv'
<1>. DEFINE m0 == to_broker[1].msg
            id0 == to_broker[1].id
<1>0. published \in Seq(Sent) /\ published' \in Seq(Sent)
  BY DEF TypeInv, HistoryTypes
<1>1. /\ 1 \in 1..Len(to_broker) /\ to_broker[1] = Head(to_broker) /\ to_broker[1].type = "PUBLISH"
      /\ to_broker # <<>> /\ to_broker' = Tail(to_broker) /\ id0 \in Nat
      /\ \A i \in 1..Len(to_broker') : i + 1 \in 1..Len(to_broker) /\ to_broker'[i] = to_broker[i + 1]
      /\ m0 \in Sent /\ InFlight(id0, m0) /\ id0 = m0.seq
  BY FirstInFlight DEF BrokerPublish1
<1>2. /\ m0.qos = 1 /\ published' = Append(published, m0)
      /\ to_client' = Append(to_client, Packet("PUBACK", Head(to_broker).id))
      /\ UNCHANGED <<commands, responses, outboundMsgs, succeeded, sends, msgID, b_received>>
  BY <1>1 DEF BrokerPublish1, BrokerAnswers, BrokerOnly
<1>. HIDE DEF m0
<1>3. /\ \A i \in 1..Len(published') : \/ i \in 1..Len(published) /\ published'[i] = published[i]
                                       \/ i = Len(published) + 1 /\ published'[i] = m0
      /\ \A i \in 1..Len(published) : i \in 1..Len(published') /\ published'[i] = published[i]
      /\ Len(published) + 1 \in 1..Len(published') /\ published'[Len(published) + 1] = m0
  BY <1>0, <1>1, <1>2, AppendAt
<1>4. \A m \in Sent : (Published(m)' => Published(m) \/ m = m0) /\ (Published(m) => Published(m)')
  BY <1>3 DEF Published
<1>5. \A n \in Nat : /\ PublishedNo(n)' => PublishedNo(n) \/ n = id0
                     /\ PublishedNo(n) => PublishedNo(n)'
                     /\ n = id0 => PublishedNo(n)'
  BY <1>1, <1>3 DEF PublishedNo
<1>6. \A id \in Nat, m \in Sent : WithBroker(id, m)' \/ (Published(m)' /\ id = m.seq) => Carried(id, m)
  BY <1>1, <1>2, <1>4 DEF Carried, WithBroker
<1>7. \A r \in b_received' : r.msg.qos = 2
  BY <1>2 DEF OutInv, Numbered
<1>8. \A n \in Nat : (\E r \in b_received' : r.id = n) \/ PublishedNo(n)' => Sending(n)
  BY <1>1, <1>2, <1>5 DEF Sending, PublishedNo, Holds
<1>9. SentAtMostOnce'
  BY <1>2, <1>3 DEF OutInv, PublishedOnce, SentAtMostOnce, Once
<1>10. ASSUME NEW m \in Sent, Published(m)', m.qos = 2
       PROVE  /\ \A i \in 1..Len(to_broker') : to_broker'[i].type = "PUBLISH" => to_broker'[i].msg # m
              /\ \A r \in b_received' : r.msg # m
              /\ Released(m.seq)
  <2>1. Published(m)
    BY <1>2, <1>4, <1>10
  <2>. QED
    BY <1>1, <1>2, <1>10, <2>1 DEF OutInv, PublishedOnce
<1>11. \A n \in Nat : (PublishedNo(n) => PublishedNo(n)') /\ (Got(n) => Got(n)')
  BY <1>2, <1>5 DEF Got
<1>. QED
  BY <1>1, <1>2, <1>4, <1>5, <1>6, <1>7, <1>8, <1>9, <1>10, <1>11, OutHandled DEF Acks

LEMMA OutPublish2 ==
    ASSUME OutInv, TypeInv, TypeInv', BrokerPublish2
    PROVE  OutInv'
<1>. DEFINE m0 == to_broker[1].msg
            id0 == to_broker[1].id
            r0 == [id |-> id0, msg |-> m0]
<1>1. /\ 1 \in 1..Len(to_broker) /\ to_broker[1] = Head(to_broker) /\ to_broker[1].type = "PUBLISH"
      /\ to_broker # <<>> /\ to_broker' = Tail(to_broker) /\ id0 \in Nat
      /\ \A i \in 1..Len(to_broker') : i + 1 \in 1..Len(to_broker) /\ to_broker'[i] = to_broker[i + 1]
      /\ m0 \in Sent /\ InFlight(id0, m0) /\ id0 = m0.seq
  BY FirstInFlight DEF BrokerPublish2
<1>2. /\ m0.qos = 2 /\ r0.id = id0 /\ r0.msg = m0
      /\ b_received' = IF \E r \in b_received : r.id = id0 THEN b_received ELSE b_received \cup {r0}
      /\ to_client' = Append(to_client, Packet("PUBREC", Head(to_broker).id))
      /\ UNCHANGED <<commands, responses, outboundMsgs, succeeded, sends, msgID, published>>
  BY <1>1 DEF BrokerPublish2, BrokerAnswers, BrokerOnly
<1>. HIDE DEF m0, id0, r0
<1>3. /\ \A r \in b_received' : r \in b_received \/ r = r0
      /\ \A r \in b_received : r \in b_received'
      /\ \E r \in b_received' : r.id = id0
  BY <1>2
<1>4. \A m \in Sent : Published(m)' <=> Published(m)
  BY <1>2 DEF Published
<1>5. \A n \in Nat : PublishedNo(n)' <=> PublishedNo(n)
  BY <1>2 DEF PublishedNo
<1>6. ASSUME NEW id \in Nat, NEW m \in Sent, WithBroker(id, m)' \/ (Published(m)' /\ id = m.seq)
      PROVE  Carried(id, m)
  <2>1. WithBroker(id, m)' => WithBroker(id, m) \/ (id = id0 /\ m = m0)
    BY <1>2, <1>3 DEF WithBroker
  <2>. QED
    BY <1>1, <1>4, <1>6, <2>1 DEF Carried
<1>7. \A r \in b_received' : r.msg.qos = 2
  BY <1>2, <1>3 DEF OutInv, Numbered
<1>8. \A n \in Nat : (\E r \in b_received' : r.id = n) \/ PublishedNo(n)' => Sending(n)
  <2>. TAKE n \in Nat
  <2>1. (\E r \in b_received' : r.id = n) => (\E r \in b_received : r.id = n) \/ n = id0
    BY <1>2, <1>3
  <2>2. n = id0 => Holds(to_broker, {"PUBLISH", "PUBREL"}, n)
    BY <1>1 DEF Holds, id0
  <2>. QED
    BY <1>5, <2>1, <2>2 DEF Sending, PublishedNo
<1>9. SentAtMostOnce'
  BY <1>2 DEF OutInv, PublishedOnce, SentAtMostOnce
<1>10. ASSUME NEW m \in Sent, Published(m)', m.qos = 2
       PROVE  /\ \A i \in 1..Len(to_broker') : to_broker'[i].type = "PUBLISH" => to_broker'[i].msg # m
              /\ \A r \in b_received' : r.msg # m
              /\ Released(m.seq)
  <2>1. Published(m)
    BY <1>4, <1>10
  <2>2. /\ \A i \in 1..Len(to_broker) : to_broker[i].type = "PUBLISH" => to_broker[i].msg # m
        /\ \A r \in b_received : r.msg # m
        /\ Released(m.seq)
    BY <1>10, <2>1 DEF OutInv, PublishedOnce
  <2>3. m0 # m
    BY <1>1, <2>2 DEF m0
  <2>. QED
    BY <1>1, <1>2, <1>3, <2>2, <2>3
<1>11. \A n \in Nat : (PublishedNo(n) => PublishedNo(n)') /\ (Got(n) => Got(n)')
  BY <1>3, <1>5 DEF Got
<1>12. \A n \in Nat : n = id0 => Got(n)'
  BY <1>3 DEF Got
<1>13. id0 = Head(to_broker).id /\ \A m \in Sent : Published(m) => Published(m)'
  BY <1>1, <1>4 DEF id0
<1>. QED
  BY <1>1, <1>2, <1>6, <1>7, <1>8, <1>9, <1>10, <1>11, <1>12, <1>13, OutHandled DEF Acks

LEMMA OutPubrel ==
    ASSUME OutInv, TypeInv, TypeInv', BrokerPubrel
    PROVE  OutInv'
<1>. DEFINE id0 == to_broker[1].id
            released == {r \in b_received : r.id = id0}
            m0 == (CHOOSE r \in released : TRUE).msg
<1>0. published \in Seq(Sent) /\ published' \in Seq(Sent) /\ b_received \subseteq Response
  BY DEF TypeInv, HistoryTypes, BrokerTypes
<1>1. /\ 1 \in 1..Len(to_broker) /\ to_broker[1] = Head(to_broker) /\ to_broker[1].type = "PUBREL"
      /\ to_broker # <<>> /\ to_broker' = Tail(to_broker) /\ id0 \in Nat
      /\ \A i \in 1..Len(to_broker') : i + 1 \in 1..Len(to_broker) /\ to_broker'[i] = to_broker[i + 1]
  BY FirstInFlight DEF BrokerPubrel
<1>2. /\ b_received' = b_received \ released
      /\ published' = IF released = {} THEN published ELSE Append(published, m0)
      /\ to_client' = Append(to_client, Packet("PUBCOMP", Head(to_broker).id))
      /\ UNCHANGED <<commands, responses, outboundMsgs, succeeded, sends, msgID>>
  BY <1>1 DEF BrokerPubrel, BrokerAnswers, BrokerOnly
<1>3. Got(id0)
  <2>1. Holds(to_broker, {"PUBREL"}, id0)
    BY <1>1 DEF Holds
  <2>. QED
    BY <1>1, <2>1 DEF OutInv, Acknowledged
<1>4. released # {} => /\ m0 \in Sent /\ WithBroker(id0, m0) /\ m0.seq = id0 /\ m0.qos = 2
                       /\ \A r \in b_received : r.msg = m0 => r \in released
  <2>. SUFFICES ASSUME released # {}
                PROVE  /\ m0 \in Sent /\ WithBroker(id0, m0) /\ m0.seq = id0 /\ m0.qos = 2
                       /\ \A r \in b_received : r.msg = m0 => r \in released
    OBVIOUS
  <2>1. PICK r0 \in b_received : r0.id = id0 /\ r0.msg = m0
    OBVIOUS
  <2>. HIDE DEF m0
  <2>2. m0 \in Sent
    BY <1>0, <2>1 DEF Response
  <2>3. WithBroker(id0, m0)
    BY <2>1 DEF WithBroker
  <2>4. Carried(id0, m0)
    BY <2>3 DEF Carried
  <2>5. m0.seq = id0 /\ m0.qos = 2
    BY <1>1, <2>1, <2>2, <2>4 DEF OutInv, Numbered
  <2>6. ASSUME NEW r \in b_received, r.msg = m0
        PROVE  r.id = id0
    <3>1. r.id \in Nat
      BY <1>0, DeliveryAssumption DEF Response, MsgId
    <3>2. WithBroker(r.id, m0)
      BY <2>6 DEF WithBroker
    <3>3. Carried(r.id, m0)
      BY <3>2 DEF Carried
    <3>. QED
      BY <2>2, <2>5, <3>1, <3>3 DEF OutInv, Numbered
  <2>. QED
    BY <2>2, <2>3, <2>5, <2>6
<1>. HIDE DEF m0
<1>5. released # {} => ~Published(m0)
  BY <1>4 DEF WithBroker, OutInv, PublishedOnce
<1>6. /\ \A i \in 1..Len(published') :
            \/ i \in 1..Len(published) /\ published'[i] = published[i]
            \/ released # {} /\ i = Len(published) + 1 /\ published'[i] = m0
      /\ \A i \in 1..Len(published) : i \in 1..Len(published') /\ published'[i] = published[i]
      /\ released # {} => Len(published) + 1 \in 1..Len(published') /\ published'[Len(published) + 1] = m0
  <2>1. CASE released = {}
    BY <1>2, <2>1
  <2>2. CASE released # {}
    BY <1>0, <1>2, <1>4, <2>2, AppendAt
  <2>. QED
    BY <2>1, <2>2
<1>7. \A m \in Sent : /\ Published(m)' => Published(m) \/ (released # {} /\ m = m0)
                      /\ Published(m) => Published(m)'
  BY <1>6 DEF Published
<1>8. \A n \in Nat : /\ PublishedNo(n)' => PublishedNo(n) \/ (released # {} /\ n = id0)
                     /\ PublishedNo(n) => PublishedNo(n)'
                     /\ released # {} /\ n = id0 => PublishedNo(n)'
  BY <1>4, <1>6 DEF PublishedNo
<1>9. \A r \in b_received' : r \in b_received
  BY <1>2
<1>10. ASSUME NEW id \in Nat, NEW m \in Sent, WithBroker(id, m)' \/ (Published(m)' /\ id = m.seq)
       PROVE  Carried(id, m)
  BY <1>4, <1>7, <1>9, <1>10 DEF Carried, WithBroker
<1>11. \A r \in b_received' : r.msg.qos = 2
  BY <1>9 DEF OutInv, Numbered
<1>12. \A n \in Nat : (\E r \in b_received' : r.id = n) \/ PublishedNo(n)' => Sending(n)
  BY <1>8, <1>9 DEF Sending, PublishedNo
<1>13. SentAtMostOnce'
  <2>. SUFFICES ASSUME NEW i \in 1..Len(published'), published'[i].qos = 2,
                       NEW j \in 1..Len(published'), published'[j] = published'[i]
                PROVE  i = j
    BY DEF SentAtMostOnce, Once
  <2>1. CASE i \in 1..Len(published) /\ j \in 1..Len(published)
    BY <1>6, <2>1 DEF OutInv, PublishedOnce, SentAtMostOnce, Once
  <2>2. CASE i \notin 1..Len(published) \/ j \notin 1..Len(published)
    BY <1>5, <1>6, <2>2 DEF Published
  <2>. QED
    BY <2>1, <2>2
<1>14. ASSUME NEW m \in Sent, Published(m)', m.qos = 2
       PROVE  /\ \A i \in 1..Len(to_broker') : to_broker'[i].type = "PUBLISH" => to_broker'[i].msg # m
              /\ \A r \in b_received' : r.msg # m
              /\ Released(m.seq)
  <2>1. CASE Published(m)
    BY <1>1, <1>9, <1>14, <2>1 DEF OutInv, PublishedOnce
  <2>2. CASE released # {} /\ m = m0
    <3>1. Released(m.seq)
      BY <1>1, <1>4, <2>2 DEF OutInv, PublishedOnce
    <3>2. \A r \in b_received' : r.msg # m
      BY <1>2, <1>4, <2>2
    <3>3. ASSUME NEW i \in 1..Len(to_broker'), to_broker'[i].type = "PUBLISH", to_broker'[i].msg = m
          PROVE  FALSE
      <4>1. PICK a \in 1..Len(to_broker) : a = i + 1 /\ to_broker'[i] = to_broker[a]
        BY <1>1
      <4>2. to_broker[a] \in ToBroker
        BY DEF TypeInv, LinkTypes
      <4>3. to_broker[a].id \in Nat
        BY <3>3, <4>1, <4>2, PacketTypes, DeliveryAssumption DEF MsgId
      <4>4. InFlight(to_broker[a].id, m)
        BY <3>3, <4>1 DEF InFlight
      <4>5. Carried(to_broker[a].id, m)
        BY <4>4 DEF Carried
      <4>6. to_broker[a].id = id0
        BY <1>4, <2>2, <4>3, <4>5 DEF OutInv, Numbered
      <4>7. a < 1
        BY <1>1, <3>3, <4>1, <4>6 DEF OutInv, PublishedOnce
      <4>. QED
        BY <4>7
    <3>. QED
      BY <3>1, <3>2, <3>3
  <2>. QED
    BY <1>7, <1>14, <2>1, <2>2
<1>15. \A n \in Nat : Got(n) => Got(n)'
  <2>. TAKE n \in Nat
  <2>1. ASSUME NEW r \in b_received, r.id = n
        PROVE  (\E k \in b_received' : k.id = n) \/ PublishedNo(n)'
    <3>1. CASE n = id0
      <4>1. r \in released
        BY <2>1, <3>1
      <4>. QED
        BY <1>8, <3>1, <4>1
    <3>2. CASE n # id0
      BY <1>2, <2>1, <3>2
    <3>. QED
      BY <3>1, <3>2
  <2>. QED
    BY <1>8, <2>1 DEF Got
<1>16. \A n \in Nat : n = Head(to_broker).id => PublishedNo(n)'
  <2>1. CASE released = {}
    <3>1. ~\E r \in b_received : r.id = id0
      BY <2>1
    <3>2. PublishedNo(id0)
      BY <1>3, <3>1 DEF Got
    <3>. QED
      BY <1>1, <1>8, <3>2
  <2>2. CASE released # {}
    BY <1>1, <1>8, <2>2
  <2>. QED
    BY <2>1, <2>2
<1>. HIDE DEF released, id0
<1>. QED
  BY <1>1, <1>2, <1>7, <1>8, <1>10, <1>11, <1>12, <1>13, <1>14, <1>15, <1>16, OutHandled DEF Acks

LEMMA OutNext == KeptSession /\ TypeInv /\ TypeInv' /\ Linked /\ OutInv /\ [Next]_vars => OutInv'
<1>. SUFFICES ASSUME KeptSession, TypeInv, TypeInv', Linked, OutInv, [Next]_vars PROVE OutInv'
  OBVIOUS
<1>1. CASE \E q \in Qos : Send(q)
  BY <1>1, OutSend
<1>2. CASE \/ StartConnect \/ CannotConnect \/ LoseConnection \/ NothingToLose
           \/ ConnectTimeout \/ Break \/ PingTimeout
  BY <1>2, QuietSend, QuietOutKept
<1>3. CASE PublishCommand \/ PublishFails
  BY <1>3, OutPublish
<1>4. CASE \/ RecvPublish1 \/ RecvPublish2 \/ RecvPubrel \/ RecvStrayPubrel \/ RecvPingresp
           \/ RecvConnack
  BY <1>4, QuietReceive, QuietOutKept
<1>5. CASE RecvPubrec
  BY <1>5, OutPubrec
<1>6. CASE RecvPuback \/ RecvPubcomp
  BY <1>6, QuietEnd, QuietOutKept
<1>7. CASE ReadFails \/ TurnLost \/ TurnFails \/ TurnEnds \/ ConnackUnexpected
  BY <1>7, QuietTurn, QuietOutKept
<1>8. CASE ConnectionComplete
  BY <1>8, OutComplete
<1>9. CASE \E n \in 1..Len(outboundMsgs) : \E due \in [1..n -> 1..Len(outboundMsgs)] : RetryTimer(due)
  BY <1>9, OutRetry
<1>10. CASE BrokerConnect \/ BrokerPubrec \/ BrokerEnd \/ \E q \in Qos : BrokerSend(q)
  BY <1>10, QuietBroker, QuietOutKept
<1>11. CASE BrokerPublish1
  BY <1>11, OutPublish1
<1>12. CASE BrokerPublish2
  BY <1>12, OutPublish2
<1>13. CASE BrokerPubrel
  BY <1>13, OutPubrel
<1>14. CASE UNCHANGED vars
  BY <1>14, QueueChanges, FlightChanges, QuietOutKept DEF vars, QuietOut
<1>. QED
  BY <1>1, <1>2, <1>3, <1>4, <1>5, <1>6, <1>7, <1>8, <1>9, <1>10, <1>11, <1>12, <1>13, <1>14
     DEF Next, SendThread, ReceiveThread, Timers, Broker, BrokerHandles

LEMMA OutCorrect ==
    ASSUME KeptSession
    PROVE  Spec => [](TypeInv /\ Linked /\ OutInv)
<1>1. Init => TypeInv /\ Linked /\ OutInv
  BY TypesInit, LinkedInit, OutInit
<1>2. TypeInv /\ Linked /\ OutInv /\ [Next]_vars => (TypeInv /\ Linked /\ OutInv)'
  BY TypesNext, LinkedNext, OutNext
<1>. QED
  BY <1>1, <1>2, PTL DEF Spec

\* In a session that is kept, and while its ids have not come round, onSuccess
\* is called for a message only after the broker has published it: the command
\* Completed finds by the id of a PUBACK or PUBCOMP is the one whose message the
\* broker had under that id, however often it was sent.
THEOREM SuccessIsTrue ==
    ASSUME KeptSession
    PROVE  Spec => []SuccessMeansPublished
<1>1. TypeInv /\ Linked /\ OutInv => SuccessMeansPublished
  <2>. SUFFICES ASSUME OutInv PROVE \A m \in succeeded : m \in ToSet(published)
    BY DEF SuccessMeansPublished
  <2>. QED
    BY DEF OutInv, Acknowledged, Published, ToSet
<1>. QED
  BY <1>1, OutCorrect, PTL

-----------------------------------------------------------------------------
(* Messages of the broker.                                                 *)

\* What carries a message of the broker, or the right to release it
Tokens == {"PUBLISH", "PUBREL"}

\* A type of packet is there once for an id
UniqueFor(s, T) == \A i, j \in 1..Len(s) :
                      /\ s[i].type \in T /\ s[j].type \in T
                      /\ s[i].id = s[j].id
                      => i = j

\* What messageArrived was called for with success, then what waits for it
Arrivals == arrived \o messageQueue

Given(m) == \E i \in 1..Len(Arrivals) : Arrivals[i] = m
Kept(id, m) == \E i \in 1..Len(inboundMsgs) : inboundMsgs[i].id = id /\ inboundMsgs[i].msg = m
Owes(id, m, next) == \E k \in 1..Len(b_unacked) :
                        b_unacked[k].id = id /\ b_unacked[k].msg = m /\ b_unacked[k].next = next
Offered(id, m) == \E i \in 1..Len(to_client) :
                     to_client[i].type = "PUBLISH" /\ to_client[i].id = id /\ to_client[i].msg = m

(***************************************************************************)
(* An exchange is at one place at a time: a packet of the broker is on its *)
(* way to the client, or the answer to it is on its way back.              *)
(***************************************************************************)
OneToken ==
    /\ UniqueFor(to_client, Tokens) /\ UniqueFor(to_broker, Acks)
    /\ \A id \in Nat : ~(Holds(to_client, Tokens, id) /\ Holds(to_broker, Acks, id))

(***************************************************************************)
(* What each packet in flight, and each message stored, says about the     *)
(* message the broker has under that id.                                   *)
(***************************************************************************)
Stages ==
    /\ \A id \in Nat, m \in Incoming : Offered(id, m) => Owes(id, m, "PUBREC")
    /\ \A id \in Nat : Holds(to_client, {"PUBREL"}, id) => \E m \in Incoming : Owes(id, m, "PUBCOMP")
    /\ \A id \in Nat : Holds(to_broker, {"PUBACK"}, id) =>
          \E m \in Incoming : Owes(id, m, "PUBREC") /\ m.qos = 1 /\ Given(m)
    /\ \A id \in Nat : Holds(to_broker, {"PUBREC"}, id) =>
          \E m \in Incoming : Owes(id, m, "PUBREC") /\ m.qos = 2 /\ Kept(id, m)
    /\ \A id \in Nat : Holds(to_broker, {"PUBCOMP"}, id) =>
          \E m \in Incoming : Owes(id, m, "PUBCOMP") /\ Given(m) /\ \A k \in Incoming : ~Kept(id, k)
    /\ \A id \in Nat, m \in Incoming : Owes(id, m, "PUBCOMP") => m.qos = 2 /\ (Kept(id, m) \/ Given(m))
    /\ \A id \in Nat, m \in Incoming : Kept(id, m) =>
          m.qos = 2 /\ (Owes(id, m, "PUBREC") \/ Owes(id, m, "PUBCOMP"))

(***************************************************************************)
(* A QoS 2 message is given to the application once, and not while it is   *)
(* still stored or still to be sent; and no message is lost on the way.    *)
(***************************************************************************)
GivenOnce ==
    /\ \A i, j \in 1..Len(Arrivals) : Arrivals[i] = Arrivals[j] /\ Arrivals[i].qos = 2 => i = j
    /\ \A i, j \in 1..Len(inboundMsgs) : inboundMsgs[i].id = inboundMsgs[j].id => i = j
    /\ \A id \in Nat, m \in Incoming : Kept(id, m) => ~Given(m)
    /\ \A id \in Nat, m \in Incoming : Owes(id, m, "PUBREC") /\ m.qos = 2 => ~Given(m)
    /\ \A m \in Incoming : Given(m) => m.seq <= incoming
    /\ \A id \in Nat, m \in Incoming, next \in {"PUBREC", "PUBCOMP"} : Owes(id, m, next) => m.seq <= incoming
    /\ \A id, k \in Nat, m \in Incoming, x, y \in {"PUBREC", "PUBCOMP"} : Owes(id, m, x) /\ Owes(k, m, y) => id = k
    /\ \A n \in 1..incoming : \E m \in Incoming :
          m.seq = n /\ (Given(m) \/ \E id \in Nat : Owes(id, m, "PUBREC") \/ Owes(id, m, "PUBCOMP"))

InInv == OneToken /\ Stages /\ GivenOnce

LEMMA InInit == Init => InInv
<1>. SUFFICES ASSUME Init PROVE InInv
  OBVIOUS
<1>1. /\ \A i \in 1..Len(to_broker) : FALSE
      /\ \A i \in 1..Len(to_client) : FALSE
      /\ \A i \in 1..Len(inboundMsgs) : FALSE
      /\ \A i \in 1..Len(b_unacked) : FALSE
      /\ incoming = 0
  BY DEF Init
<1>2. \A i \in 1..Len(Arrivals) : FALSE
  <2>1. arrived = <<>> /\ messageQueue = <<>>
    BY DEF Init
  <2>2. Arrivals = <<>> \o <<>>
    BY <2>1 DEF Arrivals
  <2>3. <<>> \o <<>> = <<>>
    OBVIOUS
  <2>. QED
    BY <2>2, <2>3
<1>3. OneToken
  BY <1>1 DEF OneToken, UniqueFor, Holds
<1>4. Stages
  BY <1>1 DEF Stages, Offered, Holds, Owes, Kept
<1>5. GivenOnce
  BY <1>1, <1>2 DEF GivenOnce, Given, Kept, Owes
<1>. QED
  BY <1>3, <1>4, <1>5 DEF InInv

LEMMA UniqueWithin ==
    ASSUME NEW S, NEW s \in Seq(S), NEW t \in Seq(S), NEW T, WithinFor(t, s, T), UniqueFor(s, T)
    PROVE  UniqueFor(t, T)
<1>1. PICK f \in [1..Len(t) -> Int] :
         /\ \A i \in 1..Len(t) : t[i].type \in T => f[i] \in 1..Len(s) /\ t[i] = s[f[i]]
         /\ \A i, j \in 1..Len(t) : t[i].type \in T /\ t[j].type \in T /\ i < j => f[i] < f[j]
  BY DEF WithinFor
<1>. SUFFICES ASSUME NEW i \in 1..Len(t), NEW j \in 1..Len(t), t[i].type \in T /\ t[j].type \in T, t[i].id = t[j].id
              PROVE  i = j
  BY DEF UniqueFor
<1>2. f[i] = f[j] /\ f[i] \in Int
  BY <1>1 DEF UniqueFor
<1>3. ~(i < j) /\ ~(j < i)
  BY <1>1, <1>2
<1>. QED
  BY <1>3

LEMMA UniqueAppend ==
    ASSUME NEW S, NEW s \in Seq(S), NEW e \in S, NEW T, UniqueFor(s, T), e.type \in T => ~Holds(s, T, e.id)
    PROVE  UniqueFor(Append(s, e), T)
<1>. DEFINE l == Len(s)
            w == Append(s, e)
<1>1. /\ l \in Nat /\ Len(w) = l + 1 /\ w[l + 1] = e /\ l = Len(s) /\ w = Append(s, e)
      /\ \A i \in 1..l : w[i] = s[i]
  BY AppendAt
<1>. HIDE DEF l, w
<1>. SUFFICES ASSUME NEW i \in 1..l + 1, NEW j \in 1..l + 1,
                     w[i].type \in T /\ w[j].type \in T, w[i].id = w[j].id
              PROVE  i = j
  BY <1>1 DEF UniqueFor
<1>2. CASE i \in 1..l /\ j \in 1..l
  BY <1>1, <1>2 DEF UniqueFor
<1>3. CASE i = l + 1 /\ j \in 1..l
  BY <1>1, <1>3 DEF Holds
<1>4. CASE i \in 1..l /\ j = l + 1
  BY <1>1, <1>4 DEF Holds
<1>. QED
  BY <1>1, <1>2, <1>3, <1>4

LEMMA UniqueTail ==
    ASSUME NEW S, NEW s \in Seq(S), s # <<>>, NEW T, UniqueFor(s, T)
    PROVE  /\ UniqueFor(Tail(s), T)
           /\ Head(s).type \in T => ~Holds(Tail(s), T, Head(s).id)
<1>1. /\ 1 \in 1..Len(s) /\ s[1] = Head(s) /\ Len(Tail(s)) \in Nat
      /\ \A i \in 1..Len(Tail(s)) : i + 1 \in 1..Len(s) /\ Tail(s)[i] = s[i + 1]
  OBVIOUS
<1>2. ASSUME NEW i \in 1..Len(Tail(s)), NEW j \in 1..Len(Tail(s)),
             Tail(s)[i].type \in T /\ Tail(s)[j].type \in T, Tail(s)[i].id = Tail(s)[j].id
      PROVE  i = j
  <2>1. PICK a \in 1..Len(s), b \in 1..Len(s) :
           a = i + 1 /\ b = j + 1 /\ Tail(s)[i] = s[a] /\ Tail(s)[j] = s[b]
    BY <1>1
  <2>2. a = b
    BY <1>2, <2>1 DEF UniqueFor
  <2>. QED
    BY <1>1, <2>1, <2>2
<1>3. ASSUME Head(s).type \in T, NEW i \in 1..Len(Tail(s)), Tail(s)[i].type \in T, Tail(s)[i].id = Head(s).id
      PROVE  FALSE
  <2>1. PICK a \in 1..Len(s) : a = i + 1 /\ Tail(s)[i] = s[a]
    BY <1>1
  <2>2. a = 1
    BY <1>1, <1>3, <2>1 DEF UniqueFor
  <2>. QED
    BY <1>1, <2>1, <2>2
<1>. QED
  BY <1>2, <1>3 DEF UniqueFor, Holds

\* What is given is put at the end, whether the queue is passed by or not
LEMMA ProcessArrivals ==
    ASSUME TypeInv, NEW m \in Incoming, NEW ok \in BOOLEAN, ProcessPublication(m, ok)
    PROVE  Arrivals' = Append(Arrivals, m)
<1>0. arrived \in Seq(Incoming) /\ messageQueue \in Seq(Incoming)
  BY DEF TypeInv, HistoryTypes, SessionTypes
<1>. DEFINE a == arrived
            q == messageQueue
            o == <<m>>
<1>1. o \in Seq(Incoming) /\ a \in Seq(Incoming) /\ q \in Seq(Incoming)
  BY <1>0
<1>2. /\ a \o q \in Seq(Incoming)
      /\ Append(a, m) = a \o o /\ Append(q, m) = q \o o /\ Append(a \o q, m) = (a \o q) \o o
  BY <1>1, ConcatProperties, AppendIsConcat
<1>3. (a \o q) \o o = a \o (q \o o) /\ a \o <<>> = a
  <2>. HIDE DEF a, q, o
  <2>. QED
    BY <1>1, ConcatAssociative, ConcatEmptySeq
<1>4. CASE Direct /\ ok
  <2>1. q = <<>> /\ arrived' = a \o o /\ messageQueue' = <<>>
    BY <1>2, <1>4 DEF ProcessPublication, Direct
  <2>2. Arrivals' = (a \o o) \o <<>>
    BY <2>1 DEF Arrivals
  <2>3. (a \o o) \o <<>> = a \o o
    <3>. HIDE DEF a, o
    <3>. QED
      BY <1>1, ConcatProperties, ConcatEmptySeq
  <2>4. a \o o = (a \o q) \o o
    BY <1>3, <2>1
  <2>. QED
    BY <1>2, <2>2, <2>3, <2>4 DEF Arrivals
<1>5. CASE ~(Direct /\ ok)
  <2>1. arrived' = a /\ messageQueue' = q \o o
    BY <1>2, <1>5 DEF ProcessPublication
  <2>. QED
    BY <1>2, <1>3, <2>1 DEF Arrivals
<1>. QED
  BY <1>4, <1>5

\* The head of the queue goes to the end of what was accepted
LEMMA DeliverArrivals ==
    ASSUME TypeInv, NEW ok \in BOOLEAN, DeliverHead(ok), messageQueue' = AfterDelivery(ok)
    PROVE  Arrivals' = Arrivals
<1>0. arrived \in Seq(Incoming) /\ messageQueue \in Seq(Incoming)
  BY DEF TypeInv, HistoryTypes, SessionTypes
<1>1. CASE messageQueue # <<>> /\ ok
  <2>. DEFINE a == arrived
              q == messageQueue
              h == Head(q)
              o == <<h>>
              t == Tail(q)
  <2>1. h \in Incoming /\ o \in Seq(Incoming) /\ t \in Seq(Incoming) /\ a \in Seq(Incoming) /\ q \in Seq(Incoming)
    BY <1>0, <1>1
  <2>2. o \o t = q
    BY <1>0, <1>1
  <2>3. arrived' = Append(a, h) /\ messageQueue' = t
    BY <1>1 DEF DeliverHead, AfterDelivery
  <2>4. Append(a, h) = a \o o /\ (a \o o) \o t = a \o (o \o t)
    <3>. HIDE DEF t, a, h
    <3>1. Append(a, h) = a \o o
      BY <2>1, AppendIsConcat
    <3>. HIDE DEF o
    <3>. QED
      BY <2>1, <3>1, ConcatAssociative, SMTT(30)
  <2>. QED
    BY <2>2, <2>3, <2>4 DEF Arrivals
<1>2. CASE ~(messageQueue # <<>> /\ ok)
  BY <1>2 DEF DeliverHead, AfterDelivery, Arrivals
<1>. QED
  BY <1>1, <1>2

\* The broker has one message under an id
LEMMA OwesOnce ==
    ASSUME TypeInv, NEW id, NEW m, NEW k, NEW x, NEW y, Owes(id, m, x), Owes(id, k, y)
    PROVE  m = k /\ x = y
BY DEF TypeInv, Owed1, Owes

\* A step that brings nothing of the broker's messages anywhere else
QuietIn ==
    /\ WithinFor(to_client', to_client, Tokens) /\ WithinFor(to_broker', to_broker, Acks)
    /\ UNCHANGED <<inboundMsgs, b_unacked, incoming>>
    /\ Arrivals' = Arrivals

LEMMA QuietInKept ==
    ASSUME InInv, TypeInv, TypeInv', QuietIn
    PROVE  InInv'
<1>0. /\ to_broker \in Seq(ToBroker) /\ to_broker' \in Seq(ToBroker)
      /\ to_client \in Seq(ToClient) /\ to_client' \in Seq(ToClient)
  BY DEF TypeInv, LinkTypes
<1>1. WithinFor(to_client', to_client, Tokens) /\ WithinFor(to_broker', to_broker, Acks)
  BY DEF QuietIn
<1>2. \A id : /\ \A T \in SUBSET Tokens : Holds(to_client', T, id) => Holds(to_client, T, id)
              /\ \A T \in SUBSET Acks : Holds(to_broker', T, id) => Holds(to_broker, T, id)
  BY <1>0, <1>1, HoldsWithin
<1>3. /\ Tokens \in SUBSET Tokens /\ {"PUBREL"} \in SUBSET Tokens
      /\ Acks \in SUBSET Acks /\ {"PUBACK"} \in SUBSET Acks /\ {"PUBREC"} \in SUBSET Acks /\ {"PUBCOMP"} \in SUBSET Acks
  BY DEF Tokens, Acks
<1>4. \A id \in Nat, m \in Incoming :
         /\ Given(m)' <=> Given(m)
         /\ Kept(id, m)' <=> Kept(id, m)
         /\ \A x : Owes(id, m, x)' <=> Owes(id, m, x)
  BY DEF QuietIn, Given, Kept, Owes
<1>5. \A id \in Nat, m \in Incoming : Offered(id, m)' => Offered(id, m)
  <2>1. "PUBLISH" \in Tokens
    BY DEF Tokens
  <2>. QED
    BY <1>1, <2>1 DEF WithinFor, Offered
<1>6. OneToken'
  <2>1. UniqueFor(to_client', Tokens) /\ UniqueFor(to_broker', Acks)
    BY <1>0, <1>1, UniqueWithin DEF InInv, OneToken
  <2>. QED
    BY <1>2, <1>3, <2>1 DEF InInv, OneToken
<1>7. Stages'
  BY <1>2, <1>3, <1>4, <1>5 DEF InInv, Stages
<1>8. GivenOnce'
  BY <1>4 DEF InInv, GivenOnce, QuietIn
<1>. QED
  BY <1>6, <1>7, <1>8 DEF InInv

\* Changes of what is in flight that move no message of the broker
LEMMA FlightChangesIn ==
    ASSUME TypeInv, TypeInv'
    PROVE  /\ to_broker' = to_broker \/ to_broker' = <<>> => WithinFor(to_broker', to_broker, Acks)
           /\ to_broker # <<>> /\ to_broker' = Tail(to_broker) => WithinFor(to_broker', to_broker, Acks)
           /\ Extends(to_broker', to_broker, {"PUBLISH", "PUBREL"}) => WithinFor(to_broker', to_broker, Acks)
           /\ to_client' = to_client \/ to_client' = <<>> => WithinFor(to_client', to_client, Tokens)
           /\ to_client # <<>> /\ to_client' = Tail(to_client) => WithinFor(to_client', to_client, Tokens)
           /\ Extends(to_client', to_client, Acks) => WithinFor(to_client', to_client, Tokens)
           /\ UNCHANGED <<arrived, messageQueue>> => Arrivals' = Arrivals
<1>0. /\ to_broker \in Seq(ToBroker) /\ to_broker' \in Seq(ToBroker)
      /\ to_client \in Seq(ToClient) /\ to_client' \in Seq(ToClient)
  BY DEF TypeInv, LinkTypes
<1>2. ASSUME NEW S, NEW s \in Seq(S), NEW t \in Seq(S), NEW U,
             t = s \/ t = <<>> \/ (s # <<>> /\ t = Tail(s))
      PROVE  WithinFor(t, s, U)
  <2>1. Within(t, s)
    BY <1>2, WithinSame
  <2>. QED
    BY <2>1, WithinForAny
<1>3. /\ to_broker' = to_broker \/ to_broker' = <<>> => WithinFor(to_broker', to_broker, Acks)
      /\ to_broker # <<>> /\ to_broker' = Tail(to_broker) => WithinFor(to_broker', to_broker, Acks)
  BY <1>0, <1>2
<1>4. /\ to_client' = to_client \/ to_client' = <<>> => WithinFor(to_client', to_client, Tokens)
      /\ to_client # <<>> /\ to_client' = Tail(to_client) => WithinFor(to_client', to_client, Tokens)
  BY <1>0, <1>2
<1>5. {"PUBLISH", "PUBREL"} \cap Acks = {} /\ Acks \cap {"PUBLISH", "PUBREL"} = {} /\ Tokens \cap Acks = {}
  BY DEF Acks, Tokens
<1>6. Extends(to_broker', to_broker, {"PUBLISH", "PUBREL"}) => WithinFor(to_broker', to_broker, Acks)
  BY <1>0, <1>5, ExtendsWithin
<1>7. Extends(to_client', to_client, Acks) => WithinFor(to_client', to_client, Tokens)
  BY <1>0, <1>5, ExtendsWithin
<1>8. UNCHANGED <<arrived, messageQueue>> => Arrivals' = Arrivals
  BY DEF Arrivals
<1>. QED
  BY <1>3, <1>4, <1>6, <1>7, <1>8

LEMMA ConnectFailedQuietIn ==
    ASSUME ~CleanSession, NEW messages, ConnectFailed(messages)
    PROVE  /\ UNCHANGED <<inboundMsgs, b_unacked>> /\ messageQueue' = messages
           /\ to_broker' = <<>> /\ to_client' = <<>>
BY DEF ConnectFailed, CloseSession, Close

LEMMA QuietInSend ==
    ASSUME ~CleanSession, TypeInv, TypeInv',
           \/ \E q \in Qos : Send(q)
           \/ StartConnect \/ CannotConnect \/ LoseConnection \/ NothingToLose
           \/ PublishCommand \/ PublishFails \/ ConnectTimeout \/ Break \/ PingTimeout
    PROVE  QuietIn
<1>1. ASSUME UNCHANGED <<inboundMsgs, messageQueue, b_unacked, incoming, arrived>>,
             WithinFor(to_client', to_client, Tokens), WithinFor(to_broker', to_broker, Acks)
      PROVE  QuietIn
  BY <1>1, FlightChangesIn DEF QuietIn
<1>2. ASSUME UNCHANGED <<inboundMsgs, messageQueue, b_unacked, incoming, arrived>>,
             to_client' = to_client \/ to_client' = <<>>, to_broker' = to_broker \/ to_broker' = <<>>
      PROVE  QuietIn
  BY <1>1, <1>2, FlightChangesIn
<1>3. ASSUME NEW q \in Qos, Send(q)
      PROVE  QuietIn
  BY <1>2, <1>3 DEF Send
<1>4. CASE StartConnect
  <2>1. /\ to_client' = <<>> /\ Len(to_broker') = 1 /\ to_broker'[1].type \notin Acks
        /\ UNCHANGED <<inboundMsgs, messageQueue, b_unacked, incoming, arrived>>
    BY <1>4 DEF StartConnect, Acks
  <2>2. [i \in 1..Len(to_broker') |-> 0] \in [1..Len(to_broker') -> Int]
    OBVIOUS
  <2>3. \A i \in 1..Len(to_broker') : to_broker'[i].type \notin Acks
    BY <2>1
  <2>4. WithinFor(to_broker', to_broker, Acks)
    BY <2>2, <2>3 DEF WithinFor
  <2>. QED
    BY <1>1, <2>1, <2>4, FlightChangesIn
<1>5. CASE CannotConnect \/ NothingToLose
  BY <1>2, <1>5 DEF CannotConnect, NothingToLose
<1>6. CASE LoseConnection
  BY <1>2, <1>6 DEF LoseConnection, CloseSession, Close
<1>7. CASE PublishCommand
  <2>1. /\ to_broker' = to_broker \/ to_broker' = Append(to_broker, Publish(Head(commands).id, FALSE, Head(commands).msg))
        /\ UNCHANGED <<inboundMsgs, messageQueue, b_unacked, incoming, arrived, to_client>>
    BY <1>7 DEF PublishCommand
  <2>. DEFINE p == Publish(Head(commands).id, FALSE, Head(commands).msg)
  <2>2. p \in ToBroker
    <3>1. Head(commands) \in Command /\ Head(commands).type = "PUBLISH"
      BY <1>7 DEF PublishCommand, CanPublish, NextIs, TypeInv, SendTypes
    <3>2. Head(commands).id \in MsgId /\ Head(commands).msg \in Sent
      BY <3>1, CommandTypes
    <3>. QED
      BY <3>2, PacketTypes
  <2>3. p.type \in {"PUBLISH", "PUBREL"} /\ to_broker \in Seq(ToBroker)
    BY DEF Publish, TypeInv, LinkTypes
  <2>4. to_broker' = to_broker \/ to_broker' = Append(to_broker, p)
    BY <2>1
  <2>. HIDE DEF p
  <2>5. WithinFor(to_broker', to_broker, Acks)
    BY <2>2, <2>3, <2>4, ExtendsAppend, FlightChangesIn
  <2>. QED
    BY <1>1, <2>1, <2>5, FlightChangesIn
<1>8. CASE PublishFails \/ PingTimeout
  BY <1>2, <1>8 DEF PublishFails, PingTimeout
<1>9. CASE Break
  BY <1>2, <1>9 DEF Break
<1>10. CASE ConnectTimeout
  BY <1>2, <1>10, ConnectFailedQuietIn DEF ConnectTimeout
<1>. QED
  BY <1>3, <1>4, <1>5, <1>6, <1>7, <1>8, <1>9, <1>10

LEMMA QuietInReceive ==
    ASSUME ~CleanSession, TypeInv, TypeInv',
           RecvPubrec \/ RecvPuback \/ RecvPubcomp \/ RecvPingresp \/ RecvConnack
    PROVE  QuietIn
<1>0. LinkTypes /\ to_broker \in Seq(ToBroker)
  BY DEF TypeInv, LinkTypes
<1>1. ASSUME UNCHANGED <<inboundMsgs, messageQueue, b_unacked, incoming, arrived>>,
             to_client # <<>> /\ to_client' = Tail(to_client), WithinFor(to_broker', to_broker, Acks)
      PROVE  QuietIn
  BY <1>1, FlightChangesIn DEF QuietIn
<1>2. CASE RecvPubrec
  <2>1. /\ UNCHANGED <<inboundMsgs, messageQueue, b_unacked, incoming, arrived>>
        /\ to_client # <<>> /\ to_client' = Tail(to_client) /\ Head(to_client).id \in Nat
    BY <1>0, <1>2, ReadsProps, PacketTypes DEF RecvPubrec, Reads
  <2>. DEFINE p == Packet("PUBREL", Head(to_client).id)
  <2>2. to_broker' = to_broker \/ to_broker' = Append(to_broker, p)
    BY <1>2 DEF RecvPubrec, Answer
  <2>3. p \in ToBroker /\ p.type \in {"PUBLISH", "PUBREL"}
    BY <2>1, PacketTypes DEF Packet
  <2>. HIDE DEF p
  <2>4. WithinFor(to_broker', to_broker, Acks)
    BY <1>0, <2>2, <2>3, ExtendsAppend, FlightChangesIn
  <2>. QED
    BY <1>1, <2>1, <2>4
<1>3. CASE RecvPuback \/ RecvPubcomp
  BY <1>1, <1>3, FlightChangesIn DEF RecvPuback, RecvPubcomp, RecvEnd, Reads
<1>4. CASE RecvPingresp
  BY <1>4, FlightChangesIn DEF RecvPingresp, QuietIn
<1>5. CASE RecvConnack
  BY <1>1, <1>5, FlightChangesIn DEF RecvConnack, Reads
<1>. QED
  BY <1>2, <1>3, <1>4, <1>5

LEMMA QuietInTurn ==
    ASSUME ~CleanSession, TypeInv, TypeInv',
           ReadFails \/ TurnLost \/ TurnFails \/ TurnEnds \/ ConnectionComplete \/ ConnackUnexpected
    PROVE  QuietIn
<1>0. outboundMsgs \in Seq(Entries(Sent)) /\ to_broker \in Seq(ToBroker)
  BY DEF TypeInv, LinkTypes, SessionTypes
<1>1. ASSUME UNCHANGED <<inboundMsgs, b_unacked, incoming>>, Arrivals' = Arrivals,
             to_client' = to_client \/ to_client' = <<>>,
             to_broker' = to_broker \/ to_broker' = <<>>
      PROVE  QuietIn
  BY <1>1, FlightChangesIn DEF QuietIn
<1>2. CASE ReadFails
  <2>1. /\ UNCHANGED <<inboundMsgs, b_unacked, incoming, messageQueue, arrived>>
        /\ to_client' = to_client \/ to_client' = <<>>
        /\ to_broker' = to_broker \/ to_broker' = <<>>
    BY <1>2, ConnectFailedQuietIn DEF ReadFails
  <2>. QED
    BY <1>1, <2>1, FlightChangesIn
<1>3. CASE TurnLost
  BY <1>1, <1>3, FlightChangesIn DEF TurnLost
<1>4. CASE TurnFails
  <2>1. /\ UNCHANGED <<inboundMsgs, b_unacked, incoming, messageQueue, arrived>>
        /\ to_client' = to_client \/ to_client' = <<>>
        /\ to_broker' = to_broker \/ to_broker' = <<>>
    BY <1>4 DEF TurnFails, Close
  <2>. QED
    BY <1>1, <2>1, FlightChangesIn
<1>5. CASE TurnEnds
  <2>1. Arrivals' = Arrivals
    BY <1>5, DeliverArrivals DEF TurnEnds
  <2>. QED
    BY <1>1, <1>5, <2>1 DEF TurnEnds
<1>6. CASE ConnectionComplete
  <2>1. PICK ok \in BOOLEAN : DeliverHead(ok) /\ messageQueue' = AfterDelivery(ok)
    BY <1>6 DEF ConnectionComplete
  <2>2. Arrivals' = Arrivals
    BY <2>1, DeliverArrivals
  <2>3. UNCHANGED <<inboundMsgs, b_unacked, incoming, to_client>> /\ (to_broker' = to_broker \/ to_broker' = Resume)
    BY <1>6 DEF ConnectionComplete
  <2>4. WithinFor(to_broker', to_broker, Acks)
    BY <1>0, <2>3, ResumeExtends, FlightChangesIn
  <2>. QED
    BY <2>2, <2>3, <2>4, FlightChangesIn DEF QuietIn
<1>7. CASE ConnackUnexpected
  <2>1. PICK ok \in BOOLEAN : DeliverHead(ok) /\ ConnectFailed(AfterDelivery(ok))
    BY <1>7 DEF ConnackUnexpected
  <2>2. /\ UNCHANGED <<inboundMsgs, b_unacked>> /\ messageQueue' = AfterDelivery(ok)
        /\ to_broker' = <<>> /\ to_client' = <<>>
    BY <2>1, ConnectFailedQuietIn
  <2>3. Arrivals' = Arrivals
    BY <2>1, <2>2, DeliverArrivals
  <2>. QED
    BY <1>1, <1>7, <2>2, <2>3 DEF ConnackUnexpected
<1>. QED
  BY <1>2, <1>3, <1>4, <1>5, <1>6, <1>7

LEMMA QuietInBroker ==
    ASSUME TypeInv, TypeInv', BrokerPublish1 \/ BrokerPublish2 \/ BrokerPubrel
    PROVE  QuietIn
<1>0. LinkTypes /\ to_client \in Seq(ToClient) /\ to_client' \in Seq(ToClient)
  BY DEF TypeInv, LinkTypes
<1>1. PICK t \in Acks, type \in {"PUBLISH", "PUBREL"} :
         /\ BrokerReads(type) /\ to_client' = Append(to_client, Packet(t, Head(to_broker).id))
         /\ UNCHANGED <<inboundMsgs, messageQueue, b_unacked, incoming, arrived>>
  BY DEF BrokerPublish1, BrokerPublish2, BrokerPubrel, BrokerAnswers, BrokerOnly, Acks
<1>. DEFINE p == Packet(t, Head(to_broker).id)
<1>2. p \in ToClient /\ p.type \in Acks
  <2>1. p.type = t /\ to_client' = Append(to_client, p)
    BY <1>1 DEF Packet
  <2>. HIDE DEF p
  <2>2. p = to_client'[Len(to_client')] /\ Len(to_client') \in 1..Len(to_client')
    BY <1>0, <2>1
  <2>. QED
    BY <1>0, <2>1, <2>2
<1>3. to_client' = Append(to_client, p)
  BY <1>1
<1>. HIDE DEF p
<1>4. WithinFor(to_client', to_client, Tokens)
  BY <1>0, <1>2, <1>3, ExtendsAppend, FlightChangesIn
<1>. QED
  BY <1>1, <1>4, FlightChangesIn DEF QuietIn, BrokerReads

LEMMA QuietInRetry ==
    ASSUME TypeInv, TypeInv', NEW n \in 1..Len(outboundMsgs),
           NEW due \in [1..n -> 1..Len(outboundMsgs)], RetryTimer(due)
    PROVE  QuietIn
<1>1. UNCHANGED <<inboundMsgs, messageQueue, b_unacked, incoming, arrived, to_client>>
  BY DEF RetryTimer
<1>2. WithinFor(to_broker', to_broker, Acks)
  BY RetryExtends, FlightChangesIn
<1>. QED
  BY <1>1, <1>2, FlightChangesIn DEF QuietIn

-----------------------------------------------------------------------------
(* The steps of an exchange of the broker's.                               *)

(***************************************************************************)
(* A packet of the broker is read, and answered or not: nothing else is in *)
(* flight under its id.                                                    *)
(***************************************************************************)
LEMMA TokenRead ==
    ASSUME InInv, TypeInv, NEW type \in Tokens, Reads(type), NEW t \in Acks,
           to_broker' = to_broker \/ Answer(Packet(t, Head(to_client).id))
    PROVE  /\ OneToken' /\ Head(to_client).id \in Nat /\ Holds(to_client, {type}, Head(to_client).id)
           /\ \A id \in Nat : \A T \in SUBSET Tokens :
                 Holds(to_client', T, id) => Holds(to_client, T, id) /\ id # Head(to_client).id
           /\ \A id \in Nat : \A T \in SUBSET Acks :
                 Holds(to_broker', T, id) => \/ Holds(to_broker, T, id) /\ id # Head(to_client).id
                                             \/ t \in T /\ id = Head(to_client).id
           /\ \A id \in Nat, m \in Incoming : Offered(id, m)' => Offered(id, m) /\ id # Head(to_client).id
           /\ type = "PUBLISH" => /\ Head(to_client).msg \in Incoming
                                  /\ Offered(Head(to_client).id, Head(to_client).msg)
<1>. DEFINE id0 == Head(to_client).id
            p == Packet(t, id0)
<1>0. /\ to_broker \in Seq(ToBroker) /\ to_client \in Seq(ToClient) /\ LinkTypes
  BY DEF TypeInv, LinkTypes
<1>1. /\ to_client # <<>> /\ Head(to_client).type = type /\ Head(to_client) \in ToClient
      /\ to_client' = Tail(to_client)
  BY <1>0, ReadsProps DEF Reads
<1>2. id0 \in Nat /\ (type = "PUBLISH" => Head(to_client).msg \in Incoming)
  BY <1>1, PacketTypes
<1>3. \A T : type \in T => Holds(to_client, T, id0)
  BY <1>0, <1>1, HoldsTail
<1>4. Holds(to_client, {type}, id0) /\ ~Holds(to_broker, Acks, id0)
  BY <1>2, <1>3 DEF InInv, OneToken
<1>5. UniqueFor(to_client', Tokens) /\ ~Holds(to_client', Tokens, id0)
  BY <1>0, <1>1, UniqueTail DEF InInv, OneToken
<1>6. \A id \in Nat : \A T \in SUBSET Tokens : Holds(to_client', T, id) => Holds(to_client, T, id) /\ id # id0
  <2>. TAKE id \in Nat
  <2>. TAKE T \in SUBSET Tokens
  <2>1. Holds(to_client', T, id) => Holds(to_client, T, id)
    BY <1>0, <1>1, HoldsTail
  <2>2. Holds(to_client', T, id) => Holds(to_client', Tokens, id)
    BY DEF Holds
  <2>. QED
    BY <1>5, <2>1, <2>2
<1>7. p.type = t /\ p.id = id0
  BY DEF Packet
<1>8. p \in ToBroker
  BY <1>2, PacketTypes DEF Acks
<1>9. to_broker' = to_broker \/ to_broker' = Append(to_broker, p)
  BY DEF Answer
<1>10. \A id \in Nat, m \in Incoming : Offered(id, m)' => Offered(id, m) /\ id # id0
  <2>. TAKE id \in Nat, m \in Incoming
  <2>1. \A i \in 1..Len(to_client') : i + 1 \in 1..Len(to_client) /\ to_client'[i] = to_client[i + 1]
    BY <1>0, <1>1
  <2>2. Offered(id, m)' => Offered(id, m)
    BY <2>1 DEF Offered
  <2>3. Offered(id, m)' => Holds(to_client', Tokens, id)
    BY DEF Offered, Holds, Tokens
  <2>. QED
    BY <1>5, <2>2, <2>3
<1>11. type = "PUBLISH" => Offered(id0, Head(to_client).msg)
  <2>1. 1 \in 1..Len(to_client) /\ to_client[1] = Head(to_client)
    BY <1>0, <1>1
  <2>. QED
    BY <1>1, <2>1 DEF Offered
<1>12. id0 = Head(to_client).id
  OBVIOUS
<1>. HIDE DEF id0, p
<1>13. \A id \in Nat : \A T \in SUBSET Acks :
          Holds(to_broker', T, id) => \/ Holds(to_broker, T, id) /\ id # id0
                                      \/ t \in T /\ id = id0
  <2>. TAKE id \in Nat
  <2>. TAKE T \in SUBSET Acks
  <2>1. Holds(to_broker', T, id) => Holds(to_broker, T, id) \/ (t \in T /\ id = id0)
    BY <1>0, <1>7, <1>8, <1>9, HoldsAppend
  <2>2. Holds(to_broker, T, id) => Holds(to_broker, Acks, id)
    BY DEF Holds
  <2>. QED
    BY <1>4, <2>1, <2>2
<1>14. UniqueFor(to_broker', Acks)
  BY <1>0, <1>4, <1>7, <1>8, <1>9, UniqueAppend DEF InInv, OneToken
<1>15. OneToken'
  <2>1. \A id \in Nat : ~(Holds(to_client', Tokens, id) /\ Holds(to_broker', Acks, id))
    BY <1>6, <1>13 DEF InInv, OneToken
  <2>. QED
    BY <1>5, <1>14, <2>1 DEF OneToken
<1>. QED
  BY <1>2, <1>4, <1>6, <1>10, <1>11, <1>12, <1>13, <1>15

\* What is given makes the message given, and no other
LEMMA GivenMore ==
    ASSUME InInv, TypeInv, NEW m0 \in Incoming, Arrivals' = Append(Arrivals, m0)
    PROVE  /\ \A m \in Incoming : Given(m)' <=> Given(m) \/ m = m0
           /\ m0.qos # 2 \/ ~Given(m0) =>
                 \A i, j \in 1..Len(Arrivals') : Arrivals'[i] = Arrivals'[j] /\ Arrivals'[i].qos = 2 => i = j
<1>0. Arrivals \in Seq(Incoming)
  BY ConcatProperties DEF Arrivals, TypeInv, HistoryTypes, SessionTypes
<1>. DEFINE l == Len(Arrivals)
            a == Arrivals
            w == Arrivals'
<1>1. /\ l \in Nat /\ Len(w) = l + 1 /\ w[l + 1] = m0 /\ l = Len(a)
      /\ \A i \in 1..l : w[i] = a[i]
  BY <1>0, AppendAt
<1>. HIDE DEF l, w
<1>2. \A m \in Incoming : Given(m)' <=> Given(m) \/ m = m0
  <2>. TAKE m \in Incoming
  <2>1. Given(m)' <=> \E i \in 1..l + 1 : w[i] = m
    BY <1>1 DEF Given, w
  <2>2. Given(m) <=> \E i \in 1..l : a[i] = m
    BY <1>1 DEF Given
  <2>3. \A i \in 1..l + 1 : i = l + 1 \/ i \in 1..l
    BY <1>1
  <2>4. l + 1 \in 1..l + 1 /\ \A i \in 1..l : i \in 1..l + 1
    BY <1>1
  <2>. HIDE DEF a
  <2>. QED
    BY <1>1, <2>1, <2>2, <2>3, <2>4
<1>3. ASSUME m0.qos # 2 \/ ~Given(m0), NEW i \in 1..l + 1, NEW j \in 1..l + 1, w[i] = w[j], w[i].qos = 2
      PROVE  i = j
  <2>1. CASE i \in 1..l /\ j \in 1..l
    BY <1>1, <1>3, <2>1 DEF InInv, GivenOnce
  <2>2. CASE (i = l + 1 /\ j \in 1..l) \/ (i \in 1..l /\ j = l + 1)
    <3>1. m0.qos = 2 /\ \E k \in 1..l : a[k] = m0
      BY <1>1, <1>3, <2>2
    <3>2. Given(m0)
      BY <1>1, <3>1 DEF Given
    <3>. QED
      BY <1>3, <3>1, <3>2
  <2>. QED
    BY <1>1, <2>1, <2>2
<1>. QED
  BY <1>1, <1>2, <1>3 DEF w

LEMMA InPublish1 ==
    ASSUME InInv, TypeInv, RecvPublish1
    PROVE  InInv'
<1>. DEFINE id0 == Head(to_client).id
            m0 == Head(to_client).msg
<1>0. "PUBLISH" \in Tokens /\ "PUBACK" \in Acks
  BY DEF Tokens, Acks
<1>1. Reads("PUBLISH") /\ Answer(Packet("PUBACK", id0)) /\ m0.qos = 1
  BY DEF RecvPublish1
<1>2. /\ OneToken' /\ id0 \in Nat /\ m0 \in Incoming /\ Offered(id0, m0)
      /\ \A id \in Nat : \A T \in SUBSET Tokens : Holds(to_client', T, id) => Holds(to_client, T, id) /\ id # id0
      /\ \A id \in Nat : \A T \in SUBSET Acks :
            Holds(to_broker', T, id) => (Holds(to_broker, T, id) /\ id # id0) \/ ("PUBACK" \in T /\ id = id0)
      /\ \A id \in Nat, m \in Incoming : Offered(id, m)' => Offered(id, m) /\ id # id0
  BY <1>0, <1>1, TokenRead
<1>3. Owes(id0, m0, "PUBREC")
  BY <1>2 DEF InInv, Stages
<1>4. Arrivals' = Append(Arrivals, m0)
  BY <1>2, ProcessArrivals DEF RecvPublish1
<1>5. UNCHANGED <<inboundMsgs, b_unacked, incoming>>
  BY DEF RecvPublish1
<1>. HIDE DEF id0, m0
<1>6. /\ \A m \in Incoming : Given(m)' <=> Given(m) \/ m = m0
      /\ \A i, j \in 1..Len(Arrivals') : Arrivals'[i] = Arrivals'[j] /\ Arrivals'[i].qos = 2 => i = j
  BY <1>1, <1>2, <1>4, GivenMore
<1>7. \A id \in Nat, m \in Incoming : /\ Kept(id, m)' <=> Kept(id, m)
                                      /\ \A x : Owes(id, m, x)' <=> Owes(id, m, x)
  BY <1>5 DEF Kept, Owes
<1>8. Stages'
  <2>1. \A id \in Nat, m \in Incoming : Offered(id, m)' => Owes(id, m, "PUBREC")'
    BY <1>2, <1>7 DEF InInv, Stages
  <2>2. \A id \in Nat : Holds(to_client', {"PUBREL"}, id) => \E m \in Incoming : Owes(id, m, "PUBCOMP")'
    BY <1>2, <1>7 DEF InInv, Stages, Tokens
  <2>3. \A id \in Nat : Holds(to_broker', {"PUBACK"}, id) =>
          \E m \in Incoming : Owes(id, m, "PUBREC")' /\ m.qos = 1 /\ Given(m)'
    BY <1>1, <1>2, <1>3, <1>6, <1>7 DEF InInv, Stages, Acks
  <2>4. \A id \in Nat : Holds(to_broker', {"PUBREC"}, id) =>
          \E m \in Incoming : Owes(id, m, "PUBREC")' /\ m.qos = 2 /\ Kept(id, m)'
    BY <1>2, <1>7 DEF InInv, Stages, Acks
  <2>5. \A id \in Nat : Holds(to_broker', {"PUBCOMP"}, id) =>
          \E m \in Incoming : Owes(id, m, "PUBCOMP")' /\ Given(m)' /\ \A k \in Incoming : ~Kept(id, k)'
    BY <1>2, <1>6, <1>7 DEF InInv, Stages, Acks
  <2>6. \A id \in Nat, m \in Incoming : Owes(id, m, "PUBCOMP")' => m.qos = 2 /\ (Kept(id, m)' \/ Given(m)')
    BY <1>6, <1>7 DEF InInv, Stages
  <2>7. \A id \in Nat, m \in Incoming : Kept(id, m)' =>
          m.qos = 2 /\ (Owes(id, m, "PUBREC")' \/ Owes(id, m, "PUBCOMP")')
    BY <1>7 DEF InInv, Stages
  <2>. QED
    BY <2>1, <2>2, <2>3, <2>4, <2>5, <2>6, <2>7 DEF Stages
<1>9. GivenOnce'
  <2>1. \A id \in Nat, m \in Incoming : Kept(id, m)' => ~Given(m)'
    <3>. SUFFICES ASSUME NEW id \in Nat, NEW m \in Incoming, Kept(id, m)
                  PROVE  ~Given(m)'
      BY <1>7
    <3>1. m.qos = 2
      BY DEF InInv, Stages
    <3>2. \A k \in Nat, x \in Incoming : Kept(k, x) => ~Given(x)
      BY DEF InInv, GivenOnce
    <3>. QED
      BY <1>1, <1>6, <3>1, <3>2
  <2>2. \A id \in Nat, m \in Incoming : Owes(id, m, "PUBREC")' /\ m.qos = 2 => ~Given(m)'
    <3>. SUFFICES ASSUME NEW id \in Nat, NEW m \in Incoming, Owes(id, m, "PUBREC"), m.qos = 2
                  PROVE  ~Given(m)'
      BY <1>7
    <3>1. \A k \in Nat, x \in Incoming : Owes(k, x, "PUBREC") /\ x.qos = 2 => ~Given(x)
      BY DEF InInv, GivenOnce
    <3>. QED
      BY <1>1, <1>6, <3>1
  <2>3. \A m \in Incoming : Given(m)' => m.seq <= incoming'
    BY <1>2, <1>3, <1>5, <1>6 DEF InInv, GivenOnce
  <2>4. \A n \in 1..incoming' : \E m \in Incoming :
          m.seq = n /\ (Given(m)' \/ \E id \in Nat : Owes(id, m, "PUBREC")' \/ Owes(id, m, "PUBCOMP")')
    <3>. TAKE n \in 1..incoming'
    <3>1. PICK m \in Incoming : m.seq = n /\ (Given(m) \/ \E id \in Nat : Owes(id, m, "PUBREC") \/ Owes(id, m, "PUBCOMP"))
      BY <1>5 DEF InInv, GivenOnce
    <3>. QED
      BY <1>6, <1>7, <3>1
  <2>5. \A i, j \in 1..Len(inboundMsgs') : inboundMsgs'[i].id = inboundMsgs'[j].id => i = j
    BY <1>5 DEF InInv, GivenOnce
  <2>6. /\ \A id \in Nat, m \in Incoming, next \in {"PUBREC", "PUBCOMP"} : Owes(id, m, next)' => m.seq <= incoming'
        /\ \A id, k \in Nat, m \in Incoming, x, y \in {"PUBREC", "PUBCOMP"} : Owes(id, m, x)' /\ Owes(k, m, y)' => id = k
    BY <1>5, <1>7 DEF InInv, GivenOnce
  <2>. QED
    BY <1>6, <2>1, <2>2, <2>3, <2>4, <2>5, <2>6 DEF GivenOnce
<1>. QED
  BY <1>2, <1>8, <1>9 DEF InInv

\* The message is stored once, though it comes again
LEMMA InboundKept ==
    ASSUME InInv, TypeInv, NEW id0 \in Nat, NEW m0 \in Incoming, Owes(id0, m0, "PUBREC"),
           inboundMsgs' = Inbound([id |-> id0, msg |-> m0])
    PROVE  /\ \A id \in Nat, m \in Incoming : Kept(id, m)' <=> Kept(id, m) \/ (id = id0 /\ m = m0)
           /\ \A i, j \in 1..Len(inboundMsgs') : inboundMsgs'[i].id = inboundMsgs'[j].id => i = j
<1>. DEFINE e == [id |-> id0, msg |-> m0]
            s == inboundMsgs
            l == Len(s)
<1>0. s \in Seq(Inbox) /\ e \in Inbox /\ e.id = id0 /\ e.msg = m0 /\ l = Len(s)
  BY DEF TypeInv, SessionTypes, Inbox
<1>1. CASE HasId(s, id0)
  <2>. DEFINE n == IndexOf(s, id0)
  <2>1. n \in 1..Len(s) /\ s[n].id = id0
    BY <1>0, <1>1, IndexOfFirst
  <2>. HIDE DEF n
  <2>2. s[n] \in Inbox /\ s[n].msg \in Incoming
    <3>1. s[n] \in Inbox
      BY <1>0, <2>1
    <3>. QED
      BY <3>1 DEF Inbox
  <2>3. Kept(id0, s[n].msg)
    BY <2>1 DEF Kept
  <2>4. s[n].msg = m0
    <3>1. Owes(id0, s[n].msg, "PUBREC") \/ Owes(id0, s[n].msg, "PUBCOMP")
      BY <2>2, <2>3 DEF InInv, Stages
    <3>. QED
      BY <3>1, OwesOnce
  <2>5. s[n] = e
    <3>1. s[n] = [id |-> s[n].id, msg |-> s[n].msg]
      BY <2>2 DEF Inbox
    <3>. QED
      BY <2>1, <2>4, <3>1
  <2>6. inboundMsgs' = [s EXCEPT ![n] = e]
    BY <1>0, <1>1 DEF Inbound, ReplaceAt, n
  <2>7. inboundMsgs' = s
    <3>. HIDE DEF e, s
    <3>. QED
      BY <1>0, <2>1, <2>5, <2>6
  <2>. QED
    BY <2>3, <2>4, <2>7 DEF Kept, InInv, GivenOnce
<1>2. CASE ~HasId(s, id0)
  <2>. DEFINE w == inboundMsgs'
  <2>1. w = Append(s, e)
    BY <1>0, <1>2 DEF Inbound
  <2>2. /\ l \in Nat /\ Len(w) = l + 1 /\ w[l + 1] = e /\ \A i \in 1..l : w[i] = s[i]
    <3>. HIDE DEF e, s, w
    <3>. QED
      BY <1>0, <2>1, AppendAt
  <2>3. \A i \in 1..l : s[i].id # id0
    BY <1>2 DEF HasId
  <2>4. \A i, j \in 1..l : s[i].id = s[j].id => i = j
    BY DEF InInv, GivenOnce
  <2>5. \A id \in Nat, m \in Incoming : Kept(id, m)' <=> \E i \in 1..l + 1 : w[i].id = id /\ w[i].msg = m
    BY <2>2 DEF Kept
  <2>6. \A id \in Nat, m \in Incoming : Kept(id, m) <=> \E i \in 1..l : s[i].id = id /\ s[i].msg = m
    BY DEF Kept
  <2>. HIDE DEF e, s, w, l
  <2>7. \A i \in 1..l + 1 : i = l + 1 \/ i \in 1..l
    BY <2>2
  <2>8. l + 1 \in 1..l + 1 /\ \A i \in 1..l : i \in 1..l + 1
    BY <2>2
  <2>9. \A i, j \in 1..l + 1 : w[i].id = w[j].id => i = j
    BY <1>0, <2>2, <2>3, <2>4, <2>7
  <2>10. \A id \in Nat, m \in Incoming : Kept(id, m)' <=> Kept(id, m) \/ (id = id0 /\ m = m0)
    <3>. TAKE id \in Nat, m \in Incoming
    <3>1. ASSUME Kept(id, m)'
          PROVE  Kept(id, m) \/ (id = id0 /\ m = m0)
      <4>1. PICK i \in 1..l + 1 : w[i].id = id /\ w[i].msg = m
        BY <2>5, <3>1
      <4>. QED
        BY <1>0, <2>2, <2>6, <2>7, <4>1
    <3>2. Kept(id, m) => Kept(id, m)'
      BY <2>2, <2>5, <2>6, <2>8
    <3>3. id = id0 /\ m = m0 => Kept(id, m)'
      BY <1>0, <2>2, <2>5, <2>8
    <3>. QED
      BY <3>1, <3>2, <3>3
  <2>. QED
    BY <2>2, <2>9, <2>10 DEF w
<1>. QED
  BY <1>1, <1>2

LEMMA InPublish2 ==
    ASSUME InInv, TypeInv, RecvPublish2
    PROVE  InInv'
<1>. DEFINE id0 == Head(to_client).id
            m0 == Head(to_client).msg
<1>0. "PUBLISH" \in Tokens /\ "PUBREC" \in Acks
  BY DEF Tokens, Acks
<1>1. /\ Reads("PUBLISH") /\ Answer(Packet("PUBREC", id0)) /\ m0.qos = 2
      /\ inboundMsgs' = Inbound([id |-> id0, msg |-> m0])
      /\ UNCHANGED <<arrived, messageQueue, b_unacked, incoming>>
  BY DEF RecvPublish2
<1>2. /\ OneToken' /\ id0 \in Nat /\ m0 \in Incoming /\ Offered(id0, m0)
      /\ \A id \in Nat : \A T \in SUBSET Tokens : Holds(to_client', T, id) => Holds(to_client, T, id) /\ id # id0
      /\ \A id \in Nat : \A T \in SUBSET Acks :
            Holds(to_broker', T, id) => (Holds(to_broker, T, id) /\ id # id0) \/ ("PUBREC" \in T /\ id = id0)
      /\ \A id \in Nat, m \in Incoming : Offered(id, m)' => Offered(id, m) /\ id # id0
  BY <1>0, <1>1, TokenRead
<1>3. Owes(id0, m0, "PUBREC")
  BY <1>2 DEF InInv, Stages
<1>4. /\ \A id \in Nat, m \in Incoming : Kept(id, m)' <=> Kept(id, m) \/ (id = id0 /\ m = m0)
      /\ \A i, j \in 1..Len(inboundMsgs') : inboundMsgs'[i].id = inboundMsgs'[j].id => i = j
  BY <1>1, <1>2, <1>3, InboundKept
<1>5. /\ UNCHANGED <<b_unacked, incoming>> /\ Arrivals' = Arrivals
  BY <1>1 DEF Arrivals
<1>. HIDE DEF id0, m0
<1>6. \A id \in Nat, m \in Incoming : /\ Given(m)' <=> Given(m)
                                      /\ \A x : Owes(id, m, x)' <=> Owes(id, m, x)
  BY <1>5 DEF Given, Owes
<1>7. ~Given(m0)
  BY <1>1, <1>2, <1>3 DEF InInv, GivenOnce
<1>8. Stages'
  <2>1. \A id \in Nat, m \in Incoming : Offered(id, m)' => Owes(id, m, "PUBREC")'
    BY <1>2, <1>6 DEF InInv, Stages
  <2>2. \A id \in Nat : Holds(to_client', {"PUBREL"}, id) => \E m \in Incoming : Owes(id, m, "PUBCOMP")'
    BY <1>2, <1>6 DEF InInv, Stages, Tokens
  <2>3. \A id \in Nat : Holds(to_broker', {"PUBACK"}, id) =>
          \E m \in Incoming : Owes(id, m, "PUBREC")' /\ m.qos = 1 /\ Given(m)'
    BY <1>2, <1>6 DEF InInv, Stages, Acks
  <2>4. \A id \in Nat : Holds(to_broker', {"PUBREC"}, id) =>
          \E m \in Incoming : Owes(id, m, "PUBREC")' /\ m.qos = 2 /\ Kept(id, m)'
    BY <1>1, <1>2, <1>3, <1>4, <1>6 DEF InInv, Stages, Acks
  <2>5. \A id \in Nat : Holds(to_broker', {"PUBCOMP"}, id) =>
          \E m \in Incoming : Owes(id, m, "PUBCOMP")' /\ Given(m)' /\ \A k \in Incoming : ~Kept(id, k)'
    BY <1>2, <1>4, <1>6 DEF InInv, Stages, Acks
  <2>6. \A id \in Nat, m \in Incoming : Owes(id, m, "PUBCOMP")' => m.qos = 2 /\ (Kept(id, m)' \/ Given(m)')
    BY <1>4, <1>6 DEF InInv, Stages
  <2>7. \A id \in Nat, m \in Incoming : Kept(id, m)' =>
          m.qos = 2 /\ (Owes(id, m, "PUBREC")' \/ Owes(id, m, "PUBCOMP")')
    BY <1>1, <1>3, <1>4, <1>6 DEF InInv, Stages
  <2>. QED
    BY <2>1, <2>2, <2>3, <2>4, <2>5, <2>6, <2>7 DEF Stages
<1>9. GivenOnce'
  <2>1. \A id \in Nat, m \in Incoming : Kept(id, m)' => ~Given(m)'
    BY <1>4, <1>6, <1>7 DEF InInv, GivenOnce
  <2>2. \A id \in Nat, m \in Incoming : Owes(id, m, "PUBREC")' /\ m.qos = 2 => ~Given(m)'
    BY <1>6 DEF InInv, GivenOnce
  <2>3. \A n \in 1..incoming' : \E m \in Incoming :
          m.seq = n /\ (Given(m)' \/ \E id \in Nat : Owes(id, m, "PUBREC")' \/ Owes(id, m, "PUBCOMP")')
    <3>. TAKE n \in 1..incoming'
    <3>1. PICK m \in Incoming : m.seq = n /\ (Given(m) \/ \E id \in Nat : Owes(id, m, "PUBREC") \/ Owes(id, m, "PUBCOMP"))
      BY <1>5 DEF InInv, GivenOnce
    <3>. QED
      BY <1>6, <3>1
  <2>4. /\ \A id \in Nat, m \in Incoming, next \in {"PUBREC", "PUBCOMP"} : Owes(id, m, next)' => m.seq <= incoming'
        /\ \A id, k \in Nat, m \in Incoming, x, y \in {"PUBREC", "PUBCOMP"} : Owes(id, m, x)' /\ Owes(k, m, y)' => id = k
        /\ \A m \in Incoming : Given(m)' => m.seq <= incoming'
    BY <1>5, <1>6 DEF InInv, GivenOnce
  <2>5. \A i, j \in 1..Len(Arrivals') : Arrivals'[i] = Arrivals'[j] /\ Arrivals'[i].qos = 2 => i = j
    BY <1>5 DEF InInv, GivenOnce
  <2>. QED
    BY <1>4, <2>1, <2>2, <2>3, <2>4, <2>5 DEF GivenOnce
<1>. QED
  BY <1>2, <1>8, <1>9 DEF InInv

\* No id is twice in a list
OwnIds(s) == \A i, j \in 1..Len(s) : s[i].id = s[j].id => i = j

\* The list w is the list s but for what has the id
AllBut(w, s, id) ==
    /\ \A i \in 1..Len(w) : \E j \in 1..Len(s) : w[i] = s[j] /\ s[j].id # id
    /\ \A j \in 1..Len(s) : s[j].id # id => \E i \in 1..Len(w) : w[i] = s[j]
    /\ OwnIds(w)

\* Without takes what has the id from a list in which no id is twice
LEMMA WithoutIds ==
    ASSUME NEW S, NEW s \in Seq(S), NEW id0, HasId(s, id0), OwnIds(s)
    PROVE  AllBut(Without(s, id0), s, id0)
<1>. DEFINE w == Without(s, id0)
            l == Len(s)
            p == IndexOf(s, id0)
<1>1. l \in Nat /\ l = Len(s) /\ p \in 1..l /\ s[p].id = id0
  BY IndexOfFirst
<1>2. /\ Len(w) = l - 1 /\ \A i \in 1..l - 1 : w[i] = IF i < p THEN s[i] ELSE s[i + 1]
  BY WithoutFirst
<1>3. \A i, j \in 1..l : s[i].id = s[j].id => i = j
  BY DEF OwnIds
<1>. HIDE DEF w, l, p
<1>. DEFINE g(i) == IF i < p THEN i ELSE i + 1
<1>4. /\ \A i \in 1..l - 1 : g(i) \in 1..l /\ g(i) # p /\ w[i] = s[g(i)]
      /\ \A i, j \in 1..l - 1 : g(i) = g(j) => i = j
  BY <1>1, <1>2
<1>5. \A j \in 1..l : j # p => \E i \in 1..l - 1 : w[i] = s[j]
  <2>. SUFFICES ASSUME NEW j \in 1..l, j # p
                PROVE  \E i \in 1..l - 1 : w[i] = s[j]
    OBVIOUS
  <2>1. CASE j < p
    BY <1>1, <1>2, <2>1
  <2>2. CASE j > p
    <3>1. j - 1 \in 1..l - 1 /\ ~(j - 1 < p) /\ (j - 1) + 1 = j
      BY <1>1, <2>2
    <3>. QED
      BY <1>2, <3>1
  <2>. QED
    BY <1>1, <2>1, <2>2
<1>. HIDE DEF g
<1>6. \A i, j \in 1..l - 1 : w[i].id = w[j].id => i = j
  BY <1>3, <1>4
<1>7. \A i \in 1..l - 1 : \E j \in 1..l : w[i] = s[j] /\ s[j].id # id0
  BY <1>1, <1>3, <1>4
<1>8. \A j \in 1..l : s[j].id # id0 => \E i \in 1..l - 1 : w[i] = s[j]
  BY <1>1, <1>5
<1>. QED
  BY <1>1, <1>2, <1>6, <1>7, <1>8 DEF w, OwnIds, AllBut

\* The message stored under an id is forgotten
LEMMA ReleasedKept ==
    ASSUME InInv, TypeInv, NEW id0 \in Nat, HasId(inboundMsgs, id0),
           inboundMsgs' = Without(inboundMsgs, id0)
    PROVE  /\ inboundMsgs[IndexOf(inboundMsgs, id0)].msg \in Incoming
           /\ Kept(id0, inboundMsgs[IndexOf(inboundMsgs, id0)].msg)
           /\ \A id \in Nat, m \in Incoming : Kept(id, m)' <=> Kept(id, m) /\ id # id0
           /\ \A i, j \in 1..Len(inboundMsgs') : inboundMsgs'[i].id = inboundMsgs'[j].id => i = j
<1>. DEFINE s == inboundMsgs
            w == inboundMsgs'
            p == IndexOf(s, id0)
<1>0. w = Without(s, id0) /\ HasId(s, id0)
  OBVIOUS
<1>1. s \in Seq(Inbox) /\ OwnIds(s)
  BY DEF TypeInv, SessionTypes, Inbox, InInv, GivenOnce, OwnIds
<1>2. p \in 1..Len(s) /\ s[p].id = id0
  BY <1>1, IndexOfFirst
<1>. HIDE DEF p
<1>3. s[p].msg \in Incoming /\ Kept(id0, s[p].msg)
  <2>1. s[p] \in Inbox
    BY <1>1, <1>2
  <2>2. s[p].msg \in Incoming
    BY <2>1 DEF Inbox
  <2>. QED
    BY <1>2, <2>2 DEF Kept
<1>4. AllBut(w, s, id0)
  <2>. HIDE DEF s, w
  <2>. QED
    BY <1>0, <1>1, WithoutIds
<1>5. \A id \in Nat, m \in Incoming :
         /\ Kept(id, m)' <=> \E i \in 1..Len(w) : w[i].id = id /\ w[i].msg = m
         /\ Kept(id, m) <=> \E i \in 1..Len(s) : s[i].id = id /\ s[i].msg = m
  BY DEF Kept
<1>. HIDE DEF s, w
<1>6. \A id \in Nat, m \in Incoming : Kept(id, m)' <=> Kept(id, m) /\ id # id0
  <2>. TAKE id \in Nat, m \in Incoming
  <2>1. ASSUME Kept(id, m)'
        PROVE  Kept(id, m) /\ id # id0
    <3>1. PICK i \in 1..Len(w) : w[i].id = id /\ w[i].msg = m
      BY <1>5, <2>1
    <3>2. PICK j \in 1..Len(s) : w[i] = s[j] /\ s[j].id # id0
      BY <1>4, <3>1 DEF AllBut
    <3>. QED
      BY <1>5, <3>1, <3>2
  <2>2. ASSUME Kept(id, m), id # id0
        PROVE  Kept(id, m)'
    <3>1. PICK j \in 1..Len(s) : s[j].id = id /\ s[j].msg = m
      BY <1>5, <2>2
    <3>2. PICK i \in 1..Len(w) : w[i] = s[j]
      BY <1>4, <2>2, <3>1 DEF AllBut
    <3>. QED
      BY <1>5, <3>1, <3>2
  <2>. QED
    BY <2>1, <2>2
<1>7. \A i, j \in 1..Len(inboundMsgs') : inboundMsgs'[i].id = inboundMsgs'[j].id => i = j
  BY <1>4 DEF w, AllBut, OwnIds
<1>8. /\ inboundMsgs[IndexOf(inboundMsgs, id0)].msg \in Incoming
      /\ Kept(id0, inboundMsgs[IndexOf(inboundMsgs, id0)].msg)
  BY <1>3 DEF p, s
<1>. QED
  BY <1>6, <1>7, <1>8

LEMMA InPubrel ==
    ASSUME InInv, TypeInv, RecvPubrel
    PROVE  InInv'
<1>. DEFINE id0 == Head(to_client).id
            m0 == inboundMsgs[IndexOf(inboundMsgs, id0)].msg
<1>0. "PUBREL" \in Tokens /\ "PUBCOMP" \in Acks
  BY DEF Tokens, Acks
<1>1. /\ Reads("PUBREL") /\ Answer(Packet("PUBCOMP", id0)) /\ HasId(inboundMsgs, id0)
      /\ inboundMsgs' = Without(inboundMsgs, id0)
      /\ UNCHANGED <<b_unacked, incoming>>
      /\ \E ok \in BOOLEAN : ProcessPublication(m0, ok)
  BY DEF RecvPubrel
<1>2. /\ OneToken' /\ id0 \in Nat /\ Holds(to_client, {"PUBREL"}, id0)
      /\ \A id \in Nat : \A T \in SUBSET Tokens : Holds(to_client', T, id) => Holds(to_client, T, id) /\ id # id0
      /\ \A id \in Nat : \A T \in SUBSET Acks :
            Holds(to_broker', T, id) => (Holds(to_broker, T, id) /\ id # id0) \/ ("PUBCOMP" \in T /\ id = id0)
      /\ \A id \in Nat, m \in Incoming : Offered(id, m)' => Offered(id, m) /\ id # id0
  BY <1>0, <1>1, TokenRead
<1>3. /\ m0 \in Incoming /\ Kept(id0, m0)
      /\ \A id \in Nat, m \in Incoming : Kept(id, m)' <=> Kept(id, m) /\ id # id0
      /\ \A i, j \in 1..Len(inboundMsgs') : inboundMsgs'[i].id = inboundMsgs'[j].id => i = j
  BY <1>1, <1>2, ReleasedKept
<1>4. Arrivals' = Append(Arrivals, m0)
  BY <1>1, <1>3, ProcessArrivals
<1>. HIDE DEF id0, m0
<1>5. Owes(id0, m0, "PUBCOMP") /\ m0.qos = 2 /\ ~Given(m0)
  <2>1. PICK m \in Incoming : Owes(id0, m, "PUBCOMP")
    BY <1>2 DEF InInv, Stages
  <2>2. m0.qos = 2 /\ (Owes(id0, m0, "PUBREC") \/ Owes(id0, m0, "PUBCOMP"))
    BY <1>2, <1>3 DEF InInv, Stages
  <2>3. m = m0
    BY <2>1, <2>2, OwesOnce
  <2>. QED
    BY <1>2, <1>3, <2>1, <2>2, <2>3 DEF InInv, GivenOnce
<1>6. /\ \A m \in Incoming : Given(m)' <=> Given(m) \/ m = m0
      /\ \A i, j \in 1..Len(Arrivals') : Arrivals'[i] = Arrivals'[j] /\ Arrivals'[i].qos = 2 => i = j
  BY <1>3, <1>4, <1>5, GivenMore
<1>7. \A id \in Nat, m \in Incoming : \A x : Owes(id, m, x)' <=> Owes(id, m, x)
  BY <1>1 DEF Owes
<1>8. \A id \in Nat : \A x \in {"PUBREC", "PUBCOMP"} : Owes(id, m0, x) => id = id0 /\ x = "PUBCOMP"
  <2>. SUFFICES ASSUME NEW id \in Nat, NEW x \in {"PUBREC", "PUBCOMP"}, Owes(id, m0, x)
                PROVE  id = id0 /\ x = "PUBCOMP"
    OBVIOUS
  <2>1. \A i, k \in Nat, m \in Incoming, y, z \in {"PUBREC", "PUBCOMP"} : Owes(i, m, y) /\ Owes(k, m, z) => i = k
    BY DEF InInv, GivenOnce
  <2>2. id = id0
    BY <1>2, <1>3, <1>5, <2>1
  <2>. QED
    BY <1>5, <2>2, OwesOnce
<1>9. Stages'
  <2>1. \A id \in Nat, m \in Incoming : Offered(id, m)' => Owes(id, m, "PUBREC")'
    BY <1>2, <1>7 DEF InInv, Stages
  <2>2. \A id \in Nat : Holds(to_client', {"PUBREL"}, id) => \E m \in Incoming : Owes(id, m, "PUBCOMP")'
    BY <1>2, <1>7 DEF InInv, Stages, Tokens
  <2>3. \A id \in Nat : Holds(to_broker', {"PUBACK"}, id) =>
          \E m \in Incoming : Owes(id, m, "PUBREC")' /\ m.qos = 1 /\ Given(m)'
    BY <1>2, <1>6, <1>7 DEF InInv, Stages, Acks
  <2>4. \A id \in Nat : Holds(to_broker', {"PUBREC"}, id) =>
          \E m \in Incoming : Owes(id, m, "PUBREC")' /\ m.qos = 2 /\ Kept(id, m)'
    BY <1>2, <1>3, <1>7 DEF InInv, Stages, Acks
  <2>5. \A id \in Nat : Holds(to_broker', {"PUBCOMP"}, id) =>
          \E m \in Incoming : Owes(id, m, "PUBCOMP")' /\ Given(m)' /\ \A k \in Incoming : ~Kept(id, k)'
    BY <1>2, <1>3, <1>5, <1>6, <1>7 DEF InInv, Stages, Acks
  <2>6. \A id \in Nat, m \in Incoming : Owes(id, m, "PUBCOMP")' => m.qos = 2 /\ (Kept(id, m)' \/ Given(m)')
    <3>. SUFFICES ASSUME NEW id \in Nat, NEW m \in Incoming, Owes(id, m, "PUBCOMP")
                  PROVE  m.qos = 2 /\ (Kept(id, m)' \/ Given(m)')
      BY <1>7
    <3>1. m.qos = 2 /\ (Kept(id, m) \/ Given(m))
      BY DEF InInv, Stages
    <3>2. id = id0 => m = m0
      BY <1>5, OwesOnce
    <3>. QED
      BY <1>3, <1>6, <3>1, <3>2
  <2>7. \A id \in Nat, m \in Incoming : Kept(id, m)' =>
          m.qos = 2 /\ (Owes(id, m, "PUBREC")' \/ Owes(id, m, "PUBCOMP")')
    BY <1>3, <1>7 DEF InInv, Stages
  <2>. QED
    BY <2>1, <2>2, <2>3, <2>4, <2>5, <2>6, <2>7 DEF Stages
<1>10. GivenOnce'
  <2>1. \A id \in Nat, m \in Incoming : Kept(id, m)' => ~Given(m)'
    <3>. SUFFICES ASSUME NEW id \in Nat, NEW m \in Incoming, Kept(id, m), id # id0
                  PROVE  ~Given(m)'
      BY <1>3
    <3>1. Owes(id, m, "PUBREC") \/ Owes(id, m, "PUBCOMP")
      BY DEF InInv, Stages
    <3>2. ~Given(m)
      BY DEF InInv, GivenOnce
    <3>. QED
      BY <1>6, <1>8, <3>1, <3>2
  <2>2. \A id \in Nat, m \in Incoming : Owes(id, m, "PUBREC")' /\ m.qos = 2 => ~Given(m)'
    <3>. SUFFICES ASSUME NEW id \in Nat, NEW m \in Incoming, Owes(id, m, "PUBREC"), m.qos = 2
                  PROVE  ~Given(m)'
      BY <1>7
    <3>1. ~Given(m)
      BY DEF InInv, GivenOnce
    <3>. QED
      BY <1>6, <1>8, <3>1
  <2>3. \A m \in Incoming : Given(m)' => m.seq <= incoming'
    BY <1>1, <1>2, <1>3, <1>5, <1>6 DEF InInv, GivenOnce
  <2>4. \A n \in 1..incoming' : \E m \in Incoming :
          m.seq = n /\ (Given(m)' \/ \E id \in Nat : Owes(id, m, "PUBREC")' \/ Owes(id, m, "PUBCOMP")')
    <3>. TAKE n \in 1..incoming'
    <3>1. PICK m \in Incoming : m.seq = n /\ (Given(m) \/ \E id \in Nat : Owes(id, m, "PUBREC") \/ Owes(id, m, "PUBCOMP"))
      BY <1>1 DEF InInv, GivenOnce
    <3>. QED
      BY <1>6, <1>7, <3>1
  <2>5. /\ \A id \in Nat, m \in Incoming, next \in {"PUBREC", "PUBCOMP"} : Owes(id, m, next)' => m.seq <= incoming'
        /\ \A id, k \in Nat, m \in Incoming, x, y \in {"PUBREC", "PUBCOMP"} : Owes(id, m, x)' /\ Owes(k, m, y)' => id = k
    BY <1>1, <1>7 DEF InInv, GivenOnce
  <2>. QED
    BY <1>3, <1>6, <2>1, <2>2, <2>3, <2>4, <2>5 DEF GivenOnce
<1>. QED
  BY <1>2, <1>9, <1>10 DEF InInv

LEMMA InStrayPubrel ==
    ASSUME InInv, TypeInv, RecvStrayPubrel
    PROVE  InInv'
<1>. DEFINE id0 == Head(to_client).id
<1>0. "PUBREL" \in Tokens /\ "PUBCOMP" \in Acks
  BY DEF Tokens, Acks
<1>1. /\ Reads("PUBREL") /\ (to_broker' = to_broker \/ Answer(Packet("PUBCOMP", id0)))
      /\ ~HasId(inboundMsgs, id0)
      /\ UNCHANGED <<arrived, messageQueue, inboundMsgs, b_unacked, incoming>>
  BY DEF RecvStrayPubrel, AnswerStray
<1>2. /\ OneToken' /\ id0 \in Nat /\ Holds(to_client, {"PUBREL"}, id0)
      /\ \A id \in Nat : \A T \in SUBSET Tokens : Holds(to_client', T, id) => Holds(to_client, T, id) /\ id # id0
      /\ \A id \in Nat : \A T \in SUBSET Acks :
            Holds(to_broker', T, id) => (Holds(to_broker, T, id) /\ id # id0) \/ ("PUBCOMP" \in T /\ id = id0)
      /\ \A id \in Nat, m \in Incoming : Offered(id, m)' => Offered(id, m) /\ id # id0
  BY <1>0, <1>1, TokenRead
<1>3. Arrivals' = Arrivals /\ \A m \in Incoming : ~Kept(id0, m)
  BY <1>1 DEF Arrivals, Kept, HasId
<1>. HIDE DEF id0
<1>4. PICK m0 \in Incoming : Owes(id0, m0, "PUBCOMP")
  BY <1>2 DEF InInv, Stages
<1>5. Given(m0)
  BY <1>2, <1>3, <1>4 DEF InInv, Stages
<1>6. \A id \in Nat, m \in Incoming : /\ Given(m)' <=> Given(m)
                                      /\ Kept(id, m)' <=> Kept(id, m)
                                      /\ \A x : Owes(id, m, x)' <=> Owes(id, m, x)
  BY <1>1, <1>3 DEF Given, Owes, Kept
<1>7. Stages'
  <2>1. \A id \in Nat, m \in Incoming : Offered(id, m)' => Owes(id, m, "PUBREC")'
    BY <1>2, <1>6 DEF InInv, Stages
  <2>2. \A id \in Nat : Holds(to_client', {"PUBREL"}, id) => \E m \in Incoming : Owes(id, m, "PUBCOMP")'
    BY <1>2, <1>6 DEF InInv, Stages, Tokens
  <2>3. \A id \in Nat : Holds(to_broker', {"PUBACK"}, id) =>
          \E m \in Incoming : Owes(id, m, "PUBREC")' /\ m.qos = 1 /\ Given(m)'
    BY <1>2, <1>6 DEF InInv, Stages, Acks
  <2>4. \A id \in Nat : Holds(to_broker', {"PUBREC"}, id) =>
          \E m \in Incoming : Owes(id, m, "PUBREC")' /\ m.qos = 2 /\ Kept(id, m)'
    BY <1>2, <1>6 DEF InInv, Stages, Acks
  <2>5. \A id \in Nat : Holds(to_broker', {"PUBCOMP"}, id) =>
          \E m \in Incoming : Owes(id, m, "PUBCOMP")' /\ Given(m)' /\ \A k \in Incoming : ~Kept(id, k)'
    BY <1>2, <1>3, <1>4, <1>5, <1>6 DEF InInv, Stages, Acks
  <2>6. /\ \A id \in Nat, m \in Incoming : Owes(id, m, "PUBCOMP")' => m.qos = 2 /\ (Kept(id, m)' \/ Given(m)')
        /\ \A id \in Nat, m \in Incoming : Kept(id, m)' =>
             m.qos = 2 /\ (Owes(id, m, "PUBREC")' \/ Owes(id, m, "PUBCOMP")')
    BY <1>6 DEF InInv, Stages
  <2>. QED
    BY <2>1, <2>2, <2>3, <2>4, <2>5, <2>6 DEF Stages
<1>8. GivenOnce'
  BY <1>1, <1>3, <1>6 DEF InInv, GivenOnce
<1>. QED
  BY <1>2, <1>7, <1>8 DEF InInv

-----------------------------------------------------------------------------
(* The steps of the broker.                                                *)

(***************************************************************************)
(* The broker reads an answer, and releases the message or says no more:   *)
(* nothing else is in flight under its id.                                 *)
(***************************************************************************)
LEMMA AckRead ==
    ASSUME InInv, TypeInv, NEW type \in Acks, BrokerReads(type),
           to_client' = to_client \/ BrokerAnswers(Packet("PUBREL", Head(to_broker).id))
    PROVE  /\ OneToken' /\ Head(to_broker).id \in Nat /\ Holds(to_broker, {type}, Head(to_broker).id)
           /\ \A id \in Nat : \A T \in SUBSET Acks :
                 Holds(to_broker', T, id) => Holds(to_broker, T, id) /\ id # Head(to_broker).id
           /\ \A id \in Nat : \A T \in SUBSET Tokens :
                 Holds(to_client', T, id) => \/ Holds(to_client, T, id) /\ id # Head(to_broker).id
                                             \/ "PUBREL" \in T /\ id = Head(to_broker).id
           /\ \A id \in Nat, m \in Incoming : Offered(id, m)' => Offered(id, m) /\ id # Head(to_broker).id
<1>. DEFINE id0 == Head(to_broker).id
            p == Packet("PUBREL", id0)
<1>0. /\ to_broker \in Seq(ToBroker) /\ to_client \in Seq(ToClient) /\ LinkTypes
  BY DEF TypeInv, LinkTypes
<1>1. /\ to_broker # <<>> /\ Head(to_broker).type = type /\ Head(to_broker) \in ToBroker
      /\ to_broker' = Tail(to_broker) /\ type # "CONNECT"
  BY <1>0, BrokerReadsProps DEF BrokerReads, Acks
<1>2. id0 \in Nat
  BY <1>1, PacketTypes
<1>3. \A T : type \in T => Holds(to_broker, T, id0)
  BY <1>0, <1>1, HoldsTail
<1>4. Holds(to_broker, {type}, id0) /\ ~Holds(to_client, Tokens, id0)
  BY <1>2, <1>3 DEF InInv, OneToken
<1>5. UniqueFor(to_broker', Acks) /\ ~Holds(to_broker', Acks, id0)
  BY <1>0, <1>1, UniqueTail DEF InInv, OneToken
<1>6. \A id \in Nat : \A T \in SUBSET Acks : Holds(to_broker', T, id) => Holds(to_broker, T, id) /\ id # id0
  <2>. TAKE id \in Nat
  <2>. TAKE T \in SUBSET Acks
  <2>1. Holds(to_broker', T, id) => Holds(to_broker, T, id)
    BY <1>0, <1>1, HoldsTail
  <2>2. Holds(to_broker', T, id) => Holds(to_broker', Acks, id)
    BY DEF Holds
  <2>. QED
    BY <1>5, <2>1, <2>2
<1>7. p.type = "PUBREL" /\ p.id = id0
  BY DEF Packet
<1>8. p \in ToClient
  BY <1>2, PacketTypes
<1>9. to_client' = to_client \/ to_client' = Append(to_client, p)
  BY DEF BrokerAnswers
<1>10. id0 = Head(to_broker).id
  OBVIOUS
<1>. HIDE DEF id0, p
<1>11. \A id \in Nat : \A T \in SUBSET Tokens :
          Holds(to_client', T, id) => \/ Holds(to_client, T, id) /\ id # id0
                                      \/ "PUBREL" \in T /\ id = id0
  <2>. TAKE id \in Nat
  <2>. TAKE T \in SUBSET Tokens
  <2>1. Holds(to_client', T, id) => Holds(to_client, T, id) \/ ("PUBREL" \in T /\ id = id0)
    BY <1>0, <1>7, <1>8, <1>9, HoldsAppend
  <2>2. Holds(to_client, T, id) => Holds(to_client, Tokens, id)
    BY DEF Holds
  <2>. QED
    BY <1>4, <2>1, <2>2
<1>12. UniqueFor(to_client', Tokens)
  BY <1>0, <1>4, <1>7, <1>8, <1>9, UniqueAppend DEF InInv, OneToken
<1>13. \A id \in Nat, m \in Incoming : Offered(id, m)' => Offered(id, m) /\ id # id0
  <2>. TAKE id \in Nat, m \in Incoming
  <2>1. Offered(id, m) => Holds(to_client, Tokens, id)
    BY DEF Offered, Holds, Tokens
  <2>2. CASE to_client' = to_client
    BY <1>4, <2>1, <2>2 DEF Offered
  <2>3. CASE to_client' = Append(to_client, p)
    <3>. DEFINE l == Len(to_client)
                w == to_client'
    <3>1. /\ l \in Nat /\ Len(w) = l + 1 /\ w[l + 1] = p /\ l = Len(to_client)
          /\ \A i \in 1..l : w[i] = to_client[i]
      BY <1>0, <1>8, <2>3, AppendAt
    <3>. SUFFICES ASSUME Offered(id, m)'
                  PROVE  Offered(id, m)
      BY <1>4, <2>1
    <3>2. PICK i \in 1..Len(w) : w[i].type = "PUBLISH" /\ w[i].id = id /\ w[i].msg = m
      BY DEF Offered
    <3>. HIDE DEF l, w
    <3>3. i \in 1..l
      BY <1>7, <3>1, <3>2
    <3>. QED
      BY <3>1, <3>2, <3>3 DEF Offered
  <2>. QED
    BY <1>9, <2>2, <2>3
<1>14. OneToken'
  <2>1. \A id \in Nat : ~(Holds(to_client', Tokens, id) /\ Holds(to_broker', Acks, id))
    BY <1>6, <1>11 DEF InInv, OneToken
  <2>. QED
    BY <1>5, <1>12, <2>1 DEF OneToken
<1>. QED
  BY <1>2, <1>4, <1>6, <1>10, <1>11, <1>13, <1>14

LEMMA InBrokerPubrec ==
    ASSUME InInv, TypeInv, BrokerPubrec
    PROVE  InInv'
<1>. DEFINE h == Head(to_broker).id
<1>a. "PUBREC" \in Acks
  BY DEF Acks
<1>b. /\ BrokerReads("PUBREC") /\ BrokerAnswers(Packet("PUBREL", h))
      /\ UNCHANGED <<arrived, messageQueue, inboundMsgs, incoming>>
  BY DEF BrokerPubrec, BrokerOnly
<1>c. /\ OneToken' /\ h \in Nat /\ Holds(to_broker, {"PUBREC"}, h)
      /\ \A id \in Nat : \A T \in SUBSET Acks : Holds(to_broker', T, id) => Holds(to_broker, T, id) /\ id # h
      /\ \A id \in Nat : \A T \in SUBSET Tokens :
            Holds(to_client', T, id) => (Holds(to_client, T, id) /\ id # h) \/ ("PUBREL" \in T /\ id = h)
      /\ \A id \in Nat, m \in Incoming : Offered(id, m)' => Offered(id, m) /\ id # h
  BY <1>a, <1>b, AckRead
<1>d. /\ Len(b_unacked') = Len(b_unacked)
      /\ \A k \in 1..Len(b_unacked) :
            /\ b_unacked'[k].id = b_unacked[k].id /\ b_unacked'[k].msg = b_unacked[k].msg
            /\ b_unacked'[k].next = IF b_unacked[k].id = h THEN "PUBCOMP" ELSE b_unacked[k].next
      /\ \A k \in 1..Len(b_unacked) : b_unacked[k].next \in {"PUBREC", "PUBCOMP"}
  <2>1. b_unacked \in Seq(Owing)
    BY DEF TypeInv, BrokerTypes
  <2>2. \A k \in 1..Len(b_unacked) : b_unacked[k] \in Owing
    BY <2>1
  <2>. QED
    BY <2>1, <2>2, PubrecProps DEF Owing
<1>. HIDE DEF h
<1>0. PICK id0 \in Nat : id0 = h
  BY <1>c
<1>1. UNCHANGED <<arrived, messageQueue, inboundMsgs, incoming>>
  BY <1>b
<1>2. /\ OneToken' /\ Holds(to_broker, {"PUBREC"}, id0)
      /\ \A id \in Nat : \A T \in SUBSET Acks : Holds(to_broker', T, id) => Holds(to_broker, T, id) /\ id # id0
      /\ \A id \in Nat : \A T \in SUBSET Tokens :
            Holds(to_client', T, id) => (Holds(to_client, T, id) /\ id # id0) \/ ("PUBREL" \in T /\ id = id0)
      /\ \A id \in Nat, m \in Incoming : Offered(id, m)' => Offered(id, m) /\ id # id0
  BY <1>0, <1>c
<1>3. /\ Len(b_unacked') = Len(b_unacked)
      /\ \A k \in 1..Len(b_unacked) :
            /\ b_unacked'[k].id = b_unacked[k].id /\ b_unacked'[k].msg = b_unacked[k].msg
            /\ b_unacked'[k].next = IF b_unacked[k].id = id0 THEN "PUBCOMP" ELSE b_unacked[k].next
      /\ \A k \in 1..Len(b_unacked) : b_unacked[k].next \in {"PUBREC", "PUBCOMP"}
  BY <1>0, <1>d
<1>4. PICK m0 \in Incoming : Owes(id0, m0, "PUBREC") /\ m0.qos = 2 /\ Kept(id0, m0)
  BY <1>2 DEF InInv, Stages
<1>5. \A id \in Nat, m \in Incoming, x \in {"PUBREC", "PUBCOMP"} :
         /\ id # id0 => (Owes(id, m, x)' <=> Owes(id, m, x))
         /\ Owes(id0, m, x)' => x = "PUBCOMP" /\ m = m0
         /\ Owes(id, m, x)' => Owes(id, m, "PUBREC") \/ Owes(id, m, "PUBCOMP")
  <2>. SUFFICES ASSUME NEW id \in Nat, NEW m \in Incoming, NEW x \in {"PUBREC", "PUBCOMP"}
                PROVE  /\ id # id0 => (Owes(id, m, x)' <=> Owes(id, m, x))
                       /\ Owes(id0, m, x)' => x = "PUBCOMP" /\ m = m0
                       /\ Owes(id, m, x)' => Owes(id, m, "PUBREC") \/ Owes(id, m, "PUBCOMP")
    OBVIOUS
  <2>1. id # id0 => (Owes(id, m, x)' <=> Owes(id, m, x))
    BY <1>3 DEF Owes
  <2>2. Owes(id0, m, x)' => x = "PUBCOMP" /\ m = m0
    <3>. SUFFICES ASSUME NEW k \in 1..Len(b_unacked), b_unacked'[k].id = id0, b_unacked'[k].msg = m,
                         b_unacked'[k].next = x
                  PROVE  x = "PUBCOMP" /\ m = m0
      BY <1>3 DEF Owes
    <3>1. Owes(id0, m, b_unacked[k].next)
      BY <1>3 DEF Owes
    <3>2. m = m0
      BY <1>4, <3>1, OwesOnce
    <3>. QED
      BY <1>3, <3>2
  <2>3. Owes(id, m, x)' => Owes(id, m, "PUBREC") \/ Owes(id, m, "PUBCOMP")
    BY <1>3 DEF Owes
  <2>. QED
    BY <2>1, <2>2, <2>3
<1>6. Owes(id0, m0, "PUBCOMP")'
  BY <1>3, <1>4 DEF Owes
<1>7. \A id \in Nat, m \in Incoming : /\ Given(m)' <=> Given(m)
                                      /\ Kept(id, m)' <=> Kept(id, m)
  BY <1>1 DEF Given, Kept, Arrivals
<1>8. \A m \in Incoming : \A x : Owes(id0, m, x) => m = m0 /\ x = "PUBREC"
  BY <1>4, OwesOnce
<1>9. Stages'
  <2>1. \A id \in Nat, m \in Incoming : Offered(id, m)' => Owes(id, m, "PUBREC")'
    BY <1>2, <1>5 DEF InInv, Stages
  <2>2. \A id \in Nat : Holds(to_client', {"PUBREL"}, id) => \E m \in Incoming : Owes(id, m, "PUBCOMP")'
    BY <1>2, <1>5, <1>6 DEF InInv, Stages, Tokens
  <2>3. \A id \in Nat : Holds(to_broker', {"PUBACK"}, id) =>
          \E m \in Incoming : Owes(id, m, "PUBREC")' /\ m.qos = 1 /\ Given(m)'
    BY <1>2, <1>5, <1>7 DEF InInv, Stages, Acks
  <2>4. \A id \in Nat : Holds(to_broker', {"PUBREC"}, id) =>
          \E m \in Incoming : Owes(id, m, "PUBREC")' /\ m.qos = 2 /\ Kept(id, m)'
    BY <1>2, <1>5, <1>7 DEF InInv, Stages, Acks
  <2>5. \A id \in Nat : Holds(to_broker', {"PUBCOMP"}, id) =>
          \E m \in Incoming : Owes(id, m, "PUBCOMP")' /\ Given(m)' /\ \A k \in Incoming : ~Kept(id, k)'
    BY <1>2, <1>5, <1>7 DEF InInv, Stages, Acks
  <2>6. \A id \in Nat, m \in Incoming : Owes(id, m, "PUBCOMP")' => m.qos = 2 /\ (Kept(id, m)' \/ Given(m)')
    <3>. SUFFICES ASSUME NEW id \in Nat, NEW m \in Incoming, Owes(id, m, "PUBCOMP")'
                  PROVE  m.qos = 2 /\ (Kept(id, m) \/ Given(m))
      BY <1>7
    <3>1. CASE id = id0
      BY <1>4, <1>5, <3>1
    <3>2. CASE id # id0
      BY <1>5, <3>2 DEF InInv, Stages
    <3>. QED
      BY <3>1, <3>2
  <2>7. \A id \in Nat, m \in Incoming : Kept(id, m)' =>
          m.qos = 2 /\ (Owes(id, m, "PUBREC")' \/ Owes(id, m, "PUBCOMP")')
    <3>. SUFFICES ASSUME NEW id \in Nat, NEW m \in Incoming, Kept(id, m)
                  PROVE  m.qos = 2 /\ (Owes(id, m, "PUBREC")' \/ Owes(id, m, "PUBCOMP")')
      BY <1>7
    <3>1. m.qos = 2 /\ (Owes(id, m, "PUBREC") \/ Owes(id, m, "PUBCOMP"))
      BY DEF InInv, Stages
    <3>. QED
      BY <1>5, <1>6, <1>8, <3>1
  <2>. QED
    BY <2>1, <2>2, <2>3, <2>4, <2>5, <2>6, <2>7 DEF Stages
<1>10. GivenOnce'
  <2>1. \A id \in Nat, m \in Incoming : Owes(id, m, "PUBREC")' => Owes(id, m, "PUBREC")
    BY <1>5
  <2>2. \A id \in Nat, m \in Incoming : Owes(id, m, "PUBREC")' /\ m.qos = 2 => ~Given(m)'
    BY <1>7, <2>1 DEF InInv, GivenOnce
  <2>3. \A id \in Nat, m \in Incoming, next \in {"PUBREC", "PUBCOMP"} : Owes(id, m, next)' => m.seq <= incoming'
    BY <1>1, <1>5 DEF InInv, GivenOnce
  <2>4. \A id, k \in Nat, m \in Incoming, x, y \in {"PUBREC", "PUBCOMP"} : Owes(id, m, x)' /\ Owes(k, m, y)' => id = k
    BY <1>5 DEF InInv, GivenOnce
  <2>5. \A n \in 1..incoming' : \E m \in Incoming :
          m.seq = n /\ (Given(m)' \/ \E id \in Nat : Owes(id, m, "PUBREC")' \/ Owes(id, m, "PUBCOMP")')
    <3>. TAKE n \in 1..incoming'
    <3>1. PICK m \in Incoming : m.seq = n /\ (Given(m) \/ \E id \in Nat : Owes(id, m, "PUBREC") \/ Owes(id, m, "PUBCOMP"))
      BY <1>1 DEF InInv, GivenOnce
    <3>2. \A id \in Nat : Owes(id, m, "PUBREC") \/ Owes(id, m, "PUBCOMP") =>
                             Owes(id, m, "PUBREC")' \/ Owes(id, m, "PUBCOMP")'
      BY <1>5, <1>6, <1>8
    <3>. QED
      BY <1>7, <3>1, <3>2
  <2>6. /\ \A i, j \in 1..Len(Arrivals') : Arrivals'[i] = Arrivals'[j] /\ Arrivals'[i].qos = 2 => i = j
        /\ \A i, j \in 1..Len(inboundMsgs') : inboundMsgs'[i].id = inboundMsgs'[j].id => i = j
        /\ \A id \in Nat, m \in Incoming : Kept(id, m)' => ~Given(m)'
        /\ \A m \in Incoming : Given(m)' => m.seq <= incoming'
    BY <1>1, <1>7 DEF InInv, GivenOnce, Arrivals
  <2>. QED
    BY <2>2, <2>3, <2>4, <2>5, <2>6 DEF GivenOnce
<1>. QED
  BY <1>2, <1>9, <1>10 DEF InInv

LEMMA InBrokerEnd ==
    ASSUME InInv, TypeInv, BrokerEnd
    PROVE  InInv'
<1>. DEFINE id0 == Head(to_broker).id
<1>1. PICK type \in Acks : type \in {"PUBACK", "PUBCOMP"} /\ BrokerReads(type)
  BY DEF BrokerEnd, Acks
<1>2. /\ b_unacked' = Without(b_unacked, id0)
      /\ UNCHANGED <<to_client, arrived, messageQueue, inboundMsgs, incoming>>
  BY DEF BrokerEnd, BrokerOnly
<1>3. /\ OneToken' /\ id0 \in Nat /\ Holds(to_broker, {type}, id0)
      /\ \A id \in Nat : \A T \in SUBSET Acks : Holds(to_broker', T, id) => Holds(to_broker, T, id) /\ id # id0
      /\ \A id \in Nat, m \in Incoming : Offered(id, m)' => Offered(id, m) /\ id # id0
  BY <1>1, <1>2, AckRead
<1>h. \A id \in Nat : Holds(to_client', {"PUBREL"}, id) => Holds(to_client, {"PUBREL"}, id) /\ id # id0
  <2>. SUFFICES ASSUME Holds(to_client, {"PUBREL"}, id0)
                PROVE  FALSE
    BY <1>2
  <2>1. Holds(to_client, Tokens, id0) /\ Holds(to_broker, Acks, id0)
    BY <1>3 DEF Holds, Tokens
  <2>. QED
    BY <1>3, <2>1 DEF InInv, OneToken
<1>. HIDE DEF id0
<1>4. PICK m0 \in Incoming, x0 \in {"PUBREC", "PUBCOMP"} :
         Owes(id0, m0, x0) /\ Given(m0) /\ \A k \in Incoming : ~Kept(id0, k)
  <2>1. CASE type = "PUBACK"
    <3>1. PICK m \in Incoming : Owes(id0, m, "PUBREC") /\ m.qos = 1 /\ Given(m)
      BY <1>3, <2>1 DEF InInv, Stages
    <3>2. ASSUME NEW k \in Incoming, Kept(id0, k)
          PROVE  FALSE
      <4>1. k.qos = 2 /\ (Owes(id0, k, "PUBREC") \/ Owes(id0, k, "PUBCOMP"))
        BY <1>3, <3>2 DEF InInv, Stages
      <4>2. k = m
        BY <3>1, <4>1, OwesOnce
      <4>. QED
        BY <3>1, <4>1, <4>2
    <3>. QED
      BY <3>1, <3>2
  <2>2. CASE type = "PUBCOMP"
    BY <1>3, <2>2 DEF InInv, Stages
  <2>. QED
    BY <1>1, <2>1, <2>2
<1>5. AllBut(b_unacked', b_unacked, id0)
  <2>. DEFINE s == b_unacked
  <2>1. s \in Seq(Owing) /\ OwnIds(s) /\ HasId(s, id0)
    BY <1>4 DEF TypeInv, BrokerTypes, Owed1, OwnIds, Owes, HasId
  <2>. HIDE DEF s
  <2>2. AllBut(Without(s, id0), s, id0)
    BY <2>1, WithoutIds
  <2>. QED
    BY <1>2, <2>2 DEF s
<1>6. \A id \in Nat, m \in Incoming : \A x : Owes(id, m, x)' <=> Owes(id, m, x) /\ id # id0
  <2>. SUFFICES ASSUME NEW id \in Nat, NEW m \in Incoming, NEW x
                PROVE  Owes(id, m, x)' <=> Owes(id, m, x) /\ id # id0
    OBVIOUS
  <2>1. ASSUME Owes(id, m, x)'
        PROVE  Owes(id, m, x) /\ id # id0
    <3>1. PICK i \in 1..Len(b_unacked') :
             b_unacked'[i].id = id /\ b_unacked'[i].msg = m /\ b_unacked'[i].next = x
      BY <2>1 DEF Owes
    <3>2. PICK j \in 1..Len(b_unacked) : b_unacked'[i] = b_unacked[j] /\ b_unacked[j].id # id0
      BY <1>5, <3>1 DEF AllBut
    <3>. QED
      BY <3>1, <3>2 DEF Owes
  <2>2. ASSUME Owes(id, m, x), id # id0
        PROVE  Owes(id, m, x)'
    <3>1. PICK j \in 1..Len(b_unacked) :
             b_unacked[j].id = id /\ b_unacked[j].msg = m /\ b_unacked[j].next = x
      BY <2>2 DEF Owes
    <3>2. PICK i \in 1..Len(b_unacked') : b_unacked'[i] = b_unacked[j]
      BY <1>5, <2>2, <3>1 DEF AllBut
    <3>. QED
      BY <3>1, <3>2 DEF Owes
  <2>. QED
    BY <2>1, <2>2
<1>7. \A id \in Nat, m \in Incoming : /\ Given(m)' <=> Given(m)
                                      /\ Kept(id, m)' <=> Kept(id, m)
  BY <1>2 DEF Given, Kept, Arrivals
<1>9. Stages'
  <2>1. \A id \in Nat, m \in Incoming : Offered(id, m)' => Owes(id, m, "PUBREC")'
    BY <1>3, <1>6 DEF InInv, Stages
  <2>2. \A id \in Nat : Holds(to_client', {"PUBREL"}, id) => \E m \in Incoming : Owes(id, m, "PUBCOMP")'
    BY <1>h, <1>6 DEF InInv, Stages
  <2>3. \A id \in Nat : Holds(to_broker', {"PUBACK"}, id) =>
          \E m \in Incoming : Owes(id, m, "PUBREC")' /\ m.qos = 1 /\ Given(m)'
    BY <1>3, <1>6, <1>7 DEF InInv, Stages, Acks
  <2>4. \A id \in Nat : Holds(to_broker', {"PUBREC"}, id) =>
          \E m \in Incoming : Owes(id, m, "PUBREC")' /\ m.qos = 2 /\ Kept(id, m)'
    BY <1>3, <1>6, <1>7 DEF InInv, Stages, Acks
  <2>5. \A id \in Nat : Holds(to_broker', {"PUBCOMP"}, id) =>
          \E m \in Incoming : Owes(id, m, "PUBCOMP")' /\ Given(m)' /\ \A k \in Incoming : ~Kept(id, k)'
    BY <1>3, <1>6, <1>7 DEF InInv, Stages, Acks
  <2>6. \A id \in Nat, m \in Incoming : Owes(id, m, "PUBCOMP")' => m.qos = 2 /\ (Kept(id, m)' \/ Given(m)')
    BY <1>6, <1>7 DEF InInv, Stages
  <2>7. \A id \in Nat, m \in Incoming : Kept(id, m)' =>
          m.qos = 2 /\ (Owes(id, m, "PUBREC")' \/ Owes(id, m, "PUBCOMP")')
    <3>. SUFFICES ASSUME NEW id \in Nat, NEW m \in Incoming, Kept(id, m)
                  PROVE  m.qos = 2 /\ (Owes(id, m, "PUBREC")' \/ Owes(id, m, "PUBCOMP")')
      BY <1>7
    <3>1. m.qos = 2 /\ (Owes(id, m, "PUBREC") \/ Owes(id, m, "PUBCOMP"))
      BY DEF InInv, Stages
    <3>. QED
      BY <1>4, <1>6, <3>1
  <2>. QED
    BY <2>1, <2>2, <2>3, <2>4, <2>5, <2>6, <2>7 DEF Stages
<1>10. GivenOnce'
  <2>2. \A id \in Nat, m \in Incoming : Owes(id, m, "PUBREC")' /\ m.qos = 2 => ~Given(m)'
    BY <1>6, <1>7 DEF InInv, GivenOnce
  <2>3. \A id \in Nat, m \in Incoming, next \in {"PUBREC", "PUBCOMP"} : Owes(id, m, next)' => m.seq <= incoming'
    BY <1>2, <1>6 DEF InInv, GivenOnce
  <2>4. \A id, k \in Nat, m \in Incoming, x, y \in {"PUBREC", "PUBCOMP"} : Owes(id, m, x)' /\ Owes(k, m, y)' => id = k
    BY <1>6 DEF InInv, GivenOnce
  <2>5. \A n \in 1..incoming' : \E m \in Incoming :
          m.seq = n /\ (Given(m)' \/ \E id \in Nat : Owes(id, m, "PUBREC")' \/ Owes(id, m, "PUBCOMP")')
    <3>. TAKE n \in 1..incoming'
    <3>1. PICK m \in Incoming : m.seq = n /\ (Given(m) \/ \E id \in Nat : Owes(id, m, "PUBREC") \/ Owes(id, m, "PUBCOMP"))
      BY <1>2 DEF InInv, GivenOnce
    <3>2. \A x : Owes(id0, m, x) => m = m0
      BY <1>4, OwesOnce
    <3>. QED
      BY <1>4, <1>6, <1>7, <3>1, <3>2
  <2>6. /\ \A i, j \in 1..Len(Arrivals') : Arrivals'[i] = Arrivals'[j] /\ Arrivals'[i].qos = 2 => i = j
        /\ \A i, j \in 1..Len(inboundMsgs') : inboundMsgs'[i].id = inboundMsgs'[j].id => i = j
        /\ \A id \in Nat, m \in Incoming : Kept(id, m)' => ~Given(m)'
        /\ \A m \in Incoming : Given(m)' => m.seq <= incoming'
    BY <1>2, <1>7 DEF InInv, GivenOnce, Arrivals
  <2>. QED
    BY <2>2, <2>3, <2>4, <2>5, <2>6 DEF GivenOnce
<1>. QED
  BY <1>3, <1>9, <1>10 DEF InInv

\* The broker greets the client, with all it has not seen acknowledged
LEMMA InBrokerConnect ==
    ASSUME ~CleanSession, InInv, TypeInv, Linked, BrokerConnect
    PROVE  InInv'
<1>. DEFINE n == Len(b_unacked)
            w == to_client'
            again(k) == BrokerAgain(b_unacked[k])
<1>0. /\ b_unacked \in Seq(Owing) /\ to_broker \in Seq(ToBroker) /\ n \in Nat /\ n = Len(b_unacked)
      /\ \A i, j \in 1..n : b_unacked[i].id = b_unacked[j].id => i = j
  BY DEF TypeInv, BrokerTypes, LinkTypes, Owed1
<1>1. /\ to_broker # <<>> /\ Head(to_broker).type = "CONNECT" /\ to_broker' = Tail(to_broker)
      /\ UNCHANGED <<arrived, messageQueue, inboundMsgs, b_unacked, incoming>>
  BY DEF BrokerConnect, BrokerReads, BrokerOnly
<1>2. /\ Len(w) = n + 1 /\ w[1] = Packet("CONNACK", 0)
      /\ \A k \in 1..n : w[k + 1] = again(k)
  BY <1>0, GreetingType
<1>3. \A k \in 1..n : /\ again(k).id = b_unacked[k].id /\ again(k).type \in Tokens
                      /\ again(k).type = "PUBLISH" => again(k).msg = b_unacked[k].msg /\ b_unacked[k].next = "PUBREC"
                      /\ again(k).type = "PUBREL" => b_unacked[k].next = "PUBCOMP"
                      /\ b_unacked[k].msg \in Incoming
  <2>. TAKE k \in 1..n
  <2>1. b_unacked[k] \in Owing
    BY <1>0
  <2>. QED
    BY <2>1, BrokerAgainType DEF Tokens, Owing
<1>4. Packet("CONNACK", 0).type \notin Tokens
  BY DEF Packet, Tokens
<1>. HIDE DEF n, w, again
<1>5. \A i \in 1..Len(w) : w[i].type \in Tokens => \E k \in 1..n : i = k + 1 /\ w[i] = again(k)
  <2>. SUFFICES ASSUME NEW i \in 1..Len(w), w[i].type \in Tokens
                PROVE  \E k \in 1..n : i = k + 1 /\ w[i] = again(k)
    OBVIOUS
  <2>1. i # 1
    BY <1>2, <1>4
  <2>2. i - 1 \in 1..n /\ (i - 1) + 1 = i
    BY <1>0, <1>2, <2>1
  <2>. QED
    BY <1>2, <2>2
<1>6. UniqueFor(w, Tokens)
  <2>. SUFFICES ASSUME NEW i \in 1..Len(w), NEW j \in 1..Len(w), w[i].type \in Tokens /\ w[j].type \in Tokens,
                       w[i].id = w[j].id
                PROVE  i = j
    BY DEF UniqueFor
  <2>1. PICK k \in 1..n : i = k + 1 /\ w[i] = again(k)
    BY <1>5
  <2>2. PICK x \in 1..n : j = x + 1 /\ w[j] = again(x)
    BY <1>5
  <2>3. b_unacked[k].id = b_unacked[x].id
    BY <1>3, <2>1, <2>2
  <2>. QED
    BY <1>0, <2>1, <2>2, <2>3
<1>7. \A i \in 1..Len(to_broker') : to_broker'[i].type \notin Acks
  <2>1. 1 \in 1..Len(to_broker) /\ to_broker[1].type = "CONNECT"
    BY <1>0, <1>1
  <2>2. ~b_up
    BY <2>1 DEF Linked
  <2>3. \A i \in 1..Len(to_broker) : to_broker[i].type \notin Acks
    BY <2>2 DEF Linked
  <2>4. \A i \in 1..Len(to_broker') : i + 1 \in 1..Len(to_broker) /\ to_broker'[i] = to_broker[i + 1]
    BY <1>0, <1>1
  <2>. QED
    BY <2>3, <2>4
<1>8. \A id : ~Holds(to_broker', Acks, id) /\ ~Holds(to_broker', {"PUBACK"}, id)
              /\ ~Holds(to_broker', {"PUBREC"}, id) /\ ~Holds(to_broker', {"PUBCOMP"}, id)
  BY <1>7 DEF Holds, Acks
<1>9. \A id \in Nat, m \in Incoming : /\ Given(m)' <=> Given(m)
                                      /\ Kept(id, m)' <=> Kept(id, m)
                                      /\ \A x : Owes(id, m, x)' <=> Owes(id, m, x)
  BY <1>1 DEF Given, Kept, Owes, Arrivals
<1>10. \A id \in Nat, m \in Incoming : Offered(id, m)' => Owes(id, m, "PUBREC")
  <2>. SUFFICES ASSUME NEW id \in Nat, NEW m \in Incoming, Offered(id, m)'
                PROVE  Owes(id, m, "PUBREC")
    OBVIOUS
  <2>1. PICK i \in 1..Len(w) : w[i].type = "PUBLISH" /\ w[i].id = id /\ w[i].msg = m
    BY DEF Offered, w
  <2>2. PICK k \in 1..n : w[i] = again(k)
    BY <1>5, <2>1 DEF Tokens
  <2>. QED
    BY <1>0, <1>3, <2>1, <2>2 DEF Owes
<1>11. \A id \in Nat : Holds(w, {"PUBREL"}, id) => \E m \in Incoming : Owes(id, m, "PUBCOMP")
  <2>. SUFFICES ASSUME NEW id \in Nat, Holds(w, {"PUBREL"}, id)
                PROVE  \E m \in Incoming : Owes(id, m, "PUBCOMP")
    OBVIOUS
  <2>1. PICK i \in 1..Len(w) : w[i].type = "PUBREL" /\ w[i].id = id
    BY DEF Holds
  <2>2. PICK k \in 1..n : w[i] = again(k)
    BY <1>5, <2>1 DEF Tokens
  <2>3. Owes(id, b_unacked[k].msg, "PUBCOMP") /\ b_unacked[k].msg \in Incoming
    BY <1>0, <1>3, <2>1, <2>2 DEF Owes
  <2>. QED
    BY <2>3
<1>12. OneToken'
  <2>1. UniqueFor(to_broker', Acks)
    BY <1>7 DEF UniqueFor
  <2>. QED
    BY <1>6, <1>8, <2>1 DEF OneToken, w
<1>13. Stages'
  <2>1. \A id \in Nat : Holds(to_client', {"PUBREL"}, id) => \E m \in Incoming : Owes(id, m, "PUBCOMP")
    BY <1>11 DEF w
  <2>. QED
    BY <1>8, <1>9, <1>10, <2>1 DEF InInv, Stages
<1>14. GivenOnce'
  BY <1>1, <1>9 DEF InInv, GivenOnce, Arrivals
<1>. QED
  BY <1>12, <1>13, <1>14 DEF InInv

LEMMA InBrokerSend ==
    ASSUME InInv, TypeInv, NEW q \in Qos, BrokerSend(q)
    PROVE  InInv'
<1>1. PICK e \in Owing :
         /\ e.msg = [seq |-> incoming + 1, qos |-> q] /\ e.next = "PUBREC"
         /\ ~HasId(b_unacked, e.id)
         /\ b_unacked' = Append(b_unacked, e)
         /\ to_client' = IF b_up THEN Append(to_client, Publish(e.id, FALSE, e.msg)) ELSE to_client
  BY BrokerSendProps
<1>2. /\ UNCHANGED <<to_broker, arrived, messageQueue, inboundMsgs>>
      /\ incoming' = incoming + 1 /\ incoming \in Nat
  BY DEF BrokerSend, BrokerOnly, TypeInv, BoundTypes
<1>. DEFINE p == Publish(e.id, FALSE, e.msg)
            id0 == e.id
            m0 == e.msg
<1>3. id0 \in Nat /\ m0 \in Incoming /\ m0.seq = incoming + 1 /\ m0.qos = q
  BY <1>1 DEF Owing
<1>4. p \in ToClient /\ p.type = "PUBLISH" /\ p.id = id0 /\ p.msg = m0
  BY <1>3, PacketTypes DEF Publish
<1>5. to_client' = to_client \/ to_client' = Append(to_client, p)
  BY <1>1
<1>6. /\ to_client \in Seq(ToClient) /\ b_unacked \in Seq(Owing)
  BY DEF TypeInv, LinkTypes, BrokerTypes
<1>7. \A m, x : ~Owes(id0, m, x)
  BY <1>1 DEF Owes, HasId
<1>. HIDE DEF p
<1>8. \A id \in Nat, m \in Incoming, x \in {"PUBREC", "PUBCOMP"} :
         Owes(id, m, x)' <=> Owes(id, m, x) \/ (id = id0 /\ m = m0 /\ x = "PUBREC")
  <2>. DEFINE n == Len(b_unacked)
              w == b_unacked'
  <2>1. /\ n \in Nat /\ Len(w) = n + 1 /\ w[n + 1] = e /\ n = Len(b_unacked)
        /\ \A i \in 1..n : w[i] = b_unacked[i]
    BY <1>1, <1>6, AppendAt
  <2>2. \A id \in Nat, m \in Incoming, x \in {"PUBREC", "PUBCOMP"} :
           /\ Owes(id, m, x)' <=> \E i \in 1..Len(w) : w[i].id = id /\ w[i].msg = m /\ w[i].next = x
           /\ Owes(id, m, x) <=> \E i \in 1..n : b_unacked[i].id = id /\ b_unacked[i].msg = m /\ b_unacked[i].next = x
    BY DEF Owes
  <2>. HIDE DEF n, w
  <2>3. /\ \A i \in 1..Len(w) : i = n + 1 \/ i \in 1..n
        /\ n + 1 \in 1..Len(w) /\ \A i \in 1..n : i \in 1..Len(w)
    BY <2>1
  <2>. TAKE id \in Nat, m \in Incoming, x \in {"PUBREC", "PUBCOMP"}
  <2>4. ASSUME Owes(id, m, x)'
        PROVE  Owes(id, m, x) \/ (id = id0 /\ m = m0 /\ x = "PUBREC")
    <3>1. PICK i \in 1..Len(w) : w[i].id = id /\ w[i].msg = m /\ w[i].next = x
      BY <2>2, <2>4
    <3>2. CASE i = n + 1
      BY <1>1, <2>1, <3>1, <3>2
    <3>3. CASE i \in 1..n
      BY <2>1, <2>2, <3>1, <3>3
    <3>. QED
      BY <2>3, <3>2, <3>3
  <2>5. Owes(id, m, x) => Owes(id, m, x)'
    BY <2>1, <2>2, <2>3
  <2>6. id = id0 /\ m = m0 /\ x = "PUBREC" => Owes(id, m, x)'
    BY <1>1, <2>1, <2>2, <2>3
  <2>. QED
    BY <2>4, <2>5, <2>6
<1>9. \A id \in Nat, m \in Incoming : Offered(id, m)' => Offered(id, m) \/ (id = id0 /\ m = m0)
  <2>. TAKE id \in Nat, m \in Incoming
  <2>1. CASE to_client' = to_client
    BY <2>1 DEF Offered
  <2>2. CASE to_client' = Append(to_client, p)
    <3>. DEFINE l == Len(to_client)
                w == to_client'
    <3>1. /\ l \in Nat /\ Len(w) = l + 1 /\ w[l + 1] = p /\ l = Len(to_client)
          /\ \A i \in 1..l : w[i] = to_client[i]
      BY <1>4, <1>6, <2>2, AppendAt
    <3>. SUFFICES ASSUME Offered(id, m)'
                  PROVE  Offered(id, m) \/ (id = id0 /\ m = m0)
      OBVIOUS
    <3>2. PICK i \in 1..Len(w) : w[i].type = "PUBLISH" /\ w[i].id = id /\ w[i].msg = m
      BY DEF Offered
    <3>. HIDE DEF l, w
    <3>3. i = l + 1 \/ i \in 1..l
      BY <3>1
    <3>. QED
      BY <1>4, <3>1, <3>2, <3>3 DEF Offered
  <2>. QED
    BY <1>5, <2>1, <2>2
<1>10. \A id \in Nat : \A T \in SUBSET Tokens :
          Holds(to_client', T, id) => Holds(to_client, T, id) \/ ("PUBLISH" \in T /\ id = id0)
  BY <1>4, <1>5, <1>6, HoldsAppend
<1>11. ~Holds(to_client, Tokens, id0) /\ ~Holds(to_broker, Acks, id0) /\ \A m \in Incoming : ~Kept(id0, m)
  <2>1. ~Holds(to_client, {"PUBREL"}, id0)
    BY <1>3, <1>7 DEF InInv, Stages
  <2>2. ~Holds(to_client, {"PUBLISH"}, id0)
    <3>. SUFFICES ASSUME NEW i \in 1..Len(to_client), to_client[i].type = "PUBLISH", to_client[i].id = id0
                  PROVE  FALSE
      BY DEF Holds
    <3>1. to_client[i] \in ToClient
      BY <1>6
    <3>2. to_client[i].msg \in Incoming
      BY <3>1, PacketTypes
    <3>3. Offered(id0, to_client[i].msg)
      BY DEF Offered
    <3>. QED
      BY <1>3, <1>7, <3>2, <3>3 DEF InInv, Stages
  <2>3. ~Holds(to_broker, {"PUBACK"}, id0) /\ ~Holds(to_broker, {"PUBREC"}, id0) /\ ~Holds(to_broker, {"PUBCOMP"}, id0)
    BY <1>3, <1>7 DEF InInv, Stages
  <2>4. \A m \in Incoming : ~Kept(id0, m)
    BY <1>3, <1>7 DEF InInv, Stages
  <2>. QED
    BY <2>1, <2>2, <2>3, <2>4 DEF Holds, Tokens, Acks
<1>12. ~Given(m0) /\ \A id \in Nat, x \in {"PUBREC", "PUBCOMP"} : ~Owes(id, m0, x)
  <2>1. /\ \A m \in Incoming : Given(m) => m.seq <= incoming
        /\ \A id \in Nat, m \in Incoming, x \in {"PUBREC", "PUBCOMP"} : Owes(id, m, x) => m.seq <= incoming
    BY DEF InInv, GivenOnce
  <2>2. ~(m0.seq <= incoming)
    BY <1>2, <1>3
  <2>. QED
    BY <1>3, <2>1, <2>2
<1>13. \A id \in Nat, m \in Incoming : /\ Given(m)' <=> Given(m)
                                       /\ Kept(id, m)' <=> Kept(id, m)
  BY <1>2 DEF Given, Kept, Arrivals
<1>14. OneToken'
  <2>1. UniqueFor(to_client', Tokens)
    BY <1>4, <1>5, <1>6, <1>11, UniqueAppend DEF InInv, OneToken
  <2>2. \A id \in Nat : ~(Holds(to_client', Tokens, id) /\ Holds(to_broker', Acks, id))
    BY <1>2, <1>10, <1>11 DEF InInv, OneToken
  <2>. QED
    BY <1>2, <2>1, <2>2 DEF InInv, OneToken
<1>. HIDE DEF id0, m0
<1>15. Stages'
  <2>1. \A id \in Nat, m \in Incoming : Offered(id, m)' => Owes(id, m, "PUBREC")'
    BY <1>8, <1>9 DEF InInv, Stages
  <2>2. \A id \in Nat : Holds(to_client', {"PUBREL"}, id) => \E m \in Incoming : Owes(id, m, "PUBCOMP")'
    BY <1>8, <1>10 DEF InInv, Stages, Tokens
  <2>3. /\ \A id \in Nat : Holds(to_broker', {"PUBACK"}, id) =>
             \E m \in Incoming : Owes(id, m, "PUBREC")' /\ m.qos = 1 /\ Given(m)'
        /\ \A id \in Nat : Holds(to_broker', {"PUBREC"}, id) =>
             \E m \in Incoming : Owes(id, m, "PUBREC")' /\ m.qos = 2 /\ Kept(id, m)'
        /\ \A id \in Nat : Holds(to_broker', {"PUBCOMP"}, id) =>
             \E m \in Incoming : Owes(id, m, "PUBCOMP")' /\ Given(m)' /\ \A k \in Incoming : ~Kept(id, k)'
    BY <1>2, <1>8, <1>13 DEF InInv, Stages
  <2>4. \A id \in Nat, m \in Incoming : Owes(id, m, "PUBCOMP")' => m.qos = 2 /\ (Kept(id, m)' \/ Given(m)')
    BY <1>8, <1>13 DEF InInv, Stages
  <2>5. \A id \in Nat, m \in Incoming : Kept(id, m)' =>
          m.qos = 2 /\ (Owes(id, m, "PUBREC")' \/ Owes(id, m, "PUBCOMP")')
    BY <1>8, <1>13 DEF InInv, Stages
  <2>. QED
    BY <2>1, <2>2, <2>3, <2>4, <2>5 DEF Stages
<1>16. GivenOnce'
  <2>1. \A id \in Nat, m \in Incoming : Owes(id, m, "PUBREC")' /\ m.qos = 2 => ~Given(m)'
    BY <1>8, <1>12, <1>13 DEF InInv, GivenOnce
  <2>2. \A m \in Incoming : Given(m)' => m.seq <= incoming'
    <3>. SUFFICES ASSUME NEW m \in Incoming, Given(m)
                  PROVE  m.seq <= incoming + 1
      BY <1>2, <1>13
    <3>1. m.seq <= incoming /\ m.seq \in Int
      BY DEF InInv, GivenOnce, Incoming
    <3>. QED
      BY <1>2, <3>1
  <2>3. \A id \in Nat, m \in Incoming, next \in {"PUBREC", "PUBCOMP"} : Owes(id, m, next)' => m.seq <= incoming'
    <3>. SUFFICES ASSUME NEW id \in Nat, NEW m \in Incoming, NEW next \in {"PUBREC", "PUBCOMP"}, Owes(id, m, next)'
                  PROVE  m.seq <= incoming + 1
      BY <1>2
    <3>1. Owes(id, m, next) => m.seq <= incoming
      BY DEF InInv, GivenOnce
    <3>2. m.seq \in Int
      BY DEF Incoming
    <3>. QED
      BY <1>2, <1>3, <1>8, <3>1, <3>2
  <2>4. \A id, k \in Nat, m \in Incoming, x, y \in {"PUBREC", "PUBCOMP"} : Owes(id, m, x)' /\ Owes(k, m, y)' => id = k
    BY <1>8, <1>12 DEF InInv, GivenOnce
  <2>5. \A n \in 1..incoming' : \E m \in Incoming :
          m.seq = n /\ (Given(m)' \/ \E id \in Nat : Owes(id, m, "PUBREC")' \/ Owes(id, m, "PUBCOMP")')
    <3>. TAKE n \in 1..incoming'
    <3>1. CASE n = incoming + 1
      BY <1>3, <1>8, <3>1
    <3>2. CASE n \in 1..incoming
      <4>1. PICK m \in Incoming : m.seq = n /\ (Given(m) \/ \E id \in Nat : Owes(id, m, "PUBREC") \/ Owes(id, m, "PUBCOMP"))
        BY <3>2 DEF InInv, GivenOnce
      <4>. QED
        BY <1>8, <1>13, <4>1
    <3>. QED
      BY <1>2, <3>1, <3>2
  <2>6. /\ \A i, j \in 1..Len(Arrivals') : Arrivals'[i] = Arrivals'[j] /\ Arrivals'[i].qos = 2 => i = j
        /\ \A i, j \in 1..Len(inboundMsgs') : inboundMsgs'[i].id = inboundMsgs'[j].id => i = j
        /\ \A id \in Nat, m \in Incoming : Kept(id, m)' => ~Given(m)'
    BY <1>2, <1>13 DEF InInv, GivenOnce, Arrivals
  <2>. QED
    BY <2>1, <2>2, <2>3, <2>4, <2>5, <2>6 DEF GivenOnce
<1>. QED
  BY <1>14, <1>15, <1>16 DEF InInv

LEMMA InNext == ~CleanSession /\ TypeInv /\ TypeInv' /\ Linked /\ InInv /\ [Next]_vars => InInv'
<1>. SUFFICES ASSUME ~CleanSession, TypeInv, TypeInv', Linked, InInv, [Next]_vars PROVE InInv'
  OBVIOUS
<1>1. CASE \/ \E q \in Qos : Send(q)
           \/ StartConnect \/ CannotConnect \/ LoseConnection \/ NothingToLose
           \/ PublishCommand \/ PublishFails \/ ConnectTimeout \/ Break \/ PingTimeout
  BY <1>1, QuietInSend, QuietInKept
<1>2. CASE RecvPubrec \/ RecvPuback \/ RecvPubcomp \/ RecvPingresp \/ RecvConnack
  BY <1>2, QuietInReceive, QuietInKept
<1>3. CASE ReadFails \/ TurnLost \/ TurnFails \/ TurnEnds \/ ConnectionComplete \/ ConnackUnexpected
  BY <1>3, QuietInTurn, QuietInKept
<1>4. CASE BrokerPublish1 \/ BrokerPublish2 \/ BrokerPubrel
  BY <1>4, QuietInBroker, QuietInKept
<1>5. CASE \E n \in 1..Len(outboundMsgs) : \E due \in [1..n -> 1..Len(outboundMsgs)] : RetryTimer(due)
  BY <1>5, QuietInRetry, QuietInKept
<1>6. CASE RecvPublish1
  BY <1>6, InPublish1
<1>7. CASE RecvPublish2
  BY <1>7, InPublish2
<1>8. CASE RecvPubrel
  BY <1>8, InPubrel
<1>9. CASE RecvStrayPubrel
  BY <1>9, InStrayPubrel
<1>10. CASE BrokerConnect
  BY <1>10, InBrokerConnect
<1>11. CASE BrokerPubrec
  BY <1>11, InBrokerPubrec
<1>12. CASE BrokerEnd
  BY <1>12, InBrokerEnd
<1>13. CASE \E q \in Qos : BrokerSend(q)
  BY <1>13, InBrokerSend
<1>14. CASE UNCHANGED vars
  BY <1>14, FlightChangesIn, QuietInKept DEF vars, QuietIn
<1>. QED
  BY <1>1, <1>2, <1>3, <1>4, <1>5, <1>6, <1>7, <1>8, <1>9, <1>10, <1>11, <1>12, <1>13, <1>14
     DEF Next, SendThread, ReceiveThread, Timers, Broker, BrokerHandles

LEMMA InCorrect ==
    ASSUME ~CleanSession
    PROVE  Spec => [](TypeInv /\ Linked /\ InInv)
<1>1. Init => TypeInv /\ Linked /\ InInv
  BY TypesInit, LinkedInit, InInit
<1>2. TypeInv /\ Linked /\ InInv /\ [Next]_vars => (TypeInv /\ Linked /\ InInv)'
  BY TypesNext, LinkedNext, InNext
<1>. QED
  BY <1>1, <1>2, PTL DEF Spec

\* What was accepted, and what waits, are the two parts of Arrivals
LEMMA ArrivalsParts ==
    ASSUME TypeInv
    PROVE  /\ \A i \in 1..Len(arrived) : i \in 1..Len(Arrivals) /\ Arrivals[i] = arrived[i]
           /\ \A i \in 1..Len(Arrivals) : \/ i \in 1..Len(arrived) /\ Arrivals[i] = arrived[i]
                                          \/ \E j \in 1..Len(messageQueue) : Arrivals[i] = messageQueue[j]
<1>. DEFINE a == arrived
            b == messageQueue
            S == Incoming
<1>1. a \in Seq(S) /\ b \in Seq(S)
  BY DEF TypeInv, HistoryTypes, SessionTypes
<1>. HIDE DEF a, b, S
<1>2. /\ Len(a \o b) = Len(a) + Len(b) /\ Len(a) \in Nat /\ Len(b) \in Nat
      /\ \A i \in 1..Len(a) : (a \o b)[i] = a[i]
      /\ \A i \in 1..Len(b) : (a \o b)[Len(a) + i] = b[i]
  BY <1>1, ConcatParts
<1>3. \A i \in 1..Len(a) : i \in 1..Len(a \o b) /\ (a \o b)[i] = a[i]
  BY <1>2
<1>4. \A i \in 1..Len(a \o b) : \/ i \in 1..Len(a) /\ (a \o b)[i] = a[i]
                                \/ \E j \in 1..Len(b) : (a \o b)[i] = b[j]
  <2>. SUFFICES ASSUME NEW i \in 1..Len(a \o b), i \notin 1..Len(a)
                PROVE  \E j \in 1..Len(b) : (a \o b)[i] = b[j]
    BY <1>2
  <2>1. i - Len(a) \in 1..Len(b) /\ Len(a) + (i - Len(a)) = i
    BY <1>2
  <2>. QED
    BY <1>2, <2>1
<1>. QED
  BY <1>3, <1>4 DEF a, b, Arrivals

\* Where the session is kept, and its ids have not come round, a QoS 2 message
\* is published by the broker, and accepted by messageArrived, at most once,
\* however often the connection breaks, whatever is sent again, and however
\* often messageArrived refuses it: an id has one message at the sender while
\* anything carries it, and the receiver forgets the message only when it has
\* given it, after the sender has stopped sending it.
THEOREM DeliveredExactly ==
    ASSUME KeptSession
    PROVE  Spec => []ExchangedOnce
<1>1. ~CleanSession
  BY DEF KeptSession
<1>2. TypeInv /\ OutInv => SentAtMostOnce
  BY DEF OutInv, PublishedOnce, SentAtMostOnce
<1>3. TypeInv /\ InInv => ArrivesAtMostOnce
  <2>. SUFFICES ASSUME TypeInv, InInv,
                       NEW i \in 1..Len(arrived), NEW j \in 1..Len(arrived), NEW k \in 1..Len(arrived),
                       arrived[i].qos = 2, arrived[j] = arrived[i], arrived[k] = arrived[i]
                PROVE  j = k
    BY DEF ArrivesAtMostOnce, Once
  <2>1. /\ j \in 1..Len(Arrivals) /\ Arrivals[j] = arrived[j]
        /\ k \in 1..Len(Arrivals) /\ Arrivals[k] = arrived[k]
    BY ArrivalsParts
  <2>. QED
    BY <2>1 DEF InInv, GivenOnce
<1>4. TypeInv /\ OutInv /\ InInv => ExchangedOnce
  BY <1>2, <1>3, TypeInvGivesTypeOK DEF ExchangedOnce
<1>. QED
  BY <1>1, <1>4, OutCorrect, InCorrect, PTL

\* Where the session is kept, a message of the broker that it need not send
\* again has been accepted by messageArrived or waits in messageQueue: PUBACK
\* and PUBCOMP are sent by handlers that give the message first.
THEOREM NothingLost ==
    ASSUME ~CleanSession
    PROVE  Spec => []AckedIsKept
<1>1. TypeInv /\ InInv => AckedIsKept
  <2>. SUFFICES ASSUME TypeInv, InInv, NEW n \in 1..incoming
                PROVE  \E q \in Qos : [seq |-> n, qos |-> q] \in Owed \cup ToSet(arrived) \cup ToSet(messageQueue)
    BY DEF AckedIsKept
  <2>1. PICK m \in Incoming : m.seq = n /\ (Given(m) \/ \E id \in Nat : Owes(id, m, "PUBREC") \/ Owes(id, m, "PUBCOMP"))
    BY DEF InInv, GivenOnce
  <2>2. m.qos \in Qos /\ m = [seq |-> n, qos |-> m.qos]
    BY <2>1 DEF Incoming
  <2>3. CASE Given(m)
    <3>1. PICK i \in 1..Len(Arrivals) : Arrivals[i] = m
      BY <2>3 DEF Given
    <3>2. m \in ToSet(arrived) \/ m \in ToSet(messageQueue)
      BY <3>1, ArrivalsParts DEF ToSet
    <3>. QED
      BY <2>2, <3>2
  <2>4. CASE \E id \in Nat : Owes(id, m, "PUBREC") \/ Owes(id, m, "PUBCOMP")
    <3>1. m \in Owed
      BY <2>4 DEF Owes, Owed
    <3>. QED
      BY <2>2, <3>1
  <2>. QED
    BY <2>1, <2>3, <2>4
<1>. QED
  BY <1>1, InCorrect, PTL

-----------------------------------------------------------------------------
(***************************************************************************)
(* The exchanges of MqttDelivery in a clean session, the session of the    *)
(* nodes: onSuccess is called for the message it is about, though ids come *)
(* round, for any number of messages and breaks.                           *)
(*                                                                         *)
(* Nothing is repeated in a clean session, as long as there is no retry    *)
(* while connected: a new connection starts with empty lists.  So an       *)
(* exchange has one token, the packet in flight about it (OneFlight); the  *)
(* token says how far the exchange has come with the client and with the   *)
(* broker (Steps); and who has the token of an id has its response, so     *)
(* that the id is not given again (Apart).  Only a publish that fails at   *)
(* the write leaves a message without a response, and nothing is sent any  *)
(* more before the lists are emptied: a disconnect is the next command, or *)
(* a connect before it.                                                    *)
(***************************************************************************)

\* The session the nodes ask for: clean, and with a retryInterval of 0
NodeSession == CleanSession /\ MaxRetries = 0

(***************************************************************************)
(* Each id has one owner among the commands and the responses, and each    *)
(* response a message under way; and while commands are taken each message *)
(* under way has its response.                                             *)
(***************************************************************************)
QueuedOnce == \A i, j \in 1..Len(commands) :
                 /\ commands[i].type = "PUBLISH" /\ commands[j].type = "PUBLISH"
                 /\ commands[i].id = commands[j].id
                 => i = j
Apart ==
    /\ QueuedOnce
    /\ \A i \in 1..Len(commands) : commands[i].type = "PUBLISH" => ~HasId(responses, commands[i].id)
    /\ OwnIds(responses) /\ UniqueIds /\ ResponsesHaveMessages
    /\ connected /\ ~NextIs("DISCONNECT") =>
          \A j \in 1..Len(outboundMsgs) : HasId(responses, outboundMsgs[j].id)

\* What is in flight about the message with this id
Flying(n) == Holds(to_broker, Tokens, n) \/ Holds(to_client, Acks, n)

(***************************************************************************)
(* One packet at most is in flight about a message, and then the client is *)
(* connected and somebody waits for onSuccess.                             *)
(***************************************************************************)
OneFlight ==
    /\ UniqueFor(to_broker, Tokens) /\ UniqueFor(to_client, Acks)
    /\ \A n \in Nat : ~(Holds(to_broker, Tokens, n) /\ Holds(to_client, Acks, n))
    /\ \A n \in Nat : Flying(n) => connected /\ HasId(responses, n)
    /\ \A n \in Nat : Holds(to_broker, {"PUBREL"}, n) => b_up
    /\ connected => connect_state = 0

\* How far the client is with a message
At(id, m, next) == \E i \in 1..Len(outboundMsgs) :
                      /\ outboundMsgs[i].id = id /\ outboundMsgs[i].msg = m
                      /\ outboundMsgs[i].next = next

(***************************************************************************)
(* What each packet in flight says about its message.                      *)
(***************************************************************************)
Steps ==
    /\ \A n \in Nat, m \in Sent : InFlight(n, m) => At(n, m, "PUBREC")
    /\ \A n \in Nat : Holds(to_client, {"PUBACK"}, n) =>
          \E m \in Sent : m.qos = 1 /\ UnderWay(n, m) /\ Published(m)
    /\ \A n \in Nat : Holds(to_client, {"PUBREC"}, n) =>
          \E m \in Sent : m.qos = 2 /\ At(n, m, "PUBREC") /\ WithBroker(n, m)
    /\ \A n \in Nat : Holds(to_broker, {"PUBREL"}, n) =>
          \E m \in Sent : m.qos = 2 /\ At(n, m, "PUBCOMP") /\ WithBroker(n, m)
    /\ \A n \in Nat : Holds(to_client, {"PUBCOMP"}, n) =>
          \E m \in Sent : m.qos = 2 /\ At(n, m, "PUBCOMP") /\ Published(m)

\* What the broker has received and not released is about to be released
Receiving ==
    /\ b_up => \A r \in b_received : \/ Holds(to_client, {"PUBREC"}, r.id)
                                     \/ Holds(to_broker, {"PUBREL"}, r.id)
    /\ \A r, s \in b_received : r.id = s.id => r = s
    /\ \A m \in succeeded : Published(m)

CleanInv == Apart /\ OneFlight /\ Steps /\ Receiving

LEMMA CleanInit == Init => CleanInv
<1>. SUFFICES ASSUME Init PROVE CleanInv
  OBVIOUS
<1>1. /\ Len(commands) = 1 /\ commands[1].type # "PUBLISH"
      /\ \A i \in 1..Len(to_broker) : FALSE
      /\ \A i \in 1..Len(to_client) : FALSE
      /\ \A i \in 1..Len(outboundMsgs) : FALSE
      /\ \A i \in 1..Len(responses) : FALSE
      /\ b_received = {} /\ succeeded = {} /\ connected = FALSE /\ connect_state = 0
  BY DEF Init, Connect
<1>3. Apart
  BY <1>1 DEF Apart, QueuedOnce, OwnIds, UniqueIds, ResponsesHaveMessages
<1>4. OneFlight
  BY <1>1 DEF OneFlight, UniqueFor, Flying, Holds
<1>5. Steps
  BY <1>1 DEF Steps, InFlight, Holds
<1>6. Receiving
  BY <1>1 DEF Receiving
<1>. QED
  BY <1>3, <1>4, <1>5, <1>6 DEF CleanInv

-----------------------------------------------------------------------------
(* Steps that take no exchange further.                                    *)

\* What has no element of these types is within anything
LEMMA NoneWithin ==
    ASSUME NEW S, NEW t \in Seq(S), NEW s, NEW T, \A i \in 1..Len(t) : t[i].type \notin T
    PROVE  WithinFor(t, s, T)
<1>1. [i \in 1..Len(t) |-> 0] \in [1..Len(t) -> Int]
  OBVIOUS
<1>. QED
  BY <1>1 DEF WithinFor

\* The exchanges go on as they are
GoesOn ==
    /\ UNCHANGED <<responses, outboundMsgs, connected, connect_state, b_up>>
    /\ \A n \in Nat : /\ Holds(to_client, {"PUBREC"}, n) => Holds(to_client, {"PUBREC"}, n)'
                      /\ Holds(to_broker, {"PUBREL"}, n) => Holds(to_broker, {"PUBREL"}, n)'
    /\ connected /\ NextIs("DISCONNECT") => NextIs("DISCONNECT")'

\* Nothing is in flight: a connection was lost, or is a new one
Emptied ==
    /\ \A n \in Nat : ~Flying(n)'
    /\ b_up' => b_up /\ ~connected
    /\ \/ /\ responses' = <<>> /\ outboundMsgs' = <<>>
          /\ connected' => connect_state' = 0
       \/ /\ UNCHANGED <<responses, outboundMsgs>>
          /\ connected' => /\ connected /\ connect_state' = connect_state
                           /\ NextIs("DISCONNECT") => NextIs("DISCONNECT")'

Calm ==
    /\ WithinFor(commands', commands, {"PUBLISH"})
    /\ WithinFor(to_broker', to_broker, Tokens) /\ WithinFor(to_client', to_client, Acks)
    /\ UNCHANGED <<b_received, published, succeeded>>
    /\ GoesOn \/ Emptied

\* The lists have their types
Lists ==
    /\ commands \in Seq(Command) /\ responses \in Seq(Response)
    /\ outboundMsgs \in Seq(Entries(Sent))
    /\ to_broker \in Seq(ToBroker) /\ to_client \in Seq(ToClient)

\* What waits in the queue is as it was
LEMMA QueueKept ==
    ASSUME Lists, Lists', WithinFor(commands', commands, {"PUBLISH"})
    PROVE  /\ QueuedOnce => QueuedOnce'
           /\ \A i \in 1..Len(commands') : commands'[i].type = "PUBLISH" =>
                 \E k \in 1..Len(commands) : commands'[i] = commands[k]
<1>1. PICK f \in [1..Len(commands') -> Int] :
         /\ \A i \in 1..Len(commands') : commands'[i].type \in {"PUBLISH"} =>
               f[i] \in 1..Len(commands) /\ commands'[i] = commands[f[i]]
         /\ \A i, j \in 1..Len(commands') :
               commands'[i].type \in {"PUBLISH"} /\ commands'[j].type \in {"PUBLISH"} /\ i < j => f[i] < f[j]
  BY DEF WithinFor
<1>2. commands' \in Seq(Command)
  BY DEF Lists
<1>3. ASSUME QueuedOnce, NEW i \in 1..Len(commands'), NEW j \in 1..Len(commands'),
             commands'[i].type = "PUBLISH" /\ commands'[j].type = "PUBLISH",
             commands'[i].id = commands'[j].id
      PROVE  i = j
  <2>1. /\ f[i] \in 1..Len(commands) /\ commands'[i] = commands[f[i]]
        /\ f[j] \in 1..Len(commands) /\ commands'[j] = commands[f[j]]
    BY <1>1, <1>3
  <2>2. f[i] = f[j]
    BY <1>3, <2>1 DEF QueuedOnce
  <2>. QED
    BY <1>1, <1>2, <1>3, <2>2
<1>. QED
  BY <1>1, <1>3 DEF QueuedOnce

LEMMA CalmKept ==
    ASSUME CleanInv, TypeInv, TypeInv', Calm
    PROVE  CleanInv'
<1>0. Lists /\ Lists' /\ b_received \subseteq Response
  BY DEF TypeInv, Lists, SendTypes, SessionTypes, LinkTypes, BrokerTypes
<1>1. /\ to_broker \in Seq(ToBroker) /\ to_broker' \in Seq(ToBroker)
      /\ to_client \in Seq(ToClient) /\ to_client' \in Seq(ToClient)
      /\ WithinFor(to_broker', to_broker, Tokens) /\ WithinFor(to_client', to_client, Acks)
  BY <1>0 DEF Lists, Calm
<1>2. \/ UNCHANGED <<responses, outboundMsgs>>
      \/ responses' = <<>> /\ outboundMsgs' = <<>>
  BY DEF Calm, GoesOn, Emptied
<1>3. \A n \in Nat : /\ \A T \in SUBSET Tokens : Holds(to_broker', T, n) => Holds(to_broker, T, n)
                     /\ \A T \in SUBSET Acks : Holds(to_client', T, n) => Holds(to_client, T, n)
  BY <1>1, HoldsWithin
<1>4. Apart'
  <2>1. /\ QueuedOnce'
        /\ \A i \in 1..Len(commands') : commands'[i].type = "PUBLISH" =>
              \E k \in 1..Len(commands) : commands'[i] = commands[k]
    BY <1>0, QueueKept DEF Calm, CleanInv, Apart
  <2>2. \A id : HasId(responses', id) => HasId(responses, id)
    BY <1>2 DEF HasId
  <2>3. \A i \in 1..Len(commands') : commands'[i].type = "PUBLISH" => ~HasId(responses', commands'[i].id)
    BY <2>1, <2>2 DEF CleanInv, Apart
  <2>4. OwnIds(responses')
    BY <1>2 DEF CleanInv, Apart, OwnIds
  <2>5. UniqueIds'
    BY <1>2 DEF CleanInv, Apart, UniqueIds
  <2>6. ResponsesHaveMessages'
    BY <1>2 DEF CleanInv, Apart, ResponsesHaveMessages
  <2>7. connected' /\ ~NextIs("DISCONNECT")' => \A j \in 1..Len(outboundMsgs') : HasId(responses', outboundMsgs'[j].id)
    <3>1. CASE responses' = <<>> /\ outboundMsgs' = <<>>
      BY <3>1
    <3>2. CASE UNCHANGED <<responses, outboundMsgs>>
      <4>. SUFFICES ASSUME connected' /\ ~NextIs("DISCONNECT")', NEW j \in 1..Len(outboundMsgs)
                    PROVE  HasId(responses, outboundMsgs[j].id)
        BY <3>2
      <4>1. CASE outboundMsgs' = <<>>
        BY <3>2, <4>1
      <4>2. CASE outboundMsgs' # <<>>
        <5>1. connected /\ ~NextIs("DISCONNECT")
          BY <4>2 DEF Calm, GoesOn, Emptied
        <5>. QED
          BY <5>1 DEF CleanInv, Apart
      <4>. QED
        BY <4>1, <4>2
    <3>. QED
      BY <1>2, <3>1, <3>2
  <2>. QED
    BY <2>1, <2>3, <2>4, <2>5, <2>6, <2>7 DEF Apart
<1>5. \A n \in Nat : Flying(n)' => Flying(n) /\ GoesOn
  BY <1>3 DEF Flying, Calm, Emptied
<1>6. OneFlight'
  <2>1. UniqueFor(to_broker', Tokens) /\ UniqueFor(to_client', Acks)
    BY <1>1, UniqueWithin DEF CleanInv, OneFlight
  <2>2. \A n \in Nat : ~(Holds(to_broker', Tokens, n) /\ Holds(to_client', Acks, n))
    BY <1>3 DEF CleanInv, OneFlight
  <2>3. \A n \in Nat : Flying(n)' => connected' /\ HasId(responses', n)
    BY <1>5 DEF CleanInv, OneFlight, GoesOn
  <2>4. \A n \in Nat : Holds(to_broker', {"PUBREL"}, n) => b_up'
    <3>. SUFFICES ASSUME NEW n \in Nat, Holds(to_broker', {"PUBREL"}, n) PROVE b_up'
      OBVIOUS
    <3>1. Flying(n)'
      BY DEF Flying, Holds, Tokens
    <3>2. Holds(to_broker, {"PUBREL"}, n)
      BY <1>3 DEF Tokens
    <3>. QED
      BY <1>5, <3>1, <3>2 DEF CleanInv, OneFlight, GoesOn
  <2>5. connected' => connect_state' = 0
    BY DEF CleanInv, OneFlight, Calm, GoesOn, Emptied
  <2>. QED
    BY <2>1, <2>2, <2>3, <2>4, <2>5 DEF OneFlight
<1>7. Steps'
  <2>1. ASSUME NEW n \in Nat, NEW m \in Sent, InFlight(n, m)'
        PROVE  InFlight(n, m) /\ GoesOn
    <3>1. Flying(n)'
      BY <2>1 DEF InFlight, Flying, Holds, Tokens
    <3>2. InFlight(n, m)
      BY <1>1, <2>1 DEF InFlight, WithinFor, Tokens
    <3>. QED
      BY <1>5, <3>1, <3>2
  <2>2. ASSUME NEW n \in Nat, NEW t \in Acks, Holds(to_client', {t}, n)
        PROVE  Holds(to_client, {t}, n) /\ GoesOn
    <3>1. Flying(n)'
      BY <2>2 DEF Flying, Holds
    <3>. QED
      BY <1>3, <1>5, <2>2, <3>1
  <2>3. ASSUME NEW n \in Nat, Holds(to_broker', {"PUBREL"}, n)
        PROVE  Holds(to_broker, {"PUBREL"}, n) /\ GoesOn
    <3>1. Flying(n)'
      BY <2>3 DEF Flying, Holds, Tokens
    <3>. QED
      BY <1>3, <1>5, <2>3, <3>1 DEF Tokens
  <2>4. GoesOn => \A n \in Nat, m \in Sent : /\ \A next : At(n, m, next) => At(n, m, next)'
                                             /\ UnderWay(n, m) => UnderWay(n, m)'
    BY DEF GoesOn, At, UnderWay
  <2>5. \A n \in Nat, m \in Sent : /\ WithBroker(n, m) => WithBroker(n, m)'
                                   /\ Published(m) => Published(m)'
    BY DEF Calm, WithBroker, Published
  <2>6. "PUBACK" \in Acks /\ "PUBREC" \in Acks /\ "PUBCOMP" \in Acks
    BY DEF Acks
  <2>7. \A n \in Nat, m \in Sent : InFlight(n, m)' => At(n, m, "PUBREC")'
    BY <2>1, <2>4 DEF CleanInv, Steps
  <2>8. \A n \in Nat : Holds(to_client', {"PUBACK"}, n) =>
          \E m \in Sent : m.qos = 1 /\ UnderWay(n, m)' /\ Published(m)'
    BY <2>2, <2>4, <2>5, <2>6 DEF CleanInv, Steps
  <2>9. \A n \in Nat : Holds(to_client', {"PUBREC"}, n) =>
          \E m \in Sent : m.qos = 2 /\ At(n, m, "PUBREC")' /\ WithBroker(n, m)'
    BY <2>2, <2>4, <2>5, <2>6 DEF CleanInv, Steps
  <2>10. \A n \in Nat : Holds(to_broker', {"PUBREL"}, n) =>
          \E m \in Sent : m.qos = 2 /\ At(n, m, "PUBCOMP")' /\ WithBroker(n, m)'
    BY <2>3, <2>4, <2>5 DEF CleanInv, Steps
  <2>11. \A n \in Nat : Holds(to_client', {"PUBCOMP"}, n) =>
          \E m \in Sent : m.qos = 2 /\ At(n, m, "PUBCOMP")' /\ Published(m)'
    BY <2>2, <2>4, <2>5, <2>6 DEF CleanInv, Steps
  <2>. QED
    BY <2>7, <2>8, <2>9, <2>10, <2>11 DEF Steps
<1>8. Receiving'
  <2>1. b_received' = b_received /\ \A m : Published(m) => Published(m)'
    BY DEF Calm, Published
  <2>2. \A r \in b_received : r.id \in Nat
    BY <1>0, DeliveryAssumption DEF Response, MsgId
  <2>3. b_up' => \A r \in b_received' : \/ Holds(to_client', {"PUBREC"}, r.id)
                                        \/ Holds(to_broker', {"PUBREL"}, r.id)
    <3>1. CASE GoesOn
      BY <2>1, <2>2, <3>1 DEF CleanInv, Receiving, GoesOn
    <3>2. CASE Emptied
      <4>. SUFFICES ASSUME b_up', NEW r \in b_received PROVE FALSE
        BY <2>1
      <4>1. b_up /\ ~connected
        BY <3>2 DEF Emptied
      <4>2. Flying(r.id)
        BY <4>1 DEF CleanInv, Receiving, Flying, Holds, Tokens, Acks
      <4>. QED
        BY <2>2, <4>1, <4>2 DEF CleanInv, OneFlight
    <3>. QED
      BY <3>1, <3>2 DEF Calm
  <2>4. \A m \in succeeded' : Published(m)'
    BY <2>1 DEF CleanInv, Receiving, Calm
  <2>. QED
    BY <2>1, <2>3, <2>4 DEF CleanInv, Receiving
<1>. QED
  BY <1>4, <1>6, <1>7, <1>8 DEF CleanInv

\* What stays when something is put behind, or something else is taken
LEMMA HoldsKept ==
    ASSUME NEW S, NEW s \in Seq(S), NEW t \in Seq(S), NEW T, NEW n, Holds(s, T, n),
           \/ t = s
           \/ \E U : Extends(t, s, U)
           \/ s # <<>> /\ Head(s).type \notin T /\ t = Tail(s)
    PROVE  Holds(t, T, n)
<1>1. PICK i \in 1..Len(s) : s[i].type \in T /\ s[i].id = n
  BY DEF Holds
<1>2. CASE t = s
  BY <1>2
<1>3. CASE \E U : Extends(t, s, U)
  <2>1. Len(t) >= Len(s) /\ t[i] = s[i]
    BY <1>3 DEF Extends
  <2>2. i \in 1..Len(t)
    BY <2>1
  <2>. QED
    BY <1>1, <2>1, <2>2 DEF Holds
<1>4. CASE s # <<>> /\ Head(s).type \notin T /\ t = Tail(s)
  <2>1. i # 1
    BY <1>1, <1>4
  <2>2. i - 1 \in 1..Len(t) /\ t[i - 1] = s[i]
    BY <1>4, <2>1
  <2>. QED
    BY <1>1, <2>2 DEF Holds
<1>. QED
  BY <1>2, <1>3, <1>4

\* The exchanges stay as they are while other packets come and go
LEMMA SteadyCalm ==
    ASSUME TypeInv, TypeInv', WithinFor(commands', commands, {"PUBLISH"}),
           UNCHANGED <<responses, outboundMsgs, connected, connect_state, b_up, b_received,
                       published, succeeded>>,
           connected /\ NextIs("DISCONNECT") => NextIs("DISCONNECT")',
           \/ to_broker' = to_broker
           \/ Extends(to_broker', to_broker, Acks)
           \/ to_broker # <<>> /\ Head(to_broker).type \notin Tokens /\ to_broker' = Tail(to_broker),
           \/ to_client' = to_client
           \/ Extends(to_client', to_client, {"CONNACK", "PUBLISH", "PUBREL"})
           \/ to_client # <<>> /\ Head(to_client).type \notin Acks /\ to_client' = Tail(to_client)
    PROVE  Calm
<1>0. /\ to_broker \in Seq(ToBroker) /\ to_broker' \in Seq(ToBroker)
      /\ to_client \in Seq(ToClient) /\ to_client' \in Seq(ToClient)
  BY DEF TypeInv, LinkTypes
<1>1. WithinFor(to_broker', to_broker, Tokens) /\ WithinFor(to_client', to_client, Acks)
  BY FlightChanges DEF Tokens
<1>2. ASSUME NEW n \in Nat
      PROVE  /\ Holds(to_client, {"PUBREC"}, n) => Holds(to_client', {"PUBREC"}, n)
             /\ Holds(to_broker, {"PUBREL"}, n) => Holds(to_broker', {"PUBREL"}, n)
  <2>1. Head(to_client).type \notin Acks => Head(to_client).type \notin {"PUBREC"}
    BY DEF Acks
  <2>2. Head(to_broker).type \notin Tokens => Head(to_broker).type \notin {"PUBREL"}
    BY DEF Tokens
  <2>3. Holds(to_client, {"PUBREC"}, n) => Holds(to_client', {"PUBREC"}, n)
    BY <1>0, <2>1, HoldsKept
  <2>4. Holds(to_broker, {"PUBREL"}, n) => Holds(to_broker', {"PUBREL"}, n)
    BY <1>0, <2>2, HoldsKept
  <2>. QED
    BY <2>3, <2>4
<1>3. GoesOn
  BY <1>2 DEF GoesOn
<1>. QED
  BY <1>1, <1>3 DEF Calm

\* The connection is gone, or a new one has only its CONNECT in flight
LEMMA EmptiedCalm ==
    ASSUME TypeInv, TypeInv', WithinFor(commands', commands, {"PUBLISH"}),
           UNCHANGED <<b_received, published, succeeded>>, b_up' = FALSE,
           \A i \in 1..Len(to_broker') : to_broker'[i].type = "CONNECT", to_client' = <<>>,
           \/ connected' = FALSE
           \/ connected /\ UNCHANGED <<connected, connect_state, commands>>,
           \/ responses' = <<>> /\ outboundMsgs' = <<>> /\ connected' = FALSE
           \/ UNCHANGED <<responses, outboundMsgs>>
    PROVE  Calm
<1>0. /\ to_broker \in Seq(ToBroker) /\ to_broker' \in Seq(ToBroker)
      /\ to_client \in Seq(ToClient) /\ to_client' \in Seq(ToClient)
  BY DEF TypeInv, LinkTypes
<1>1. /\ \A i \in 1..Len(to_broker') : to_broker'[i].type \notin Tokens
      /\ \A i \in 1..Len(to_client') : to_client'[i].type \notin Acks
  BY DEF Tokens
<1>2. WithinFor(to_broker', to_broker, Tokens) /\ WithinFor(to_client', to_client, Acks)
  BY <1>0, <1>1, NoneWithin
<1>3. \A n \in Nat : ~Flying(n)'
  BY <1>1 DEF Flying, Holds
<1>4. NextIs("DISCONNECT") /\ commands' = commands => NextIs("DISCONNECT")'
  BY DEF NextIs
<1>5. Emptied
  BY <1>3, <1>4 DEF Emptied
<1>. QED
  BY <1>2, <1>5 DEF Calm

LEMMA ClosedCalm ==
    ASSUME TypeInv, TypeInv', Close, WithinFor(commands', commands, {"PUBLISH"}),
           UNCHANGED <<b_received, published, succeeded>>,
           \/ responses' = <<>> /\ outboundMsgs' = <<>>
           \/ UNCHANGED <<responses, outboundMsgs>>
    PROVE  Calm
<1>1. \A i \in 1..Len(to_broker') : FALSE
  BY DEF Close
<1>. QED
  BY <1>1, EmptiedCalm DEF Close

LEMMA ConnectFailedCalm ==
    ASSUME CleanSession, TypeInv, TypeInv', NEW messages, ConnectFailed(messages),
           UNCHANGED <<published, succeeded>>
    PROVE  Calm
<1>0. UNCHANGED b_received
  BY DEF ConnectFailed
<1>1. CASE version = 4
  <2>1. Connect(4) \in Command /\ Connect(4).type # "PUBLISH"
    BY CommandTypes DEF Connect
  <2>2. commands' = AddFirst(Connect(4), commands) /\ Close /\ UNCHANGED <<responses, outboundMsgs>>
    BY <1>1 DEF ConnectFailed
  <2>. HIDE DEF Connect
  <2>3. WithinFor(commands', commands, {"PUBLISH"})
    BY <2>1, <2>2, QueueChanges
  <2>. QED
    BY <1>0, <2>2, <2>3, ClosedCalm
<1>2. CASE version # 4
  <2>1. Close /\ commands' = <<>> /\ responses' = <<>> /\ outboundMsgs' = <<>>
    BY <1>2 DEF ConnectFailed, CloseSession, DiscardSession
  <2>2. commands' \in Seq(Command) /\ \A i \in 1..Len(commands') : commands'[i].type \notin {"PUBLISH"}
    BY <2>1 DEF TypeInv, SendTypes
  <2>3. WithinFor(commands', commands, {"PUBLISH"})
    BY <2>2, NoneWithin
  <2>. QED
    BY <1>0, <2>1, <2>3, ClosedCalm
<1>. QED
  BY <1>1, <1>2

LEMMA CalmSend ==
    ASSUME CleanSession, CleanInv, Linked, TypeInv, TypeInv',
           StartConnect \/ CannotConnect \/ LoseConnection \/ NothingToLose
           \/ ConnectTimeout \/ Break \/ PingTimeout
    PROVE  Calm
<1>0. /\ Connect(0) \in Command /\ Connect(4) \in Command /\ Disconnect \in Command
      /\ Connect(0).type # "PUBLISH" /\ Connect(4).type # "PUBLISH" /\ Disconnect.type = "DISCONNECT"
  BY CommandTypes DEF Connect, Disconnect
<1>. HIDE DEF Connect, Disconnect
<1>1. ASSUME StartConnect
      PROVE  Calm
  <2>1. /\ commands # <<>> /\ commands' = Tail(commands) /\ to_client' = <<>>
        /\ to_broker' = <<[type |-> "CONNECT"]>> /\ connected' = FALSE
        /\ UNCHANGED <<responses, outboundMsgs, b_received, b_up, published, succeeded>>
    BY <1>1 DEF StartConnect, NextIs, TypeInv, ConnTypes
  <2>2. b_up' = FALSE
    BY <1>1 DEF StartConnect, Linked, TypeInv, BrokerTypes
  <2>3. \A i \in 1..Len(to_broker') : to_broker'[i].type = "CONNECT"
    BY <2>1
  <2>. QED
    BY <2>1, <2>2, <2>3, QueueChanges, EmptiedCalm
<1>2. ASSUME CannotConnect
      PROVE  Calm
  <2>1. /\ commands # <<>> /\ ~connected
        /\ commands' = Tail(commands) \/ commands' = <<Connect(4)>> \o Tail(commands)
        /\ UNCHANGED <<responses, outboundMsgs, connected, connect_state, b_up, to_broker, to_client,
                       b_received, published, succeeded>>
    BY <1>2 DEF CannotConnect, NextIs
  <2>2. WithinFor(commands', commands, {"PUBLISH"})
    BY <1>0, <2>1, QueueChanges
  <2>. QED
    BY <2>1, <2>2, SteadyCalm
<1>3. ASSUME LoseConnection
      PROVE  Calm
  <2>1. /\ Close /\ commands' = (IF connected THEN <<Connect(0)>> ELSE <<>>)
        /\ responses' = <<>> /\ outboundMsgs' = <<>>
        /\ UNCHANGED <<b_received, published, succeeded>>
    BY <1>3 DEF LoseConnection, CloseSession, DiscardSession
  <2>2. commands' \in Seq(Command) /\ \A i \in 1..Len(commands') : commands'[i].type \notin {"PUBLISH"}
    BY <1>0, <2>1 DEF TypeInv, SendTypes
  <2>3. WithinFor(commands', commands, {"PUBLISH"})
    BY <2>2, NoneWithin
  <2>. QED
    BY <2>1, <2>3, ClosedCalm
<1>4. ASSUME NothingToLose
      PROVE  Calm
  <2>1. /\ commands # <<>> /\ commands' = Tail(commands) /\ ~connected
        /\ UNCHANGED <<responses, outboundMsgs, connected, connect_state, b_up, to_broker, to_client,
                       b_received, published, succeeded>>
    BY <1>4 DEF NothingToLose, NextIs
  <2>. QED
    BY <2>1, QueueChanges, SteadyCalm
<1>5. ASSUME ConnectTimeout
      PROVE  Calm
  <2>1. UNCHANGED <<published, succeeded>> /\ ConnectFailed(messageQueue)
    BY <1>5 DEF ConnectTimeout
  <2>. QED
    BY <2>1, ConnectFailedCalm
<1>6. ASSUME Break
      PROVE  Calm
  <2>1. /\ UNCHANGED <<commands, responses, outboundMsgs, connected, connect_state, b_received, published, succeeded>>
        /\ to_broker' = <<>> /\ to_client' = <<>> /\ b_up' = FALSE
    BY <1>6 DEF Break
  <2>2. /\ \A i \in 1..Len(to_broker') : FALSE
        /\ connected' = FALSE \/ connected
    BY <2>1 DEF TypeInv, ConnTypes
  <2>3. WithinFor(commands', commands, {"PUBLISH"})
    BY <2>1, QueueChanges
  <2>. QED
    BY <2>1, <2>2, <2>3, EmptiedCalm
<1>7. ASSUME PingTimeout
      PROVE  Calm
  <2>1. /\ commands' = AddFirst(Disconnect, commands)
        /\ UNCHANGED <<responses, outboundMsgs, connected, connect_state, b_up, to_broker, to_client,
                       b_received, published, succeeded>>
    BY <1>7 DEF PingTimeout
  <2>2. WithinFor(commands', commands, {"PUBLISH"})
    BY <1>0, <2>1, QueueChanges
  <2>3. ~NextIs("DISCONNECT")
    BY <1>7 DEF PingTimeout
  <2>. QED
    BY <2>1, <2>2, <2>3, SteadyCalm
<1>. QED
  BY <1>1, <1>2, <1>3, <1>4, <1>5, <1>6, <1>7

LEMMA CalmReceive ==
    ASSUME TypeInv, TypeInv',
           RecvPublish1 \/ RecvPublish2 \/ RecvPubrel \/ RecvStrayPubrel \/ RecvPingresp
           \/ RecvConnack
    PROVE  Calm
<1>0. /\ to_broker \in Seq(ToBroker) /\ LinkTypes
  BY DEF TypeInv, LinkTypes
<1>1. ASSUME NEW type, Reads(type), type \notin Acks,
             to_broker' = to_broker \/ Extends(to_broker', to_broker, Acks),
             UNCHANGED <<commands, responses, outboundMsgs, connected, connect_state, b_up, b_received,
                         published, succeeded>>
      PROVE  Calm
  <2>1. to_client # <<>> /\ Head(to_client).type \notin Acks /\ to_client' = Tail(to_client)
    BY <1>1 DEF Reads
  <2>2. NextIs("DISCONNECT") => NextIs("DISCONNECT")'
    BY <1>1 DEF NextIs
  <2>3. WithinFor(commands', commands, {"PUBLISH"})
    BY <1>1, QueueChanges
  <2>. QED
    BY <1>1, <2>1, <2>2, <2>3, SteadyCalm
<1>2. ASSUME NEW type, Reads(type), NEW t \in Acks, Answer(Packet(t, Head(to_client).id))
      PROVE  Extends(to_broker', to_broker, Acks)
  <2>1. Head(to_client).id \in Nat
    BY <1>0, <1>2, ReadsProps, PacketTypes
  <2>. DEFINE p == Packet(t, Head(to_client).id)
  <2>2. p \in ToBroker
    BY <2>1, PacketTypes DEF Acks
  <2>3. p.type \in Acks /\ to_broker' = Append(to_broker, p)
    BY <1>2 DEF Packet, Answer
  <2>. HIDE DEF p
  <2>. QED
    BY <1>0, <2>2, <2>3, ExtendsAppend
<1>a. /\ "PUBACK" \in Acks /\ "PUBREC" \in Acks /\ "PUBCOMP" \in Acks
      /\ "PUBLISH" \notin Acks /\ "PUBREL" \notin Acks /\ "CONNACK" \notin Acks
  BY DEF Acks
<1>3. ASSUME RecvPublish1
      PROVE  Calm
  BY <1>1, <1>2, <1>3, <1>a DEF RecvPublish1
<1>4. ASSUME RecvPublish2
      PROVE  Calm
  BY <1>1, <1>2, <1>4, <1>a DEF RecvPublish2
<1>5. ASSUME RecvPubrel
      PROVE  Calm
  BY <1>1, <1>2, <1>5, <1>a DEF RecvPubrel
<1>6. ASSUME RecvStrayPubrel
      PROVE  Calm
  <2>1. to_broker' = to_broker \/ Extends(to_broker', to_broker, Acks)
    BY <1>2, <1>6, <1>a DEF RecvStrayPubrel, AnswerStray
  <2>. QED
    BY <1>1, <1>6, <1>a, <2>1 DEF RecvStrayPubrel
<1>7. ASSUME RecvPingresp
      PROVE  Calm
  BY <1>7, QueueChanges, SteadyCalm DEF RecvPingresp, NextIs
<1>8. ASSUME RecvConnack
      PROVE  Calm
  BY <1>1, <1>8, <1>a DEF RecvConnack
<1>. QED
  BY <1>3, <1>4, <1>5, <1>6, <1>7, <1>8

LEMMA CalmTurn ==
    ASSUME CleanSession, CleanInv, TypeInv, TypeInv',
           ReadFails \/ TurnLost \/ TurnFails \/ TurnEnds \/ ConnectionComplete \/ ConnackUnexpected
    PROVE  Calm
<1>1. ASSUME UNCHANGED <<commands, responses, outboundMsgs, connected, connect_state, b_up, to_broker,
                         to_client, b_received, published, succeeded>>
      PROVE  Calm
  BY <1>1, QueueChanges, SteadyCalm DEF NextIs
<1>2. ASSUME ReadFails
      PROVE  Calm
  BY <1>1, <1>2, ConnectFailedCalm DEF ReadFails
<1>3. ASSUME TurnLost \/ TurnEnds
      PROVE  Calm
  BY <1>1, <1>3 DEF TurnLost, TurnEnds
<1>4. ASSUME TurnFails
      PROVE  Calm
  <2>1. UNCHANGED <<responses, outboundMsgs, b_received, published, succeeded>>
    BY <1>4 DEF TurnFails
  <2>2. CASE connected
    <3>1. /\ commands' = AddFirst(Disconnect, commands)
          /\ UNCHANGED <<connected, connect_state, b_up, to_broker, to_client>>
      BY <1>4, <2>2 DEF TurnFails
    <3>2. Disconnect \in Command /\ Disconnect.type = "DISCONNECT"
      BY CommandTypes DEF Disconnect
    <3>. HIDE DEF Disconnect
    <3>3. WithinFor(commands', commands, {"PUBLISH"})
      BY <3>1, <3>2, QueueChanges
    <3>4. NextIs("DISCONNECT") => NextIs("DISCONNECT")'
      BY <3>1, <3>2 DEF NextIs, AddFirst
    <3>. QED
      BY <2>1, <3>1, <3>3, <3>4, SteadyCalm
  <2>3. CASE ~connected
    <3>1. Close /\ commands' = commands
      BY <1>4, <2>3 DEF TurnFails
    <3>2. WithinFor(commands', commands, {"PUBLISH"})
      BY <3>1, QueueChanges
    <3>. QED
      BY <2>1, <3>1, <3>2, ClosedCalm
  <2>. QED
    BY <2>2, <2>3
<1>5. ASSUME ConnectionComplete
      PROVE  Calm
  <2>1. /\ commands' = <<>> /\ responses' = <<>> /\ outboundMsgs' = <<>> /\ connect_state' = 0
        /\ UNCHANGED <<to_broker, to_client, b_up, b_received, published, succeeded>>
        /\ connect_state = 3
    BY <1>5 DEF ConnectionComplete, DiscardSession
  <2>2. ~connected
    BY <2>1 DEF CleanInv, OneFlight
  <2>3. commands' \in Seq(Command) /\ \A i \in 1..Len(commands') : commands'[i].type \notin {"PUBLISH"}
    BY <2>1 DEF TypeInv, SendTypes
  <2>4. WithinFor(commands', commands, {"PUBLISH"})
    BY <2>3, NoneWithin
  <2>5. WithinFor(to_broker', to_broker, Tokens) /\ WithinFor(to_client', to_client, Acks)
    BY <2>1, FlightChanges DEF Tokens
  <2>6. \A n \in Nat : ~Flying(n)'
    BY <2>1, <2>2 DEF CleanInv, OneFlight, Flying, Holds
  <2>7. Emptied
    BY <2>1, <2>2, <2>6 DEF Emptied
  <2>. QED
    BY <2>1, <2>4, <2>5, <2>7 DEF Calm
<1>6. ASSUME ConnackUnexpected
      PROVE  Calm
  BY <1>6, ConnectFailedCalm DEF ConnackUnexpected
<1>. QED
  BY <1>2, <1>3, <1>4, <1>5, <1>6

LEMMA CalmBroker ==
    ASSUME TypeInv, TypeInv', BrokerPubrec \/ BrokerEnd \/ \E q \in Qos : BrokerSend(q)
    PROVE  Calm
<1>. DEFINE T == {"CONNACK", "PUBLISH", "PUBREL"}
<1>0. to_client \in Seq(ToClient) /\ LinkTypes
  BY DEF TypeInv, LinkTypes
<1>1. ASSUME BrokerOnly, UNCHANGED <<b_up, b_received, published>>,
             \/ to_broker' = to_broker
             \/ \E type : BrokerReads(type) /\ type \notin Tokens,
             to_client' = to_client \/ Extends(to_client', to_client, T)
      PROVE  Calm
  <2>1. \/ to_broker' = to_broker
        \/ to_broker # <<>> /\ Head(to_broker).type \notin Tokens /\ to_broker' = Tail(to_broker)
    BY <1>1 DEF BrokerReads
  <2>2. /\ UNCHANGED <<commands, responses, outboundMsgs, connected, connect_state, succeeded>>
        /\ NextIs("DISCONNECT") => NextIs("DISCONNECT")'
    BY <1>1 DEF BrokerOnly, NextIs
  <2>3. WithinFor(commands', commands, {"PUBLISH"})
    BY <2>2, QueueChanges
  <2>. QED
    BY <1>1, <2>1, <2>2, <2>3, SteadyCalm
<1>2. ASSUME NEW p \in ToClient, p.type \in T, to_client' = Append(to_client, p)
      PROVE  Extends(to_client', to_client, T)
  BY <1>0, <1>2, ExtendsAppend
<1>. HIDE DEF T
<1>3. ASSUME BrokerPubrec
      PROVE  Calm
  <2>. DEFINE p == Packet("PUBREL", Head(to_broker).id)
  <2>1. Head(to_broker).id \in Nat
    BY <1>0, <1>3, BrokerReadsProps, PacketTypes DEF BrokerPubrec
  <2>2. p \in ToClient
    BY <2>1, PacketTypes
  <2>3. p.type \in T /\ to_client' = Append(to_client, p)
    BY <1>3 DEF BrokerPubrec, BrokerAnswers, Packet, T
  <2>. HIDE DEF p
  <2>4. Extends(to_client', to_client, T)
    BY <1>2, <2>2, <2>3
  <2>. QED
    BY <1>1, <1>3, <2>4 DEF BrokerPubrec, Tokens
<1>4. ASSUME BrokerEnd
      PROVE  Calm
  BY <1>1, <1>4 DEF BrokerEnd, Tokens
<1>5. ASSUME NEW q \in Qos, BrokerSend(q)
      PROVE  Calm
  <2>1. PICK e \in Owing : to_client' = IF b_up THEN Append(to_client, Publish(e.id, FALSE, e.msg)) ELSE to_client
    BY <1>5, BrokerSendProps
  <2>. DEFINE p == Publish(e.id, FALSE, e.msg)
  <2>2. e.id \in Nat /\ e.msg \in Incoming
    BY DEF Owing
  <2>3. p \in ToClient
    BY <2>2, PacketTypes
  <2>4. p.type \in T
    BY DEF Publish, T
  <2>5. to_client' = to_client \/ to_client' = Append(to_client, p)
    BY <2>1
  <2>. HIDE DEF p
  <2>6. to_client' = to_client \/ Extends(to_client', to_client, T)
    BY <1>2, <2>3, <2>4, <2>5
  <2>. QED
    BY <1>1, <1>5, <2>6 DEF BrokerSend
<1>. QED
  BY <1>3, <1>4, <1>5

-----------------------------------------------------------------------------
(* A message is accepted, and its exchange begins.                         *)

LEMMA CleanSend ==
    ASSUME CleanInv, TypeInv, NEW q \in Qos, Send(q)
    PROVE  CleanInv'
<1>. DEFINE id0 == NextMsgId
            c == [type |-> "PUBLISH", id |-> id0, msg |-> [seq |-> sends + 1, qos |-> q]]
<1>0. commands \in Seq(Command)
  BY DEF TypeInv, SendTypes
<1>1. ~IdInUse(id0)
  BY NextIdProps DEF Send
<1>2. /\ commands' = Append(commands, c)
      /\ UNCHANGED <<responses, outboundMsgs, connected, connect_state, b_up, to_broker, to_client,
                     b_received, published, succeeded>>
  BY DEF Send
<1>3. c.type = "PUBLISH" /\ c.id = id0
  OBVIOUS
<1>. HIDE DEF id0, c
<1>. DEFINE l == Len(commands)
            w == commands'
<1>4. /\ l \in Nat /\ Len(w) = l + 1 /\ w[l + 1] = c /\ \A i \in 1..l : w[i] = commands[i]
  BY <1>0, <1>2
<1>5. l = Len(commands) /\ w = commands'
  OBVIOUS
<1>. HIDE DEF l, w
<1>6. /\ \A i \in 1..l : commands[i].type = "PUBLISH" => commands[i].id # id0
      /\ ~HasId(responses, id0)
  BY <1>1, <1>5 DEF IdInUse, IdInCommands
<1>7. QueuedOnce'
  <2>. SUFFICES ASSUME NEW i \in 1..l + 1, NEW j \in 1..l + 1,
                       w[i].type = "PUBLISH" /\ w[j].type = "PUBLISH", w[i].id = w[j].id
                PROVE  i = j
    BY <1>4, <1>5 DEF QueuedOnce
  <2>1. CASE i \in 1..l /\ j \in 1..l
    BY <1>4, <1>5, <2>1 DEF CleanInv, Apart, QueuedOnce
  <2>2. CASE i = l + 1 /\ j \in 1..l
    BY <1>3, <1>4, <1>6, <2>2
  <2>3. CASE i \in 1..l /\ j = l + 1
    BY <1>3, <1>4, <1>6, <2>3
  <2>. QED
    BY <1>4, <2>1, <2>2, <2>3
<1>8. \A i \in 1..Len(commands') : commands'[i].type = "PUBLISH" => ~HasId(responses', commands'[i].id)
  <2>. SUFFICES ASSUME NEW i \in 1..l + 1, w[i].type = "PUBLISH" PROVE ~HasId(responses, w[i].id)
    BY <1>2, <1>4, <1>5
  <2>1. CASE i \in 1..l
    BY <1>4, <1>5, <2>1 DEF CleanInv, Apart
  <2>2. CASE i = l + 1
    BY <1>3, <1>4, <1>6, <2>2
  <2>. QED
    BY <1>4, <2>1, <2>2
<1>9. NextIs("DISCONNECT") => NextIs("DISCONNECT")'
  <2>. SUFFICES ASSUME NextIs("DISCONNECT") PROVE NextIs("DISCONNECT")'
    OBVIOUS
  <2>1. commands # <<>> /\ Head(commands).type = "DISCONNECT"
    BY DEF NextIs
  <2>2. commands' # <<>> /\ Head(commands') = Head(commands)
    BY <1>0, <1>2, <2>1
  <2>. QED
    BY <2>1, <2>2 DEF NextIs
<1>10. Apart'
  BY <1>2, <1>7, <1>8, <1>9 DEF CleanInv, Apart, OwnIds, UniqueIds, ResponsesHaveMessages, HasId
<1>11. OneFlight'
  BY <1>2 DEF CleanInv, OneFlight, Flying
<1>12. Steps'
  BY <1>2 DEF CleanInv, Steps, InFlight, At, UnderWay, WithBroker, Published
<1>13. Receiving'
  BY <1>2 DEF CleanInv, Receiving, Published
<1>. QED
  BY <1>10, <1>11, <1>12, <1>13 DEF CleanInv

(***************************************************************************)
(* A message is stored under way; either it awaits an answer from now on,  *)
(* and may be in flight, or the connection is to be given up.              *)
(***************************************************************************)
Began(c) ==
    /\ Stored(c)
    /\ \/ /\ responses' = Append(responses, [id |-> c.id, msg |-> c.msg])
          /\ to_broker' = to_broker \/ to_broker' = Append(to_broker, Publish(c.id, FALSE, c.msg))
       \/ NextIs("DISCONNECT")' /\ UNCHANGED <<responses, to_broker>>
    /\ WithinFor(commands', Tail(commands), {"PUBLISH"})
    /\ UNCHANGED <<connected, connect_state, b_up, to_client, b_received, published, succeeded>>

LEMMA HasIdAppend ==
    ASSUME NEW S, NEW s \in Seq(S), NEW e \in S, NEW id
    PROVE  HasId(Append(s, e), id) <=> HasId(s, id) \/ e.id = id
<1>. DEFINE l == Len(s)
            w == Append(s, e)
<1>1. /\ l \in Nat /\ Len(w) = l + 1 /\ w[l + 1] = e /\ \A i \in 1..l : w[i] = s[i]
      /\ l = Len(s) /\ w = Append(s, e)
  OBVIOUS
<1>. HIDE DEF l, w
<1>2. ASSUME HasId(w, id)
      PROVE  HasId(s, id) \/ e.id = id
  <2>1. PICK i \in 1..l + 1 : w[i].id = id
    BY <1>1, <1>2 DEF HasId
  <2>2. i = l + 1 \/ i \in 1..l
    BY <1>1
  <2>. QED
    BY <1>1, <2>1, <2>2 DEF HasId
<1>3. HasId(s, id) => HasId(w, id)
  <2>1. \A i \in 1..l : i \in 1..Len(w)
    BY <1>1
  <2>. QED
    BY <1>1, <2>1 DEF HasId
<1>4. e.id = id => HasId(w, id)
  <2>1. l + 1 \in 1..Len(w)
    BY <1>1
  <2>. QED
    BY <1>1, <2>1 DEF HasId
<1>. QED
  BY <1>1, <1>2, <1>3, <1>4

LEMMA OwnIdsAppend ==
    ASSUME NEW S, NEW s \in Seq(S), NEW e \in S, OwnIds(s), ~HasId(s, e.id)
    PROVE  OwnIds(Append(s, e))
<1>. DEFINE l == Len(s)
            w == Append(s, e)
<1>1. /\ l \in Nat /\ Len(w) = l + 1 /\ w[l + 1] = e /\ \A i \in 1..l : w[i] = s[i]
      /\ l = Len(s) /\ w = Append(s, e)
  OBVIOUS
<1>. HIDE DEF l, w
<1>. SUFFICES ASSUME NEW i \in 1..l + 1, NEW j \in 1..l + 1, w[i].id = w[j].id
              PROVE  i = j
  BY <1>1 DEF OwnIds
<1>2. CASE i \in 1..l /\ j \in 1..l
  BY <1>1, <1>2 DEF OwnIds
<1>3. CASE i = l + 1 /\ j \in 1..l
  BY <1>1, <1>3 DEF HasId
<1>4. CASE i \in 1..l /\ j = l + 1
  BY <1>1, <1>4 DEF HasId
<1>. QED
  BY <1>1, <1>2, <1>3, <1>4

\* The rest of the queue
LEMMA RestOfQueue ==
    ASSUME commands \in Seq(Command), commands' \in Seq(Command), commands # <<>>, QueuedOnce,
           Head(commands).type = "PUBLISH", WithinFor(commands', Tail(commands), {"PUBLISH"})
    PROVE  /\ QueuedOnce'
           /\ \A i \in 1..Len(commands') : commands'[i].type = "PUBLISH" =>
                 /\ commands'[i].id # Head(commands).id
                 /\ \E k \in 1..Len(commands) : commands'[i] = commands[k]
<1>1. /\ 1 \in 1..Len(commands) /\ commands[1] = Head(commands)
      /\ \A k \in 1..Len(Tail(commands)) : k + 1 \in 1..Len(commands) /\ Tail(commands)[k] = commands[k + 1]
  OBVIOUS
<1>2. PICK f \in [1..Len(commands') -> Int] :
         /\ \A i \in 1..Len(commands') : commands'[i].type \in {"PUBLISH"} =>
               f[i] \in 1..Len(Tail(commands)) /\ commands'[i] = Tail(commands)[f[i]]
         /\ \A i, j \in 1..Len(commands') :
               commands'[i].type \in {"PUBLISH"} /\ commands'[j].type \in {"PUBLISH"} /\ i < j => f[i] < f[j]
  BY DEF WithinFor
<1>3. \A i, j \in 1..Len(commands) :
         commands[i].type = "PUBLISH" /\ commands[j].type = "PUBLISH" /\ commands[i].id = commands[j].id => i = j
  BY DEF QueuedOnce
<1>4. ASSUME NEW i \in 1..Len(commands'), commands'[i].type = "PUBLISH"
      PROVE  f[i] \in Int /\ f[i] + 1 \in 1..Len(commands) /\ f[i] + 1 # 1 /\ commands'[i] = commands[f[i] + 1]
  <2>1. f[i] \in 1..Len(Tail(commands)) /\ commands'[i] = Tail(commands)[f[i]]
    BY <1>2, <1>4
  <2>2. f[i] + 1 # 1
    BY <2>1
  <2>. QED
    BY <1>1, <2>1, <2>2
<1>5. ASSUME NEW i \in 1..Len(commands'), NEW j \in 1..Len(commands'),
             commands'[i].type = "PUBLISH" /\ commands'[j].type = "PUBLISH",
             commands'[i].id = commands'[j].id
      PROVE  i = j
  <2>1. f[i] + 1 = f[j] + 1
    BY <1>3, <1>4, <1>5
  <2>2. f[i] = f[j] /\ f[i] \in Int
    BY <1>4, <1>5, <2>1
  <2>3. ~(i < j) /\ ~(j < i)
    BY <1>2, <1>5, <2>2
  <2>. QED
    BY <2>3
<1>6. ASSUME NEW i \in 1..Len(commands'), commands'[i].type = "PUBLISH"
      PROVE  commands'[i].id # Head(commands).id
  <2>1. PICK k \in 1..Len(commands) : k # 1 /\ commands'[i] = commands[k]
    BY <1>4, <1>6
  <2>. QED
    BY <1>1, <1>3, <1>6, <2>1
<1>7. \A i \in 1..Len(commands') : commands'[i].type = "PUBLISH" => \E k \in 1..Len(commands) : commands'[i] = commands[k]
  BY <1>4
<1>. QED
  BY <1>5, <1>6, <1>7 DEF QueuedOnce

LEMMA CleanBegan ==
    ASSUME CleanInv, TypeInv, TypeInv', CanPublish, NEW c, c = Head(commands), Began(c)
    PROVE  CleanInv'
<1>0. /\ commands \in Seq(Command) /\ commands' \in Seq(Command) /\ responses \in Seq(Response)
      /\ outboundMsgs \in Seq(Entries(Sent)) /\ to_broker \in Seq(ToBroker)
      /\ commands # <<>> /\ c.type = "PUBLISH" /\ connected /\ connect_state = 0
      /\ ~NextIs("DISCONNECT")
  BY DEF TypeInv, SendTypes, SessionTypes, LinkTypes, CanPublish, NextIs
<1>1. 1 \in 1..Len(commands) /\ commands[1] = c /\ c \in Command
  BY <1>0
<1>2. c.id \in MsgId /\ c.id \in Nat /\ c.msg \in Sent
  BY <1>0, <1>1, CommandTypes, DeliveryAssumption DEF MsgId
<1>3. ~HasId(responses, c.id)
  BY <1>0, <1>1 DEF CleanInv, Apart
<1>4. ~HasId(outboundMsgs, c.id)
  <2>1. \A j \in 1..Len(outboundMsgs) : HasId(responses, outboundMsgs[j].id)
    BY <1>0 DEF CleanInv, Apart
  <2>. QED
    BY <1>3, <2>1 DEF HasId
<1>. DEFINE e == [id |-> c.id, msg |-> c.msg, next |-> "PUBREC"]
            a == [id |-> c.id, msg |-> c.msg]
            p == Publish(c.id, FALSE, c.msg)
<1>5. e \in Entries(Sent) /\ e.id = c.id /\ e.msg = c.msg /\ e.next = "PUBREC"
  BY <1>2 DEF Entries
<1>6. a \in Response /\ a.id = c.id /\ a.msg = c.msg
  BY <1>2 DEF Response
<1>7. p \in ToBroker /\ p.type = "PUBLISH" /\ p.id = c.id /\ p.msg = c.msg
  BY <1>2, PacketTypes DEF Publish
<1>8. /\ outboundMsgs' = Append(outboundMsgs, e)
      /\ \/ /\ responses' = Append(responses, a)
            /\ to_broker' = to_broker \/ to_broker' = Append(to_broker, p)
         \/ NextIs("DISCONNECT")' /\ UNCHANGED <<responses, to_broker>>
      /\ UNCHANGED <<connected, connect_state, b_up, to_client, b_received, published, succeeded>>
  BY DEF Began, Stored
<1>. HIDE DEF e, a, p
<1>. DEFINE l == Len(outboundMsgs)
            w == outboundMsgs'
<1>9. /\ l \in Nat /\ l = Len(outboundMsgs) /\ Len(w) = l + 1 /\ w[l + 1] = e
      /\ \A i \in 1..l : i \in 1..Len(w) /\ w[i] = outboundMsgs[i]
      /\ \A i \in 1..Len(w) : i = l + 1 \/ i \in 1..l
      /\ l + 1 \in 1..Len(w)
  BY <1>0, <1>5, <1>8, AppendAt
<1>10. /\ \A n, m, next : At(n, m, next) => At(n, m, next)'
       /\ \A n, m : UnderWay(n, m) => UnderWay(n, m)'
       /\ At(c.id, c.msg, "PUBREC")'
  BY <1>5, <1>9 DEF At, UnderWay
<1>11. \A n : /\ HasId(responses', n) => HasId(responses, n) \/ n = c.id
              /\ HasId(responses, n) => HasId(responses', n)
  <2>1. CASE responses' = responses
    BY <2>1
  <2>2. CASE responses' = Append(responses, a)
    BY <1>0, <1>6, <2>2, HasIdAppend
  <2>. QED
    BY <1>8, <2>1, <2>2
<1>12. Apart'
  <2>1. /\ QueuedOnce'
        /\ \A i \in 1..Len(commands') : commands'[i].type = "PUBLISH" =>
              /\ commands'[i].id # c.id
              /\ \E k \in 1..Len(commands) : commands'[i] = commands[k]
    BY <1>0, RestOfQueue DEF CleanInv, Apart, Began
  <2>2. \A i \in 1..Len(commands') : commands'[i].type = "PUBLISH" => ~HasId(responses', commands'[i].id)
    BY <1>11, <2>1 DEF CleanInv, Apart
  <2>3. OwnIds(responses')
    BY <1>0, <1>3, <1>6, <1>8, OwnIdsAppend DEF CleanInv, Apart
  <2>4. UniqueIds'
    <3>1. OwnIds(outboundMsgs)
      BY DEF CleanInv, Apart, UniqueIds, OwnIds
    <3>2. OwnIds(outboundMsgs')
      BY <1>0, <1>4, <1>5, <1>8, <3>1, OwnIdsAppend
    <3>. QED
      BY <3>2 DEF OwnIds, UniqueIds
  <2>5. ResponsesHaveMessages'
    <3>1. \A i \in 1..Len(responses) : UnderWay(responses[i].id, responses[i].msg)
      BY DEF CleanInv, Apart, ResponsesHaveMessages, UnderWay
    <3>2. UnderWay(c.id, c.msg)'
      BY <1>10 DEF At, UnderWay
    <3>3. \A i \in 1..Len(responses') : \/ i \in 1..Len(responses) /\ responses'[i] = responses[i]
                                        \/ responses'[i] = a
      <4>1. CASE responses' = responses
        BY <4>1
      <4>2. CASE responses' = Append(responses, a)
        BY <1>0, <1>6, <4>2, AppendAt
      <4>. QED
        BY <1>8, <4>1, <4>2
    <3>. SUFFICES ASSUME NEW i \in 1..Len(responses')
                  PROVE  \E j \in 1..Len(outboundMsgs') :
                            outboundMsgs'[j].id = responses'[i].id /\ outboundMsgs'[j].msg = responses'[i].msg
      BY DEF ResponsesHaveMessages
    <3>4. PICK r : r = responses'[i]
      OBVIOUS
    <3>5. UnderWay(r.id, r.msg)'
      BY <1>6, <1>10, <3>1, <3>2, <3>3, <3>4
    <3>. QED
      BY <3>4, <3>5 DEF UnderWay
  <2>6. ASSUME ~NextIs("DISCONNECT")', NEW j \in 1..Len(outboundMsgs')
        PROVE  HasId(responses', outboundMsgs'[j].id)
    <3>1. responses' = Append(responses, a)
      BY <1>8, <2>6
    <3>2. CASE j = l + 1
      BY <1>0, <1>5, <1>6, <1>9, <3>1, <3>2, HasIdAppend
    <3>3. CASE j \in 1..l
      BY <1>0, <1>9, <1>11, <3>3 DEF CleanInv, Apart
    <3>. QED
      BY <1>9, <3>2, <3>3
  <2>. QED
    BY <2>1, <2>2, <2>3, <2>4, <2>5, <2>6 DEF Apart
<1>13. ~Flying(c.id)
  BY <1>2, <1>3 DEF CleanInv, OneFlight
<1>14. ASSUME NEW n \in Nat
       PROVE  /\ \A T \in SUBSET Tokens : Holds(to_broker', T, n) => Holds(to_broker, T, n) \/ (n = c.id /\ "PUBLISH" \in T)
              /\ Holds(to_broker, {"PUBREL"}, n) => Holds(to_broker', {"PUBREL"}, n)
              /\ Flying(n)' => Flying(n) \/ (n = c.id /\ responses' = Append(responses, a))
              /\ \A m \in Sent : InFlight(n, m)' => InFlight(n, m) \/ (n = c.id /\ m = c.msg)
  <2>1. CASE to_broker' = to_broker
    BY <1>8, <2>1 DEF Flying, InFlight
  <2>2. CASE to_broker' = Append(to_broker, p) /\ responses' = Append(responses, a)
    <3>1. \A T : Holds(to_broker', T, n) => Holds(to_broker, T, n) \/ (n = c.id /\ "PUBLISH" \in T)
      BY <1>0, <1>7, <2>2, HoldsAppend
    <3>2. \A i \in 1..Len(to_broker') : \/ i \in 1..Len(to_broker) /\ to_broker'[i] = to_broker[i]
                                        \/ to_broker'[i] = p
      BY <1>0, <1>7, <2>2, AppendAt
    <3>3. \A m \in Sent : InFlight(n, m)' => InFlight(n, m) \/ (n = c.id /\ m = c.msg)
      BY <1>7, <3>2 DEF InFlight
    <3>4. Holds(to_broker, {"PUBREL"}, n) => Holds(to_broker', {"PUBREL"}, n)
      <4>1. Extends(to_broker', to_broker, {"PUBLISH"}) /\ to_broker' \in Seq(ToBroker)
        BY <1>0, <1>7, <2>2, AppendAt, ExtendsAppend
      <4>. QED
        BY <1>0, <4>1, HoldsKept
    <3>. QED
      BY <1>8, <2>2, <3>1, <3>3, <3>4 DEF Flying
  <2>. QED
    BY <1>8, <2>1, <2>2
<1>15. OneFlight'
  <2>1. UniqueFor(to_broker', Tokens)
    <3>1. ~Holds(to_broker, Tokens, p.id)
      BY <1>7, <1>13 DEF Flying
    <3>2. to_broker' = to_broker \/ to_broker' = Append(to_broker, p)
      BY <1>8
    <3>. QED
      BY <1>0, <1>7, <3>1, <3>2, UniqueAppend DEF CleanInv, OneFlight
  <2>2. UniqueFor(to_client', Acks)
    BY <1>8 DEF CleanInv, OneFlight
  <2>3. \A n \in Nat : ~(Holds(to_broker', Tokens, n) /\ Holds(to_client', Acks, n))
    BY <1>8, <1>13, <1>14 DEF CleanInv, OneFlight, Flying
  <2>4. ASSUME NEW n \in Nat, Flying(n)'
        PROVE  connected' /\ HasId(responses', n)
    <3>1. CASE Flying(n)
      BY <1>8, <1>11, <3>1 DEF CleanInv, OneFlight
    <3>2. CASE n = c.id /\ responses' = Append(responses, a)
      BY <1>0, <1>6, <1>8, <3>2, HasIdAppend
    <3>. QED
      BY <1>14, <2>4, <3>1, <3>2
  <2>5. \A n \in Nat : Holds(to_broker', {"PUBREL"}, n) => b_up'
    BY <1>8, <1>14 DEF CleanInv, OneFlight, Tokens
  <2>. QED
    BY <1>0, <1>8, <2>1, <2>2, <2>3, <2>4, <2>5 DEF OneFlight
<1>16. Steps'
  <2>1. \A n, m : (WithBroker(n, m) => WithBroker(n, m)') /\ (Published(m) => Published(m)')
    BY <1>8 DEF WithBroker, Published
  <2>2. \A n \in Nat, m \in Sent : InFlight(n, m)' => At(n, m, "PUBREC")'
    BY <1>10, <1>14 DEF CleanInv, Steps
  <2>3. /\ \A n \in Nat : Holds(to_client', {"PUBACK"}, n) =>
             \E m \in Sent : m.qos = 1 /\ UnderWay(n, m)' /\ Published(m)'
        /\ \A n \in Nat : Holds(to_client', {"PUBREC"}, n) =>
             \E m \in Sent : m.qos = 2 /\ At(n, m, "PUBREC")' /\ WithBroker(n, m)'
        /\ \A n \in Nat : Holds(to_client', {"PUBCOMP"}, n) =>
             \E m \in Sent : m.qos = 2 /\ At(n, m, "PUBCOMP")' /\ Published(m)'
    BY <1>8, <1>10, <2>1 DEF CleanInv, Steps
  <2>4. \A n \in Nat : Holds(to_broker', {"PUBREL"}, n) =>
          \E m \in Sent : m.qos = 2 /\ At(n, m, "PUBCOMP")' /\ WithBroker(n, m)'
    <3>1. \A n \in Nat : Holds(to_broker', {"PUBREL"}, n) => Holds(to_broker, {"PUBREL"}, n)
      BY <1>14 DEF Tokens
    <3>. QED
      BY <1>10, <2>1, <3>1 DEF CleanInv, Steps
  <2>. QED
    BY <2>2, <2>3, <2>4 DEF Steps
<1>17. Receiving'
  <2>1. b_received \subseteq Response
    BY DEF TypeInv, BrokerTypes
  <2>2. \A r \in b_received : r.id \in Nat
    BY <2>1, DeliveryAssumption DEF Response, MsgId
  <2>3. b_up' => \A r \in b_received' : Holds(to_client', {"PUBREC"}, r.id) \/ Holds(to_broker', {"PUBREL"}, r.id)
    BY <1>8, <1>14, <2>2 DEF CleanInv, Receiving
  <2>. QED
    BY <1>8, <2>3 DEF CleanInv, Receiving, Published
<1>. QED
  BY <1>12, <1>15, <1>16, <1>17 DEF CleanInv

LEMMA CleanPublish ==
    ASSUME CleanInv, TypeInv, TypeInv', PublishCommand \/ PublishFails
    PROVE  CleanInv'
<1>0. commands \in Seq(Command) /\ CanPublish /\ commands # <<>>
  BY DEF TypeInv, SendTypes, PublishCommand, PublishFails, CanPublish, NextIs
<1>1. WithinFor(Tail(commands), Tail(commands), {"PUBLISH"}) /\ Tail(commands) \in Seq(Command)
  BY <1>0, TailType, WithinSame, WithinForAny
<1>. DEFINE c == Head(commands)
<1>2. CASE PublishCommand
  <2>1. Stored(c) /\ responses' = Append(responses, [id |-> c.id, msg |-> c.msg]) /\ commands' = Tail(commands)
    BY <1>2 DEF PublishCommand
  <2>2. to_broker' = to_broker \/ to_broker' = Append(to_broker, Publish(c.id, FALSE, c.msg))
    BY <1>2 DEF PublishCommand
  <2>3. UNCHANGED <<connected, connect_state, b_up, to_client, b_received, published, succeeded>>
    BY <1>2 DEF PublishCommand
  <2>. HIDE DEF c
  <2>4. Began(c)
    BY <1>1, <2>1, <2>2, <2>3 DEF Began
  <2>. QED
    BY <1>0, <2>4, CleanBegan DEF c
<1>3. CASE PublishFails
  <2>1. Stored(c) /\ commands' = AddFirst(Disconnect, Tail(commands)) /\ UNCHANGED <<responses, to_broker>>
    BY <1>3 DEF PublishFails
  <2>2. UNCHANGED <<connected, connect_state, b_up, to_client, b_received, published, succeeded>>
    BY <1>3 DEF PublishFails
  <2>3. Disconnect \in Command /\ Disconnect.type = "DISCONNECT" /\ Disconnect.type \notin {"PUBLISH"}
    BY CommandTypes DEF Disconnect
  <2>. HIDE DEF c, Disconnect
  <2>4. WithinFor(<<Disconnect>> \o Tail(commands), Tail(commands), {"PUBLISH"})
    BY <1>1, <2>3, WithinForFront
  <2>5. WithinFor(commands', Tail(commands), {"PUBLISH"})
    BY <1>1, <2>1, <2>4 DEF AddFirst
  <2>6. NextIs("DISCONNECT")'
    BY <1>1, <2>1, <2>3 DEF NextIs, AddFirst
  <2>7. Began(c)
    BY <2>1, <2>2, <2>5, <2>6 DEF Began
  <2>. QED
    BY <1>0, <2>7, CleanBegan DEF c
<1>. QED
  BY <1>2, <1>3

-----------------------------------------------------------------------------
(* An exchange goes on: a packet is read, and the answer to it is sent.    *)

\* Of other ids there is in the rest what there was
LEMMA HoldsRest ==
    ASSUME NEW S, NEW s \in Seq(S), s # <<>>, NEW T, NEW n, Holds(s, T, n), n # Head(s).id
    PROVE  Holds(Tail(s), T, n)
<1>1. PICK i \in 1..Len(s) : s[i].type \in T /\ s[i].id = n
  BY DEF Holds
<1>2. i # 1
  BY <1>1
<1>3. i - 1 \in 1..Len(Tail(s)) /\ Tail(s)[i - 1] = s[i]
  BY <1>2
<1>. QED
  BY <1>1, <1>3 DEF Holds

(***************************************************************************)
(* The token of an exchange goes from the one way to the other: s is t now *)
(* and r is w, and it is a packet of the type u there.                     *)
(***************************************************************************)
PassedOn(s, t, T, r, w, U, id0, u) ==
    /\ UniqueFor(t, T) /\ UniqueFor(w, U)
    /\ \A n \in Nat : ~(Holds(t, T, n) /\ Holds(w, U, n))
    /\ \A n \in Nat : \A V \in SUBSET T : Holds(t, V, n) <=> Holds(s, V, n) /\ n # id0
    /\ \A n \in Nat : \A V \in SUBSET U : Holds(w, V, n) <=> Holds(r, V, n) \/ (u \in V /\ n = id0)
    /\ \A n \in Nat : Holds(r, U, n) => n # id0

LEMMA Passed ==
    ASSUME NEW S, NEW s \in Seq(S), NEW R, NEW r \in Seq(R), NEW e \in R,
           NEW T, NEW U, UniqueFor(s, T), UniqueFor(r, U),
           \A n \in Nat : ~(Holds(s, T, n) /\ Holds(r, U, n)),
           s # <<>>, Head(s).type \in T, Head(s).id \in Nat, e.type \in U, e.id = Head(s).id
    PROVE  PassedOn(s, Tail(s), T, r, Append(r, e), U, Head(s).id, e.type)
<1>. DEFINE t == Tail(s)
            w == Append(r, e)
            id0 == Head(s).id
<1>1. t \in Seq(S) /\ w \in Seq(R) /\ Extends(w, r, U)
  BY AppendAt, TailType, ExtendsAppend
<1>2. Holds(s, T, id0) /\ ~Holds(t, T, id0) /\ UniqueFor(t, T)
  BY HoldsTail, UniqueTail
<1>3. ~Holds(r, U, id0)
  BY <1>2
<1>4. UniqueFor(w, U)
  BY <1>3, UniqueAppend
<1>5. ASSUME NEW n \in Nat, NEW V \in SUBSET T
      PROVE  Holds(t, V, n) <=> Holds(s, V, n) /\ n # id0
  <2>1. Holds(t, V, n) => Holds(s, V, n)
    BY HoldsTail
  <2>2. Holds(t, V, n) => Holds(t, T, n)
    BY DEF Holds
  <2>3. Holds(s, V, n) /\ n # id0 => Holds(t, V, n)
    BY HoldsRest
  <2>. QED
    BY <1>2, <2>1, <2>2, <2>3
<1>6. ASSUME NEW n \in Nat, NEW V \in SUBSET U
      PROVE  Holds(w, V, n) <=> Holds(r, V, n) \/ (e.type \in V /\ n = id0)
  <2>1. Holds(w, V, n) => Holds(r, V, n) \/ (e.type \in V /\ n = id0)
    BY HoldsAppend
  <2>2. Holds(r, V, n) => Holds(w, V, n)
    BY <1>1, HoldsKept
  <2>3. e.type \in V /\ n = id0 => Holds(w, V, n)
    <3>1. Len(r) + 1 \in 1..Len(w) /\ w[Len(r) + 1] = e
      OBVIOUS
    <3>. QED
      BY <3>1 DEF Holds
  <2>. QED
    BY <2>1, <2>2, <2>3
<1>7. \A n \in Nat : Holds(r, U, n) => n # id0
  BY <1>3
<1>. HIDE DEF t, w, id0
<1>8. \A n \in Nat : ~(Holds(t, T, n) /\ Holds(w, U, n))
  BY <1>5, <1>6
<1>9. PassedOn(s, t, T, r, w, U, id0, e.type)
  BY <1>2, <1>4, <1>5, <1>6, <1>7, <1>8 DEF PassedOn
<1>. QED
  BY <1>9 DEF t, w, id0

\* A message under way is the one its id finds
LEMMA EntryFound ==
    ASSUME UniqueIds, outboundMsgs \in Seq(Entries(Sent)), NEW id, NEW m, UnderWay(id, m)
    PROVE  /\ HasId(outboundMsgs, id)
           /\ IndexOf(outboundMsgs, id) \in 1..Len(outboundMsgs)
           /\ outboundMsgs[IndexOf(outboundMsgs, id)].id = id
           /\ outboundMsgs[IndexOf(outboundMsgs, id)].msg = m
           /\ \A k : UnderWay(id, k) => k = m
           /\ \A next : At(id, m, next) => outboundMsgs[IndexOf(outboundMsgs, id)].next = next
<1>1. HasId(outboundMsgs, id)
  BY DEF UnderWay, HasId
<1>. DEFINE x == IndexOf(outboundMsgs, id)
<1>2. x \in 1..Len(outboundMsgs) /\ outboundMsgs[x].id = id
  BY <1>1, IndexOfFirst
<1>. HIDE DEF x
<1>3. \A i \in 1..Len(outboundMsgs) : outboundMsgs[i].id = id => i = x
  BY <1>2 DEF UniqueIds
<1>4. /\ outboundMsgs[x].msg = m
      /\ \A k : UnderWay(id, k) => k = m
      /\ \A next : At(id, m, next) => outboundMsgs[x].next = next
  BY <1>3 DEF UnderWay, At
<1>. QED
  BY <1>1, <1>2, <1>4 DEF x

LEMMA CleanPubrec ==
    ASSUME CleanInv, Linked, TypeInv, RecvPubrec
    PROVE  CleanInv'
<1>i. PICK id0 : id0 = Head(to_client).id
  OBVIOUS
<1>. DEFINE x == IndexOf(outboundMsgs, id0)
            p == Packet("PUBREL", id0)
<1>0. /\ outboundMsgs \in Seq(Entries(Sent)) /\ to_broker \in Seq(ToBroker) /\ to_client \in Seq(ToClient)
      /\ LinkTypes
  BY DEF TypeInv, SessionTypes, LinkTypes
<1>1. /\ to_client # <<>> /\ Head(to_client).type = "PUBREC" /\ Head(to_client) \in ToClient
      /\ to_client' = Tail(to_client)
  BY <1>0, ReadsProps DEF RecvPubrec, Reads
<1>2. id0 \in Nat
  BY <1>1, <1>i, PacketTypes
<1>3. UNCHANGED <<commands, responses, connected, connect_state, b_up, b_received, published, succeeded>>
  BY DEF RecvPubrec
<1>4. Holds(to_client, {"PUBREC"}, id0)
  BY <1>0, <1>1, <1>i, HoldsTail
<1>5. PICK m0 \in Sent : m0.qos = 2 /\ At(id0, m0, "PUBREC") /\ WithBroker(id0, m0)
  BY <1>2, <1>4 DEF CleanInv, Steps
<1>6. /\ HasId(outboundMsgs, id0) /\ x \in 1..Len(outboundMsgs) /\ outboundMsgs[x].id = id0
      /\ outboundMsgs[x].msg = m0 /\ outboundMsgs[x].next = "PUBREC"
  <2>1. UnderWay(id0, m0) /\ UniqueIds
    BY <1>5 DEF At, UnderWay, CleanInv, Apart
  <2>. QED
    BY <1>0, <1>5, <2>1, EntryFound
<1>7. Expecting("PUBREC", id0, 2)
  BY <1>5, <1>6 DEF Expecting
<1>8. Recorded(id0) /\ to_broker' = Append(to_broker, p)
  BY <1>7, <1>i DEF RecvPubrec, Answer
<1>9. /\ Len(outboundMsgs') = Len(outboundMsgs)
      /\ \A i \in 1..Len(outboundMsgs) :
            /\ i # x => outboundMsgs'[i] = outboundMsgs[i]
            /\ outboundMsgs'[i].id = outboundMsgs[i].id
            /\ outboundMsgs'[i].msg = outboundMsgs[i].msg
      /\ outboundMsgs'[x].next = "PUBCOMP"
  BY <1>0, <1>6, <1>8, RecordedType
<1>10. p \in ToBroker /\ p.type = "PUBREL" /\ p.id = id0
  BY <1>2, PacketTypes DEF Packet
<1>11. PassedOn(to_client, to_client', Acks, to_broker, to_broker', Tokens, id0, "PUBREL")
  <2>1. "PUBREC" \in Acks /\ "PUBREL" \in Tokens
    BY DEF Acks, Tokens
  <2>2. UniqueFor(to_client, Acks) /\ UniqueFor(to_broker, Tokens)
        /\ \A n \in Nat : ~(Holds(to_client, Acks, n) /\ Holds(to_broker, Tokens, n))
    BY DEF CleanInv, OneFlight
  <2>. HIDE DEF p
  <2>3. PassedOn(to_client, Tail(to_client), Acks, to_broker, Append(to_broker, p), Tokens, id0, p.type)
    BY <1>0, <1>1, <1>2, <1>10, <1>i, <2>1, <2>2, Passed
  <2>. QED
    BY <1>1, <1>8, <1>10, <2>3
<1>12. \A i \in 1..Len(to_broker') : \/ i \in 1..Len(to_broker) /\ to_broker'[i] = to_broker[i]
                                     \/ to_broker'[i].type = "PUBREL"
  BY <1>0, <1>8, <1>10, AppendAt
<1>. HIDE DEF x, p
<1>13. /\ \A n \in Nat : \A m : UnderWay(n, m) => UnderWay(n, m)'
       /\ \A n \in Nat : \A m, next : At(n, m, next) /\ n # id0 => At(n, m, next)'
       /\ At(id0, m0, "PUBCOMP")'
  <2>1. \A n \in Nat : \A m : UnderWay(n, m) => UnderWay(n, m)'
    BY <1>9 DEF UnderWay
  <2>2. \A n \in Nat : \A m, next : At(n, m, next) /\ n # id0 => At(n, m, next)'
    BY <1>6, <1>9 DEF At
  <2>3. At(id0, m0, "PUBCOMP")'
    BY <1>6, <1>9 DEF At
  <2>. QED
    BY <2>1, <2>2, <2>3
<1>14. Apart'
  <2>1. UniqueIds'
    BY <1>9 DEF CleanInv, Apart, UniqueIds
  <2>2. ResponsesHaveMessages'
    BY <1>3, <1>9 DEF CleanInv, Apart, ResponsesHaveMessages
  <2>3. connected' /\ ~NextIs("DISCONNECT")' => \A j \in 1..Len(outboundMsgs') : HasId(responses', outboundMsgs'[j].id)
    BY <1>3, <1>9 DEF CleanInv, Apart, NextIs
  <2>4. QueuedOnce' /\ \A i \in 1..Len(commands') : commands'[i].type = "PUBLISH" => ~HasId(responses', commands'[i].id)
    BY <1>3 DEF CleanInv, Apart, QueuedOnce
  <2>. QED
    BY <1>3, <2>1, <2>2, <2>3, <2>4 DEF CleanInv, Apart
<1>15. OneFlight'
  <2>1. b_up
    BY <1>1 DEF Linked
  <2>2. \A n \in Nat : Flying(n)' => Flying(n)
    <3>1. Flying(id0)
      BY <1>4 DEF Flying, Holds, Acks
    <3>. QED
      BY <1>11, <3>1 DEF PassedOn, Flying
  <2>3. \A n \in Nat : ~(Holds(to_broker', Tokens, n) /\ Holds(to_client', Acks, n))
    BY <1>11 DEF PassedOn
  <2>. QED
    BY <1>3, <1>11, <2>1, <2>2, <2>3 DEF CleanInv, OneFlight, PassedOn
<1>16. Steps'
  <2>1. \A n, m : (WithBroker(n, m) => WithBroker(n, m)') /\ (Published(m) => Published(m)')
    BY <1>3 DEF WithBroker, Published
  <2>2. \A n \in Nat, m \in Sent : InFlight(n, m)' => At(n, m, "PUBREC")'
    <3>. SUFFICES ASSUME NEW n \in Nat, NEW m \in Sent, InFlight(n, m)' PROVE At(n, m, "PUBREC")'
      OBVIOUS
    <3>1. InFlight(n, m)
      BY <1>12 DEF InFlight
    <3>2. Holds(to_broker, Tokens, n)
      BY <3>1 DEF InFlight, Holds, Tokens
    <3>3. n # id0
      BY <1>11, <3>2 DEF PassedOn
    <3>. QED
      BY <1>13, <3>1, <3>3 DEF CleanInv, Steps
  <2>3. \A n \in Nat, t \in Acks : Holds(to_client', {t}, n) => Holds(to_client, {t}, n) /\ n # id0
    BY <1>11 DEF PassedOn
  <2>4. "PUBACK" \in Acks /\ "PUBREC" \in Acks /\ "PUBCOMP" \in Acks
    BY DEF Acks
  <2>5. \A n \in Nat : Holds(to_client', {"PUBACK"}, n) =>
          \E m \in Sent : m.qos = 1 /\ UnderWay(n, m)' /\ Published(m)'
    BY <1>13, <2>1, <2>3, <2>4 DEF CleanInv, Steps
  <2>6. \A n \in Nat : Holds(to_client', {"PUBREC"}, n) =>
          \E m \in Sent : m.qos = 2 /\ At(n, m, "PUBREC")' /\ WithBroker(n, m)'
    BY <1>13, <2>1, <2>3, <2>4 DEF CleanInv, Steps
  <2>7. \A n \in Nat : Holds(to_client', {"PUBCOMP"}, n) =>
          \E m \in Sent : m.qos = 2 /\ At(n, m, "PUBCOMP")' /\ Published(m)'
    BY <1>13, <2>1, <2>3, <2>4 DEF CleanInv, Steps
  <2>8. \A n \in Nat : Holds(to_broker', {"PUBREL"}, n) =>
          \E m \in Sent : m.qos = 2 /\ At(n, m, "PUBCOMP")' /\ WithBroker(n, m)'
    <3>. SUFFICES ASSUME NEW n \in Nat, Holds(to_broker', {"PUBREL"}, n)
                  PROVE  \E m \in Sent : m.qos = 2 /\ At(n, m, "PUBCOMP")' /\ WithBroker(n, m)'
      OBVIOUS
    <3>1. CASE n = id0
      BY <1>5, <1>13, <2>1, <3>1
    <3>2. CASE n # id0
      <4>1. Holds(to_broker, {"PUBREL"}, n)
        BY <1>11, <3>2 DEF PassedOn, Tokens
      <4>. QED
        BY <1>13, <2>1, <3>2, <4>1 DEF CleanInv, Steps
    <3>. QED
      BY <3>1, <3>2
  <2>. QED
    BY <2>2, <2>5, <2>6, <2>7, <2>8 DEF Steps
<1>17. Receiving'
  <2>1. b_received \subseteq Response
    BY DEF TypeInv, BrokerTypes
  <2>2. \A r \in b_received : r.id \in Nat
    BY <2>1, DeliveryAssumption DEF Response, MsgId
  <2>3. \A n \in Nat : /\ Holds(to_client, {"PUBREC"}, n) => n = id0 \/ Holds(to_client', {"PUBREC"}, n)
                       /\ Holds(to_broker, {"PUBREL"}, n) \/ n = id0 => Holds(to_broker', {"PUBREL"}, n)
    BY <1>11 DEF PassedOn, Acks, Tokens
  <2>4. b_up' => \A r \in b_received' : Holds(to_client', {"PUBREC"}, r.id) \/ Holds(to_broker', {"PUBREL"}, r.id)
    BY <1>3, <2>2, <2>3 DEF CleanInv, Receiving
  <2>. QED
    BY <1>3, <2>4 DEF CleanInv, Receiving, Published
<1>. QED
  BY <1>14, <1>15, <1>16, <1>17 DEF CleanInv

\* The client has what it waited for: onSuccess is called for the message the
\* packet is about
LEMMA CleanEnd ==
    ASSUME CleanInv, TypeInv, RecvPuback \/ RecvPubcomp
    PROVE  CleanInv'
<1>i. PICK id0 : id0 = Head(to_client).id
  OBVIOUS
<1>0. /\ outboundMsgs \in Seq(Entries(Sent)) /\ responses \in Seq(Response)
      /\ to_broker \in Seq(ToBroker) /\ to_client \in Seq(ToClient) /\ LinkTypes
  BY DEF TypeInv, SendTypes, SessionTypes, LinkTypes
<1>1. PICK type \in {"PUBACK", "PUBCOMP"}, q \in {1, 2} :
         /\ RecvEnd(type, q)
         /\ type = "PUBACK" <=> q = 1
  BY DEF RecvPuback, RecvPubcomp
<1>2. /\ to_client # <<>> /\ Head(to_client).type = type /\ Head(to_client) \in ToClient
      /\ to_client' = Tail(to_client) /\ type \in Acks
  BY <1>0, <1>1, ReadsProps DEF RecvEnd, Reads, Acks
<1>3. id0 \in Nat
  BY <1>2, <1>i, PacketTypes
<1>4. Holds(to_client, {type}, id0) /\ Holds(to_client, Acks, id0)
  BY <1>0, <1>2, <1>i, HoldsTail
<1>5. PICK m0 \in Sent : /\ m0.qos = q /\ UnderWay(id0, m0) /\ Published(m0)
                         /\ q = 2 => At(id0, m0, "PUBCOMP")
  <2>1. CASE type = "PUBACK"
    BY <1>1, <1>3, <1>4, <2>1 DEF CleanInv, Steps
  <2>2. CASE type = "PUBCOMP"
    <3>1. PICK m \in Sent : m.qos = 2 /\ At(id0, m, "PUBCOMP") /\ Published(m)
      BY <1>3, <1>4, <2>2 DEF CleanInv, Steps
    <3>2. UnderWay(id0, m)
      BY <3>1 DEF At, UnderWay
    <3>3. q = 2
      BY <1>1, <2>2
    <3>. QED
      BY <3>1, <3>2, <3>3
  <2>. QED
    BY <1>1, <2>1, <2>2
<1>6. /\ HasId(outboundMsgs, id0) /\ outboundMsgs[IndexOf(outboundMsgs, id0)].msg = m0
      /\ \A k : UnderWay(id0, k) => k = m0
      /\ q = 2 => outboundMsgs[IndexOf(outboundMsgs, id0)].next = "PUBCOMP"
  BY <1>0, <1>5, EntryFound DEF CleanInv, Apart
<1>7. Expecting(type, id0, q)
  BY <1>1, <1>5, <1>6 DEF Expecting
<1>8. HasId(responses, id0)
  BY <1>3, <1>4 DEF CleanInv, OneFlight, Flying
<1>9. /\ outboundMsgs' = Without(outboundMsgs, id0) /\ responses' = Without(responses, id0)
      /\ succeeded' = succeeded \cup {responses[IndexOf(responses, id0)].msg}
      /\ UNCHANGED <<commands, connected, connect_state, b_up, to_broker, b_received, published>>
  BY <1>1, <1>7, <1>8, <1>i DEF RecvEnd, Completed
<1>10. responses[IndexOf(responses, id0)].msg = m0
  <2>1. IndexOf(responses, id0) \in 1..Len(responses) /\ responses[IndexOf(responses, id0)].id = id0
    BY <1>0, <1>8, IndexOfFirst
  <2>2. UnderWay(id0, responses[IndexOf(responses, id0)].msg)
    BY <2>1 DEF CleanInv, Apart, ResponsesHaveMessages, UnderWay
  <2>. QED
    BY <1>6, <2>2
<1>11. AllBut(outboundMsgs', outboundMsgs, id0) /\ AllBut(responses', responses, id0)
  <2>1. OwnIds(outboundMsgs) /\ OwnIds(responses)
    BY DEF CleanInv, Apart, UniqueIds, OwnIds
  <2>. QED
    BY <1>0, <1>6, <1>8, <1>9, <2>1, WithoutIds
<1>12. /\ \A n : HasId(responses', n) <=> HasId(responses, n) /\ n # id0
       /\ \A n, m : UnderWay(n, m) /\ n # id0 => UnderWay(n, m)'
       /\ \A n, m, next : At(n, m, next) /\ n # id0 => At(n, m, next)'
  <2>1. \A n : HasId(responses', n) <=> HasId(responses, n) /\ n # id0
    <3>1. \A i \in 1..Len(responses') : \E j \in 1..Len(responses) :
             responses'[i] = responses[j] /\ responses[j].id # id0
      BY <1>11 DEF AllBut
    <3>2. \A j \in 1..Len(responses) : responses[j].id # id0 =>
             \E i \in 1..Len(responses') : responses'[i] = responses[j]
      BY <1>11 DEF AllBut
    <3>3. ASSUME NEW n, HasId(responses', n) PROVE HasId(responses, n) /\ n # id0
      <4>1. PICK i \in 1..Len(responses') : responses'[i].id = n
        BY <3>3 DEF HasId
      <4>2. PICK j \in 1..Len(responses) : responses'[i] = responses[j] /\ responses[j].id # id0
        BY <3>1
      <4>. QED
        BY <4>1, <4>2 DEF HasId
    <3>4. ASSUME NEW n, HasId(responses, n), n # id0 PROVE HasId(responses', n)
      <4>1. PICK j \in 1..Len(responses) : responses[j].id = n
        BY <3>4 DEF HasId
      <4>2. PICK i \in 1..Len(responses') : responses'[i] = responses[j]
        BY <3>2, <3>4, <4>1
      <4>. QED
        BY <4>1, <4>2 DEF HasId
    <3>. QED
      BY <3>3, <3>4
  <2>2. \A j \in 1..Len(outboundMsgs) : outboundMsgs[j].id # id0 =>
          \E i \in 1..Len(outboundMsgs') : outboundMsgs'[i] = outboundMsgs[j]
    BY <1>11 DEF AllBut
  <2>3. \A n, m : UnderWay(n, m) /\ n # id0 => UnderWay(n, m)'
    BY <2>2 DEF UnderWay
  <2>4. \A n, m, next : At(n, m, next) /\ n # id0 => At(n, m, next)'
    BY <2>2 DEF At
  <2>. QED
    BY <2>1, <2>3, <2>4
<1>13. Apart'
  <2>1. UniqueIds' /\ OwnIds(responses')
    BY <1>11 DEF AllBut, OwnIds, UniqueIds
  <2>2. ResponsesHaveMessages'
    <3>. SUFFICES ASSUME NEW i \in 1..Len(responses')
                  PROVE  \E j \in 1..Len(outboundMsgs') :
                            outboundMsgs'[j].id = responses'[i].id /\ outboundMsgs'[j].msg = responses'[i].msg
      BY DEF ResponsesHaveMessages
    <3>1. PICK k \in 1..Len(responses) : responses'[i] = responses[k] /\ responses[k].id # id0
      BY <1>11 DEF AllBut
    <3>2. PICK j \in 1..Len(outboundMsgs) : outboundMsgs[j].id = responses[k].id /\ outboundMsgs[j].msg = responses[k].msg
      BY DEF CleanInv, Apart, ResponsesHaveMessages
    <3>3. PICK h \in 1..Len(outboundMsgs') : outboundMsgs'[h] = outboundMsgs[j]
      BY <1>11, <3>1, <3>2 DEF AllBut
    <3>. QED
      BY <3>1, <3>2, <3>3
  <2>3. connected' /\ ~NextIs("DISCONNECT")' => \A j \in 1..Len(outboundMsgs') : HasId(responses', outboundMsgs'[j].id)
    <3>. SUFFICES ASSUME connected /\ ~NextIs("DISCONNECT"), NEW j \in 1..Len(outboundMsgs')
                  PROVE  HasId(responses', outboundMsgs'[j].id)
      BY <1>9 DEF NextIs
    <3>1. PICK k \in 1..Len(outboundMsgs) : outboundMsgs'[j] = outboundMsgs[k] /\ outboundMsgs[k].id # id0
      BY <1>11 DEF AllBut
    <3>2. HasId(responses, outboundMsgs[k].id)
      BY DEF CleanInv, Apart
    <3>. QED
      BY <1>12, <3>1, <3>2
  <2>4. QueuedOnce' /\ \A i \in 1..Len(commands') : commands'[i].type = "PUBLISH" => ~HasId(responses', commands'[i].id)
    BY <1>9, <1>12 DEF CleanInv, Apart, QueuedOnce
  <2>. QED
    BY <2>1, <2>2, <2>3, <2>4 DEF Apart
<1>14. /\ UniqueFor(to_client', Acks)
       /\ \A n \in Nat : \A T \in SUBSET Acks : Holds(to_client', T, n) => Holds(to_client, T, n) /\ n # id0
       /\ \A n \in Nat : Holds(to_broker, Tokens, n) => n # id0
  <2>1. UniqueFor(to_client', Acks) /\ ~Holds(to_client', Acks, id0)
    BY <1>0, <1>2, <1>i, UniqueTail DEF CleanInv, OneFlight
  <2>2. \A n \in Nat : \A T \in SUBSET Acks : Holds(to_client', T, n) => Holds(to_client, T, n) /\ Holds(to_client', Acks, n)
    <3>1. \A n, T : Holds(to_client', T, n) => Holds(to_client, T, n)
      BY <1>0, <1>2, HoldsTail
    <3>2. \A n : \A T \in SUBSET Acks : Holds(to_client', T, n) => Holds(to_client', Acks, n)
      BY DEF Holds
    <3>. QED
      BY <3>1, <3>2
  <2>3. \A n \in Nat : Holds(to_broker, Tokens, n) => n # id0
    BY <1>3, <1>4 DEF CleanInv, OneFlight
  <2>. QED
    BY <2>1, <2>2, <2>3
<1>15. OneFlight'
  <2>1. \A n \in Nat : Flying(n)' => Flying(n) /\ n # id0
    BY <1>9, <1>14 DEF Flying
  <2>2. \A n \in Nat : Flying(n)' => connected' /\ HasId(responses', n)
    BY <1>9, <1>12, <2>1 DEF CleanInv, OneFlight
  <2>3. \A n \in Nat : ~(Holds(to_broker', Tokens, n) /\ Holds(to_client', Acks, n))
    BY <1>9, <1>14 DEF CleanInv, OneFlight
  <2>. QED
    BY <1>9, <1>14, <2>2, <2>3 DEF CleanInv, OneFlight
<1>16. Steps'
  <2>1. \A n, m : (WithBroker(n, m) => WithBroker(n, m)') /\ (Published(m) => Published(m)')
    BY <1>9 DEF WithBroker, Published
  <2>2. \A n \in Nat, m \in Sent : InFlight(n, m)' => At(n, m, "PUBREC")'
    <3>. SUFFICES ASSUME NEW n \in Nat, NEW m \in Sent, InFlight(n, m) PROVE At(n, m, "PUBREC")'
      BY <1>9 DEF InFlight
    <3>1. Holds(to_broker, Tokens, n)
      BY DEF InFlight, Holds, Tokens
    <3>. QED
      BY <1>12, <1>14, <3>1 DEF CleanInv, Steps
  <2>3. /\ {"PUBACK"} \in SUBSET Acks /\ {"PUBREC"} \in SUBSET Acks /\ {"PUBCOMP"} \in SUBSET Acks
    BY DEF Acks
  <2>4. \A n \in Nat : Holds(to_client', {"PUBACK"}, n) =>
          \E m \in Sent : m.qos = 1 /\ UnderWay(n, m)' /\ Published(m)'
    BY <1>12, <1>14, <2>1, <2>3 DEF CleanInv, Steps
  <2>5. \A n \in Nat : Holds(to_client', {"PUBREC"}, n) =>
          \E m \in Sent : m.qos = 2 /\ At(n, m, "PUBREC")' /\ WithBroker(n, m)'
    BY <1>12, <1>14, <2>1, <2>3 DEF CleanInv, Steps
  <2>6. \A n \in Nat : Holds(to_client', {"PUBCOMP"}, n) =>
          \E m \in Sent : m.qos = 2 /\ At(n, m, "PUBCOMP")' /\ Published(m)'
    BY <1>12, <1>14, <2>1, <2>3 DEF CleanInv, Steps
  <2>7. \A n \in Nat : Holds(to_broker', {"PUBREL"}, n) =>
          \E m \in Sent : m.qos = 2 /\ At(n, m, "PUBCOMP")' /\ WithBroker(n, m)'
    <3>. SUFFICES ASSUME NEW n \in Nat, Holds(to_broker, {"PUBREL"}, n)
                  PROVE  \E m \in Sent : m.qos = 2 /\ At(n, m, "PUBCOMP")' /\ WithBroker(n, m)'
      BY <1>9
    <3>1. Holds(to_broker, Tokens, n)
      BY DEF Holds, Tokens
    <3>. QED
      BY <1>12, <1>14, <2>1, <3>1 DEF CleanInv, Steps
  <2>. QED
    BY <2>2, <2>4, <2>5, <2>6, <2>7 DEF Steps
<1>17. Receiving'
  <2>1. type \notin {"PUBREC"}
    BY <1>1
  <2>2. \A n : Holds(to_client, {"PUBREC"}, n) => Holds(to_client', {"PUBREC"}, n)
    BY <1>0, <1>2, <2>1, TailType, HoldsKept
  <2>3. b_up' => \A r \in b_received' : Holds(to_client', {"PUBREC"}, r.id) \/ Holds(to_broker', {"PUBREL"}, r.id)
    BY <1>9, <2>2 DEF CleanInv, Receiving
  <2>4. \A m \in succeeded' : Published(m)'
    BY <1>5, <1>9, <1>10 DEF CleanInv, Receiving, Published
  <2>. QED
    BY <1>9, <2>3, <2>4 DEF CleanInv, Receiving
<1>. QED
  BY <1>13, <1>15, <1>16, <1>17 DEF CleanInv

(***************************************************************************)
(* The broker answers: what it knew of other messages it still knows, and  *)
(* the answer says the truth about the message it is about.                *)
(***************************************************************************)
Handled(id0, type, u) ==
    /\ BrokerOnly /\ BrokerReads(type) /\ BrokerAnswers(Packet(u, id0)) /\ UNCHANGED b_up
    /\ \A n \in Nat, m \in Sent : n # id0 /\ WithBroker(n, m) => WithBroker(n, m)'
    /\ \A m \in Sent : Published(m) => Published(m)'
    /\ \E m \in Sent : /\ u = "PUBACK" => m.qos = 1 /\ UnderWay(id0, m) /\ Published(m)'
                       /\ u = "PUBREC" => m.qos = 2 /\ At(id0, m, "PUBREC") /\ WithBroker(id0, m)'
                       /\ u = "PUBCOMP" => m.qos = 2 /\ At(id0, m, "PUBCOMP") /\ Published(m)'
    /\ \A r \in b_received' : (r \in b_received /\ r.id # id0) \/ (r.id = id0 /\ u = "PUBREC")
    /\ \A r, s \in b_received' : r.id = s.id => r = s

LEMMA CleanHandled ==
    ASSUME CleanInv, TypeInv, TypeInv', NEW id0 \in Nat, id0 = Head(to_broker).id,
           NEW type \in Tokens, NEW u \in Acks, Handled(id0, type, u)
    PROVE  CleanInv'
<1>. DEFINE p == Packet(u, id0)
<1>0. /\ to_broker \in Seq(ToBroker) /\ to_client \in Seq(ToClient) /\ LinkTypes
      /\ succeeded \subseteq Sent
      /\ \A r \in b_received' : r.id \in Nat
  <2>1. /\ to_broker \in Seq(ToBroker) /\ to_client \in Seq(ToClient) /\ LinkTypes
    BY DEF TypeInv, LinkTypes
  <2>2. succeeded \subseteq Sent
    BY DEF TypeInv, HistoryTypes
  <2>3. b_received' \subseteq Response
    BY DEF TypeInv, BrokerTypes
  <2>. QED
    BY <2>1, <2>2, <2>3, DeliveryAssumption DEF Response, MsgId
<1>1. /\ to_broker # <<>> /\ Head(to_broker).type = type /\ to_broker' = Tail(to_broker)
      /\ to_client' = Append(to_client, p)
  BY DEF Handled, BrokerReads, BrokerAnswers
<1>2. p \in ToClient /\ p.type = u /\ p.id = id0
  BY PacketTypes DEF Packet, Acks
<1>3. UNCHANGED <<commands, responses, outboundMsgs, connected, connect_state, b_up, succeeded>>
  BY DEF Handled, BrokerOnly
<1>4. PassedOn(to_broker, to_broker', Tokens, to_client, to_client', Acks, id0, u)
  <2>1. UniqueFor(to_broker, Tokens) /\ UniqueFor(to_client, Acks)
        /\ \A n \in Nat : ~(Holds(to_broker, Tokens, n) /\ Holds(to_client, Acks, n))
    BY DEF CleanInv, OneFlight
  <2>. HIDE DEF p
  <2>2. PassedOn(to_broker, Tail(to_broker), Tokens, to_client, Append(to_client, p), Acks, id0, p.type)
    BY <1>0, <1>1, <1>2, <2>1, Passed
  <2>. QED
    BY <1>1, <1>2, <2>2
<1>5. Holds(to_broker, Tokens, id0)
  BY <1>0, <1>1, HoldsTail
<1>. HIDE DEF p
<1>6. Apart'
  BY <1>3 DEF CleanInv, Apart, QueuedOnce, UniqueIds, ResponsesHaveMessages, NextIs
<1>7. OneFlight'
  <2>1. \A n \in Nat : Flying(n)' => Flying(n)
    <3>1. Flying(id0)
      BY <1>5 DEF Flying
    <3>. QED
      BY <1>4, <3>1 DEF PassedOn, Flying
  <2>2. \A n \in Nat : ~(Holds(to_broker', Tokens, n) /\ Holds(to_client', Acks, n))
    BY <1>4 DEF PassedOn
  <2>3. \A n \in Nat : Holds(to_broker', {"PUBREL"}, n) => Holds(to_broker, {"PUBREL"}, n)
    BY <1>4 DEF PassedOn, Tokens
  <2>. QED
    BY <1>3, <1>4, <2>1, <2>2, <2>3 DEF CleanInv, OneFlight, PassedOn
<1>8. Steps'
  <2>1. /\ \A n, m, next : At(n, m, next) => At(n, m, next)'
        /\ \A n, m : UnderWay(n, m) => UnderWay(n, m)'
    BY <1>3 DEF At, UnderWay
  <2>2. /\ \A n \in Nat, m \in Sent : n # id0 /\ WithBroker(n, m) => WithBroker(n, m)'
        /\ \A m \in Sent : Published(m) => Published(m)'
    BY DEF Handled
  <2>3. PICK m0 \in Sent : /\ u = "PUBACK" => m0.qos = 1 /\ UnderWay(id0, m0) /\ Published(m0)'
                           /\ u = "PUBREC" => m0.qos = 2 /\ At(id0, m0, "PUBREC") /\ WithBroker(id0, m0)'
                           /\ u = "PUBCOMP" => m0.qos = 2 /\ At(id0, m0, "PUBCOMP") /\ Published(m0)'
    BY DEF Handled
  <2>4. \A n \in Nat, m \in Sent : InFlight(n, m)' => At(n, m, "PUBREC")'
    <3>1. \A i \in 1..Len(to_broker') : i + 1 \in 1..Len(to_broker) /\ to_broker'[i] = to_broker[i + 1]
      BY <1>0, <1>1
    <3>2. \A n \in Nat, m \in Sent : InFlight(n, m)' => InFlight(n, m)
      BY <3>1 DEF InFlight
    <3>. QED
      BY <2>1, <3>2 DEF CleanInv, Steps
  <2>5. ASSUME NEW n \in Nat, NEW t \in Acks, Holds(to_client', {t}, n)
        PROVE  (n = id0 /\ u = t) \/ (n # id0 /\ Holds(to_client, {t}, n))
    <3>1. Holds(to_client, {t}, n) \/ (u = t /\ n = id0)
      BY <1>4, <2>5 DEF PassedOn
    <3>2. Holds(to_client, {t}, n) => Holds(to_client, Acks, n)
      BY DEF Holds
    <3>. QED
      BY <1>4, <3>1, <3>2 DEF PassedOn
  <2>6. "PUBACK" \in Acks /\ "PUBREC" \in Acks /\ "PUBCOMP" \in Acks
    BY DEF Acks
  <2>7. \A n \in Nat : Holds(to_client', {"PUBACK"}, n) =>
          \E m \in Sent : m.qos = 1 /\ UnderWay(n, m)' /\ Published(m)'
    BY <2>1, <2>2, <2>3, <2>5, <2>6 DEF CleanInv, Steps
  <2>8. \A n \in Nat : Holds(to_client', {"PUBREC"}, n) =>
          \E m \in Sent : m.qos = 2 /\ At(n, m, "PUBREC")' /\ WithBroker(n, m)'
    BY <2>1, <2>2, <2>3, <2>5, <2>6 DEF CleanInv, Steps
  <2>9. \A n \in Nat : Holds(to_client', {"PUBCOMP"}, n) =>
          \E m \in Sent : m.qos = 2 /\ At(n, m, "PUBCOMP")' /\ Published(m)'
    BY <2>1, <2>2, <2>3, <2>5, <2>6 DEF CleanInv, Steps
  <2>10. \A n \in Nat : Holds(to_broker', {"PUBREL"}, n) =>
          \E m \in Sent : m.qos = 2 /\ At(n, m, "PUBCOMP")' /\ WithBroker(n, m)'
    <3>1. \A n \in Nat : Holds(to_broker', {"PUBREL"}, n) => Holds(to_broker, {"PUBREL"}, n) /\ n # id0
      BY <1>4 DEF PassedOn, Tokens
    <3>. QED
      BY <2>1, <2>2, <3>1 DEF CleanInv, Steps
  <2>. QED
    BY <2>4, <2>7, <2>8, <2>9, <2>10 DEF Steps
<1>9. Receiving'
  <2>1. ASSUME b_up, NEW r \in b_received'
        PROVE  Holds(to_client', {"PUBREC"}, r.id) \/ Holds(to_broker', {"PUBREL"}, r.id)
    <3>1. CASE r.id = id0 /\ u = "PUBREC"
      BY <1>4, <3>1 DEF PassedOn, Acks
    <3>2. CASE r \in b_received /\ r.id # id0
      <4>1. Holds(to_client, {"PUBREC"}, r.id) \/ Holds(to_broker, {"PUBREL"}, r.id)
        BY <2>1, <3>2 DEF CleanInv, Receiving
      <4>. QED
        BY <1>0, <1>4, <3>2, <4>1 DEF PassedOn, Acks, Tokens
    <3>. QED
      BY <3>1, <3>2 DEF Handled
  <2>2. \A m \in succeeded' : Published(m)'
    BY <1>0, <1>3 DEF Handled, CleanInv, Receiving
  <2>3. \A r, s \in b_received' : r.id = s.id => r = s
    BY DEF Handled
  <2>. QED
    BY <1>3, <2>1, <2>2, <2>3 DEF Receiving
<1>. QED
  BY <1>6, <1>7, <1>8, <1>9 DEF CleanInv

\* Before the broker has read a packet of an exchange it has not received its
\* message, unless the packet is a PUBREL
LEMMA NotYetReceived ==
    ASSUME CleanInv, Linked, TypeInv, NEW id0 \in Nat, id0 = Head(to_broker).id, BrokerReads("PUBLISH")
    PROVE  b_up /\ \A r \in b_received : r.id # id0
<1>0. to_broker \in Seq(ToBroker)
  BY DEF TypeInv, LinkTypes
<1>1. 1 \in 1..Len(to_broker) /\ to_broker[1] = Head(to_broker) /\ Head(to_broker).type = "PUBLISH"
  BY <1>0 DEF BrokerReads
<1>2. b_up
  BY <1>1 DEF Linked
<1>3. Holds(to_broker, Tokens, id0)
  BY <1>1 DEF Holds, Tokens
<1>4. ~Holds(to_broker, {"PUBREL"}, id0)
  <2>. SUFFICES ASSUME Holds(to_broker, {"PUBREL"}, id0) PROVE FALSE
    OBVIOUS
  <2>1. PICK i \in 1..Len(to_broker) : to_broker[i].type = "PUBREL" /\ to_broker[i].id = id0
    BY DEF Holds
  <2>2. i = 1
    BY <1>1, <2>1 DEF CleanInv, OneFlight, UniqueFor, Tokens
  <2>. QED
    BY <1>1, <2>1, <2>2
<1>5. ~Holds(to_client, {"PUBREC"}, id0)
  <2>1. ~Holds(to_client, Acks, id0)
    BY <1>3 DEF CleanInv, OneFlight
  <2>. QED
    BY <2>1 DEF Holds, Acks
<1>. QED
  BY <1>2, <1>4, <1>5 DEF CleanInv, Receiving

LEMMA CleanReceived ==
    ASSUME CleanInv, Linked, TypeInv, TypeInv', BrokerPublish1 \/ BrokerPublish2
    PROVE  CleanInv'
<1>i. PICK id0, m0 : id0 = Head(to_broker).id /\ m0 = Head(to_broker).msg
  OBVIOUS
<1>0. /\ to_broker \in Seq(ToBroker) /\ LinkTypes /\ published \in Seq(Sent)
  BY DEF TypeInv, LinkTypes, HistoryTypes
<1>1. BrokerReads("PUBLISH")
  BY DEF BrokerPublish1, BrokerPublish2
<1>2. /\ Head(to_broker) \in ToBroker /\ Head(to_broker).type = "PUBLISH" /\ to_broker # <<>>
      /\ id0 \in Nat /\ m0 \in Sent
  BY <1>0, <1>1, <1>i, BrokerReadsProps, PacketTypes, DeliveryAssumption DEF MsgId
<1>3. b_up /\ \A r \in b_received : r.id # id0
  BY <1>1, <1>2, <1>i, NotYetReceived
<1>4. At(id0, m0, "PUBREC") /\ UnderWay(id0, m0)
  <2>1. 1 \in 1..Len(to_broker) /\ to_broker[1] = Head(to_broker)
    BY <1>0, <1>2
  <2>2. InFlight(id0, m0)
    BY <1>2, <1>i, <2>1 DEF InFlight
  <2>3. At(id0, m0, "PUBREC")
    BY <1>2, <2>2 DEF CleanInv, Steps
  <2>. QED
    BY <2>3 DEF At, UnderWay
<1>5. "PUBLISH" \in Tokens /\ "PUBACK" \in Acks /\ "PUBREC" \in Acks
  BY DEF Tokens, Acks
<1>6. CASE BrokerPublish1
  <2>1. /\ m0.qos = 1 /\ published' = Append(published, m0) /\ UNCHANGED <<b_up, b_received>>
        /\ BrokerAnswers(Packet("PUBACK", id0)) /\ BrokerOnly
    BY <1>6, <1>i DEF BrokerPublish1
  <2>2. Published(m0)' /\ \A m \in Sent : Published(m) => Published(m)'
    <3>1. /\ Len(published') = Len(published) + 1 /\ published'[Len(published) + 1] = m0
          /\ \A i \in 1..Len(published) : i \in 1..Len(published') /\ published'[i] = published[i]
          /\ Len(published) + 1 \in 1..Len(published')
      BY <1>0, <1>2, <2>1, AppendAt
    <3>. QED
      BY <3>1 DEF Published
  <2>3. \A n \in Nat, m \in Sent : WithBroker(n, m) => WithBroker(n, m)'
    BY <2>1 DEF WithBroker
  <2>4. \A r, s \in b_received' : r.id = s.id => r = s
    BY <2>1 DEF CleanInv, Receiving
  <2>5. Handled(id0, "PUBLISH", "PUBACK")
    BY <1>1, <1>2, <1>3, <1>4, <2>1, <2>2, <2>3, <2>4 DEF Handled
  <2>. QED
    BY <1>2, <1>5, <1>i, <2>5, CleanHandled
<1>7. CASE BrokerPublish2
  <2>1. /\ m0.qos = 2 /\ UNCHANGED <<b_up, published>>
        /\ BrokerAnswers(Packet("PUBREC", id0)) /\ BrokerOnly
    BY <1>7, <1>i DEF BrokerPublish2
  <2>2. b_received' = b_received \cup {[id |-> id0, msg |-> m0]}
    BY <1>3, <1>7, <1>i DEF BrokerPublish2
  <2>3. \A m \in Sent : Published(m) => Published(m)'
    BY <2>1 DEF Published
  <2>4. WithBroker(id0, m0)' /\ \A n \in Nat, m \in Sent : WithBroker(n, m) => WithBroker(n, m)'
    <3>1. [id |-> id0, msg |-> m0] \in b_received' /\ b_received \subseteq b_received'
      BY <2>2
    <3>2. WithBroker(id0, m0)'
      BY <3>1 DEF WithBroker
    <3>3. \A n \in Nat, m \in Sent : WithBroker(n, m) => WithBroker(n, m)'
      BY <3>1 DEF WithBroker
    <3>. QED
      BY <3>2, <3>3
  <2>5. \A r, s \in b_received' : r.id = s.id => r = s
    BY <1>3, <2>2 DEF CleanInv, Receiving
  <2>6. \A r \in b_received' : (r \in b_received /\ r.id # id0) \/ r.id = id0
    BY <1>3, <2>2
  <2>7. Handled(id0, "PUBLISH", "PUBREC")
    BY <1>1, <1>2, <1>4, <2>1, <2>3, <2>4, <2>5, <2>6 DEF Handled
  <2>. QED
    BY <1>2, <1>5, <1>i, <2>7, CleanHandled
<1>. QED
  BY <1>6, <1>7

LEMMA CleanReleased ==
    ASSUME CleanInv, Linked, TypeInv, TypeInv', BrokerPubrel
    PROVE  CleanInv'
<1>i. PICK id0 : id0 = Head(to_broker).id
  OBVIOUS
<1>. DEFINE released == {r \in b_received : r.id = id0}
<1>0. to_broker \in Seq(ToBroker) /\ LinkTypes /\ published \in Seq(Sent)
  BY DEF TypeInv, LinkTypes, HistoryTypes
<1>1. BrokerReads("PUBREL") /\ BrokerOnly /\ UNCHANGED b_up /\ BrokerAnswers(Packet("PUBCOMP", id0))
  BY <1>i DEF BrokerPubrel
<1>2. Head(to_broker) \in ToBroker /\ Head(to_broker).type = "PUBREL" /\ to_broker # <<>> /\ id0 \in Nat
  BY <1>0, <1>1, <1>i, BrokerReadsProps, PacketTypes
<1>3. Holds(to_broker, {"PUBREL"}, id0)
  BY <1>0, <1>2, <1>i, HoldsTail
<1>4. PICK m0 \in Sent : m0.qos = 2 /\ At(id0, m0, "PUBCOMP") /\ WithBroker(id0, m0)
  BY <1>2, <1>3 DEF CleanInv, Steps
<1>5. PICK r0 \in b_received : r0.id = id0 /\ r0.msg = m0
  BY <1>4 DEF WithBroker
<1>6. released = {r0}
  BY <1>5 DEF CleanInv, Receiving
<1>7. b_received' = b_received \ released /\ published' = Append(published, m0)
  <2>1. (CHOOSE r \in released : TRUE).msg = m0
    BY <1>5, <1>6
  <2>2. b_received' = b_received \ released
        /\ published' = IF released = {} THEN published
                        ELSE Append(published, (CHOOSE r \in released : TRUE).msg)
    BY <1>i DEF BrokerPubrel
  <2>. QED
    BY <1>6, <2>1, <2>2
<1>8. Published(m0)' /\ \A m \in Sent : Published(m) => Published(m)'
  <2>1. /\ Len(published') = Len(published) + 1 /\ published'[Len(published) + 1] = m0
        /\ \A i \in 1..Len(published) : i \in 1..Len(published') /\ published'[i] = published[i]
        /\ Len(published) + 1 \in 1..Len(published')
    BY <1>0, <1>4, <1>7, AppendAt
  <2>. QED
    BY <2>1 DEF Published
<1>9. \A n \in Nat, m \in Sent : n # id0 /\ WithBroker(n, m) => WithBroker(n, m)'
  BY <1>7 DEF WithBroker
<1>10. /\ \A r \in b_received' : r \in b_received /\ r.id # id0
       /\ \A r, s \in b_received' : r.id = s.id => r = s
  BY <1>7 DEF CleanInv, Receiving
<1>. HIDE DEF released
<1>11. Handled(id0, "PUBREL", "PUBCOMP")
  BY <1>1, <1>4, <1>8, <1>9, <1>10 DEF Handled
<1>. QED
  BY <1>2, <1>11, <1>i, CleanHandled DEF Tokens, Acks

\* The broker forgets a clean session when it is connected to again
LEMMA CleanConnect ==
    ASSUME CleanSession, CleanInv, Linked, TypeInv, TypeInv', BrokerConnect
    PROVE  CleanInv'
<1>0. to_broker \in Seq(ToBroker) /\ to_client \in Seq(ToClient) /\ LinkTypes
  BY DEF TypeInv, LinkTypes
<1>1. /\ BrokerReads("CONNECT") /\ BrokerOnly
      /\ b_up' = TRUE /\ b_received' = {} /\ to_client' = <<Packet("CONNACK", 0)>> /\ UNCHANGED published
  BY DEF BrokerConnect
<1>2. to_broker # <<>> /\ Head(to_broker).type = "CONNECT" /\ to_broker' = Tail(to_broker)
  BY <1>1 DEF BrokerReads
<1>3. ~b_up /\ to_client = <<>>
  BY <1>0, <1>2 DEF Linked
<1>4. \A n : ~Holds(to_client', Acks, n)
  BY <1>1 DEF Holds, Packet, Acks
<1>5. \A n, T : Holds(to_broker', T, n) => Holds(to_broker, T, n)
  BY <1>0, <1>2, HoldsTail
<1>6. \A i \in 1..Len(to_broker') : i + 1 \in 1..Len(to_broker) /\ to_broker'[i] = to_broker[i + 1]
  BY <1>0, <1>2
<1>7. UNCHANGED <<commands, responses, outboundMsgs, connected, connect_state, succeeded>>
  BY <1>1 DEF BrokerOnly
<1>8. Apart'
  BY <1>7 DEF CleanInv, Apart, QueuedOnce, UniqueIds, ResponsesHaveMessages, NextIs
<1>9. OneFlight'
  <2>1. UniqueFor(to_broker', Tokens)
    BY <1>0, <1>2, UniqueTail DEF CleanInv, OneFlight
  <2>2. UniqueFor(to_client', Acks)
    BY <1>1 DEF UniqueFor
  <2>3. \A n \in Nat : Flying(n)' => Flying(n)
    BY <1>4, <1>5 DEF Flying
  <2>. QED
    BY <1>1, <1>4, <1>7, <2>1, <2>2, <2>3 DEF CleanInv, OneFlight
<1>10. Steps'
  <2>1. \A n, m, next : At(n, m, next) => At(n, m, next)'
    BY <1>7 DEF At
  <2>2. \A n \in Nat, m \in Sent : InFlight(n, m)' => InFlight(n, m)
    BY <1>6 DEF InFlight
  <2>3. \A n \in Nat : ~Holds(to_broker', {"PUBREL"}, n)
    BY <1>3, <1>5 DEF CleanInv, OneFlight
  <2>4. \A n \in Nat, t \in Acks : ~Holds(to_client', {t}, n)
    BY <1>4 DEF Holds
  <2>5. "PUBACK" \in Acks /\ "PUBREC" \in Acks /\ "PUBCOMP" \in Acks
    BY DEF Acks
  <2>. QED
    BY <2>1, <2>2, <2>3, <2>4, <2>5 DEF CleanInv, Steps
<1>11. Receiving'
  BY <1>1, <1>7 DEF CleanInv, Receiving, Published
<1>. QED
  BY <1>8, <1>9, <1>10, <1>11 DEF CleanInv

-----------------------------------------------------------------------------
(* The theorem.                                                            *)

\* There is no retry while connected
LEMMA NoRetry ==
    ASSUME NodeSession, TypeInv, NEW due
    PROVE  ~RetryTimer(due)
BY DEF NodeSession, TypeInv, BoundTypes, RetryTimer

LEMMA CleanNext == NodeSession /\ TypeInv /\ TypeInv' /\ Linked /\ CleanInv /\ [Next]_vars => CleanInv'
<1>. SUFFICES ASSUME NodeSession, TypeInv, TypeInv', Linked, CleanInv, [Next]_vars PROVE CleanInv'
  OBVIOUS
<1>0. CleanSession
  BY DEF NodeSession
<1>1. CASE \E q \in Qos : Send(q)
  BY <1>1, CleanSend
<1>2. CASE \/ StartConnect \/ CannotConnect \/ LoseConnection \/ NothingToLose
           \/ ConnectTimeout \/ Break \/ PingTimeout
  BY <1>0, <1>2, CalmSend, CalmKept
<1>3. CASE PublishCommand \/ PublishFails
  BY <1>3, CleanPublish
<1>4. CASE \/ RecvPublish1 \/ RecvPublish2 \/ RecvPubrel \/ RecvStrayPubrel \/ RecvPingresp
           \/ RecvConnack
  BY <1>4, CalmReceive, CalmKept
<1>5. CASE RecvPubrec
  BY <1>5, CleanPubrec
<1>6. CASE RecvPuback \/ RecvPubcomp
  BY <1>6, CleanEnd
<1>7. CASE ReadFails \/ TurnLost \/ TurnFails \/ TurnEnds \/ ConnectionComplete \/ ConnackUnexpected
  BY <1>0, <1>7, CalmTurn, CalmKept
<1>8. CASE \E n \in 1..Len(outboundMsgs) : \E due \in [1..n -> 1..Len(outboundMsgs)] : RetryTimer(due)
  BY <1>8, NoRetry
<1>9. CASE BrokerConnect
  BY <1>0, <1>9, CleanConnect
<1>10. CASE BrokerPublish1 \/ BrokerPublish2
  BY <1>10, CleanReceived
<1>11. CASE BrokerPubrel
  BY <1>11, CleanReleased
<1>12. CASE BrokerPubrec \/ BrokerEnd \/ \E q \in Qos : BrokerSend(q)
  BY <1>12, CalmBroker, CalmKept
<1>13. CASE UNCHANGED vars
  <2>1. /\ UNCHANGED <<commands, responses, outboundMsgs, connected, connect_state, b_up, b_received,
                       published, succeeded, to_broker, to_client>>
        /\ NextIs("DISCONNECT") => NextIs("DISCONNECT")'
    BY <1>13 DEF vars, NextIs
  <2>2. WithinFor(commands', commands, {"PUBLISH"})
    BY <2>1, QueueChanges
  <2>3. Calm
    BY <2>1, <2>2, SteadyCalm
  <2>. QED
    BY <2>3, CalmKept
<1>. QED
  BY <1>1, <1>2, <1>3, <1>4, <1>5, <1>6, <1>7, <1>8, <1>9, <1>10, <1>11, <1>12, <1>13
     DEF Next, SendThread, ReceiveThread, Timers, Broker, BrokerHandles

\* In a clean session that repeats nothing while connected, the session of the
\* nodes, onSuccess is called for the message it is about, though ids come
\* round: the id MQTTAsync_send finds free is not that of a message under way,
\* each callback that waits has its message under way, and a message whose
\* onSuccess is called has been published by the broker.
THEOREM CallbacksAreOwn ==
    ASSUME NodeSession
    PROVE  Spec => []OwnCallbacks
<1>1. Init => TypeInv /\ Linked /\ CleanInv
  BY TypesInit, LinkedInit, CleanInit
<1>2. TypeInv /\ Linked /\ CleanInv /\ [Next]_vars => (TypeInv /\ Linked /\ CleanInv)'
  BY TypesNext, LinkedNext, CleanNext
<1>3. TypeInv /\ Linked /\ CleanInv => OwnCallbacks
  <2>. SUFFICES ASSUME CleanInv PROVE OwnCallbacks
    OBVIOUS
  <2>1. ResponsesHaveMessages /\ UniqueIds
    BY DEF CleanInv, Apart
  <2>2. SuccessMeansPublished
    BY DEF CleanInv, Receiving, Published, SuccessMeansPublished, ToSet
  <2>. QED
    BY <2>1, <2>2 DEF OwnCallbacks
<1>. QED
  BY <1>1, <1>2, <1>3, PTL DEF Spec
=============================================================================

------------------------- MODULE MqttOrder_proofs -------------------------
(***************************************************************************)
(* In a session that is kept messages keep their order, both ways.         *)
(*                                                                         *)
(* It is enough to follow two messages of one quality of service           *)
(* (OutOrder, BackOrder): the lists they are in keep the order they were   *)
(* accepted in, every connection begins with these lists sent again from   *)
(* the first on, and on the way from there (PUBLISH, PUBREC, PUBREL)       *)
(* neither overtakes the other.                                            *)
(***************************************************************************)
EXTENDS MqttExchange_proofs

USE DEF sendVars, connVars, sessionVars, linkVars, brokerVars, bounds, history

-----------------------------------------------------------------------------
(* The order of the messages of the application.                           *)

\* Before each message of a sequence there are those of its quality of service
\* that are in the sequence and have a smaller number.
Ordered(s) ==
    \A i, j \in 1..Len(s) : s[i].qos = s[j].qos /\ s[i].seq < s[j].seq
                               => \E h \in 1..(j - 1) : s[h] = s[i]

Numbers == [seq : Nat, qos : {1, 2}]

LEMMA FirstAtProps ==
    ASSUME NEW S, NEW s \in Seq(S), NEW m \in ToSet(s)
    PROVE  /\ FirstAt(s, m) \in 1..Len(s) /\ s[FirstAt(s, m)] = m
           /\ \A j \in 1..Len(s) : s[j] = m => FirstAt(s, m) <= j
<1>. DEFINE At0 == {i \in 1..Len(s) : s[i] = m}
<1>1. At0 \in SUBSET Nat /\ At0 # {}
  BY DEF ToSet
<1>2. PICK i \in At0 : \A k \in At0 : i <= k
  BY <1>1, Least
<1>3. i \in 1..Len(s) /\ s[i] = m /\ \A j \in 1..(i - 1) : s[j] # m
  BY <1>2
<1>4. /\ FirstAt(s, m) \in 1..Len(s) /\ s[FirstAt(s, m)] = m
      /\ \A j \in 1..(FirstAt(s, m) - 1) : s[j] # m
  BY <1>3 DEF FirstAt
<1>. QED
  BY <1>4

LEMMA OrderedIsInOrder ==
    ASSUME NEW s \in Seq(Numbers), Ordered(s)
    PROVE  InOrder(s)
<1>. SUFFICES ASSUME NEW m \in ToSet(s), NEW k \in ToSet(s), m.qos = k.qos, m.seq < k.seq
              PROVE  FirstAt(s, m) < FirstAt(s, k)
  BY DEF InOrder
<1>1. /\ FirstAt(s, m) \in 1..Len(s) /\ s[FirstAt(s, m)] = m
      /\ \A j \in 1..Len(s) : s[j] = m => FirstAt(s, m) <= j
  BY FirstAtProps
<1>2. FirstAt(s, k) \in 1..Len(s) /\ s[FirstAt(s, k)] = k
  BY FirstAtProps
<1>3. PICK h \in 1..(FirstAt(s, k) - 1) : s[h] = m
  BY <1>1, <1>2 DEF Ordered
<1>4. h \in 1..Len(s) /\ FirstAt(s, m) <= h
  BY <1>1, <1>2, <1>3
<1>. QED
  BY <1>1, <1>2, <1>4

\* A message that is new and the last of its quality of service keeps the order
LEMMA OrderedAppend ==
    ASSUME NEW s \in Seq(Numbers), NEW e \in Numbers, Ordered(s),
           \/ \E i \in 1..Len(s) : s[i] = e
           \/ \A i \in 1..Len(s) : s[i].qos = e.qos => s[i].seq < e.seq
    PROVE  Ordered(Append(s, e))
<1>. DEFINE t == Append(s, e)
<1>1. /\ Len(s) \in Nat /\ Len(t) = Len(s) + 1 /\ t[Len(s) + 1] = e
      /\ \A i \in 1..Len(s) : t[i] = s[i] /\ s[i] \in Numbers
      /\ \A i \in 1..Len(t) : i = Len(s) + 1 \/ i \in 1..Len(s)
  BY AppendAt
<1>. HIDE DEF t
<1>. SUFFICES ASSUME NEW i \in 1..Len(t), NEW j \in 1..Len(t), t[i].qos = t[j].qos, t[i].seq < t[j].seq
              PROVE  \E h \in 1..(j - 1) : t[h] = t[i]
  BY DEF Ordered, t
<1>2. CASE i \in 1..Len(s) /\ j \in 1..Len(s)
  <2>1. PICK h \in 1..(j - 1) : s[h] = s[i]
    BY <1>1, <1>2 DEF Ordered
  <2>. QED
    BY <1>1, <1>2, <2>1
<1>3. CASE i \in 1..Len(s) /\ j = Len(s) + 1
  BY <1>1, <1>3
<1>4. CASE i = Len(s) + 1 /\ j \in 1..Len(s)
  <2>1. t[i] = e /\ t[j] = s[j] /\ ~(s[j].seq < e.seq) /\ s[j].qos = e.qos
    BY <1>1, <1>4 DEF Numbers
  <2>2. PICK g \in 1..Len(s) : s[g] = e
    BY <1>4, <2>1
  <2>3. PICK h \in 1..(j - 1) : s[h] = s[g]
    BY <1>1, <1>4, <2>1, <2>2 DEF Ordered
  <2>. QED
    BY <1>1, <1>4, <2>1, <2>2, <2>3
<1>5. CASE i = Len(s) + 1 /\ j = Len(s) + 1
  BY <1>1, <1>5 DEF Numbers
<1>. QED
  BY <1>1, <1>2, <1>3, <1>4, <1>5

\* A packet of this type with this id is there before place j
Before(s, type, id, j) == \E h \in 1..(j - 1) : s[h].type = type /\ s[h].id = id

\* The queue is in order, and behind everything sent
QueueOrder ==
    /\ \A i, j \in 1..Len(commands) :
          commands[i].type = "PUBLISH" /\ commands[j].type = "PUBLISH" /\ i < j
             => commands[i].id < commands[j].id
    /\ \A i \in 1..Len(commands), n \in Nat :
          commands[i].type = "PUBLISH" /\ Sending(n) => n < commands[i].id

(***************************************************************************)
(* The messages under way are in order, with those in front whose PUBREC   *)
(* came; what has been published of a quality of service is before what    *)
(* has not; and what is sent is under way or has been published.           *)
(***************************************************************************)
ListOrder ==
    /\ \A i, j \in 1..Len(outboundMsgs) : i < j => outboundMsgs[i].id < outboundMsgs[j].id
    /\ \A i, j \in 1..Len(outboundMsgs) :
          i < j /\ outboundMsgs[i].msg.qos = 2 /\ outboundMsgs[j].next = "PUBCOMP"
             => outboundMsgs[i].next = "PUBCOMP"
    /\ \A i \in 1..Len(outboundMsgs), p \in 1..Len(published) :
          published[p].qos = outboundMsgs[i].msg.qos /\ ~PublishedNo(outboundMsgs[i].id)
             => published[p].seq < outboundMsgs[i].id
    /\ \A n \in Nat : Holds(to_broker, Tokens, n) => HasId(outboundMsgs, n) \/ PublishedNo(n)

\* Nothing of an exchange is in flight before the client is connected
Bare == /\ \A i \in 1..Len(to_broker) : to_broker[i].type \notin Tokens
        /\ \A i \in 1..Len(to_client) : to_client[i].type \notin Acks
Silent == ~connected => Bare

\* A message under way of which the client knows nothing yet, or that is not published
Unheard(m) == IF m.msg.qos = 1 THEN ~PublishedNo(m.id) ELSE m.next = "PUBREC"

(***************************************************************************)
(* Two messages of one quality of service do not change places on the way  *)
(* to the broker and back: PUBLISH, then PUBREC, then PUBREL.  Over a      *)
(* connection that is up each of them is on its way.                       *)
(***************************************************************************)
WayOrder ==
    /\ \A j \in 1..Len(to_broker), i \in 1..Len(outboundMsgs) :
          /\ to_broker[j].type = "PUBLISH" /\ to_broker[j].msg.qos = outboundMsgs[i].msg.qos
          /\ outboundMsgs[i].id < to_broker[j].id /\ Unheard(outboundMsgs[i])
          => \/ Before(to_broker, "PUBLISH", outboundMsgs[i].id, j)
             \/ Holds(to_client, {"PUBREC"}, outboundMsgs[i].id)
    /\ \A j \in 1..Len(to_client), i \in 1..Len(outboundMsgs) :
          /\ to_client[j].type = "PUBREC" /\ outboundMsgs[i].msg.qos = 2
          /\ outboundMsgs[i].id < to_client[j].id /\ Unheard(outboundMsgs[i])
          => Before(to_client, "PUBREC", outboundMsgs[i].id, j)
    /\ \A j \in 1..Len(to_broker), i \in 1..Len(outboundMsgs) :
          /\ to_broker[j].type = "PUBREL" /\ outboundMsgs[i].msg.qos = 2
          /\ outboundMsgs[i].id < to_broker[j].id /\ ~PublishedNo(outboundMsgs[i].id)
          => Before(to_broker, "PUBREL", outboundMsgs[i].id, j)
    /\ connected /\ link = "open" =>
          \A i \in 1..Len(outboundMsgs) :
             /\ Unheard(outboundMsgs[i]) =>
                   \/ Holds(to_broker, {"PUBLISH"}, outboundMsgs[i].id)
                   \/ Holds(to_client, {"PUBREC"}, outboundMsgs[i].id)
             /\ outboundMsgs[i].next = "PUBCOMP" /\ ~PublishedNo(outboundMsgs[i].id) =>
                   Holds(to_broker, {"PUBREL"}, outboundMsgs[i].id)

OutOrder == Ordered(published) /\ QueueOrder /\ ListOrder /\ Silent /\ WayOrder

(***************************************************************************)
(* The packets of the types T are those of before, and none of them was    *)
(* read.                                                                   *)
(***************************************************************************)
Follows(t, s, T) ==
    /\ \A j \in 1..Len(t) : t[j].type \in T =>
          \E k \in 1..Len(s) : /\ s[k] = t[j]
                               /\ \A y \in T, n \in Nat : Before(s, y, n, k) => Before(t, y, n, j)
    /\ \A y \in T, n \in Nat : Holds(s, {y}, n) => Holds(t, {y}, n)

LEMMA FollowsSame ==
    ASSUME NEW s, NEW T
    PROVE  Follows(s, s, T)
  BY DEF Follows

LEMMA FollowsTail ==
    ASSUME NEW S, NEW s \in Seq(S), s # <<>>, NEW T, Head(s).type \notin T
    PROVE  Follows(Tail(s), s, T)
<1>1. /\ Len(s) \in Nat /\ Len(s) >= 1 /\ Head(s) = s[1] /\ Len(Tail(s)) = Len(s) - 1
      /\ \A i \in 1..Len(s) - 1 : Tail(s)[i] = s[i + 1]
  OBVIOUS
<1>. DEFINE t == Tail(s)
<1>. HIDE DEF t
<1>2. /\ Len(t) = Len(s) - 1 /\ \A i \in 1..Len(t) : t[i] = s[i + 1] /\ i + 1 \in 1..Len(s)
      /\ s[1].type \notin T
  BY <1>1 DEF t
<1>3. ASSUME NEW y \in T, NEW n \in Nat, NEW h \in 1..Len(s), s[h].type = y, s[h].id = n
      PROVE  h - 1 \in 1..Len(t) /\ t[h - 1] = s[h] /\ h > 1
  BY <1>1, <1>2, <1>3
<1>4. ASSUME NEW j \in 1..Len(t), NEW y \in T, NEW n \in Nat, Before(s, y, n, j + 1)
      PROVE  Before(t, y, n, j)
  <2>1. PICK h \in 1..j : s[h].type = y /\ s[h].id = n
    BY <1>4 DEF Before
  <2>2. h \in 1..Len(s)
    BY <1>1, <1>2
  <2>3. t[h - 1].type = y /\ t[h - 1].id = n /\ h - 1 \in 1..(j - 1)
    BY <1>3, <2>1, <2>2
  <2>. QED
    BY <2>3 DEF Before
<1>5. ASSUME NEW j \in 1..Len(t)
      PROVE  \E k \in 1..Len(s) : /\ s[k] = t[j]
                                  /\ \A y \in T, n \in Nat : Before(s, y, n, k) => Before(t, y, n, j)
  <2>1. j + 1 \in 1..Len(s) /\ s[j + 1] = t[j]
    BY <1>2
  <2>2. \A y \in T, n \in Nat : Before(s, y, n, j + 1) => Before(t, y, n, j)
    BY <1>4
  <2>. QED
    BY <2>1, <2>2
<1>6. ASSUME NEW y \in T, NEW n \in Nat, Holds(s, {y}, n)
      PROVE  Holds(t, {y}, n)
  BY <1>3, <1>6 DEF Holds
<1>. QED
  BY <1>5, <1>6 DEF Follows, t

LEMMA FollowsExtends ==
    ASSUME NEW S, NEW s \in Seq(S), NEW t \in Seq(S), NEW U, Extends(t, s, U), NEW T, T \cap U = {}
    PROVE  Follows(t, s, T)
<1>1. /\ Len(s) \in Nat /\ Len(t) \in Nat /\ Len(t) >= Len(s)
      /\ \A i \in 1..Len(s) : t[i] = s[i] /\ i \in 1..Len(t)
      /\ \A i \in 1..Len(t) : t[i].type \in T => i \in 1..Len(s)
  BY DEF Extends
<1>2. ASSUME NEW j \in 1..Len(t), t[j].type \in T
      PROVE  \E k \in 1..Len(s) : /\ s[k] = t[j]
                                  /\ \A y \in T, n \in Nat : Before(s, y, n, k) => Before(t, y, n, j)
  <2>1. j \in 1..Len(s)
    BY <1>1, <1>2
  <2>2. \A h \in 1..(j - 1) : t[h] = s[h]
    BY <1>1, <2>1
  <2>3. \A y \in T, n \in Nat : Before(s, y, n, j) => Before(t, y, n, j)
    BY <2>2 DEF Before
  <2>. QED
    BY <1>1, <2>1, <2>3
<1>3. ASSUME NEW y \in T, NEW n \in Nat, Holds(s, {y}, n)
      PROVE  Holds(t, {y}, n)
  BY <1>1, <1>3 DEF Holds
<1>. QED
  BY <1>2, <1>3 DEF Follows

\* On the way nothing changes: all is lost, or what there is stays in its order
QuietWay ==
    \/ Bare' /\ ~(connected' /\ link' = "open")
    \/ /\ Follows(to_broker', to_broker, Tokens) /\ Follows(to_client', to_client, {"PUBREC"})
       /\ connected' = connected /\ (link' = "open" => link = "open")
\* A message is under way until it has been published
Remain == \A n \in Nat : HasId(outboundMsgs, n) => HasId(outboundMsgs, n)' \/ PublishedNo(n)

LEMMA OutOrderInit == Init => OutOrder
<1>. SUFFICES ASSUME Init
              PROVE  OutOrder
  OBVIOUS
<1>1. /\ published = <<>> /\ outboundMsgs = <<>> /\ to_broker = <<>> /\ to_client = <<>>
      /\ commands = <<Connect(0)>>
  BY DEF Init
<1>2. Len(commands) = 1 /\ commands[1].type = "CONNECT"
  BY <1>1 DEF Connect
<1>. QED
  BY <1>1, <1>2 DEF OutOrder, Ordered, QueueOrder, ListOrder, Silent, Bare, WayOrder, Holds

LEMMA EntryTypes ==
    ASSUME NEW s \in Seq(Entries(Sent))
    PROVE  \A i \in 1..Len(s) : /\ s[i].id \in Nat /\ s[i].next \in {"PUBREC", "PUBCOMP"}
                                /\ s[i].msg \in Sent /\ s[i].msg.seq \in Nat /\ s[i].msg.qos \in {1, 2}
<1>. SUFFICES ASSUME NEW i \in 1..Len(s)
              PROVE  /\ s[i].id \in Nat /\ s[i].next \in {"PUBREC", "PUBCOMP"}
                     /\ s[i].msg \in Sent /\ s[i].msg.seq \in Nat /\ s[i].msg.qos \in {1, 2}
  OBVIOUS
<1>1. s[i] \in Entries(Sent)
  OBVIOUS
<1>2. s[i].id \in MsgId /\ s[i].next \in {"PUBREC", "PUBCOMP"} /\ s[i].msg \in Sent
  BY <1>1 DEF Entries
<1>3. s[i].msg.seq \in 1..MaxSends /\ s[i].msg.qos \in Qos
  BY <1>2 DEF Sent
<1>4. MsgId \subseteq Nat /\ 1..MaxSends \subseteq Nat /\ Qos \subseteq {1, 2}
  BY DeliveryAssumption DEF MsgId
<1>. QED
  BY <1>2, <1>3, <1>4

LEMMA OutOrderKept ==
    ASSUME OutOrder, TypeInv, TypeInv', QuietOut, QuietWay, Remain
    PROVE  OutOrder'
<1>1. /\ commands \in Seq(Command) /\ commands' \in Seq(Command)
      /\ outboundMsgs \in Seq(Entries(Sent)) /\ outboundMsgs' \in Seq(Entries(Sent))
      /\ to_broker \in Seq(ToBroker) /\ to_broker' \in Seq(ToBroker)
      /\ to_client \in Seq(ToClient) /\ to_client' \in Seq(ToClient)
  BY DEF TypeInv, SendTypes, SessionTypes, LinkTypes
<1>2. published' = published /\ b_received' = b_received
  BY DEF QuietOut
<1>3. \A n \in Nat : PublishedNo(n)' <=> PublishedNo(n)
  BY <1>2 DEF PublishedNo
<1>4. \A i \in 1..Len(outboundMsgs') : \E k \in 1..Len(outboundMsgs) : outboundMsgs'[i] = outboundMsgs[k]
  BY <1>1, WithinHas DEF QuietOut
<1>5. \A n \in Nat : Holds(to_broker', Tokens, n) => Holds(to_broker, Tokens, n)
  BY <1>1, HoldsWithin DEF QuietOut, Tokens
<1>6. \A n \in Nat : Sending(n)' => Sending(n)
  BY <1>2, <1>4, <1>5 DEF Sending, HasId, Tokens
<1>7. Ordered(published)'
  BY <1>2 DEF OutOrder, Ordered
<1>8. QueueOrder'
  <2>1. PICK f \in [1..Len(commands') -> Int] :
            /\ \A i \in 1..Len(commands') :
                  commands'[i].type = "PUBLISH" => f[i] \in 1..Len(commands) /\ commands'[i] = commands[f[i]]
            /\ \A i, j \in 1..Len(commands') :
                  commands'[i].type = "PUBLISH" /\ commands'[j].type = "PUBLISH" /\ i < j => f[i] < f[j]
    BY DEF QuietOut, WithinFor
  <2>. QED
    BY <1>6, <2>1, SMTT(30) DEF OutOrder, QueueOrder
<1>9. ListOrder'
  <2>1. PICK f \in [1..Len(outboundMsgs') -> 1..Len(outboundMsgs)] :
            /\ \A i \in 1..Len(outboundMsgs') : outboundMsgs'[i] = outboundMsgs[f[i]]
            /\ \A i, j \in 1..Len(outboundMsgs') : i < j => f[i] < f[j]
    BY DEF QuietOut, Within
  <2>2. \A n \in Nat : Holds(to_broker', Tokens, n) => HasId(outboundMsgs', n) \/ PublishedNo(n)
    BY <1>5 DEF OutOrder, ListOrder, Remain
  <2>3. \A i \in 1..Len(outboundMsgs) : outboundMsgs[i].id \in Nat
    BY <1>1, EntryTypes
  <2>4. ASSUME NEW i \in 1..Len(outboundMsgs'), NEW j \in 1..Len(outboundMsgs'), i < j
        PROVE  /\ outboundMsgs'[i].id < outboundMsgs'[j].id
               /\ outboundMsgs'[i].msg.qos = 2 /\ outboundMsgs'[j].next = "PUBCOMP"
                     => outboundMsgs'[i].next = "PUBCOMP"
    BY <2>1, <2>4 DEF OutOrder, ListOrder
  <2>5. ASSUME NEW i \in 1..Len(outboundMsgs'), NEW p \in 1..Len(published),
               published[p].qos = outboundMsgs'[i].msg.qos, ~PublishedNo(outboundMsgs'[i].id)
        PROVE  published[p].seq < outboundMsgs'[i].id
    BY <2>1, <2>5 DEF OutOrder, ListOrder
  <2>6. \A i \in 1..Len(outboundMsgs') : PublishedNo(outboundMsgs[i].id)' <=> PublishedNo(outboundMsgs'[i].id)
    BY <1>1, <1>3, EntryTypes
  <2>. QED
    BY <1>2, <1>3, <2>2, <2>4, <2>5, <2>6 DEF ListOrder
<1>10. Silent'
  <2>1. CASE Bare'
    BY <2>1 DEF Silent
  <2>2. CASE connected' = connected
    <3>. SUFFICES ASSUME ~connected
                  PROVE  Bare'
      BY <2>2 DEF Silent
    <3>1. Bare
      BY DEF OutOrder, Silent
    <3>2. ASSUME NEW i \in 1..Len(to_broker')
          PROVE  to_broker'[i].type \notin Tokens
      BY <3>1, <3>2, <1>1 DEF QuietOut, WithinFor, Bare, Tokens
    <3>3. ASSUME NEW i \in 1..Len(to_client')
          PROVE  to_client'[i].type \notin Acks
      BY <3>1, <3>3, <1>1 DEF QuietOut, WithinFor, Bare
    <3>. QED
      BY <3>2, <3>3 DEF Bare
  <2>. QED
    BY <2>1, <2>2 DEF QuietWay
<1>11. WayOrder'
  <2>1. CASE Bare' /\ ~(connected' /\ link' = "open")
    BY <2>1 DEF WayOrder, Bare, Tokens, Acks
  <2>2. CASE /\ Follows(to_broker', to_broker, Tokens) /\ Follows(to_client', to_client, {"PUBREC"})
             /\ connected' = connected /\ (link' = "open" => link = "open")
    <3>1. ASSUME NEW i \in 1..Len(outboundMsgs')
          PROVE  /\ outboundMsgs'[i].id \in Nat
                 /\ \E k \in 1..Len(outboundMsgs) : outboundMsgs'[i] = outboundMsgs[k]
                 /\ Unheard(outboundMsgs[i])' <=> Unheard(outboundMsgs'[i])
                 /\ PublishedNo(outboundMsgs[i].id)' <=> PublishedNo(outboundMsgs'[i].id)
      <4>1. outboundMsgs'[i].id \in Nat
        BY <1>1, EntryTypes
      <4>. QED
        BY <1>3, <1>4, <4>1 DEF Unheard
    <3>2. \A n \in Nat, y \in Tokens : Holds(to_broker, {y}, n) => Holds(to_broker', {y}, n)
      BY <2>2 DEF Follows
    <3>3. \A n \in Nat : Holds(to_client, {"PUBREC"}, n) => Holds(to_client', {"PUBREC"}, n)
      BY <2>2 DEF Follows
    <3>4. ASSUME NEW j \in 1..Len(to_broker'), to_broker'[j].type \in Tokens
          PROVE  \E k \in 1..Len(to_broker) :
                    /\ to_broker[k] = to_broker'[j]
                    /\ \A y \in Tokens, n \in Nat : Before(to_broker, y, n, k) => Before(to_broker', y, n, j)
      BY <2>2, <3>4 DEF Follows
    <3>5. ASSUME NEW j \in 1..Len(to_client'), to_client'[j].type = "PUBREC"
          PROVE  \E k \in 1..Len(to_client) :
                    /\ to_client[k] = to_client'[j]
                    /\ \A n \in Nat : Before(to_client, "PUBREC", n, k) => Before(to_client', "PUBREC", n, j)
      BY <2>2, <3>5 DEF Follows
    <3>6. WayOrder
      BY DEF OutOrder
    <3>7. ASSUME NEW j \in 1..Len(to_broker'), NEW i \in 1..Len(outboundMsgs'),
                 to_broker'[j].type = "PUBLISH", to_broker'[j].msg.qos = outboundMsgs'[i].msg.qos,
                 outboundMsgs'[i].id < to_broker'[j].id, Unheard(outboundMsgs[i])'
          PROVE  \/ Before(to_broker', "PUBLISH", outboundMsgs'[i].id, j)
                 \/ Holds(to_client', {"PUBREC"}, outboundMsgs'[i].id)
      <4>1. PICK k \in 1..Len(to_broker) :
                    /\ to_broker[k] = to_broker'[j]
                    /\ \A y \in Tokens, n \in Nat : Before(to_broker, y, n, k) => Before(to_broker', y, n, j)
        BY <3>4, <3>7 DEF Tokens
      <4>2. PICK l \in 1..Len(outboundMsgs) : outboundMsgs'[i] = outboundMsgs[l]
        BY <3>1
      <4>3. \/ Before(to_broker, "PUBLISH", outboundMsgs[l].id, k)
            \/ Holds(to_client, {"PUBREC"}, outboundMsgs[l].id)
        BY <3>1, <3>6, <3>7, <4>1, <4>2 DEF WayOrder
      <4>. QED
        BY <3>1, <3>3, <4>1, <4>2, <4>3 DEF Tokens
    <3>8. ASSUME NEW j \in 1..Len(to_client'), NEW i \in 1..Len(outboundMsgs'),
                 to_client'[j].type = "PUBREC", outboundMsgs'[i].msg.qos = 2,
                 outboundMsgs'[i].id < to_client'[j].id, Unheard(outboundMsgs[i])'
          PROVE  Before(to_client', "PUBREC", outboundMsgs'[i].id, j)
      <4>1. PICK k \in 1..Len(to_client) :
                    /\ to_client[k] = to_client'[j]
                    /\ \A n \in Nat : Before(to_client, "PUBREC", n, k) => Before(to_client', "PUBREC", n, j)
        BY <3>5, <3>8
      <4>2. PICK l \in 1..Len(outboundMsgs) : outboundMsgs'[i] = outboundMsgs[l]
        BY <3>1
      <4>3. Before(to_client, "PUBREC", outboundMsgs[l].id, k)
        BY <3>1, <3>6, <3>8, <4>1, <4>2 DEF WayOrder
      <4>. QED
        BY <3>1, <4>1, <4>2, <4>3
    <3>9. ASSUME NEW j \in 1..Len(to_broker'), NEW i \in 1..Len(outboundMsgs'),
                 to_broker'[j].type = "PUBREL", outboundMsgs'[i].msg.qos = 2,
                 outboundMsgs'[i].id < to_broker'[j].id, ~PublishedNo(outboundMsgs[i].id)'
          PROVE  Before(to_broker', "PUBREL", outboundMsgs'[i].id, j)
      <4>1. PICK k \in 1..Len(to_broker) :
                    /\ to_broker[k] = to_broker'[j]
                    /\ \A y \in Tokens, n \in Nat : Before(to_broker, y, n, k) => Before(to_broker', y, n, j)
        BY <3>4, <3>9 DEF Tokens
      <4>2. PICK l \in 1..Len(outboundMsgs) : outboundMsgs'[i] = outboundMsgs[l]
        BY <3>1
      <4>3. Before(to_broker, "PUBREL", outboundMsgs[l].id, k)
        BY <3>1, <3>6, <3>9, <4>1, <4>2 DEF WayOrder
      <4>. QED
        BY <3>1, <4>1, <4>2, <4>3 DEF Tokens
    <3>10. ASSUME connected', link' = "open", NEW i \in 1..Len(outboundMsgs')
           PROVE  /\ Unheard(outboundMsgs[i])' =>
                        \/ Holds(to_broker', {"PUBLISH"}, outboundMsgs'[i].id)
                        \/ Holds(to_client', {"PUBREC"}, outboundMsgs'[i].id)
                  /\ outboundMsgs'[i].next = "PUBCOMP" /\ ~PublishedNo(outboundMsgs[i].id)' =>
                        Holds(to_broker', {"PUBREL"}, outboundMsgs'[i].id)
      <4>1. PICK l \in 1..Len(outboundMsgs) : outboundMsgs'[i] = outboundMsgs[l]
        BY <3>1
      <4>2. /\ Unheard(outboundMsgs[l]) =>
                  \/ Holds(to_broker, {"PUBLISH"}, outboundMsgs[l].id)
                  \/ Holds(to_client, {"PUBREC"}, outboundMsgs[l].id)
            /\ outboundMsgs[l].next = "PUBCOMP" /\ ~PublishedNo(outboundMsgs[l].id) =>
                  Holds(to_broker, {"PUBREL"}, outboundMsgs[l].id)
        BY <2>2, <3>6, <3>10 DEF WayOrder
      <4>. QED
        BY <3>1, <3>2, <3>3, <4>1, <4>2 DEF Tokens
    <3>. QED
      BY <3>7, <3>8, <3>9, <3>10 DEF WayOrder
  <2>. QED
    BY <2>1, <2>2 DEF QuietWay
<1>. QED
  BY <1>7, <1>8, <1>9, <1>10, <1>11 DEF OutOrder

\* Nothing of the types T is there, before or after
LEMMA FollowsNone ==
    ASSUME NEW s, NEW t, NEW T, \A i \in 1..Len(t) : t[i].type \notin T,
           \A i \in 1..Len(s) : s[i].type \notin T
    PROVE  Follows(t, s, T)
  BY DEF Follows, Holds

LEMMA WayLost ==
    ASSUME to_client' = <<>>, to_broker' = <<>> \/ to_broker' = <<[type |-> "CONNECT"]>>,
           ~connected' \/ link' # "open"
    PROVE  QuietWay
<1>1. \A i \in 1..Len(to_broker') : to_broker'[i].type \notin Tokens
  <2>1. CASE to_broker' = <<>>
    BY <2>1
  <2>2. CASE to_broker' = <<[type |-> "CONNECT"]>>
    <3>1. Len(to_broker') = 1 /\ to_broker'[1].type = "CONNECT"
      BY <2>2
    <3>. QED
      BY <3>1 DEF Tokens
  <2>. QED
    BY <2>1, <2>2
<1>2. \A i \in 1..Len(to_client') : to_client'[i].type \notin Acks
  OBVIOUS
<1>. QED
  BY <1>1, <1>2 DEF QuietWay, Bare

LEMMA WayKept ==
    ASSUME UNCHANGED <<to_broker, to_client, connected>>, link' = "open" => link = "open"
    PROVE  QuietWay
  BY FollowsSame DEF QuietWay

LEMMA RemainSame ==
    ASSUME UNCHANGED outboundMsgs
    PROVE  Remain
  BY DEF Remain, HasId

LEMMA QuietWaySend ==
    ASSUME KeptSession, TypeInv, TypeInv',
           StartConnect \/ CannotConnect \/ LoseConnection \/ NothingToLose
           \/ ConnectTimeout \/ Break \/ PingTimeout
    PROVE  QuietWay /\ Remain
<1>1. ASSUME StartConnect
      PROVE  QuietWay /\ Remain
  BY <1>1, WayLost, RemainSame DEF StartConnect
<1>2. ASSUME CannotConnect \/ NothingToLose \/ PingTimeout
      PROVE  QuietWay /\ Remain
  BY <1>2, WayKept, RemainSame DEF CannotConnect, NothingToLose, PingTimeout
<1>3. ASSUME LoseConnection
      PROVE  QuietWay /\ Remain
  BY <1>3, WayLost, RemainSame DEF LoseConnection, CloseSession, Close, KeptSession
<1>4. ASSUME ConnectTimeout
      PROVE  QuietWay /\ Remain
  <2>1. messageQueue \in Seq(Incoming) /\ ConnectFailed(messageQueue)
    BY <1>4 DEF ConnectTimeout, TypeInv, SessionTypes
  <2>2. Close /\ UNCHANGED outboundMsgs
    BY <2>1, ConnectFailedTypes, ConnectFailedQuiet
  <2>. QED
    BY <2>2, WayLost, RemainSame DEF Close
<1>5. ASSUME Break
      PROVE  QuietWay /\ Remain
  BY <1>5, WayLost, RemainSame DEF Break
<1>. QED
  BY <1>1, <1>2, <1>3, <1>4, <1>5

\* A packet is read that is no PUBREC, and is acknowledged or not
LEMMA WayRead ==
    ASSUME TypeInv, NEW type, type # "PUBREC", Reads(type), NEW t \in Acks,
           to_broker' = to_broker \/ Answer(Packet(t, Head(to_client).id)),
           UNCHANGED <<connected, link>>
    PROVE  QuietWay
<1>1. to_broker \in Seq(ToBroker) /\ to_client \in Seq(ToClient) /\ LinkTypes
  BY DEF TypeInv, LinkTypes
<1>2. /\ to_client # <<>> /\ to_client' = Tail(to_client) /\ Head(to_client).type = type
      /\ Head(to_client).id \in Nat
  BY <1>1, ReadsProps, PacketTypes DEF Reads
<1>3. Follows(to_client', to_client, {"PUBREC"})
  BY <1>1, <1>2, FollowsTail
<1>4. Follows(to_broker', to_broker, Tokens)
  <2>1. CASE to_broker' = to_broker
    BY <2>1, FollowsSame
  <2>2. CASE Answer(Packet(t, Head(to_client).id))
    <3>. DEFINE p == Packet(t, Head(to_client).id)
    <3>1. p \in ToBroker
      BY <1>2, PacketTypes DEF Acks
    <3>2. p.type \in Acks /\ to_broker' = Append(to_broker, p)
      BY <2>2 DEF Packet, Answer
    <3>. HIDE DEF p
    <3>3. to_broker' \in Seq(ToBroker) /\ Extends(to_broker', to_broker, Acks)
      BY <1>1, <3>1, <3>2, ExtendsAppend, AppendType
    <3>4. Tokens \cap Acks = {}
      BY DEF Tokens, Acks
    <3>. QED
      BY <1>1, <3>3, <3>4, FollowsExtends
  <2>. QED
    BY <2>1, <2>2
<1>. QED
  BY <1>3, <1>4 DEF QuietWay

LEMMA QuietWayReceive ==
    ASSUME OutInv, TypeInv, TypeInv',
           RecvPublish1 \/ RecvPublish2 \/ RecvPubrel \/ RecvStrayPubrel \/ RecvPingresp
           \/ RecvConnack \/ RecvPuback \/ RecvPubcomp
    PROVE  QuietWay /\ Remain
<1>a. "PUBACK" \in Acks /\ "PUBREC" \in Acks /\ "PUBCOMP" \in Acks
  BY DEF Acks
<1>1. ASSUME RecvPublish1
      PROVE  QuietWay /\ Remain
  BY <1>1, <1>a, WayRead, RemainSame DEF RecvPublish1
<1>2. ASSUME RecvPublish2
      PROVE  QuietWay /\ Remain
  BY <1>2, <1>a, WayRead, RemainSame DEF RecvPublish2
<1>3. ASSUME RecvPubrel
      PROVE  QuietWay /\ Remain
  BY <1>3, <1>a, WayRead, RemainSame DEF RecvPubrel
<1>4. ASSUME RecvStrayPubrel
      PROVE  QuietWay /\ Remain
  BY <1>4, <1>a, WayRead, RemainSame DEF RecvStrayPubrel, AnswerStray
<1>5. ASSUME RecvPingresp
      PROVE  QuietWay /\ Remain
  BY <1>5, WayKept, RemainSame DEF RecvPingresp
<1>6. ASSUME RecvConnack
      PROVE  QuietWay /\ Remain
  BY <1>6, <1>a, WayRead, RemainSame DEF RecvConnack
<1>7. ASSUME NEW type \in {"PUBACK", "PUBCOMP"}, NEW q, RecvEnd(type, q)
      PROVE  QuietWay /\ Remain
  <2>. DEFINE id0 == Head(to_client).id
  <2>0. /\ outboundMsgs \in Seq(Entries(Sent)) /\ to_client \in Seq(ToClient) /\ LinkTypes
    BY DEF TypeInv, SessionTypes, LinkTypes
  <2>1. Reads(type) /\ UNCHANGED <<connected, link, to_broker>>
    BY <1>7 DEF RecvEnd
  <2>2. QuietWay
    BY <1>a, <2>1, WayRead
  <2>3. /\ to_client # <<>> /\ Head(to_client).type = type /\ Head(to_client) \in ToClient
    BY <2>0, <2>1, ReadsProps DEF Reads
  <2>4. id0 \in Nat /\ Holds(to_client, {"PUBACK", "PUBCOMP"}, id0)
    BY <2>0, <2>3, PacketTypes, HoldsTail
  <2>5. PublishedNo(id0)
    BY <2>4 DEF OutInv, Acknowledged
  <2>6. outboundMsgs' = Without(outboundMsgs, id0) \/ outboundMsgs' = outboundMsgs
    BY <1>7 DEF RecvEnd
  <2>. HIDE DEF id0
  <2>7. CASE outboundMsgs' = outboundMsgs
    BY <2>2, <2>7, RemainSame
  <2>8. CASE outboundMsgs' = Without(outboundMsgs, id0) /\ ~HasId(outboundMsgs, id0)
    BY <2>2, <2>8, RemainSame, WithoutNone
  <2>9. CASE outboundMsgs' = Without(outboundMsgs, id0) /\ HasId(outboundMsgs, id0)
    <3>1. OwnIds(outboundMsgs)
      BY DEF OutInv, PublishedOnce, UniqueIds, OwnIds
    <3>2. AllBut(outboundMsgs', outboundMsgs, id0)
      BY <2>0, <2>9, <3>1, WithoutIds
    <3>3. \A n \in Nat : HasId(outboundMsgs, n) => HasId(outboundMsgs, n)' \/ n = id0
      BY <3>2 DEF AllBut, HasId
    <3>. QED
      BY <2>2, <2>5, <3>3 DEF Remain
  <2>. QED
    BY <2>6, <2>7, <2>8, <2>9
<1>. QED
  BY <1>1, <1>2, <1>3, <1>4, <1>5, <1>6, <1>7 DEF RecvPuback, RecvPubcomp

LEMMA QuietWayTurn ==
    ASSUME KeptSession, TypeInv, TypeInv',
           ReadFails \/ TurnLost \/ TurnFails \/ TurnEnds \/ ConnackUnexpected
    PROVE  QuietWay /\ Remain
<1>1. ASSUME NEW messages \in Seq(Incoming), ConnectFailed(messages)
      PROVE  QuietWay /\ Remain
  <2>1. Close /\ UNCHANGED outboundMsgs
    BY <1>1, ConnectFailedTypes, ConnectFailedQuiet
  <2>. QED
    BY <2>1, WayLost, RemainSame DEF Close
<1>2. messageQueue \in Seq(Incoming) /\ arrived \in Seq(Incoming) /\ refusals \in Nat
  BY DEF TypeInv, SessionTypes, HistoryTypes, BoundTypes
<1>3. ASSUME ReadFails
      PROVE  QuietWay /\ Remain
  BY <1>1, <1>2, <1>3, WayKept, RemainSame DEF ReadFails
<1>4. ASSUME TurnLost \/ TurnEnds
      PROVE  QuietWay /\ Remain
  BY <1>4, WayKept, RemainSame DEF TurnLost, TurnEnds
<1>5. ASSUME TurnFails
      PROVE  QuietWay /\ Remain
  BY <1>5, WayKept, WayLost, RemainSame DEF TurnFails, Close
<1>6. ASSUME ConnackUnexpected
      PROVE  QuietWay /\ Remain
  <2>1. PICK ok \in BOOLEAN : DeliverHead(ok) /\ ConnectFailed(AfterDelivery(ok))
    BY <1>6 DEF ConnackUnexpected
  <2>2. AfterDelivery(ok) \in Seq(Incoming)
    BY <1>2, <2>1, DeliverHeadTypes
  <2>. QED
    BY <1>1, <2>1, <2>2
<1>. QED
  BY <1>3, <1>4, <1>5, <1>6

LEMMA QuietWayBroker ==
    ASSUME KeptSession, TypeInv, TypeInv', Linked,
           BrokerConnect \/ BrokerPubrec \/ BrokerEnd \/ \E q \in Qos : BrokerSend(q)
    PROVE  QuietWay /\ Remain
<1>0. /\ to_broker \in Seq(ToBroker) /\ to_client \in Seq(ToClient) /\ b_unacked \in Seq(Owing)
      /\ to_client' \in Seq(ToClient) /\ LinkTypes
  BY DEF TypeInv, LinkTypes, BrokerTypes
<1>1. ASSUME NEW type, type \notin Tokens, BrokerReads(type)
      PROVE  Follows(to_broker', to_broker, Tokens)
  BY <1>0, <1>1, FollowsTail DEF BrokerReads
<1>t. "CONNECT" \notin Tokens /\ "PUBREC" \notin Tokens /\ "PUBACK" \notin Tokens /\ "PUBCOMP" \notin Tokens
  BY DEF Tokens
<1>2. ASSUME Follows(to_broker', to_broker, Tokens), Follows(to_client', to_client, {"PUBREC"}), BrokerOnly
      PROVE  QuietWay /\ Remain
  BY <1>2, RemainSame DEF QuietWay, BrokerOnly
<1>3. ASSUME BrokerConnect
      PROVE  QuietWay /\ Remain
  <2>1. \A i \in 1..Len(to_client') : to_client'[i].type \notin {"PUBREC"}
    <3>1. /\ Len(to_client') = Len(b_unacked) + 1 /\ to_client'[1] = Packet("CONNACK", 0)
          /\ \A k \in 1..Len(b_unacked) : to_client'[k + 1] = BrokerAgain(b_unacked[k])
      BY <1>0, <1>3, GreetingType DEF KeptSession
    <3>2. \A k \in 1..Len(b_unacked) : to_client'[k + 1].type \in {"PUBLISH", "PUBREL"}
      BY <1>0, <3>1, BrokerAgainType
    <3>. TAKE i \in 1..Len(to_client')
    <3>3. CASE i = 1
      BY <3>1, <3>3 DEF Packet
    <3>4. CASE i # 1
      <4>1. i - 1 \in 1..Len(b_unacked) /\ (i - 1) + 1 = i
        BY <1>0, <3>1, <3>4
      <4>. QED
        BY <3>2, <4>1
    <3>. QED
      BY <3>3, <3>4
  <2>2. to_client = <<>>
    <3>1. BrokerReads("CONNECT")
      BY <1>3 DEF BrokerConnect
    <3>2. 1 \in 1..Len(to_broker) /\ to_broker[1].type = "CONNECT"
      BY <1>0, <3>1 DEF BrokerReads
    <3>. QED
      BY <3>2 DEF Linked
  <2>3. Follows(to_client', to_client, {"PUBREC"})
    BY <2>1, <2>2, FollowsNone
  <2>4. BrokerReads("CONNECT") /\ BrokerOnly
    BY <1>3 DEF BrokerConnect
  <2>. QED
    BY <1>1, <1>2, <1>t, <2>3, <2>4
<1>4. ASSUME BrokerPubrec
      PROVE  QuietWay /\ Remain
  <2>. DEFINE p == Packet("PUBREL", Head(to_broker).id)
  <2>1. Head(to_broker).id \in Nat
    BY <1>0, <1>4, BrokerReadsProps, PacketTypes DEF BrokerPubrec
  <2>2. p \in ToClient
    BY <2>1, PacketTypes
  <2>3. p.type \in {"PUBREL"} /\ to_client' = Append(to_client, p)
    BY <1>4 DEF BrokerPubrec, BrokerAnswers, Packet
  <2>. HIDE DEF p
  <2>4. Extends(to_client', to_client, {"PUBREL"})
    BY <1>0, <2>2, <2>3, ExtendsAppend
  <2>5. Follows(to_client', to_client, {"PUBREC"})
    BY <1>0, <2>4, FollowsExtends
  <2>6. BrokerReads("PUBREC") /\ BrokerOnly
    BY <1>4 DEF BrokerPubrec
  <2>. QED
    BY <1>1, <1>2, <1>t, <2>5, <2>6
<1>5. ASSUME BrokerEnd
      PROVE  QuietWay /\ Remain
  <2>1. BrokerReads("PUBACK") \/ BrokerReads("PUBCOMP")
    BY <1>5 DEF BrokerEnd
  <2>2. Follows(to_broker', to_broker, Tokens)
    BY <1>1, <1>t, <2>1
  <2>. QED
    BY <1>2, <1>5, <2>2, FollowsSame DEF BrokerEnd
<1>6. ASSUME NEW q \in Qos, BrokerSend(q)
      PROVE  QuietWay /\ Remain
  <2>1. PICK e \in Owing : to_client' = IF b_up THEN Append(to_client, Publish(e.id, FALSE, e.msg)) ELSE to_client
    BY <1>6, BrokerSendProps
  <2>. DEFINE p == Publish(e.id, FALSE, e.msg)
  <2>2. e.id \in Nat /\ e.msg \in Incoming
    BY DEF Owing
  <2>3. p \in ToClient
    BY <2>2, PacketTypes
  <2>4. p.type \in {"PUBLISH"}
    BY DEF Publish
  <2>5. to_client' = to_client \/ to_client' = Append(to_client, p)
    BY <2>1
  <2>. HIDE DEF p
  <2>6. Follows(to_client', to_client, {"PUBREC"})
    BY <1>0, <2>3, <2>4, <2>5, ExtendsAppend, FollowsExtends, FollowsSame, ZenonT(60)
  <2>. QED
    BY <1>2, <1>6, <2>6, FollowsSame DEF BrokerSend
<1>. QED
  BY <1>3, <1>4, <1>5, <1>6

\* Ids are numbers, and those of the messages they are for
LEMMA OrderFacts ==
    ASSUME OutInv, TypeInv
    PROVE  /\ \A i \in 1..Len(outboundMsgs) :
                 /\ outboundMsgs[i].id \in Nat /\ outboundMsgs[i].msg \in Sent
                 /\ outboundMsgs[i].id = outboundMsgs[i].msg.seq /\ outboundMsgs[i].msg.qos \in {1, 2}
                 /\ outboundMsgs[i].next \in {"PUBREC", "PUBCOMP"} /\ Sending(outboundMsgs[i].id)
           /\ \A j \in 1..Len(to_broker) :
                 /\ to_broker[j].type \in Tokens => to_broker[j].id \in Nat /\ Sending(to_broker[j].id)
                 /\ to_broker[j].type = "PUBLISH" => /\ to_broker[j].msg \in Sent /\ to_broker[j].id = to_broker[j].msg.seq
                                                     /\ to_broker[j].msg.qos \in {1, 2}
           /\ \A j \in 1..Len(to_client) : to_client[j].id \in Nat
           /\ \A i \in 1..Len(commands) : commands[i].type = "PUBLISH" =>
                 commands[i].id \in Nat /\ commands[i].msg \in Sent /\ commands[i].id = commands[i].msg.seq
           /\ \A p \in 1..Len(published) :
                 published[p] \in Sent /\ published[p].seq \in Nat /\ published[p].qos \in {1, 2}
<1>0. /\ commands \in Seq(Command) /\ published \in Seq(Sent) /\ outboundMsgs \in Seq(Entries(Sent))
      /\ to_broker \in Seq(ToBroker) /\ to_client \in Seq(ToClient)
  BY DEF TypeInv, SendTypes, SessionTypes, LinkTypes, HistoryTypes
<1>b. \A m \in Sent : m.seq \in 1..MaxSends /\ m.qos \in Qos
  BY DEF Sent
<1>c. MsgId \subseteq Nat /\ 1..MaxSends \subseteq Nat /\ Qos \subseteq {1, 2}
  BY DeliveryAssumption DEF MsgId
<1>a. MsgId \subseteq Nat /\ \A m \in Sent : m.seq \in Nat /\ m.qos \in {1, 2}
  BY <1>b, <1>c
<1>n. \A id \in Nat, m \in Sent : Carried(id, m) => id = m.seq
  BY DEF OutInv, Numbered
<1>1. ASSUME NEW i \in 1..Len(outboundMsgs)
      PROVE  /\ outboundMsgs[i].id \in Nat /\ outboundMsgs[i].msg \in Sent
             /\ outboundMsgs[i].id = outboundMsgs[i].msg.seq /\ outboundMsgs[i].msg.qos \in {1, 2}
             /\ outboundMsgs[i].next \in {"PUBREC", "PUBCOMP"} /\ Sending(outboundMsgs[i].id)
  <2>1. outboundMsgs[i].id \in Nat /\ outboundMsgs[i].msg \in Sent /\ outboundMsgs[i].next \in {"PUBREC", "PUBCOMP"}
    BY <1>0, EntryTypes
  <2>2. Carried(outboundMsgs[i].id, outboundMsgs[i].msg) /\ Sending(outboundMsgs[i].id)
    BY DEF Carried, UnderWay, Sending, HasId
  <2>. QED
    BY <1>a, <1>n, <2>1, <2>2
<1>2. ASSUME NEW j \in 1..Len(to_broker)
      PROVE  /\ to_broker[j].type \in Tokens => to_broker[j].id \in Nat /\ Sending(to_broker[j].id)
             /\ to_broker[j].type = "PUBLISH" => /\ to_broker[j].msg \in Sent /\ to_broker[j].id = to_broker[j].msg.seq
                                                 /\ to_broker[j].msg.qos \in {1, 2}
  <2>1. to_broker[j] \in ToBroker
    BY <1>0
  <2>2. to_broker[j].type \in Tokens => to_broker[j].id \in Nat /\ Sending(to_broker[j].id)
    BY <2>1, PacketTypes DEF Tokens, Sending, Holds
  <2>3. ASSUME to_broker[j].type = "PUBLISH"
        PROVE  /\ to_broker[j].msg \in Sent /\ to_broker[j].id = to_broker[j].msg.seq
               /\ to_broker[j].msg.qos \in {1, 2}
    <3>1. to_broker[j].msg \in Sent /\ to_broker[j].id \in Nat
      BY <1>a, <2>1, <2>3, PacketTypes
    <3>2. Carried(to_broker[j].id, to_broker[j].msg)
      BY <2>3 DEF Carried, InFlight
    <3>. QED
      BY <1>a, <1>n, <3>1, <3>2
  <2>. QED
    BY <2>2, <2>3
<1>3. \A j \in 1..Len(to_client) : to_client[j].id \in Nat
  BY <1>0, PacketTypes
<1>4. ASSUME NEW i \in 1..Len(commands), commands[i].type = "PUBLISH"
      PROVE  commands[i].id \in Nat /\ commands[i].msg \in Sent /\ commands[i].id = commands[i].msg.seq
  <2>1. commands[i] \in Command
    BY <1>0
  <2>2. commands[i].id \in Nat /\ commands[i].msg \in Sent
    BY <1>a, <1>4, <2>1, CommandTypes
  <2>3. Carried(commands[i].id, commands[i].msg)
    BY <1>4 DEF Carried, Queued
  <2>. QED
    BY <1>n, <2>2, <2>3
<1>5. \A p \in 1..Len(published) : published[p] \in Sent /\ published[p].seq \in Nat /\ published[p].qos \in {1, 2}
  BY <1>0, <1>a
<1>. QED
  BY <1>1, <1>2, <1>3, <1>4, <1>5

LEMMA OutOrderSend ==
    ASSUME OutOrder, OutInv, OutInv', TypeInv, NEW q \in Qos, Send(q)
    PROVE  OutOrder'
<1>. DEFINE c == [type |-> "PUBLISH", id |-> NextMsgId, msg |-> [seq |-> sends + 1, qos |-> q]]
            w == commands'
            l == Len(commands)
<1>0. commands \in Seq(Command) /\ sends \in Nat
  BY DEF TypeInv, SendTypes, BoundTypes
<1>1. /\ w = Append(commands, c)
      /\ UNCHANGED <<connected, link, outboundMsgs, to_broker, to_client, b_received, published>>
  BY DEF Send
<1>2. c.id = sends + 1
  BY DEF Send, OutInv, Numbered
<1>3. /\ l \in Nat /\ l = Len(commands) /\ Len(w) = l + 1 /\ w[l + 1] = c /\ \A i \in 1..l : w[i] = commands[i]
  BY <1>0, <1>1
<1>. HIDE DEF c, l
<1>4. \A n \in Nat : Sending(n)' => Sending(n)
  BY <1>1 DEF Sending, HasId, Holds
<1>5. \A n \in Nat : Sending(n) => n <= sends
  BY SendingCarried DEF OutInv, Numbered
<1>6. ASSUME NEW i \in 1..l, commands[i].type = "PUBLISH"
      PROVE  commands[i].id \in Nat /\ commands[i].id <= sends
  <2>1. commands[i].id \in Nat /\ commands[i].msg \in Sent
    BY <1>3, <1>6, OrderFacts
  <2>2. Carried(commands[i].id, commands[i].msg)
    BY <1>3, <1>6 DEF Carried, Queued
  <2>. QED
    BY <2>1, <2>2 DEF OutInv, Numbered
<1>7. ASSUME NEW i \in 1..Len(w), NEW j \in 1..Len(w), w[i].type = "PUBLISH", w[j].type = "PUBLISH", i < j
      PROVE  w[i].id < w[j].id
  <2>1. CASE j \in 1..l
    BY <1>3, <1>7, <2>1 DEF OutOrder, QueueOrder
  <2>2. CASE j = l + 1
    <3>1. i \in 1..l /\ w[i] = commands[i]
      BY <1>3, <1>7, <2>2
    <3>. QED
      BY <1>0, <1>2, <1>3, <1>6, <1>7, <2>2, <3>1
  <2>. QED
    BY <1>3, <2>1, <2>2
<1>8. ASSUME NEW i \in 1..Len(w), NEW n \in Nat, w[i].type = "PUBLISH", Sending(n)'
      PROVE  n < w[i].id
  <2>1. CASE i \in 1..l
    BY <1>3, <1>4, <1>8, <2>1 DEF OutOrder, QueueOrder
  <2>2. CASE i = l + 1
    BY <1>0, <1>2, <1>3, <1>4, <1>5, <1>8, <2>2
  <2>. QED
    BY <1>3, <2>1, <2>2
<1>9. QueueOrder'
  BY <1>7, <1>8 DEF QueueOrder
<1>10. Ordered(published)' /\ ListOrder' /\ Silent' /\ WayOrder'
  BY <1>1 DEF OutOrder, Ordered, ListOrder, Silent, Bare, WayOrder, Before, Holds, HasId, PublishedNo, Unheard
<1>. QED
  BY <1>9, <1>10 DEF OutOrder

\* Packets are put behind those there are
LEMMA Longer ==
    ASSUME NEW S, NEW s \in Seq(S), NEW t \in Seq(S), Len(t) >= Len(s),
           \A i \in 1..Len(s) : t[i] = s[i]
    PROVE  /\ \A y, n : \A j \in 1..Len(s) : Before(s, y, n, j) => Before(t, y, n, j)
           /\ \A y, n : \A j \in 1..Len(t) : j > Len(s) /\ Holds(s, {y}, n) => Before(t, y, n, j)
           /\ \A y, n : Holds(s, {y}, n) => Holds(t, {y}, n)
<1>1. Len(s) \in Nat /\ Len(t) \in Nat
  OBVIOUS
<1>2. ASSUME NEW y, NEW n, NEW j \in 1..Len(s), Before(s, y, n, j)
      PROVE  Before(t, y, n, j)
  <2>1. PICK h \in 1..(j - 1) : s[h].type = y /\ s[h].id = n
    BY <1>2 DEF Before
  <2>2. h \in 1..Len(s)
    BY <1>1
  <2>. QED
    BY <2>1, <2>2 DEF Before
<1>3. ASSUME NEW y, NEW n, Holds(s, {y}, n)
      PROVE  /\ Holds(t, {y}, n)
             /\ \A j \in 1..Len(t) : j > Len(s) => Before(t, y, n, j)
  <2>1. PICK h \in 1..Len(s) : s[h].type = y /\ s[h].id = n
    BY <1>3 DEF Holds
  <2>2. h \in 1..Len(t) /\ t[h].type = y /\ t[h].id = n
    BY <1>1, <2>1
  <2>3. Holds(t, {y}, n)
    BY <2>2 DEF Holds
  <2>4. ASSUME NEW j \in 1..Len(t), j > Len(s)
        PROVE  Before(t, y, n, j)
    <3>1. h \in 1..(j - 1)
      BY <1>1, <2>4
    <3>. QED
      BY <2>2, <3>1 DEF Before
  <2>. QED
    BY <2>3, <2>4
<1>. QED
  BY <1>2, <1>3

LEMMA OutOrderStarted ==
    ASSUME OutOrder, OutInv, TypeInv, TypeInv', NextIs("PUBLISH"), connected, UNCHANGED <<connected, link>>,
           NEW c, c = Head(commands), Started(c),
           to_broker' = IF link = "open" THEN Append(to_broker, Publish(c.id, FALSE, c.msg)) ELSE to_broker
    PROVE  OutOrder'
<1>. DEFINE n0 == c.id
            e == [id |-> c.id, msg |-> c.msg, next |-> "PUBREC"]
            p == Publish(c.id, FALSE, c.msg)
            l == Len(outboundMsgs)
            w == outboundMsgs'
            b == Len(to_broker)
            v == to_broker'
<1>t. /\ commands \in Seq(Command) /\ commands' \in Seq(Command) /\ commands # <<>>
      /\ outboundMsgs \in Seq(Entries(Sent)) /\ w \in Seq(Entries(Sent))
      /\ to_broker \in Seq(ToBroker) /\ v \in Seq(ToBroker)
  BY DEF TypeInv, SendTypes, SessionTypes, LinkTypes, NextIs
<1>c. 1 \in 1..Len(commands) /\ commands[1] = c /\ c.type = "PUBLISH"
  BY <1>t DEF NextIs
<1>0. /\ commands \in Seq(Command) /\ commands' \in Seq(Command) /\ commands # <<>>
      /\ outboundMsgs \in Seq(Entries(Sent)) /\ w \in Seq(Entries(Sent))
      /\ to_broker \in Seq(ToBroker) /\ v \in Seq(ToBroker)
      /\ 1 \in 1..Len(commands) /\ commands[1].type = "PUBLISH" /\ commands[1].id = n0
  BY <1>t, <1>c
<1>1. /\ n0 \in Nat /\ ~Sending(n0) /\ e.id = n0 /\ e.msg = c.msg /\ e.next = "PUBREC"
      /\ p.id = n0 /\ p.msg = c.msg /\ p.type = "PUBLISH" /\ p \in ToBroker /\ e \in Entries(Sent)
  <2>1. c \in Command /\ c.type = "PUBLISH"
    BY <1>t, <1>c
  <2>2. c.id \in MsgId /\ c.msg \in Sent
    BY <2>1, CommandTypes
  <2>. QED
    BY <2>2, StartedProps, PacketTypes DEF Publish, Entries
<1>2. w = Append(outboundMsgs, e) /\ UNCHANGED <<to_client, b_received, published>>
  BY DEF Started, Stored
<1>3. WithinFor(commands', Tail(commands), {"PUBLISH"})
  BY DEF Started
<1>4. v = IF link = "open" THEN Append(to_broker, p) ELSE to_broker
  OBVIOUS
<1>. HIDE DEF n0, e, p, l, b
<1>5. /\ l \in Nat /\ l = Len(outboundMsgs) /\ Len(w) = l + 1 /\ w[l + 1] = e
      /\ \A i \in 1..l : w[i] = outboundMsgs[i]
      /\ \A i \in 1..Len(w) : i = l + 1 \/ i \in 1..l
  BY <1>0, <1>1, <1>2, AppendAt DEF l
<1>6. /\ b \in Nat /\ b = Len(to_broker) /\ Len(v) >= b /\ \A j \in 1..b : v[j] = to_broker[j]
      /\ \A j \in 1..Len(v) : j \in 1..b \/ (j > b /\ v[j] = p /\ link = "open")
      /\ link = "open" => b + 1 \in 1..Len(v) /\ v[b + 1] = p
  <2>1. CASE link = "open"
    <3>1. v = Append(to_broker, p) /\ b = Len(to_broker)
      BY <1>4, <2>1 DEF b
    <3>2. /\ b \in Nat /\ Len(v) = b + 1 /\ v[b + 1] = p /\ \A j \in 1..b : v[j] = to_broker[j]
          /\ \A j \in 1..Len(v) : j = b + 1 \/ j \in 1..b
      <4>. DEFINE u == Append(to_broker, p)
      <4>1. /\ Len(to_broker) \in Nat /\ Len(u) = Len(to_broker) + 1 /\ u[Len(to_broker) + 1] = p
            /\ \A j \in 1..Len(to_broker) : u[j] = to_broker[j]
            /\ \A j \in 1..Len(u) : j = Len(to_broker) + 1 \/ j \in 1..Len(to_broker)
        BY <1>0, <1>1, AppendAt
      <4>2. v = u
        BY <3>1
      <4>. HIDE DEF u
      <4>. QED
        BY <3>1, <4>1, <4>2
    <3>3. b + 1 \in 1..Len(v) /\ Len(v) >= b /\ b + 1 > b
      BY <3>2
    <3>. QED
      BY <2>1, <3>1, <3>2, <3>3
  <2>2. CASE link # "open"
    BY <1>0, <1>4, <2>2 DEF b
  <2>. QED
    BY <2>1, <2>2
<1>7. /\ \A y, n : \A j \in 1..b : Before(to_broker, y, n, j) => Before(v, y, n, j)
      /\ \A y, n : \A j \in 1..Len(v) : j > b /\ Holds(to_broker, {y}, n) => Before(v, y, n, j)
      /\ \A y, n : Holds(to_broker, {y}, n) => Holds(v, {y}, n)
  BY <1>0, <1>6, Longer, ZenonT(60) DEF b
\* Everything sent has a smaller id than the new message
<1>8. \A n \in Nat : Sending(n) => n < n0
  BY <1>0 DEF OutOrder, QueueOrder
<1>9. \A n \in Nat : Sending(n)' => Sending(n) \/ n = n0
  <2>1. \A n \in Nat : HasId(outboundMsgs, n)' => HasId(outboundMsgs, n) \/ n = n0
    BY <1>1, <1>5 DEF HasId
  <2>2. \A n \in Nat : Holds(to_broker, {"PUBLISH", "PUBREL"}, n)' => Holds(to_broker, {"PUBLISH", "PUBREL"}, n) \/ n = n0
    BY <1>1, <1>6, ZenonT(60) DEF Holds
  <2>. QED
    BY <1>2, <2>1, <2>2 DEF Sending
<1>10. QueueOrder'
  <2>. DEFINE t == Tail(commands)
  <2>1. t \in Seq(Command) /\ \A k \in 1..Len(t) : k + 1 \in 1..Len(commands) /\ t[k] = commands[k + 1]
    BY <1>0
  <2>2. WithinFor(commands', t, {"PUBLISH"})
    BY <1>3
  <2>. HIDE DEF t
  <2>3. PICK f \in [1..Len(commands') -> Int] :
           /\ \A k \in 1..Len(commands') : commands'[k].type \in {"PUBLISH"} =>
                 f[k] \in 1..Len(t) /\ commands'[k] = t[f[k]]
           /\ \A k, h \in 1..Len(commands') :
                 commands'[k].type \in {"PUBLISH"} /\ commands'[h].type \in {"PUBLISH"} /\ k < h => f[k] < f[h]
    BY <2>2 DEF WithinFor
  <2>4. \A k \in 1..Len(commands') : commands'[k].type = "PUBLISH" =>
           /\ f[k] + 1 \in 1..Len(commands) /\ commands'[k] = commands[f[k] + 1]
           /\ f[k] + 1 > 1
    BY <2>1, <2>3
  <2>5. ASSUME NEW i \in 1..Len(commands'), NEW j \in 1..Len(commands'),
               commands'[i].type = "PUBLISH", commands'[j].type = "PUBLISH", i < j
        PROVE  commands'[i].id < commands'[j].id
    <3>1. f[i] + 1 < f[j] + 1
      BY <2>3, <2>5
    <3>. QED
      BY <2>4, <2>5, <3>1 DEF OutOrder, QueueOrder
  <2>6. ASSUME NEW i \in 1..Len(commands'), NEW n \in Nat, commands'[i].type = "PUBLISH", Sending(n)'
        PROVE  n < commands'[i].id
    <3>1. CASE Sending(n)
      BY <2>4, <2>6, <3>1 DEF OutOrder, QueueOrder
    <3>2. CASE n = n0
      <4>1. commands[1].id < commands[f[i] + 1].id
        BY <1>0, <2>4, <2>6 DEF OutOrder, QueueOrder
      <4>. QED
        BY <1>0, <2>4, <2>6, <3>2, <4>1
    <3>. QED
      BY <1>9, <2>6, <3>1, <3>2
  <2>. QED
    BY <2>5, <2>6 DEF QueueOrder
<1>11. \A n \in Nat : PublishedNo(n)' <=> PublishedNo(n)
  BY <1>2 DEF PublishedNo
<1>12. \A i \in 1..l : /\ outboundMsgs[i].id \in Nat /\ outboundMsgs[i].id < n0
                       /\ PublishedNo(outboundMsgs[i].id)' <=> PublishedNo(w[i].id)
                       /\ PublishedNo(w[i].id) <=> PublishedNo(outboundMsgs[i].id)
  BY <1>5, <1>8, <1>11, OrderFacts
<1>13. ListOrder'
  <2>1. ASSUME NEW i \in 1..Len(w), NEW j \in 1..Len(w), i < j
        PROVE  w[i].id < w[j].id /\ (w[i].msg.qos = 2 /\ w[j].next = "PUBCOMP" => w[i].next = "PUBCOMP")
    <3>1. i \in 1..l
      BY <1>5, <2>1
    <3>2. CASE j \in 1..l
      BY <1>5, <2>1, <3>1, <3>2 DEF OutOrder, ListOrder
    <3>3. CASE j = l + 1
      <4>1. w[j] = e /\ w[i] = outboundMsgs[i]
        BY <1>5, <3>1, <3>3
      <4>2. outboundMsgs[i].id < n0
        BY <1>12, <3>1
      <4>. QED
        BY <1>1, <4>1, <4>2
    <3>. QED
      BY <1>5, <3>2, <3>3
  <2>2. ASSUME NEW i \in 1..Len(w), NEW p1 \in 1..Len(published), published[p1].qos = w[i].msg.qos,
               ~PublishedNo(outboundMsgs[i].id)'
        PROVE  published[p1].seq < w[i].id
    <3>1. CASE i \in 1..l
      BY <1>5, <1>12, <2>2, <3>1 DEF OutOrder, ListOrder
    <3>2. CASE i = l + 1
      <4>1. published[p1].seq \in Nat
        BY OrderFacts
      <4>2. Sending(published[p1].seq)
        BY DEF Sending
      <4>. QED
        BY <1>1, <1>5, <1>8, <3>2, <4>1, <4>2
    <3>. QED
      BY <1>5, <3>1, <3>2
  <2>3. ASSUME NEW n \in Nat, Holds(v, Tokens, n)
        PROVE  HasId(w, n) \/ PublishedNo(n)
    <3>1. PICK j \in 1..Len(v) : v[j].type \in Tokens /\ v[j].id = n
      BY <2>3 DEF Holds
    <3>2. CASE j \in 1..b
      <4>1. Holds(to_broker, Tokens, n)
        BY <1>6, <3>1, <3>2 DEF Holds
      <4>2. HasId(outboundMsgs, n) \/ PublishedNo(n)
        BY <4>1 DEF OutOrder, ListOrder
      <4>. QED
        BY <1>5, <4>2 DEF HasId
    <3>3. CASE v[j] = p
      <4>1. l + 1 \in 1..Len(w) /\ w[l + 1].id = n
        <5>1. p.id = n
          BY <3>1, <3>3
        <5>2. e.id = n
          BY <1>1, <5>1
        <5>. QED
          BY <1>5, <5>2
      <4>. QED
        BY <4>1 DEF HasId
    <3>. QED
      BY <1>6, <3>2, <3>3
  <2>. QED
    BY <1>2, <1>11, <2>1, <2>2, <2>3 DEF ListOrder
<1>14. \A i \in 1..l : Unheard(outboundMsgs[i])' <=> Unheard(outboundMsgs[i])
  BY <1>5, <1>12 DEF Unheard
<1>o. WayOrder
  BY DEF OutOrder
\* What is in flight is about old messages
<1>k. "PUBLISH" \in Tokens /\ "PUBREL" \in Tokens
  BY DEF Tokens
<1>15. /\ \A j \in 1..b : to_broker[j].type \in Tokens => to_broker[j].id \in Nat /\ to_broker[j].id < n0
       /\ \A j \in 1..Len(to_client) : to_client[j].type = "PUBREC" => to_client[j].id < n0
  <2>1. ASSUME NEW j \in 1..Len(to_client), to_client[j].type = "PUBREC"
        PROVE  to_client[j].id < n0
    <3>1. to_client[j].id \in Nat /\ Holds(to_client, {"PUBREC"}, to_client[j].id)
      BY <2>1, OrderFacts DEF Holds
    <3>2. Got(to_client[j].id)
      BY <3>1 DEF OutInv, Acknowledged
    <3>3. Sending(to_client[j].id)
      BY <3>2 DEF Got, Sending, PublishedNo
    <3>. QED
      BY <1>8, <3>1, <3>3
  <2>. QED
    BY <1>6, <1>8, <2>1, OrderFacts
<1>x. n0 \in Nat /\ p.id = n0
  BY <1>1
<1>v. ASSUME NEW j \in 1..Len(v), v[j].type \in Tokens
      PROVE  v[j].id \in Nat /\ v[j].id <= n0
  <2>1. CASE j \in 1..b
    <3>1. to_broker[j].id \in Nat /\ to_broker[j].id < n0 /\ v[j] = to_broker[j]
      BY <1>6, <1>15, <1>v, <2>1
    <3>2. v[j].id = to_broker[j].id
      BY <3>1
    <3>3. to_broker[j].id <= n0
      BY <1>x, <3>1
    <3>. QED
      BY <3>1, <3>2, <3>3
  <2>2. CASE v[j] = p
    <3>1. v[j].id = n0
      BY <1>x, <2>2
    <3>2. n0 <= n0
      BY <1>x
    <3>3. n0 \in Nat
      BY <1>x
    <3>. QED
      BY <3>1, <3>2, <3>3
  <2>. QED
    BY <1>6, <2>1, <2>2
<1>16. ASSUME NEW j \in 1..Len(v), NEW i \in 1..Len(w), v[j].type = "PUBLISH", v[j].msg.qos = w[i].msg.qos,
              w[i].id < v[j].id, Unheard(outboundMsgs[i])'
       PROVE  Before(v, "PUBLISH", w[i].id, j) \/ Holds(to_client', {"PUBREC"}, w[i].id)
  <2>1. i \in 1..l
    <3>. SUFFICES ASSUME i = l + 1
                  PROVE  FALSE
      BY <1>5
    <3>1. w[i].id = n0
      BY <1>1, <1>5
    <3>2. v[j].id \in Nat /\ v[j].id <= n0
      BY <1>16, <1>k, <1>v
    <3>3. n0 < v[j].id
      BY <1>16, <3>1
    <3>4. PICK k \in Nat : k = v[j].id
      BY <3>2
    <3>5. k <= n0 /\ n0 < k
      BY <3>2, <3>3, <3>4
    <3>. QED
      BY <1>x, <3>5
  <2>2. w[i] = outboundMsgs[i] /\ Unheard(outboundMsgs[i])
    BY <1>5, <1>14, <1>16, <2>1
  <2>3. CASE j \in 1..b
    <3>1. \/ Before(to_broker, "PUBLISH", outboundMsgs[i].id, j)
          \/ Holds(to_client, {"PUBREC"}, outboundMsgs[i].id)
      BY <1>6, <1>16, <1>o, <2>1, <2>2, <2>3, <1>5 DEF WayOrder
    <3>. QED
      BY <1>2, <1>7, <2>2, <2>3, <3>1
  <2>4. CASE j > b /\ link = "open"
    <3>1. \/ Holds(to_broker, {"PUBLISH"}, outboundMsgs[i].id)
          \/ Holds(to_client, {"PUBREC"}, outboundMsgs[i].id)
      BY <1>o, <1>5, <2>1, <2>2, <2>4 DEF WayOrder
    <3>. QED
      BY <1>2, <1>7, <2>2, <2>4, <3>1
  <2>. QED
    BY <1>6, <2>3, <2>4
<1>17. ASSUME NEW j \in 1..Len(to_client'), NEW i \in 1..Len(w), to_client'[j].type = "PUBREC", w[i].msg.qos = 2,
              w[i].id < to_client'[j].id, Unheard(outboundMsgs[i])'
       PROVE  Before(to_client', "PUBREC", w[i].id, j)
  <2>0. j \in 1..Len(to_client) /\ to_client'[j] = to_client[j] /\ to_client[j].id \in Nat
    BY <1>2, OrderFacts
  <2>1. i \in 1..l
    <3>. SUFFICES ASSUME i = l + 1
                  PROVE  FALSE
      BY <1>5
    <3>. QED
      BY <1>1, <1>5, <1>15, <1>17, <2>0
  <2>2. w[i] = outboundMsgs[i] /\ Unheard(outboundMsgs[i])
    BY <1>5, <1>14, <1>17, <2>1
  <2>3. Before(to_client, "PUBREC", outboundMsgs[i].id, j)
    BY <1>17, <1>o, <1>5, <2>0, <2>1, <2>2 DEF WayOrder
  <2>. QED
    BY <1>2, <2>2, <2>3
<1>18. ASSUME NEW j \in 1..Len(v), NEW i \in 1..Len(w), v[j].type = "PUBREL", w[i].msg.qos = 2,
              w[i].id < v[j].id, ~PublishedNo(outboundMsgs[i].id)'
       PROVE  Before(v, "PUBREL", w[i].id, j)
  <2>0. j \in 1..b /\ v[j] = to_broker[j]
    BY <1>1, <1>6, <1>18
  <2>1. i \in 1..l
    <3>. SUFFICES ASSUME i = l + 1
                  PROVE  FALSE
      BY <1>5
    <3>. QED
      <4>1. n0 < to_broker[j].id /\ to_broker[j].type = "PUBREL"
        BY <1>1, <1>5, <1>18, <2>0
      <4>2. to_broker[j].id \in Nat /\ to_broker[j].id < n0
        BY <1>15, <1>k, <2>0, <4>1
      <4>. QED
        BY <1>1, <4>1, <4>2
  <2>2. w[i] = outboundMsgs[i] /\ ~PublishedNo(outboundMsgs[i].id)
    BY <1>5, <1>12, <1>18, <2>1
  <2>3. Before(to_broker, "PUBREL", outboundMsgs[i].id, j)
    BY <1>6, <1>18, <1>o, <1>5, <2>0, <2>1, <2>2 DEF WayOrder
  <2>. QED
    BY <1>7, <2>0, <2>2, <2>3
<1>19. ASSUME link = "open", NEW i \in 1..Len(w)
       PROVE  /\ Unheard(outboundMsgs[i])' =>
                    Holds(v, {"PUBLISH"}, w[i].id) \/ Holds(to_client', {"PUBREC"}, w[i].id)
              /\ w[i].next = "PUBCOMP" /\ ~PublishedNo(outboundMsgs[i].id)' => Holds(v, {"PUBREL"}, w[i].id)
  <2>1. CASE i \in 1..l
    <3>1. /\ Unheard(outboundMsgs[i]) => \/ Holds(to_broker, {"PUBLISH"}, outboundMsgs[i].id)
                                         \/ Holds(to_client, {"PUBREC"}, outboundMsgs[i].id)
          /\ outboundMsgs[i].next = "PUBCOMP" /\ ~PublishedNo(outboundMsgs[i].id) =>
                Holds(to_broker, {"PUBREL"}, outboundMsgs[i].id)
      BY <1>19, <1>o, <1>5, <2>1 DEF WayOrder
    <3>. QED
      BY <1>2, <1>5, <1>7, <1>12, <1>14, <2>1, <3>1
  <2>2. CASE i = l + 1
    <3>1. Holds(v, {"PUBLISH"}, n0)
      BY <1>1, <1>6, <1>19 DEF Holds
    <3>. QED
      BY <1>1, <1>5, <2>2, <3>1
  <2>. QED
    BY <1>5, <2>1, <2>2
<1>20. WayOrder'
  BY <1>16, <1>17, <1>18, <1>19 DEF WayOrder
<1>21. Ordered(published)' /\ Silent'
  BY <1>2 DEF OutOrder, Ordered, Silent
<1>. QED
  BY <1>10, <1>13, <1>20, <1>21 DEF OutOrder

LEMMA OutOrderPublish ==
    ASSUME OutOrder, OutInv, TypeInv, TypeInv', PublishCommand \/ PublishFails
    PROVE  OutOrder'
<1>0. commands \in Seq(Command)
  BY DEF TypeInv, SendTypes
<1>1. NextIs("PUBLISH") /\ commands # <<>> /\ connected /\ UNCHANGED <<connected, link>>
  BY DEF PublishCommand, PublishFails, CanPublish, NextIs
<1>2. Tail(commands) \in Seq(Command)
  BY <1>0, <1>1, TailType
<1>3. WithinFor(Tail(commands), Tail(commands), {"PUBLISH"})
  BY <1>2, WithinSame, WithinForAny
<1>4. CASE PublishCommand
  <2>1. Started(Head(commands))
    BY <1>3, <1>4 DEF PublishCommand, Started
  <2>. QED
    BY <1>1, <1>4, <2>1, OutOrderStarted DEF PublishCommand
<1>5. CASE PublishFails
  <2>. DEFINE d == Disconnect
              t == Tail(commands)
  <2>1. d \in Command /\ d.type \notin {"PUBLISH"} /\ t \in Seq(Command) /\ WithinFor(t, t, {"PUBLISH"})
    BY <1>2, <1>3, CommandTypes DEF Disconnect
  <2>2. commands' = AddFirst(d, t)
    BY <1>5 DEF PublishFails
  <2>. HIDE DEF d, t
  <2>3. WithinFor(<<d>> \o t, t, {"PUBLISH"})
    BY <2>1, WithinForFront
  <2>4. WithinFor(commands', t, {"PUBLISH"})
    BY <2>1, <2>2, <2>3 DEF AddFirst
  <2>5. Started(Head(commands))
    BY <1>5, <2>4 DEF PublishFails, Started, t
  <2>. QED
    BY <1>1, <1>5, <2>5, OutOrderStarted DEF PublishFails
<1>. QED
  BY <1>4, <1>5

\* The first packet is gone
LEMMA Shorter ==
    ASSUME NEW S, NEW s \in Seq(S), s # <<>>, NEW t, t = Tail(s)
    PROVE  /\ 1 \in 1..Len(s) /\ s[1] = Head(s) /\ \A y, n : ~Before(s, y, n, 1)
           /\ \A j \in 1..Len(t) : j + 1 \in 1..Len(s) /\ t[j] = s[j + 1]
           /\ \A y, n : \A j \in 1..Len(t) :
                 Before(s, y, n, j + 1) => Before(t, y, n, j) \/ (Head(s).type = y /\ Head(s).id = n)
           /\ \A y, n : Holds(s, {y}, n) => Holds(t, {y}, n) \/ (Head(s).type = y /\ Head(s).id = n)
<1>1. /\ Len(s) \in Nat /\ 1 \in 1..Len(s) /\ Head(s) = s[1] /\ Len(t) = Len(s) - 1 /\ t \in Seq(S)
      /\ \A i \in 1..Len(t) : i + 1 \in 1..Len(s) /\ t[i] = s[i + 1]
  OBVIOUS
<1>2. ASSUME NEW h \in 1..Len(s), h # 1
      PROVE  h - 1 \in 1..Len(t) /\ t[h - 1] = s[h]
  BY <1>1, <1>2
<1>3. ASSUME NEW y, NEW n, NEW j \in 1..Len(t), Before(s, y, n, j + 1)
      PROVE  Before(t, y, n, j) \/ (Head(s).type = y /\ Head(s).id = n)
  <2>1. PICK h \in 1..j : s[h].type = y /\ s[h].id = n
    BY <1>3 DEF Before
  <2>2. h \in 1..Len(s)
    BY <1>1
  <2>3. CASE h = 1
    BY <1>1, <2>1, <2>3
  <2>4. CASE h # 1
    <3>1. t[h - 1] = s[h] /\ h - 1 \in 1..(j - 1)
      BY <1>2, <2>2, <2>4
    <3>. QED
      BY <2>1, <3>1 DEF Before
  <2>. QED
    BY <2>3, <2>4
<1>4. ASSUME NEW y, NEW n, Holds(s, {y}, n)
      PROVE  Holds(t, {y}, n) \/ (Head(s).type = y /\ Head(s).id = n)
  <2>1. PICK h \in 1..Len(s) : s[h].type = y /\ s[h].id = n
    BY <1>4 DEF Holds
  <2>2. CASE h = 1
    BY <1>1, <2>1, <2>2
  <2>3. CASE h # 1
    BY <1>2, <2>1, <2>3 DEF Holds
  <2>. QED
    BY <2>2, <2>3
<1>5. \A y, n : ~Before(s, y, n, 1)
  BY DEF Before
<1>. QED
  BY <1>1, <1>3, <1>4, <1>5

\* A message whose PUBREC is on its way is a QoS 2 message
LEMMA PubrecFor2 ==
    ASSUME OutInv, TypeInv, NEW i \in 1..Len(outboundMsgs), Unheard(outboundMsgs[i]),
           Holds(to_client, {"PUBREC"}, outboundMsgs[i].id)
    PROVE  outboundMsgs[i].msg.qos = 2
<1>. DEFINE n == outboundMsgs[i].id
            m == outboundMsgs[i].msg
<1>1. n \in Nat /\ m \in Sent /\ m.qos \in {1, 2} /\ UnderWay(n, m)
  BY OrderFacts DEF UnderWay
<1>2. Got(n)
  BY <1>1 DEF OutInv, Acknowledged
<1>3. CASE PublishedNo(n)
  BY <1>1, <1>3 DEF Unheard
<1>4. CASE \E r \in b_received : r.id = n
  <2>1. PICK r \in b_received : r.id = n
    BY <1>4
  <2>2. r.msg \in Sent /\ WithBroker(n, r.msg)
    BY <2>1 DEF TypeInv, BrokerTypes, Response, WithBroker
  <2>3. PICK k \in Sent : k = r.msg
    BY <2>2
  <2>4. Carried(n, k) /\ Carried(n, m)
    BY <1>1, <2>2, <2>3 DEF Carried
  <2>. HIDE DEF n, m
  <2>5. m = k
    BY <1>1, <2>4 DEF OutInv, Numbered
  <2>. QED
    BY <2>3, <2>5 DEF OutInv, Numbered, m
<1>. QED
  BY <1>2, <1>3, <1>4 DEF Got

\* Acknowledgements are read over a connection that is up
LEMMA HeardWhenUp ==
    ASSUME OutOrder, TypeInv, Linked, to_client # <<>>, Head(to_client).type \in Acks
    PROVE  connected /\ link = "open"
<1>1. 1 \in 1..Len(to_client) /\ to_client[1] = Head(to_client)
  BY DEF TypeInv, LinkTypes
<1>2. connected
  BY <1>1 DEF OutOrder, Silent, Bare
<1>3. link = "open"
  BY DEF Linked
<1>. QED
  BY <1>2, <1>3

LEMMA OutOrderPubrec ==
    ASSUME OutOrder, OutInv, TypeInv, TypeInv', Linked, RecvPubrec
    PROVE  OutOrder'
<1>. DEFINE id0 == Head(to_client).id
            x == IndexOf(outboundMsgs, id0)
            p == Packet("PUBREL", id0)
            l == Len(outboundMsgs)
            w == outboundMsgs'
            b == Len(to_broker)
            v == to_broker'
            t == to_client'
<1>0. /\ outboundMsgs \in Seq(Entries(Sent)) /\ to_broker \in Seq(ToBroker) /\ to_client \in Seq(ToClient)
      /\ w \in Seq(Entries(Sent)) /\ v \in Seq(ToBroker) /\ LinkTypes
  BY DEF TypeInv, SessionTypes, LinkTypes
<1>1. /\ to_client # <<>> /\ Head(to_client).type = "PUBREC" /\ t = Tail(to_client)
  BY <1>0, ReadsProps DEF RecvPubrec, Reads
<1>2. /\ 1 \in 1..Len(to_client) /\ to_client[1] = Head(to_client) /\ \A y, n : ~Before(to_client, y, n, 1)
      /\ \A j \in 1..Len(t) : j + 1 \in 1..Len(to_client) /\ t[j] = to_client[j + 1]
      /\ \A y, n : \A j \in 1..Len(t) :
            Before(to_client, y, n, j + 1) => Before(t, y, n, j) \/ (y = "PUBREC" /\ id0 = n)
      /\ \A y, n : Holds(to_client, {y}, n) => Holds(t, {y}, n) \/ (y = "PUBREC" /\ id0 = n)
  <2>. DEFINE T == Tail(to_client)
  <2>1. /\ 1 \in 1..Len(to_client) /\ to_client[1] = Head(to_client) /\ \A y, n : ~Before(to_client, y, n, 1)
        /\ \A j \in 1..Len(T) : j + 1 \in 1..Len(to_client) /\ T[j] = to_client[j + 1]
        /\ \A y, n : \A j \in 1..Len(T) :
              Before(to_client, y, n, j + 1) => Before(T, y, n, j) \/ (Head(to_client).type = y /\ id0 = n)
        /\ \A y, n : Holds(to_client, {y}, n) => Holds(T, {y}, n) \/ (Head(to_client).type = y /\ id0 = n)
    BY <1>0, <1>1, Shorter
  <2>2. T = to_client' /\ Head(to_client).type = "PUBREC"
    BY <1>1
  <2>. HIDE DEF T, id0
  <2>. QED
    BY <2>1, <2>2
<1>3. UNCHANGED <<commands, b_received, published, connected, link>>
  BY DEF RecvPubrec
<1>4. connected /\ link = "open"
  BY <1>1, HeardWhenUp DEF Acks
<1>5. id0 \in Nat
  BY <1>2, OrderFacts
<1>6. OwnIds(outboundMsgs)
  BY DEF OutInv, PublishedOnce, UniqueIds, OwnIds
<1>7. \A i \in 1..l : /\ outboundMsgs[i].id \in Nat /\ outboundMsgs[i].msg.qos \in {1, 2}
                      /\ outboundMsgs[i].next \in {"PUBREC", "PUBCOMP"}
  BY OrderFacts
<1>8. \A n : PublishedNo(n)' <=> PublishedNo(n)
  BY <1>3 DEF PublishedNo
<1>9. p \in ToBroker /\ p.type = "PUBREL" /\ p.id = id0
  BY <1>5, PacketTypes DEF Packet
\* Smaller ids have been heard of
<1>10. WayOrder
  BY DEF OutOrder
<1>11. \A i \in 1..l : outboundMsgs[i].msg.qos = 2 /\ outboundMsgs[i].id < id0 => outboundMsgs[i].next = "PUBCOMP"
  <2>. SUFFICES ASSUME NEW i \in 1..l, outboundMsgs[i].msg.qos = 2, outboundMsgs[i].id < id0,
                       outboundMsgs[i].next # "PUBCOMP"
                PROVE  FALSE
    OBVIOUS
  <2>1. Unheard(outboundMsgs[i])
    BY <1>7 DEF Unheard
  <2>2. to_client[1].type = "PUBREC" /\ outboundMsgs[i].id < to_client[1].id
    BY <1>1, <1>2
  <2>3. Before(to_client, "PUBREC", outboundMsgs[i].id, 1)
    BY <1>2, <1>10, <2>1, <2>2 DEF WayOrder
  <2>. QED
    BY <1>2, <2>3
<1>. DEFINE Taken == /\ v = Append(to_broker, p) /\ HasId(outboundMsgs, id0)
                     /\ \A i \in 1..l : i # x => w[i] = outboundMsgs[i]
                     /\ w[x].next = "PUBCOMP" /\ x \in 1..l /\ outboundMsgs[x].id = id0 /\ outboundMsgs[x].msg.qos = 2
            Ignored == /\ v = to_broker /\ w = outboundMsgs
                       /\ \A i \in 1..l : outboundMsgs[i].id = id0 => ~Unheard(outboundMsgs[i])
<1>12. /\ Taken \/ Ignored
       /\ Len(w) = l /\ \A i \in 1..l : w[i].id = outboundMsgs[i].id /\ w[i].msg = outboundMsgs[i].msg
  <2>1. CASE Expecting("PUBREC", id0, 2)
    <3>1. Recorded(id0) /\ v = Append(to_broker, p) /\ HasId(outboundMsgs, id0) /\ outboundMsgs[x].msg.qos = 2
      BY <2>1 DEF RecvPubrec, Answer, Expecting
    <3>2. x \in 1..Len(outboundMsgs) /\ outboundMsgs[x].id = id0
      BY <1>0, <3>1, IndexOfFirst
    <3>3. /\ Len(w) = Len(outboundMsgs)
          /\ \A i \in 1..Len(outboundMsgs) :
                /\ i # x => w[i] = outboundMsgs[i]
                /\ w[i].id = outboundMsgs[i].id /\ w[i].msg = outboundMsgs[i].msg
          /\ w[x].next = "PUBCOMP"
      BY <1>0, <3>1, RecordedType
    <3>. HIDE DEF id0, x, p
    <3>. QED
      BY <3>1, <3>2, <3>3
  <2>2. CASE ~Expecting("PUBREC", id0, 2)
    <3>1. v = to_broker /\ w = outboundMsgs
      BY <2>2 DEF RecvPubrec
    <3>2. ASSUME NEW i \in 1..l, outboundMsgs[i].id = id0, Unheard(outboundMsgs[i])
          PROVE  FALSE
      <4>1. Holds(to_client, {"PUBREC"}, outboundMsgs[i].id)
        BY <1>1, <1>2, <3>2 DEF Holds
      <4>2. outboundMsgs[i].msg.qos = 2
        BY <3>2, <4>1, PubrecFor2
      <4>3. HasId(outboundMsgs, id0)
        BY <3>2 DEF HasId
      <4>4. x \in 1..Len(outboundMsgs) /\ outboundMsgs[x].id = id0
        BY <1>0, <4>3, IndexOfFirst
      <4>5. x = i
        BY <1>6, <3>2, <4>4 DEF OwnIds
      <4>6. outboundMsgs[x].msg.qos = 2 /\ outboundMsgs[x].next = "PUBREC"
        BY <3>2, <4>2, <4>5 DEF Unheard
      <4>. QED
        BY <2>2, <4>3, <4>6 DEF Expecting
    <3>. QED
      BY <3>1, <3>2
  <2>. QED
    BY <2>1, <2>2
<1>. HIDE DEF id0, x, p, l, b
<1>13. \A i \in 1..l : Unheard(outboundMsgs[i])' => Unheard(outboundMsgs[i]) /\ outboundMsgs[i].id # id0
  <2>. SUFFICES ASSUME NEW i \in 1..l, Unheard(outboundMsgs[i])'
                PROVE  Unheard(outboundMsgs[i]) /\ outboundMsgs[i].id # id0
    OBVIOUS
  <2>1. CASE Taken
    <3>1. i # x
      BY <1>12, <2>1 DEF Unheard
    <3>2. w[i] = outboundMsgs[i]
      BY <2>1, <3>1
    <3>3. Unheard(outboundMsgs[i])
      BY <1>8, <3>2 DEF Unheard
    <3>4. outboundMsgs[i].id # id0
      BY <1>6, <2>1, <3>1 DEF OwnIds, l
    <3>. QED
      BY <3>3, <3>4
  <2>2. CASE Ignored
    <3>1. Unheard(outboundMsgs[i])
      BY <1>8, <2>2 DEF Unheard
    <3>. QED
      BY <2>2, <3>1
  <2>. QED
    BY <1>12, <2>1, <2>2
<1>14. /\ b \in Nat /\ b = Len(to_broker) /\ Len(v) >= b /\ \A j \in 1..b : v[j] = to_broker[j]
       /\ \A j \in 1..Len(v) : (j \in 1..b /\ v[j] = to_broker[j]) \/ (j > b /\ v[j] = p /\ HasId(outboundMsgs, id0))
  <2>1. CASE v = Append(to_broker, p) /\ HasId(outboundMsgs, id0)
    BY <1>0, <1>9, <2>1, AppendAt DEF b
  <2>2. CASE v = to_broker
    BY <1>0, <2>2 DEF b
  <2>. QED
    BY <1>12, <2>1, <2>2
<1>15. /\ \A y, n : \A j \in 1..b : Before(to_broker, y, n, j) => Before(v, y, n, j)
       /\ \A y, n : \A j \in 1..Len(v) : j > b /\ Holds(to_broker, {y}, n) => Before(v, y, n, j)
       /\ \A y, n : Holds(to_broker, {y}, n) => Holds(v, {y}, n)
  BY <1>0, <1>14, Longer DEF b
<1>16. ASSUME NEW i \in 1..l
       PROVE  /\ outboundMsgs[i].next = "PUBCOMP" => w[i].next = "PUBCOMP"
              /\ w[i].next = "PUBCOMP" => \/ outboundMsgs[i].next = "PUBCOMP"
                                          \/ outboundMsgs[i].id = id0 /\ Holds(v, {"PUBREL"}, id0)
  <2>1. CASE Taken
    <3>1. b + 1 \in 1..Len(v) /\ v[b + 1] = p
      BY <1>0, <1>9, <2>1, AppendAt DEF b
    <3>2. Holds(v, {"PUBREL"}, id0)
      BY <1>9, <3>1 DEF Holds
    <3>. QED
      BY <2>1, <3>2
  <2>2. CASE Ignored
    BY <2>2
  <2>. QED
    BY <1>12, <2>1, <2>2
<1>17. QueueOrder'
  <2>1. \A n \in Nat : Sending(n)' => Sending(n)
    <3>. SUFFICES ASSUME NEW n \in Nat, Sending(n)' PROVE Sending(n)
      OBVIOUS
    <3>1. HasId(outboundMsgs, n)' => HasId(outboundMsgs, n)
      BY <1>12 DEF HasId, l
    <3>2. Holds(to_broker, {"PUBLISH", "PUBREL"}, n)' => Holds(to_broker, {"PUBLISH", "PUBREL"}, n) \/ HasId(outboundMsgs, n)
      BY <1>9, <1>14 DEF Holds
    <3>. QED
      BY <1>3, <3>1, <3>2 DEF Sending
  <2>. QED
    BY <1>3, <2>1 DEF OutOrder, QueueOrder
<1>18. ListOrder'
  <2>0. ListOrder
    BY DEF OutOrder
  <2>1. ASSUME NEW i \in 1..Len(w), NEW j \in 1..Len(w), i < j
        PROVE  w[i].id < w[j].id /\ (w[i].msg.qos = 2 /\ w[j].next = "PUBCOMP" => w[i].next = "PUBCOMP")
    <3>1. i \in 1..l /\ j \in 1..l /\ l = Len(outboundMsgs)
      BY <1>12 DEF l
    <3>2. outboundMsgs[i].id < outboundMsgs[j].id
      BY <2>0, <2>1, <3>1 DEF ListOrder
    <3>3. ASSUME outboundMsgs[i].msg.qos = 2, w[j].next = "PUBCOMP"
          PROVE  outboundMsgs[i].next = "PUBCOMP"
      <4>1. CASE outboundMsgs[j].next = "PUBCOMP"
        BY <2>0, <2>1, <3>1, <3>3, <4>1 DEF ListOrder
      <4>2. CASE outboundMsgs[j].id = id0
        BY <1>11, <3>1, <3>2, <3>3, <4>2
      <4>. QED
        BY <1>16, <3>1, <3>3, <4>1, <4>2
    <3>. QED
      BY <1>12, <1>16, <3>1, <3>2, <3>3
  <2>2. ASSUME NEW i \in 1..Len(w), NEW q \in 1..Len(published), published[q].qos = w[i].msg.qos,
               ~PublishedNo(outboundMsgs[i].id)'
        PROVE  published[q].seq < w[i].id
    <3>1. i \in 1..Len(outboundMsgs) /\ w[i].id = outboundMsgs[i].id /\ w[i].msg = outboundMsgs[i].msg
      BY <1>12 DEF l
    <3>2. ~PublishedNo(outboundMsgs[i].id)
      BY <1>8, <2>2, <3>1
    <3>. QED
      BY <2>0, <2>2, <3>1, <3>2 DEF ListOrder
  <2>3. ASSUME NEW n \in Nat, Holds(v, Tokens, n)
        PROVE  HasId(w, n) \/ PublishedNo(n)
    <3>1. Holds(to_broker, Tokens, n) \/ HasId(outboundMsgs, n)
      BY <1>9, <1>14, <2>3 DEF Holds
    <3>2. HasId(outboundMsgs, n) \/ PublishedNo(n)
      BY <2>0, <3>1 DEF ListOrder
    <3>. QED
      BY <1>12, <3>2 DEF HasId, l
  <2>. QED
    BY <1>3, <1>8, <2>1, <2>2, <2>3 DEF ListOrder
<1>19. ASSUME NEW j \in 1..Len(v), NEW i \in 1..Len(w), v[j].type = "PUBLISH", v[j].msg.qos = w[i].msg.qos,
              w[i].id < v[j].id, Unheard(outboundMsgs[i])'
       PROVE  Before(v, "PUBLISH", w[i].id, j) \/ Holds(t, {"PUBREC"}, w[i].id)
  <2>1. j \in 1..b /\ v[j] = to_broker[j] /\ b = Len(to_broker)
    BY <1>9, <1>14, <1>19
  <2>2. i \in 1..l /\ l = Len(outboundMsgs) /\ w[i].id = outboundMsgs[i].id /\ w[i].msg = outboundMsgs[i].msg
    BY <1>12 DEF l
  <2>3. Unheard(outboundMsgs[i]) /\ outboundMsgs[i].id # id0
    BY <1>13, <1>19, <2>2
  <2>4. \/ Before(to_broker, "PUBLISH", outboundMsgs[i].id, j)
        \/ Holds(to_client, {"PUBREC"}, outboundMsgs[i].id)
    BY <1>10, <1>19, <2>1, <2>2, <2>3 DEF WayOrder
  <2>. QED
    BY <1>2, <1>15, <2>1, <2>2, <2>3, <2>4
<1>20. ASSUME NEW j \in 1..Len(t), NEW i \in 1..Len(w), t[j].type = "PUBREC", w[i].msg.qos = 2,
              w[i].id < t[j].id, Unheard(outboundMsgs[i])'
       PROVE  Before(t, "PUBREC", w[i].id, j)
  <2>1. j + 1 \in 1..Len(to_client) /\ t[j] = to_client[j + 1]
    BY <1>2
  <2>2. i \in 1..l /\ l = Len(outboundMsgs) /\ w[i].id = outboundMsgs[i].id /\ w[i].msg = outboundMsgs[i].msg
    BY <1>12 DEF l
  <2>3. Unheard(outboundMsgs[i]) /\ outboundMsgs[i].id # id0
    BY <1>13, <1>20, <2>2
  <2>4. Before(to_client, "PUBREC", outboundMsgs[i].id, j + 1)
    BY <1>10, <1>20, <2>1, <2>2, <2>3 DEF WayOrder
  <2>. QED
    BY <1>2, <2>2, <2>3, <2>4
<1>21. ASSUME NEW j \in 1..Len(v), NEW i \in 1..Len(w), v[j].type = "PUBREL", w[i].msg.qos = 2,
              w[i].id < v[j].id, ~PublishedNo(outboundMsgs[i].id)'
       PROVE  Before(v, "PUBREL", w[i].id, j)
  <2>2. i \in 1..l /\ l = Len(outboundMsgs) /\ w[i].id = outboundMsgs[i].id /\ w[i].msg = outboundMsgs[i].msg
    BY <1>12 DEF l
  <2>3. ~PublishedNo(outboundMsgs[i].id)
    BY <1>8, <1>21, <2>2
  <2>4. CASE j \in 1..b /\ v[j] = to_broker[j]
    <3>1. Before(to_broker, "PUBREL", outboundMsgs[i].id, j)
      BY <1>10, <1>14, <1>21, <2>2, <2>3, <2>4 DEF WayOrder
    <3>. QED
      BY <1>15, <2>2, <2>4, <3>1
  <2>5. CASE j > b /\ v[j] = p
    <3>1. outboundMsgs[i].next = "PUBCOMP"
      BY <1>9, <1>11, <1>21, <2>2, <2>5
    <3>2. Holds(to_broker, {"PUBREL"}, outboundMsgs[i].id)
      BY <1>4, <1>10, <2>2, <2>3, <3>1 DEF WayOrder
    <3>. QED
      BY <1>15, <2>2, <2>5, <3>2
  <2>. QED
    BY <1>14, <2>4, <2>5
<1>22. ASSUME NEW i \in 1..Len(w)
       PROVE  /\ Unheard(outboundMsgs[i])' => Holds(v, {"PUBLISH"}, w[i].id) \/ Holds(t, {"PUBREC"}, w[i].id)
              /\ w[i].next = "PUBCOMP" /\ ~PublishedNo(outboundMsgs[i].id)' => Holds(v, {"PUBREL"}, w[i].id)
  <2>1. i \in 1..l /\ l = Len(outboundMsgs) /\ w[i].id = outboundMsgs[i].id /\ w[i].msg = outboundMsgs[i].msg
    BY <1>12 DEF l
  <2>2. /\ Unheard(outboundMsgs[i]) => \/ Holds(to_broker, {"PUBLISH"}, outboundMsgs[i].id)
                                       \/ Holds(to_client, {"PUBREC"}, outboundMsgs[i].id)
        /\ outboundMsgs[i].next = "PUBCOMP" /\ ~PublishedNo(outboundMsgs[i].id) =>
              Holds(to_broker, {"PUBREL"}, outboundMsgs[i].id)
    BY <1>4, <1>10, <2>1 DEF WayOrder
  <2>3. ASSUME Unheard(outboundMsgs[i])'
        PROVE  Holds(v, {"PUBLISH"}, w[i].id) \/ Holds(t, {"PUBREC"}, w[i].id)
    <3>1. Unheard(outboundMsgs[i]) /\ outboundMsgs[i].id # id0
      BY <1>13, <2>1, <2>3
    <3>. QED
      BY <1>2, <1>15, <2>1, <2>2, <3>1
  <2>4. ASSUME w[i].next = "PUBCOMP", ~PublishedNo(outboundMsgs[i].id)'
        PROVE  Holds(v, {"PUBREL"}, w[i].id)
    <3>1. ~PublishedNo(outboundMsgs[i].id)
      BY <1>8, <2>1, <2>4
    <3>. QED
      BY <1>15, <1>16, <2>1, <2>2, <2>4, <3>1
  <2>. QED
    BY <2>3, <2>4
<1>23. WayOrder'
  BY <1>19, <1>20, <1>21, <1>22 DEF WayOrder
<1>24. Ordered(published)' /\ Silent'
  BY <1>3, <1>4 DEF OutOrder, Ordered, Silent
<1>. QED
  BY <1>17, <1>18, <1>23, <1>24 DEF OutOrder

(***************************************************************************)
(* Messages are repeated behind what is in flight: those in front of one   *)
(* are repeated before it, or over a connection that was up before, where  *)
(* they are on their way already.                                          *)
(***************************************************************************)
Up == connected /\ link = "open"
RepeatedInTurn ==
    /\ UNCHANGED <<commands, outboundMsgs, to_client, b_received, published>> /\ connected'
    /\ Len(to_broker') >= Len(to_broker)
    /\ \A j \in 1..Len(to_broker) : to_broker'[j] = to_broker[j]
    /\ \A j \in 1..Len(to_broker') : j > Len(to_broker) =>
          \E k \in 1..Len(outboundMsgs) :
             /\ to_broker'[j] = Again(outboundMsgs[k])
             /\ Up \/ \A i \in 1..(k - 1) : \E h \in 1..(j - 1) : to_broker'[h] = Again(outboundMsgs[i])
    /\ link' = "open" => Up \/ \A i \in 1..Len(outboundMsgs) :
          \E h \in 1..Len(to_broker') : to_broker'[h] = Again(outboundMsgs[i])

LEMMA OutOrderRepeated ==
    ASSUME OutOrder, OutInv, TypeInv, TypeInv', RepeatedInTurn
    PROVE  OutOrder'
<1>. DEFINE v == to_broker'
            l == Len(outboundMsgs)
            b == Len(to_broker)
            u == outboundMsgs
<1>1. to_broker \in Seq(ToBroker) /\ v \in Seq(ToBroker) /\ u \in Seq(Entries(Sent))
  BY DEF TypeInv, LinkTypes, SessionTypes
<1>2. /\ commands' = commands /\ outboundMsgs' = u /\ to_client' = to_client /\ published' = published
      /\ b_received' = b_received /\ connected'
  BY DEF RepeatedInTurn
<1>3. /\ b \in Nat /\ l \in Nat /\ Len(v) \in Nat /\ Len(v) >= b
      /\ \A j \in 1..b : v[j] = to_broker[j]
      /\ b = Len(to_broker) /\ l = Len(outboundMsgs)
  BY <1>1 DEF RepeatedInTurn
<1>4. /\ \A j \in 1..Len(v) : j > b =>
            \E k \in 1..l :
               /\ v[j] = Again(u[k])
               /\ Up \/ \A i \in 1..(k - 1) : \E h \in 1..(j - 1) : v[h] = Again(u[i])
      /\ link' = "open" => Up \/ \A i \in 1..l : \E h \in 1..Len(v) : v[h] = Again(u[i])
  BY DEF RepeatedInTurn
<1>5. \A j \in 1..Len(v) : (j \in 1..b /\ v[j] = to_broker[j]) \/ j > b
  BY <1>3
<1>6. /\ \A y, n : \A j \in 1..b : Before(to_broker, y, n, j) => Before(v, y, n, j)
      /\ \A y, n : \A j \in 1..Len(v) : j > b /\ Holds(to_broker, {y}, n) => Before(v, y, n, j)
      /\ \A y, n : Holds(to_broker, {y}, n) => Holds(v, {y}, n)
  BY <1>1, <1>3, Longer
<1>. HIDE DEF v, l, b, u
<1>7. \A i \in 1..l : /\ u[i].id \in Nat /\ u[i].msg.qos \in {1, 2} /\ u[i].next \in {"PUBREC", "PUBCOMP"}
                      /\ u[i] \in Entries(Sent)
  BY <1>1, EntryTypes DEF l, u
\* What a repetition is
<1>8. ASSUME NEW k \in 1..l
      PROVE  /\ Again(u[k]).id = u[k].id /\ Again(u[k]).type \in Tokens
             /\ Again(u[k]).type = "PUBLISH" => /\ Again(u[k]).msg = u[k].msg
             /\ Again(u[k]).type = "PUBREL" <=> u[k].msg.qos = 2 /\ u[k].next = "PUBCOMP"
             /\ Again(u[k]).type = "PUBLISH" <=> u[k].msg.qos = 1 \/ u[k].next = "PUBREC"
  <2>1. u[k] \in Entries(Sent) /\ u[k].msg.qos \in {1, 2} /\ u[k].next \in {"PUBREC", "PUBCOMP"}
    BY <1>7
  <2>. HIDE DEF Again
  <2>2. /\ Again(u[k]).id = u[k].id /\ Again(u[k]).type \in {"PUBLISH", "PUBREL"}
        /\ Again(u[k]).type = "PUBLISH" => Again(u[k]).msg = u[k].msg /\ (u[k].msg.qos = 1 \/ u[k].next = "PUBREC")
        /\ Again(u[k]).type = "PUBREL" => u[k].msg.qos = 2 /\ u[k].next = "PUBCOMP"
    BY <2>1, AgainType
  <2>. QED
    BY <2>1, <2>2 DEF Tokens
<1>. HIDE DEF Again
<1>9. ListOrder /\ WayOrder /\ QueueOrder
  BY DEF OutOrder
<1>10. \A i \in 1..l, k \in 1..l : u[i].id < u[k].id => i \in 1..(k - 1)
  <2>. SUFFICES ASSUME NEW i \in 1..l, NEW k \in 1..l, u[i].id < u[k].id, ~(i < k)
                PROVE  FALSE
    BY <1>3
  <2>1. u[i].id \in Nat /\ u[k].id \in Nat
    BY <1>7
  <2>2. i = k \/ k < i
    BY <1>3
  <2>3. k < i => u[k].id < u[i].id
    BY <1>9 DEF ListOrder, l, u
  <2>. QED
    BY <2>1, <2>2, <2>3
<1>11. \A n \in Nat : /\ PublishedNo(n)' <=> PublishedNo(n)
                      /\ HasId(outboundMsgs, n)' <=> HasId(outboundMsgs, n)
  BY <1>2 DEF PublishedNo, HasId, u
<1>12. \A n \in Nat : Holds(v, Tokens, n) => Holds(to_broker, Tokens, n) \/ HasId(outboundMsgs, n)
  <2>. SUFFICES ASSUME NEW n \in Nat, NEW j \in 1..Len(v), v[j].type \in Tokens, v[j].id = n
                PROVE  Holds(to_broker, Tokens, n) \/ HasId(outboundMsgs, n)
    BY DEF Holds
  <2>1. CASE j \in 1..b /\ v[j] = to_broker[j]
    BY <1>3, <2>1 DEF Holds
  <2>2. CASE j > b
    <3>1. PICK k \in 1..l : v[j] = Again(u[k])
      BY <1>4, <2>2
    <3>2. u[k].id = n
      BY <1>8, <3>1
    <3>. QED
      BY <3>2 DEF HasId, l, u
  <2>. QED
    BY <1>5, <2>1, <2>2
<1>13. \A n \in Nat : Sending(n)' => Sending(n)
  <2>1. \A n \in Nat : Holds(to_broker, Tokens, n)' => Holds(to_broker, Tokens, n) \/ HasId(outboundMsgs, n)
    BY <1>12 DEF v, Tokens, Holds
  <2>. QED
    BY <1>2, <1>11, <2>1 DEF Sending, Tokens
<1>14. Ordered(published)' /\ QueueOrder' /\ Silent'
  <2>1. QueueOrder'
    BY <1>2, <1>9, <1>13 DEF QueueOrder
  <2>. QED
    BY <1>2, <2>1 DEF OutOrder, Ordered, Silent
<1>15. ListOrder'
  <2>1. \A n \in Nat : Holds(v, Tokens, n) => HasId(outboundMsgs, n) \/ PublishedNo(n)
    BY <1>9, <1>12 DEF ListOrder
  <2>2. \A n \in Nat : Holds(to_broker, Tokens, n)' => HasId(outboundMsgs, n)' \/ PublishedNo(n)'
    BY <1>11, <2>1 DEF v, Tokens, Holds
  <2>3. \A i \in 1..l : PublishedNo(outboundMsgs[i].id)' <=> PublishedNo(u[i].id)
    BY <1>2 DEF PublishedNo, u
  <2>. QED
    BY <1>2, <1>9, <2>2, <2>3 DEF ListOrder, l, u
<1>16. \A i \in 1..l : /\ Unheard(outboundMsgs[i])' <=> Unheard(u[i])
                       /\ PublishedNo(outboundMsgs[i].id)' <=> PublishedNo(u[i].id)
  BY <1>2 DEF Unheard, PublishedNo, u
<1>17. \A i \in 1..l : /\ Unheard(u[i]) => Again(u[i]).type = "PUBLISH"
                       /\ u[i].msg.qos = 2 /\ u[i].next = "PUBCOMP" => Again(u[i]).type = "PUBREL"
  BY <1>7, <1>8 DEF Unheard
<1>18. ASSUME NEW j \in 1..Len(v), NEW i \in 1..l, v[j].type = "PUBLISH", v[j].msg.qos = u[i].msg.qos,
              u[i].id < v[j].id, Unheard(u[i])
       PROVE  Before(v, "PUBLISH", u[i].id, j) \/ Holds(to_client, {"PUBREC"}, u[i].id)
  <2>1. CASE j \in 1..b /\ v[j] = to_broker[j]
    <3>1. Before(to_broker, "PUBLISH", u[i].id, j) \/ Holds(to_client, {"PUBREC"}, u[i].id)
      BY <1>3, <1>9, <1>18, <2>1 DEF WayOrder, l, u
    <3>. QED
      BY <1>6, <2>1, <3>1
  <2>2. CASE j > b
    <3>1. PICK k \in 1..l : /\ v[j] = Again(u[k])
                            /\ Up \/ \A g \in 1..(k - 1) : \E h \in 1..(j - 1) : v[h] = Again(u[g])
      BY <1>4, <2>2
    <3>2. i \in 1..(k - 1)
      BY <1>8, <1>10, <1>18, <3>1
    <3>3. CASE Up
      <4>1. Holds(to_broker, {"PUBLISH"}, u[i].id) \/ Holds(to_client, {"PUBREC"}, u[i].id)
        BY <1>9, <1>18, <3>3 DEF WayOrder, Up, l, u
      <4>. QED
        BY <1>6, <2>2, <4>1
    <3>4. CASE \A g \in 1..(k - 1) : \E h \in 1..(j - 1) : v[h] = Again(u[g])
      <4>1. PICK h \in 1..(j - 1) : v[h] = Again(u[i])
        BY <3>2, <3>4
      <4>2. v[h].type = "PUBLISH" /\ v[h].id = u[i].id
        BY <1>8, <1>17, <1>18, <4>1
      <4>. QED
        BY <4>2 DEF Before
    <3>. QED
      BY <3>1, <3>3, <3>4
  <2>. QED
    BY <1>5, <2>1, <2>2
<1>19. ASSUME NEW j \in 1..Len(v), NEW i \in 1..l, v[j].type = "PUBREL", u[i].msg.qos = 2,
              u[i].id < v[j].id, ~PublishedNo(u[i].id)
       PROVE  Before(v, "PUBREL", u[i].id, j)
  <2>1. CASE j \in 1..b /\ v[j] = to_broker[j]
    <3>1. Before(to_broker, "PUBREL", u[i].id, j)
      BY <1>3, <1>9, <1>19, <2>1 DEF WayOrder, l, u
    <3>. QED
      BY <1>6, <2>1, <3>1
  <2>2. CASE j > b
    <3>1. PICK k \in 1..l : /\ v[j] = Again(u[k])
                            /\ Up \/ \A g \in 1..(k - 1) : \E h \in 1..(j - 1) : v[h] = Again(u[g])
      BY <1>4, <2>2
    <3>2. i \in 1..(k - 1) /\ u[k].next = "PUBCOMP"
      BY <1>8, <1>10, <1>19, <3>1
    <3>3. u[i].next = "PUBCOMP"
      BY <1>3, <1>9, <1>19, <3>2 DEF ListOrder, l, u
    <3>4. CASE Up
      <4>1. Holds(to_broker, {"PUBREL"}, u[i].id)
        BY <1>9, <1>19, <3>3, <3>4 DEF WayOrder, Up, l, u
      <4>. QED
        BY <1>6, <2>2, <4>1
    <3>5. CASE \A g \in 1..(k - 1) : \E h \in 1..(j - 1) : v[h] = Again(u[g])
      <4>1. PICK h \in 1..(j - 1) : v[h] = Again(u[i])
        BY <3>2, <3>5
      <4>2. v[h].type = "PUBREL" /\ v[h].id = u[i].id
        BY <1>8, <1>17, <1>19, <3>3, <4>1
      <4>. QED
        BY <4>2 DEF Before
    <3>. QED
      BY <3>1, <3>4, <3>5
  <2>. QED
    BY <1>5, <2>1, <2>2
<1>20. ASSUME link' = "open", NEW i \in 1..l
       PROVE  /\ Unheard(u[i]) => Holds(v, {"PUBLISH"}, u[i].id) \/ Holds(to_client, {"PUBREC"}, u[i].id)
              /\ u[i].next = "PUBCOMP" /\ ~PublishedNo(u[i].id) => Holds(v, {"PUBREL"}, u[i].id)
  <2>1. CASE Up
    <3>1. /\ Unheard(u[i]) => Holds(to_broker, {"PUBLISH"}, u[i].id) \/ Holds(to_client, {"PUBREC"}, u[i].id)
          /\ u[i].next = "PUBCOMP" /\ ~PublishedNo(u[i].id) => Holds(to_broker, {"PUBREL"}, u[i].id)
      BY <1>9, <2>1 DEF WayOrder, Up, l, u
    <3>. QED
      BY <1>6, <3>1
  <2>2. CASE ~Up
    <3>1. PICK h \in 1..Len(v) : v[h] = Again(u[i])
      BY <1>4, <1>20, <2>2
    <3>2. u[i].next = "PUBCOMP" => u[i].msg.qos = 2
      BY DEF OutInv, PublishedOnce, l, u
    <3>3. /\ v[h].id = u[i].id /\ Unheard(u[i]) => v[h].type = "PUBLISH"
          /\ v[h].id = u[i].id /\ u[i].next = "PUBCOMP" => v[h].type = "PUBREL"
          /\ v[h].id = u[i].id
      BY <1>8, <1>17, <3>1, <3>2
    <3>. QED
      BY <3>3 DEF Holds
  <2>. QED
    BY <2>1, <2>2
<1>21. WayOrder'
  <2>1. \A j \in 1..Len(to_client), i \in 1..l :
           /\ to_client[j].type = "PUBREC" /\ u[i].msg.qos = 2
           /\ u[i].id < to_client[j].id /\ Unheard(u[i])
           => Before(to_client, "PUBREC", u[i].id, j)
    BY <1>9 DEF WayOrder, l, u
  <2>. QED
    BY <1>2, <1>16, <1>18, <1>19, <1>20, <2>1 DEF WayOrder, l, u, v
<1>. QED
  BY <1>14, <1>15, <1>21 DEF OutOrder

LEMMA OutOrderComplete ==
    ASSUME KeptSession, OutOrder, OutInv, TypeInv, TypeInv', ConnectionComplete
    PROVE  OutOrder'
<1>. DEFINE l == Len(to_broker)
            n == Len(outboundMsgs)
            w == to_broker'
<1>0. to_broker \in Seq(ToBroker) /\ outboundMsgs \in Seq(Entries(Sent))
  BY DEF TypeInv, LinkTypes, SessionTypes
<1>1. /\ UNCHANGED <<commands, outboundMsgs, to_client, b_received, published, link>> /\ connected'
      /\ to_broker' = IF link = "open" THEN Resume ELSE to_broker
  BY DEF ConnectionComplete, KeptSession
<1>2. CASE link # "open"
  <2>1. to_broker' = to_broker
    BY <1>1, <1>2
  <2>. QED
    BY <1>0, <1>1, <1>2, <2>1, OutOrderRepeated DEF RepeatedInTurn
<1>3. CASE link = "open"
  <2>1. /\ l \in Nat /\ n \in Nat /\ Len(w) = l + n /\ w = to_broker' /\ l = Len(to_broker) /\ n = Len(outboundMsgs)
        /\ \A h \in 1..l : w[h] = to_broker[h]
        /\ \A h \in 1..n : w[l + h] = Again(outboundMsgs[h])
    BY <1>0, <1>1, <1>3, ResumeType
  <2>. HIDE DEF l, n, w, Again
  <2>2. ASSUME NEW j \in 1..Len(w), j > l
        PROVE  \E k \in 1..n : /\ w[j] = Again(outboundMsgs[k])
                               /\ \A i \in 1..(k - 1) : \E h \in 1..(j - 1) : w[h] = Again(outboundMsgs[i])
    <3>1. j - l \in 1..n /\ l + (j - l) = j
      BY <2>1, <2>2
    <3>2. w[j] = Again(outboundMsgs[j - l])
      BY <2>1, <3>1
    <3>3. ASSUME NEW i \in 1..((j - l) - 1)
          PROVE  l + i \in 1..(j - 1) /\ w[l + i] = Again(outboundMsgs[i])
      BY <2>1, <3>1
    <3>. QED
      BY <3>1, <3>2, <3>3
  <2>3. \A i \in 1..n : l + i \in 1..Len(w) /\ w[l + i] = Again(outboundMsgs[i])
    BY <2>1
  <2>4. RepeatedInTurn
    BY <1>1, <2>1, <2>2, <2>3 DEF RepeatedInTurn
  <2>. QED
    BY <2>4, OutOrderRepeated
<1>. QED
  BY <1>2, <1>3

LEMMA OutOrderRetry ==
    ASSUME OutOrder, OutInv, TypeInv, TypeInv', NEW n \in 1..Len(outboundMsgs),
           NEW due \in [1..n -> 1..Len(outboundMsgs)], RetryTimer(due)
    PROVE  OutOrder'
<1>. DEFINE l == Len(to_broker)
            w == to_broker'
<1>0. to_broker \in Seq(ToBroker) /\ outboundMsgs \in Seq(Entries(Sent))
  BY DEF TypeInv, LinkTypes, SessionTypes
<1>1. UNCHANGED <<commands, outboundMsgs, to_client, b_received, published>> /\ connected' /\ Up
  BY DEF RetryTimer, Up
<1>2. l \in Nat /\ n \in Nat
  BY <1>0
<1>. HIDE DEF Again
<1>3. /\ Len(w) = l + n /\ w = to_broker' /\ l = Len(to_broker)
      /\ \A h \in 1..l : w[h] = to_broker[h]
      /\ \A h \in 1..n : \E k \in 1..Len(outboundMsgs) : w[l + h] = Again(outboundMsgs[k])
  BY RetryType
<1>. HIDE DEF l, w
<1>4. ASSUME NEW j \in 1..Len(w), j > l
      PROVE  \E k \in 1..Len(outboundMsgs) : w[j] = Again(outboundMsgs[k])
  <2>1. j - l \in 1..n /\ l + (j - l) = j
    BY <1>2, <1>3, <1>4
  <2>. QED
    BY <1>3, <2>1
<1>5. RepeatedInTurn
  <2>1. Len(to_broker') >= Len(to_broker) /\ \A j \in 1..Len(to_broker) : to_broker'[j] = to_broker[j]
    BY <1>2, <1>3
  <2>2. \A j \in 1..Len(to_broker') : j > Len(to_broker) =>
            \E k \in 1..Len(outboundMsgs) : to_broker'[j] = Again(outboundMsgs[k]) /\ Up
    BY <1>1, <1>3, <1>4
  <2>. QED
    BY <1>1, <2>1, <2>2, Zenon DEF RepeatedInTurn
<1>. QED
  BY <1>5, OutOrderRepeated

\* What is called a number here is one
LEMMA SentNumbers == Sent \subseteq Numbers
<1>1. MaxSends \in Nat /\ Qos \subseteq {1, 2}
  BY DeliveryAssumption
<1>2. ASSUME NEW m \in Sent
      PROVE  m \in Numbers
  <2>1. PICK s \in 1..MaxSends, q \in Qos : m = [seq |-> s, qos |-> q]
    BY DEF Sent
  <2>2. s \in Nat /\ q \in {1, 2}
    BY <1>1, <2>1
  <2>. QED
    BY <2>1, <2>2 DEF Numbers
<1>. QED
  BY <1>2

(***************************************************************************)
(* The broker publishes a message when those before it are published.      *)
(***************************************************************************)
LEMMA OrderedMore ==
    ASSUME OutOrder, OutInv, TypeInv, TypeInv', NEW n \in Nat, NEW m \in Sent, Carried(n, m),
           HasId(outboundMsgs, n) \/ PublishedNo(n), published' = Append(published, m), UNCHANGED outboundMsgs,
           \A i \in 1..Len(outboundMsgs) :
              outboundMsgs[i].msg.qos = m.qos /\ outboundMsgs[i].id < n => PublishedNo(outboundMsgs[i].id)
    PROVE  /\ Ordered(published)'
           /\ \A i \in 1..Len(outboundMsgs), p \in 1..Len(published') :
                 published'[p].qos = outboundMsgs[i].msg.qos /\ ~PublishedNo(outboundMsgs[i].id)'
                    => published'[p].seq < outboundMsgs[i].id
<1>. DEFINE s == published
            t == published'
            u == outboundMsgs
<1>0. /\ published \in Seq(Sent) /\ ListOrder /\ Ordered(published)
      /\ outboundMsgs \in Seq(Entries(Sent))
  BY DEF TypeInv, HistoryTypes, SessionTypes, OutOrder
<1>1. /\ Len(s) \in Nat /\ Len(t) = Len(s) + 1 /\ t[Len(s) + 1] = m
      /\ \A p \in 1..Len(s) : t[p] = s[p]
      /\ \A p \in 1..Len(t) : p = Len(s) + 1 \/ p \in 1..Len(s)
  BY <1>0, AppendAt
<1>2. n = m.seq
  BY DEF OutInv, Numbered
<1>3. PublishedNo(n)' /\ \A k \in Nat : PublishedNo(k) => PublishedNo(k)'
  BY <1>1, <1>2 DEF PublishedNo
<1>4. \A i \in 1..Len(u) : /\ u[i].id \in Nat /\ u[i].msg \in Sent /\ u[i].id = u[i].msg.seq
                           /\ UnderWay(u[i].id, u[i].msg)
  BY OrderFacts DEF UnderWay
<1>. HIDE DEF s, t, u
<1>5. \/ \E p \in 1..Len(s) : s[p] = m
      \/ \A p \in 1..Len(s) : s[p].qos = m.qos => s[p].seq < n
  <2>1. CASE PublishedNo(n)
    <3>1. PICK p \in 1..Len(s) : s[p].seq = n
      BY <2>1 DEF PublishedNo, s
    <3>2. PICK k \in Sent : k = s[p]
      BY <1>0, <3>1 DEF s
    <3>3. Carried(n, k)
      BY <3>1, <3>2 DEF Carried, Published, s
    <3>4. k = m
      BY <3>3 DEF OutInv, Numbered
    <3>. QED
      BY <3>2, <3>4
  <2>2. CASE HasId(outboundMsgs, n) /\ ~PublishedNo(n)
    <3>1. PICK i \in 1..Len(u) : u[i].id = n
      BY <2>2 DEF HasId, u
    <3>2. PICK k \in Sent : k = u[i].msg
      BY <1>4, <3>1
    <3>3. Carried(n, k)
      BY <1>4, <3>1, <3>2 DEF Carried
    <3>4. u[i].msg = m
      BY <3>2, <3>3 DEF OutInv, Numbered
    <3>5. \A p \in 1..Len(s) : s[p].qos = u[i].msg.qos => s[p].seq < u[i].id
      BY <1>0, <2>2, <3>1 DEF ListOrder, s, u
    <3>. QED
      BY <3>1, <3>4, <3>5
  <2>. QED
    BY <2>1, <2>2
<1>6. Ordered(Append(published, m))
  <2>1. published \in Seq(Numbers) /\ m \in Numbers
    BY <1>0, SentNumbers
  <2>. QED
    BY <1>0, <1>2, <1>5, <2>1, OrderedAppend DEF s
<1>7. Ordered(published)'
  BY <1>6 DEF Ordered
<1>8. ASSUME NEW i \in 1..Len(u), NEW p \in 1..Len(t), t[p].qos = u[i].msg.qos, ~PublishedNo(outboundMsgs[i].id)'
      PROVE  t[p].seq < u[i].id
  <2>0. PICK k \in Nat : k = u[i].id
    BY <1>4
  <2>4. ~PublishedNo(k)'
    BY <1>8, <2>0 DEF PublishedNo, u
  <2>1. ~PublishedNo(k)
    BY <2>4, <1>3, <1>8, <2>0
  <2>2. CASE p \in 1..Len(s)
    <3>1. s[p].seq < u[i].id
      BY <1>0, <1>1, <1>8, <2>0, <2>1, <2>2 DEF ListOrder, s, u
    <3>. QED
      BY <1>1, <2>2, <3>1
  <2>3. CASE p = Len(s) + 1
    <3>1. t[p] = m
      BY <1>1, <2>3
    <3>2. k # n
      BY <1>3, <2>4
    <3>3. ~(k < n)
      BY <1>8, <2>0, <2>1, <3>1 DEF u
    <3>4. n < k
      BY <3>2, <3>3
    <3>. QED
      BY <1>2, <2>0, <3>1, <3>4
  <2>. QED
    BY <1>1, <2>2, <2>3
<1>. QED
  BY <1>7, <1>8 DEF t, u

(***************************************************************************)
(* The broker handles the first packet, and what it answers takes the      *)
(* place of it.                                                            *)
(***************************************************************************)
LEMMA OutOrderHandled ==
    ASSUME OutOrder, OutInv, TypeInv, TypeInv', NEW type \in Tokens, BrokerReads(type),
           UNCHANGED <<commands, outboundMsgs, connected, link>>, NEW n0 \in Nat, n0 = Head(to_broker).id,
           NEW t \in Acks, to_client' = Append(to_client, Packet(t, n0)),
           \A n \in Nat : PublishedNo(n) => PublishedNo(n)',
           \A n \in Nat : (\E r \in b_received' : r.id = n) \/ PublishedNo(n)' => Sending(n),
           type = "PUBLISH" => \/ Head(to_broker).msg.qos = 1 /\ t = "PUBACK" /\ PublishedNo(n0)'
                               \/ Head(to_broker).msg.qos = 2 /\ t = "PUBREC",
           type = "PUBREL" => t = "PUBCOMP" /\ PublishedNo(n0)',
           Ordered(published)',
           \A i \in 1..Len(outboundMsgs), p \in 1..Len(published') :
              published'[p].qos = outboundMsgs[i].msg.qos /\ ~PublishedNo(outboundMsgs[i].id)'
                 => published'[p].seq < outboundMsgs[i].id
    PROVE  OutOrder'
<1>. DEFINE u == outboundMsgs
            v == to_broker'
            w == to_client'
            p0 == Packet(t, n0)
            b == Len(to_client)
            m0 == to_broker[1].msg
<1>0. /\ to_broker \in Seq(ToBroker) /\ to_client \in Seq(ToClient) /\ to_client' \in Seq(ToClient)
      /\ ListOrder /\ WayOrder /\ QueueOrder
  BY DEF TypeInv, LinkTypes, OutOrder
<1>1. /\ 1 \in 1..Len(to_broker) /\ to_broker[1] = Head(to_broker) /\ to_broker[1].type = type
      /\ to_broker # <<>> /\ v = Tail(to_broker) /\ to_broker[1].id = n0
      /\ type = "PUBLISH" => m0 \in Sent /\ InFlight(n0, m0)
  BY FirstInFlight DEF Tokens
<1>2. /\ \A y, n : ~Before(to_broker, y, n, 1)
      /\ \A j \in 1..Len(v) : j + 1 \in 1..Len(to_broker) /\ v[j] = to_broker[j + 1]
      /\ \A y, n : \A j \in 1..Len(v) :
            Before(to_broker, y, n, j + 1) => Before(v, y, n, j) \/ (type = y /\ n0 = n)
      /\ \A y, n : Holds(to_broker, {y}, n) => Holds(v, {y}, n) \/ (type = y /\ n0 = n)
  <2>. DEFINE T == Tail(to_broker)
  <2>1. /\ \A y, n : ~Before(to_broker, y, n, 1)
        /\ \A j \in 1..Len(T) : j + 1 \in 1..Len(to_broker) /\ T[j] = to_broker[j + 1]
        /\ \A y, n : \A j \in 1..Len(T) :
              Before(to_broker, y, n, j + 1) =>
                 Before(T, y, n, j) \/ (Head(to_broker).type = y /\ Head(to_broker).id = n)
        /\ \A y, n : Holds(to_broker, {y}, n) =>
                 Holds(T, {y}, n) \/ (Head(to_broker).type = y /\ Head(to_broker).id = n)
    BY <1>0, <1>1, Shorter
  <2>2. T = v /\ Head(to_broker).type = type /\ Head(to_broker).id = n0
    BY <1>1
  <2>. HIDE DEF T, v
  <2>. QED
    BY <2>1, <2>2
<1>3. p0 \in ToClient /\ p0.type = t /\ p0.id = n0
  <2>1. w = Append(to_client, p0)
    OBVIOUS
  <2>. HIDE DEF p0
  <2>2. p0 = w[Len(w)] /\ Len(w) \in 1..Len(w)
    BY <1>0, <2>1
  <2>3. p0 \in ToClient
    BY <1>0, <2>2
  <2>. QED
    BY <2>3 DEF p0, Packet
<1>4. w = Append(to_client, p0)
  OBVIOUS
<1>. HIDE DEF p0
<1>5. /\ b \in Nat /\ Len(w) = b + 1 /\ w[b + 1] = p0 /\ \A i \in 1..b : w[i] = to_client[i]
      /\ \A i \in 1..Len(w) : i = b + 1 \/ i \in 1..b
  BY <1>0, <1>3, <1>4, AppendAt
<1>6. /\ \A y, n : \A j \in 1..b : Before(to_client, y, n, j) => Before(w, y, n, j)
      /\ \A y, n : \A j \in 1..Len(w) : j > b /\ Holds(to_client, {y}, n) => Before(w, y, n, j)
      /\ \A y, n : Holds(to_client, {y}, n) => Holds(w, {y}, n)
  <2>1. w \in Seq(ToClient) /\ Len(w) >= Len(to_client) /\ \A i \in 1..Len(to_client) : w[i] = to_client[i]
    BY <1>0, <1>5
  <2>2. b = Len(to_client)
    OBVIOUS
  <2>. HIDE DEF w, b
  <2>. QED
    BY <1>0, <2>1, <2>2, Longer
<1>7. Holds(w, {t}, n0)
  BY <1>3, <1>5 DEF Holds
<1>8. \A i \in 1..Len(u) : /\ u[i].id \in Nat /\ u[i].msg \in Sent /\ u[i].msg.qos \in {1, 2}
                           /\ UnderWay(u[i].id, u[i].msg) /\ u[i].next \in {"PUBREC", "PUBCOMP"}
  BY OrderFacts DEF UnderWay
<1>. HIDE DEF u, v, w, b, m0
\* A message under way with the id of the first packet is the one in that packet
<1>9. ASSUME NEW i \in 1..Len(u), u[i].id = n0, type = "PUBLISH"
      PROVE  u[i].msg = m0
  <2>1. PICK k \in Sent : k = u[i].msg
    BY <1>8
  <2>2. Carried(n0, k) /\ Carried(n0, m0) /\ m0 \in Sent
    BY <1>1, <1>8, <1>9, <2>1 DEF Carried
  <2>. QED
    BY <2>1, <2>2 DEF OutInv, Numbered
<1>10. m0 = Head(to_broker).msg
  BY <1>1 DEF m0
<1>11. ASSUME NEW i \in 1..Len(u)
       PROVE  /\ Unheard(outboundMsgs[i])' => Unheard(u[i])
              /\ ~PublishedNo(outboundMsgs[i].id)' => ~PublishedNo(u[i].id) /\ ~(type = "PUBREL" /\ u[i].id = n0)
              /\ Unheard(outboundMsgs[i])' /\ u[i].id = n0 /\ type = "PUBLISH" => t = "PUBREC"
  <2>0. PICK k \in Nat : k = u[i].id
    BY <1>8
  <2>1. PublishedNo(outboundMsgs[i].id)' <=> PublishedNo(k)'
    BY <2>0 DEF PublishedNo, u
  <2>2. PublishedNo(k) => PublishedNo(k)'
    OBVIOUS
  <2>3. /\ u[i].msg.qos = 1 => (Unheard(outboundMsgs[i])' <=> ~PublishedNo(k)')
        /\ u[i].msg.qos # 1 => (Unheard(outboundMsgs[i])' <=> u[i].next = "PUBREC")
    BY <2>0, <2>1 DEF Unheard, u
  <2>4. Unheard(outboundMsgs[i])' => Unheard(u[i])
    BY <2>0, <2>2, <2>3 DEF Unheard
  <2>5. Unheard(outboundMsgs[i])' /\ u[i].id = n0 /\ type = "PUBLISH" => t = "PUBREC"
    BY <1>9, <1>10, <2>0, <2>3
  <2>. QED
    BY <2>0, <2>1, <2>2, <2>4, <2>5
<1>12. \A n \in Nat : Holds(v, Tokens, n) => Holds(to_broker, Tokens, n)
  BY <1>2 DEF Holds
<1>13. \A n \in Nat : Sending(n)' => Sending(n)
  <2>1. \A n \in Nat : Holds(to_broker, Tokens, n)' => Holds(to_broker, Tokens, n)
    BY <1>12 DEF v, Tokens, Holds
  <2>2. \A n \in Nat : HasId(outboundMsgs, n)' => HasId(outboundMsgs, n)
    BY DEF HasId
  <2>3. \A n \in Nat : (\E i \in 1..Len(published') : published'[i].seq = n) => PublishedNo(n)'
    BY DEF PublishedNo
  <2>. QED
    BY <2>1, <2>2, <2>3 DEF Sending, Tokens
<1>14. QueueOrder'
  BY <1>0, <1>13 DEF QueueOrder
<1>15. ListOrder'
  <2>1. ASSUME NEW n \in Nat, Holds(to_broker, Tokens, n)'
        PROVE  HasId(outboundMsgs, n)' \/ PublishedNo(n)'
    <3>1. Holds(to_broker, Tokens, n)
      BY <1>12, <2>1 DEF v, Tokens, Holds
    <3>2. HasId(outboundMsgs, n) \/ PublishedNo(n)
      BY <1>0, <3>1 DEF ListOrder
    <3>. QED
      BY <3>2 DEF HasId
  <2>2. /\ \A i, j \in 1..Len(outboundMsgs') : i < j => outboundMsgs'[i].id < outboundMsgs'[j].id
        /\ \A i, j \in 1..Len(outboundMsgs') :
              i < j /\ outboundMsgs'[i].msg.qos = 2 /\ outboundMsgs'[j].next = "PUBCOMP"
                 => outboundMsgs'[i].next = "PUBCOMP"
    BY <1>0 DEF ListOrder
  <2>3. \A i \in 1..Len(outboundMsgs'), p \in 1..Len(published') :
           published'[p].qos = outboundMsgs'[i].msg.qos /\ ~PublishedNo(outboundMsgs[i].id)'
              => published'[p].seq < outboundMsgs'[i].id
    OBVIOUS
  <2>. QED
    BY <2>1, <2>2, <2>3 DEF ListOrder
<1>16. Silent'
  <2>1. connected
    <3>1. 1 \in 1..Len(to_broker) /\ to_broker[1].type \in Tokens
      BY <1>1
    <3>. QED
      BY <3>1 DEF OutOrder, Silent, Bare
  <2>. QED
    BY <2>1 DEF Silent
<1>17. ASSUME NEW j \in 1..Len(v), NEW i \in 1..Len(u), v[j].type = "PUBLISH", v[j].msg.qos = u[i].msg.qos,
              u[i].id < v[j].id, Unheard(outboundMsgs[i])'
       PROVE  Before(v, "PUBLISH", u[i].id, j) \/ Holds(w, {"PUBREC"}, u[i].id)
  <2>1. j + 1 \in 1..Len(to_broker) /\ v[j] = to_broker[j + 1] /\ Unheard(u[i])
    BY <1>2, <1>11, <1>17
  <2>2. Before(to_broker, "PUBLISH", u[i].id, j + 1) \/ Holds(to_client, {"PUBREC"}, u[i].id)
    BY <1>0, <1>17, <2>1 DEF WayOrder, u
  <2>3. \/ Before(v, "PUBLISH", u[i].id, j)
        \/ type = "PUBLISH" /\ u[i].id = n0
        \/ Holds(w, {"PUBREC"}, u[i].id)
    BY <1>2, <1>6, <2>2
  <2>. QED
    BY <1>7, <1>11, <1>17, <2>3
<1>18. ASSUME NEW j \in 1..Len(w), NEW i \in 1..Len(u), w[j].type = "PUBREC", u[i].msg.qos = 2,
              u[i].id < w[j].id, Unheard(outboundMsgs[i])'
       PROVE  Before(w, "PUBREC", u[i].id, j)
  <2>1. Unheard(u[i])
    BY <1>11, <1>18
  <2>2. CASE j \in 1..b
    <3>1. Before(to_client, "PUBREC", u[i].id, j)
      BY <1>0, <1>5, <1>18, <2>1, <2>2 DEF WayOrder, u, b
    <3>. QED
      BY <1>6, <2>2, <3>1
  <2>3. CASE j = b + 1
    <3>1. t = "PUBREC" /\ u[i].id < n0
      BY <1>3, <1>5, <1>18, <2>3
    <3>2. type = "PUBLISH" /\ to_broker[1].msg.qos = 2
      BY <1>1, <3>1 DEF Tokens
    <3>3. Before(to_broker, "PUBLISH", u[i].id, 1) \/ Holds(to_client, {"PUBREC"}, u[i].id)
      BY <1>0, <1>1, <1>18, <2>1, <3>1, <3>2 DEF WayOrder, u
    <3>. QED
      BY <1>2, <1>5, <1>6, <2>3, <3>3
  <2>. QED
    BY <1>5, <2>2, <2>3
<1>19. ASSUME NEW j \in 1..Len(v), NEW i \in 1..Len(u), v[j].type = "PUBREL", u[i].msg.qos = 2,
              u[i].id < v[j].id, ~PublishedNo(outboundMsgs[i].id)'
       PROVE  Before(v, "PUBREL", u[i].id, j)
  <2>1. /\ j + 1 \in 1..Len(to_broker) /\ v[j] = to_broker[j + 1] /\ ~PublishedNo(u[i].id)
        /\ ~(type = "PUBREL" /\ u[i].id = n0)
    BY <1>2, <1>11, <1>19
  <2>2. Before(to_broker, "PUBREL", u[i].id, j + 1)
    BY <1>0, <1>19, <2>1 DEF WayOrder, u
  <2>. QED
    BY <1>2, <2>1, <2>2
<1>20. ASSUME connected, link = "open", NEW i \in 1..Len(u)
       PROVE  /\ Unheard(outboundMsgs[i])' => Holds(v, {"PUBLISH"}, u[i].id) \/ Holds(w, {"PUBREC"}, u[i].id)
              /\ u[i].next = "PUBCOMP" /\ ~PublishedNo(outboundMsgs[i].id)' => Holds(v, {"PUBREL"}, u[i].id)
  <2>1. /\ Unheard(u[i]) => Holds(to_broker, {"PUBLISH"}, u[i].id) \/ Holds(to_client, {"PUBREC"}, u[i].id)
        /\ u[i].next = "PUBCOMP" /\ ~PublishedNo(u[i].id) => Holds(to_broker, {"PUBREL"}, u[i].id)
    BY <1>0, <1>20 DEF WayOrder, u
  <2>2. Unheard(outboundMsgs[i])' => Holds(v, {"PUBLISH"}, u[i].id) \/ Holds(w, {"PUBREC"}, u[i].id)
    BY <1>2, <1>6, <1>7, <1>11, <2>1
  <2>3. u[i].next = "PUBCOMP" /\ ~PublishedNo(outboundMsgs[i].id)' => Holds(v, {"PUBREL"}, u[i].id)
    BY <1>2, <1>11, <2>1
  <2>. QED
    BY <2>2, <2>3
<1>21. WayOrder'
  <2>1. outboundMsgs' = u /\ connected' = connected /\ link' = link
    BY DEF u
  <2>. QED
    BY <1>17, <1>18, <1>19, <1>20, <2>1 DEF WayOrder, v, w
<1>. QED
  BY <1>14, <1>15, <1>16, <1>21 DEF OutOrder

\* What the broker reads first
LEMMA FirstRead ==
    ASSUME OutOrder, OutInv, TypeInv, NEW type \in Tokens, BrokerReads(type)
    PROVE  /\ to_broker[1] = Head(to_broker) /\ to_broker[1].type = type /\ 1 \in 1..Len(to_broker)
           /\ to_broker[1].id \in Nat /\ Sending(to_broker[1].id)
           /\ HasId(outboundMsgs, to_broker[1].id) \/ PublishedNo(to_broker[1].id)
           /\ \A y, n : ~Before(to_broker, y, n, 1)
           /\ type = "PUBLISH" => /\ to_broker[1].msg \in Sent /\ to_broker[1].msg.qos \in {1, 2}
                                  /\ Carried(to_broker[1].id, to_broker[1].msg)
<1>1. /\ to_broker[1] = Head(to_broker) /\ to_broker[1].type = type /\ 1 \in 1..Len(to_broker)
      /\ type = "PUBLISH" => to_broker[1].msg \in Sent /\ InFlight(to_broker[1].id, to_broker[1].msg)
  BY FirstInFlight DEF Tokens
<1>2. /\ to_broker[1].id \in Nat /\ Sending(to_broker[1].id)
      /\ type = "PUBLISH" => to_broker[1].msg.qos \in {1, 2}
  BY <1>1, OrderFacts
<1>3. Holds(to_broker, Tokens, to_broker[1].id)
  BY <1>1 DEF Holds
<1>4. HasId(outboundMsgs, to_broker[1].id) \/ PublishedNo(to_broker[1].id)
  BY <1>2, <1>3 DEF OutOrder, ListOrder
<1>. QED
  BY <1>1, <1>2, <1>4 DEF Before, Carried

\* Nothing is published
LEMMA PublishedSame ==
    ASSUME OutOrder, UNCHANGED <<published, outboundMsgs>>
    PROVE  /\ Ordered(published)' /\ \A n : PublishedNo(n)' <=> PublishedNo(n)
           /\ \A i \in 1..Len(outboundMsgs), p \in 1..Len(published') :
                 published'[p].qos = outboundMsgs[i].msg.qos /\ ~PublishedNo(outboundMsgs[i].id)'
                    => published'[p].seq < outboundMsgs[i].id
<1>1. Ordered(published)' /\ \A n : PublishedNo(n)' <=> PublishedNo(n)
  BY DEF OutOrder, Ordered, PublishedNo
<1>2. \A i \in 1..Len(outboundMsgs) : ~PublishedNo(outboundMsgs[i].id)' => ~PublishedNo(outboundMsgs[i].id)
  BY DEF PublishedNo
<1>. QED
  BY <1>1, <1>2 DEF OutOrder, ListOrder

LEMMA PublishedAppended ==
    ASSUME published \in Seq(Sent), NEW m \in Sent, published' = Append(published, m)
    PROVE  \A n : PublishedNo(n)' <=> PublishedNo(n) \/ n = m.seq
<1>1. /\ \A i \in 1..Len(published) : i \in 1..Len(published') /\ published'[i] = published[i]
      /\ Len(published) + 1 \in 1..Len(published') /\ published'[Len(published) + 1] = m
      /\ \A i \in 1..Len(published') : i = Len(published) + 1 \/ i \in 1..Len(published)
  BY AppendAt
<1>. QED
  BY <1>1 DEF PublishedNo

LEMMA OutOrderPublish1 ==
    ASSUME OutOrder, OutInv, TypeInv, TypeInv', BrokerPublish1
    PROVE  OutOrder'
<1>. DEFINE m0 == to_broker[1].msg
<1>0. PICK n0 \in Nat : n0 = to_broker[1].id
  BY FirstRead DEF BrokerPublish1, Tokens
<1>1. /\ to_broker[1] = Head(to_broker) /\ to_broker[1].type = "PUBLISH" /\ n0 \in Nat /\ Sending(n0)
      /\ HasId(outboundMsgs, n0) \/ PublishedNo(n0)
      /\ \A y, n : ~Before(to_broker, y, n, 1)
      /\ m0 \in Sent /\ Carried(n0, m0) /\ 1 \in 1..Len(to_broker)
  BY <1>0, FirstRead DEF BrokerPublish1, Tokens
<1>2. /\ m0.qos = 1 /\ published' = Append(published, m0) /\ BrokerReads("PUBLISH")
      /\ to_client' = Append(to_client, Packet("PUBACK", n0))
      /\ UNCHANGED <<commands, outboundMsgs, connected, link, b_received>>
  BY <1>0, <1>1 DEF BrokerPublish1, BrokerAnswers, BrokerOnly
<1>3. ASSUME NEW i \in 1..Len(outboundMsgs), outboundMsgs[i].msg.qos = 1, outboundMsgs[i].id < n0,
             ~PublishedNo(outboundMsgs[i].id)
      PROVE  FALSE
  <2>1. Unheard(outboundMsgs[i])
    BY <1>3 DEF Unheard
  <2>2. Before(to_broker, "PUBLISH", outboundMsgs[i].id, 1) \/ Holds(to_client, {"PUBREC"}, outboundMsgs[i].id)
    BY <1>0, <1>1, <1>2, <1>3, <2>1 DEF OutOrder, WayOrder
  <2>. QED
    BY <1>1, <1>3, <2>1, <2>2, PubrecFor2
<1>. HIDE DEF m0
<1>4. /\ Ordered(published)'
      /\ \A i \in 1..Len(outboundMsgs), p \in 1..Len(published') :
            published'[p].qos = outboundMsgs[i].msg.qos /\ ~PublishedNo(outboundMsgs[i].id)'
               => published'[p].seq < outboundMsgs[i].id
  BY <1>1, <1>2, <1>3, OrderedMore
<1>5. /\ \A n \in Nat : /\ PublishedNo(n) => PublishedNo(n)'
                        /\ PublishedNo(n)' => PublishedNo(n) \/ n = n0
      /\ PublishedNo(n0)'
  <2>1. n0 = m0.seq
    BY <1>1 DEF OutInv, Numbered
  <2>2. published \in Seq(Sent)
    BY DEF TypeInv, HistoryTypes
  <2>. QED
    BY <1>1, <1>2, <2>1, <2>2, PublishedAppended
<1>6. \A n \in Nat : (\E r \in b_received' : r.id = n) \/ PublishedNo(n)' => Sending(n)
  BY <1>1, <1>2, <1>5 DEF Sending, PublishedNo
<1>7. n0 = Head(to_broker).id /\ Head(to_broker).msg.qos = 1
  BY <1>0, <1>1, <1>2 DEF m0
<1>. QED
  BY <1>1, <1>2, <1>4, <1>5, <1>6, <1>7, OutOrderHandled DEF Acks, Tokens

LEMMA OutOrderPublish2 ==
    ASSUME OutOrder, OutInv, TypeInv, TypeInv', BrokerPublish2
    PROVE  OutOrder'
<1>. DEFINE n0 == to_broker[1].id
            m0 == to_broker[1].msg
<1>1. to_broker[1] = Head(to_broker) /\ n0 \in Nat /\ Sending(n0)
  BY FirstRead DEF BrokerPublish2, Tokens
<1>2. /\ m0.qos = 2 /\ BrokerReads("PUBLISH")
      /\ b_received' = IF \E r \in b_received : r.id = n0 THEN b_received
                       ELSE b_received \cup {[id |-> n0, msg |-> m0]}
      /\ to_client' = Append(to_client, Packet("PUBREC", n0))
      /\ UNCHANGED <<commands, outboundMsgs, connected, link, published>>
  BY <1>1 DEF BrokerPublish2, BrokerAnswers, BrokerOnly
<1>3. n0 = Head(to_broker).id /\ Head(to_broker).msg.qos = 2
  BY <1>1, <1>2
<1>. HIDE DEF n0, m0
<1>4. /\ Ordered(published)' /\ \A n : PublishedNo(n)' <=> PublishedNo(n)
      /\ \A i \in 1..Len(outboundMsgs), p \in 1..Len(published') :
            published'[p].qos = outboundMsgs[i].msg.qos /\ ~PublishedNo(outboundMsgs[i].id)'
               => published'[p].seq < outboundMsgs[i].id
  BY <1>2, PublishedSame
<1>5. \A n \in Nat : (\E r \in b_received' : r.id = n) \/ PublishedNo(n)' => Sending(n)
  <2>1. \A r \in b_received' : r \in b_received \/ r.id = n0
    BY <1>2
  <2>. QED
    BY <1>1, <1>4, <2>1 DEF Sending, PublishedNo
<1>. QED
  BY <1>1, <1>2, <1>3, <1>4, <1>5, OutOrderHandled DEF Acks, Tokens

LEMMA OutOrderPubrel ==
    ASSUME OutOrder, OutInv, TypeInv, TypeInv', BrokerPubrel
    PROVE  OutOrder'
<1>0. PICK n0 \in Nat : n0 = to_broker[1].id
  BY FirstRead DEF BrokerPubrel, Tokens
<1>. DEFINE released == {r \in b_received : r.id = n0}
            m0 == (CHOOSE r \in released : TRUE).msg
<1>1. /\ to_broker[1] = Head(to_broker) /\ to_broker[1].type = "PUBREL" /\ n0 \in Nat /\ Sending(n0)
      /\ HasId(outboundMsgs, n0) \/ PublishedNo(n0)
      /\ \A y, n : ~Before(to_broker, y, n, 1)
      /\ 1 \in 1..Len(to_broker)
  BY <1>0, FirstRead DEF BrokerPubrel, Tokens
<1>2. /\ BrokerReads("PUBREL") /\ n0 = Head(to_broker).id
      /\ b_received' = b_received \ released
      /\ published' = IF released = {} THEN published ELSE Append(published, m0)
      /\ to_client' = Append(to_client, Packet("PUBCOMP", n0))
      /\ UNCHANGED <<commands, outboundMsgs, connected, link>>
  BY <1>0, <1>1 DEF BrokerPubrel, BrokerAnswers, BrokerOnly
<1>3. released # {} => m0 \in Sent /\ Carried(n0, m0) /\ m0.qos = 2 /\ m0.seq = n0
  <2>. SUFFICES ASSUME released # {}
                PROVE  m0 \in Sent /\ Carried(n0, m0) /\ m0.qos = 2 /\ m0.seq = n0
    OBVIOUS
  <2>1. PICK r0 \in b_received : r0.id = n0 /\ r0.msg = m0
    OBVIOUS
  <2>. HIDE DEF m0
  <2>2. m0 \in Sent
    BY <2>1 DEF TypeInv, BrokerTypes, Response
  <2>3. Carried(n0, m0)
    BY <2>1 DEF Carried, WithBroker
  <2>. QED
    BY <1>1, <2>1, <2>2, <2>3 DEF OutInv, Numbered
<1>4. Got(n0)
  <2>1. Holds(to_broker, {"PUBREL"}, n0)
    BY <1>0, <1>1 DEF Holds
  <2>. QED
    BY <1>1, <2>1 DEF OutInv, Acknowledged
<1>5. released = {} => PublishedNo(n0)
  BY <1>4 DEF Got
<1>6. ASSUME NEW i \in 1..Len(outboundMsgs), outboundMsgs[i].msg.qos = 2, outboundMsgs[i].id < n0,
             ~PublishedNo(outboundMsgs[i].id)
      PROVE  FALSE
  <2>1. Before(to_broker, "PUBREL", outboundMsgs[i].id, 1)
    BY <1>0, <1>1, <1>6 DEF OutOrder, WayOrder
  <2>. QED
    BY <1>1, <2>1
<1>7. \A r \in b_received' : r \in b_received
  BY <1>2
<1>. HIDE DEF m0, released
<1>8. /\ Ordered(published)'
      /\ \A i \in 1..Len(outboundMsgs), p \in 1..Len(published') :
            published'[p].qos = outboundMsgs[i].msg.qos /\ ~PublishedNo(outboundMsgs[i].id)'
               => published'[p].seq < outboundMsgs[i].id
      /\ \A n \in Nat : PublishedNo(n) => PublishedNo(n)'
      /\ \A n \in Nat : PublishedNo(n)' => PublishedNo(n) \/ n = n0
      /\ PublishedNo(n0)'
  <2>1. CASE released = {}
    <3>1. published' = published /\ outboundMsgs' = outboundMsgs
      BY <1>2, <2>1
    <3>. QED
      BY <1>5, <2>1, <3>1, PublishedSame
  <2>2. CASE released # {}
    <3>1. /\ published' = Append(published, m0) /\ outboundMsgs' = outboundMsgs
          /\ m0 \in Sent /\ Carried(n0, m0) /\ m0.qos = 2 /\ m0.seq = n0
      BY <1>2, <1>3, <2>2
    <3>2. /\ Ordered(published)'
          /\ \A i \in 1..Len(outboundMsgs), p \in 1..Len(published') :
                published'[p].qos = outboundMsgs[i].msg.qos /\ ~PublishedNo(outboundMsgs[i].id)'
                   => published'[p].seq < outboundMsgs[i].id
      BY <1>1, <1>6, <3>1, OrderedMore
    <3>3. published \in Seq(Sent)
      BY DEF TypeInv, HistoryTypes
    <3>4. \A n : PublishedNo(n)' <=> PublishedNo(n) \/ n = n0
      BY <3>1, <3>3, PublishedAppended
    <3>. QED
      BY <3>2, <3>4
  <2>. QED
    BY <2>1, <2>2
<1>9. \A n \in Nat : (\E r \in b_received' : r.id = n) \/ PublishedNo(n)' => Sending(n)
  BY <1>1, <1>7, <1>8 DEF Sending, PublishedNo
<1>. QED
  BY <1>1, <1>2, <1>8, <1>9, OutOrderHandled DEF Acks, Tokens

LEMMA OutOrderNext ==
    KeptSession /\ TypeInv /\ TypeInv' /\ Linked /\ OutInv /\ OutInv' /\ OutOrder /\ [Next]_vars => OutOrder'
<1>. SUFFICES ASSUME KeptSession, TypeInv, TypeInv', Linked, OutInv, OutInv', OutOrder, [Next]_vars PROVE OutOrder'
  OBVIOUS
<1>1. CASE \E q \in Qos : Send(q)
  BY <1>1, OutOrderSend
<1>2. CASE \/ StartConnect \/ CannotConnect \/ LoseConnection \/ NothingToLose
           \/ ConnectTimeout \/ Break \/ PingTimeout
  BY <1>2, QuietSend, QuietWaySend, OutOrderKept
<1>3. CASE PublishCommand \/ PublishFails
  BY <1>3, OutOrderPublish
<1>4. CASE \/ RecvPublish1 \/ RecvPublish2 \/ RecvPubrel \/ RecvStrayPubrel \/ RecvPingresp
           \/ RecvConnack
  BY <1>4, QuietReceive, QuietWayReceive, OutOrderKept
<1>5. CASE RecvPubrec
  BY <1>5, OutOrderPubrec
<1>6. CASE RecvPuback \/ RecvPubcomp
  BY <1>6, QuietEnd, QuietWayReceive, OutOrderKept
<1>7. CASE ReadFails \/ TurnLost \/ TurnFails \/ TurnEnds \/ ConnackUnexpected
  BY <1>7, QuietTurn, QuietWayTurn, OutOrderKept
<1>8. CASE ConnectionComplete
  BY <1>8, OutOrderComplete
<1>9. CASE \E n \in 1..Len(outboundMsgs) : \E due \in [1..n -> 1..Len(outboundMsgs)] : RetryTimer(due)
  BY <1>9, OutOrderRetry
<1>10. CASE BrokerConnect \/ BrokerPubrec \/ BrokerEnd \/ \E q \in Qos : BrokerSend(q)
  BY <1>10, QuietBroker, QuietWayBroker, OutOrderKept
<1>11. CASE BrokerPublish1
  BY <1>11, OutOrderPublish1
<1>12. CASE BrokerPublish2
  BY <1>12, OutOrderPublish2
<1>13. CASE BrokerPubrel
  BY <1>13, OutOrderPubrel
<1>14. CASE UNCHANGED vars
  <2>1. QuietOut
    BY <1>14, QueueChanges, FlightChanges DEF vars, QuietOut
  <2>2. QuietWay /\ Remain
    BY <1>14, WayKept, RemainSame DEF vars
  <2>. QED
    BY <2>1, <2>2, OutOrderKept
<1>. QED
  BY <1>1, <1>2, <1>3, <1>4, <1>5, <1>6, <1>7, <1>8, <1>9, <1>10, <1>11, <1>12, <1>13, <1>14
     DEF Next, SendThread, ReceiveThread, Timers, Broker, BrokerHandles

LEMMA OutOrderCorrect ==
    ASSUME KeptSession
    PROVE  Spec => [](TypeInv /\ Linked /\ OutInv /\ OutOrder)
<1>1. Init => TypeInv /\ Linked /\ OutInv /\ OutOrder
  BY TypesInit, LinkedInit, OutInit, OutOrderInit
<1>2. TypeInv /\ Linked /\ OutInv /\ OutOrder /\ [Next]_vars => (TypeInv /\ Linked /\ OutInv /\ OutOrder)'
  BY TypesNext, LinkedNext, OutNext, OutOrderNext
<1>. QED
  BY <1>1, <1>2, PTL DEF Spec

LEMMA PublishedOrdered ==
    ASSUME KeptSession
    PROVE  Spec => []PublishedInOrder
<1>1. TypeInv /\ OutOrder => PublishedInOrder
  <2>. SUFFICES ASSUME TypeInv, OutOrder PROVE PublishedInOrder
    OBVIOUS
  <2>1. published \in Seq(Numbers) /\ Ordered(published)
    BY SentNumbers DEF TypeInv, HistoryTypes, OutOrder
  <2>. QED
    BY <2>1, OrderedIsInOrder DEF PublishedInOrder
<1>. QED
  BY <1>1, OutOrderCorrect, PTL

-----------------------------------------------------------------------------
(* The order of the broker's messages.                                     *)

\* The broker owes this message under this id, and it has not been given
Due(id, m) == Owes(id, m, "PUBREC") \/ Owes(id, m, "PUBCOMP")
Pending(id, m) == Due(id, m) /\ ~Given(m)

\* It is on its way, from the PUBLISH to the PUBREL
OnItsWay(id) == Holds(to_client, Tokens, id) \/ Holds(to_broker, {"PUBREC"}, id)

(***************************************************************************)
(* The broker's messages are in order, with those in front whose PUBREC    *)
(* came; and what has been given of a quality of service is before what    *)
(* has not.                                                                *)
(***************************************************************************)
OwedInTurn == \A i, j \in 1..Len(b_unacked) : i < j => b_unacked[i].msg.seq < b_unacked[j].msg.seq
ReleasedFirst == \A id, n \in Nat, m, k \in Incoming :
                    Owes(id, m, "PUBREC") /\ m.qos = 2 /\ Owes(n, k, "PUBCOMP") => ~(m.seq < k.seq)
GivenFirst == \A id \in Nat, m, k \in Incoming :
                 Pending(id, m) /\ Given(k) /\ k.qos = m.qos => k.seq < m.seq

(***************************************************************************)
(* Two messages of one quality of service do not change places on the way  *)
(* to the client, back, and there again: PUBLISH, then PUBREC, then        *)
(* PUBREL.  While the client is connected each of them is on its way.      *)
(***************************************************************************)
PublishTurn ==
    \A j \in 1..Len(to_client), id \in Nat, m \in Incoming :
       /\ to_client[j].type = "PUBLISH" /\ Pending(id, m)
       /\ m.qos = to_client[j].msg.qos /\ m.seq < to_client[j].msg.seq
       => \/ Before(to_client, "PUBLISH", id, j)
          \/ Holds(to_broker, {"PUBREC"}, id) \/ Holds(to_client, {"PUBREL"}, id)
PubrecTurn ==
    \A j \in 1..Len(to_broker), id \in Nat, m, k \in Incoming :
       /\ to_broker[j].type = "PUBREC" /\ Due(to_broker[j].id, k)
       /\ Pending(id, m) /\ m.qos = k.qos /\ m.seq < k.seq
       => Before(to_broker, "PUBREC", id, j) \/ Holds(to_client, {"PUBREL"}, id)
PubrelTurn ==
    \A j \in 1..Len(to_client), id \in Nat, m, k \in Incoming :
       /\ to_client[j].type = "PUBREL" /\ Due(to_client[j].id, k)
       /\ Pending(id, m) /\ m.qos = k.qos /\ m.seq < k.seq
       => Before(to_client, "PUBREL", id, j)
AllOnTheirWay == b_up => \A id \in Nat, m \in Incoming : Pending(id, m) => OnItsWay(id)

OwedOrder == OwedInTurn /\ ReleasedFirst /\ GivenFirst
WayBackOrder == PublishTurn /\ PubrecTurn /\ PubrelTurn /\ AllOnTheirWay
BackOrder == Ordered(Arrivals) /\ OwedOrder /\ WayBackOrder

LEMMA BackOrderInit == Init => BackOrder
<1>. SUFFICES ASSUME Init
              PROVE  BackOrder
  OBVIOUS
<1>1. /\ to_broker = <<>> /\ to_client = <<>> /\ b_unacked = <<>> /\ arrived = <<>> /\ messageQueue = <<>>
  BY DEF Init
<1>2. Arrivals = <<>>
  BY <1>1 DEF Arrivals
<1>3. \A id, m : ~Due(id, m) /\ \A x : ~Owes(id, m, x)
  BY <1>1 DEF Due, Owes
<1>4. Ordered(Arrivals)
  BY <1>2 DEF Ordered
<1>5. OwedOrder
  <2>1. OwedInTurn
    BY <1>1 DEF OwedInTurn
  <2>2. ReleasedFirst
    BY <1>3 DEF ReleasedFirst
  <2>3. GivenFirst
    BY <1>3 DEF GivenFirst, Pending
  <2>. QED
    BY <2>1, <2>2, <2>3 DEF OwedOrder
<1>6. WayBackOrder
  BY <1>1, <1>3 DEF WayBackOrder, PublishTurn, PubrecTurn, PubrelTurn, AllOnTheirWay, Pending
<1>. QED
  BY <1>4, <1>5, <1>6 DEF BackOrder

\* On the way back nothing changes: all is lost, or what there is stays in its order
QuietBack ==
    \/ /\ ~b_up' /\ \A i \in 1..Len(to_client') : to_client'[i].type \notin Tokens
       /\ \A i \in 1..Len(to_broker') : to_broker'[i].type # "PUBREC"
    \/ /\ Follows(to_client', to_client, Tokens) /\ Follows(to_broker', to_broker, {"PUBREC"})
       /\ b_up' => b_up

LEMMA BackOrderKept ==
    ASSUME BackOrder, TypeInv', QuietIn, QuietBack
    PROVE  BackOrder'
<1>1. UNCHANGED b_unacked /\ Arrivals' = Arrivals
  BY DEF QuietIn
<1>2. \A id \in Nat, m \in Incoming : /\ Given(m)' <=> Given(m)
                                      /\ \A x : Owes(id, m, x)' <=> Owes(id, m, x)
                                      /\ Due(id, m)' <=> Due(id, m)
                                      /\ Pending(id, m)' <=> Pending(id, m)
  BY <1>1 DEF Given, Owes, Due, Pending
<1>3. Ordered(Arrivals)'
  BY <1>1 DEF BackOrder, Ordered
<1>4. OwedOrder'
  BY <1>1, <1>2 DEF BackOrder, OwedOrder, OwedInTurn, ReleasedFirst, GivenFirst
<1>5. to_broker' \in Seq(ToBroker) /\ to_client' \in Seq(ToClient)
  BY DEF TypeInv, LinkTypes
<1>6. CASE /\ ~b_up' /\ \A i \in 1..Len(to_client') : to_client'[i].type \notin Tokens
           /\ \A i \in 1..Len(to_broker') : to_broker'[i].type # "PUBREC"
  <2>1. WayBackOrder'
    BY <1>6 DEF WayBackOrder, PublishTurn, PubrecTurn, PubrelTurn, AllOnTheirWay, Tokens
  <2>. QED
    BY <1>3, <1>4, <2>1 DEF BackOrder
<1>7. CASE /\ Follows(to_client', to_client, Tokens) /\ Follows(to_broker', to_broker, {"PUBREC"})
           /\ b_up' => b_up
  <2>1. /\ \A n \in Nat, y \in Tokens : Holds(to_client, {y}, n) => Holds(to_client', {y}, n)
        /\ \A n \in Nat : Holds(to_broker, {"PUBREC"}, n) => Holds(to_broker', {"PUBREC"}, n)
    BY <1>7 DEF Follows
  <2>2. ASSUME NEW j \in 1..Len(to_client'), to_client'[j].type \in Tokens
        PROVE  \E l \in 1..Len(to_client) :
                  /\ to_client[l] = to_client'[j]
                  /\ \A y \in Tokens, n \in Nat : Before(to_client, y, n, l) => Before(to_client', y, n, j)
    BY <1>7, <2>2 DEF Follows
  <2>3. ASSUME NEW j \in 1..Len(to_broker'), to_broker'[j].type = "PUBREC"
        PROVE  \E l \in 1..Len(to_broker) :
                  /\ to_broker[l] = to_broker'[j]
                  /\ \A n \in Nat : Before(to_broker, "PUBREC", n, l) => Before(to_broker', "PUBREC", n, j)
    BY <1>7, <2>3 DEF Follows
  <2>4. PublishTurn /\ PubrecTurn /\ PubrelTurn /\ AllOnTheirWay
    BY DEF BackOrder, WayBackOrder
  <2>5. PublishTurn'
    <3>. SUFFICES ASSUME NEW j \in 1..Len(to_client'), NEW id \in Nat, NEW m \in Incoming,
                         to_client'[j].type = "PUBLISH", Pending(id, m),
                         m.qos = to_client'[j].msg.qos, m.seq < to_client'[j].msg.seq
                  PROVE  \/ Before(to_client', "PUBLISH", id, j)
                         \/ Holds(to_broker', {"PUBREC"}, id) \/ Holds(to_client', {"PUBREL"}, id)
      BY <1>2 DEF PublishTurn
    <3>1. PICK l \in 1..Len(to_client) :
             /\ to_client[l] = to_client'[j]
             /\ \A y \in Tokens, n \in Nat : Before(to_client, y, n, l) => Before(to_client', y, n, j)
      BY <2>2 DEF Tokens
    <3>2. \/ Before(to_client, "PUBLISH", id, l)
          \/ Holds(to_broker, {"PUBREC"}, id) \/ Holds(to_client, {"PUBREL"}, id)
      BY <2>4, <3>1 DEF PublishTurn
    <3>. QED
      BY <2>1, <3>1, <3>2 DEF Tokens
  <2>6. PubrecTurn'
    <3>. SUFFICES ASSUME NEW j \in 1..Len(to_broker'), NEW id \in Nat, NEW m \in Incoming, NEW k \in Incoming,
                         to_broker'[j].type = "PUBREC", Due(to_broker[j].id, k)', Pending(id, m),
                         m.qos = k.qos, m.seq < k.seq
                  PROVE  Before(to_broker', "PUBREC", id, j) \/ Holds(to_client', {"PUBREL"}, id)
      BY <1>2 DEF PubrecTurn
    <3>1. PICK l \in 1..Len(to_broker) :
             /\ to_broker[l] = to_broker'[j]
             /\ \A n \in Nat : Before(to_broker, "PUBREC", n, l) => Before(to_broker', "PUBREC", n, j)
      BY <2>3
    <3>2. Due(to_broker[l].id, k)
      BY <1>1, <3>1 DEF Due, Owes
    <3>3. Before(to_broker, "PUBREC", id, l) \/ Holds(to_client, {"PUBREL"}, id)
      BY <2>4, <3>1, <3>2 DEF PubrecTurn
    <3>. QED
      BY <2>1, <3>1, <3>3 DEF Tokens
  <2>7. PubrelTurn'
    <3>. SUFFICES ASSUME NEW j \in 1..Len(to_client'), NEW id \in Nat, NEW m \in Incoming, NEW k \in Incoming,
                         to_client'[j].type = "PUBREL", Due(to_client[j].id, k)', Pending(id, m),
                         m.qos = k.qos, m.seq < k.seq
                  PROVE  Before(to_client', "PUBREL", id, j)
      BY <1>2 DEF PubrelTurn
    <3>1. PICK l \in 1..Len(to_client) :
             /\ to_client[l] = to_client'[j]
             /\ \A y \in Tokens, n \in Nat : Before(to_client, y, n, l) => Before(to_client', y, n, j)
      BY <2>2 DEF Tokens
    <3>2. Due(to_client[l].id, k)
      BY <1>1, <3>1 DEF Due, Owes
    <3>3. Before(to_client, "PUBREL", id, l)
      BY <2>4, <3>1, <3>2 DEF PubrelTurn
    <3>. QED
      BY <3>1, <3>3 DEF Tokens
  <2>8. AllOnTheirWay'
    <3>. SUFFICES ASSUME b_up', NEW id \in Nat, NEW m \in Incoming, Pending(id, m)
                  PROVE  OnItsWay(id)'
      BY <1>2 DEF AllOnTheirWay
    <3>1. Holds(to_client, Tokens, id) \/ Holds(to_broker, {"PUBREC"}, id)
      BY <1>7, <2>4 DEF AllOnTheirWay, OnItsWay
    <3>2. Holds(to_client, Tokens, id) => Holds(to_client', Tokens, id)
      BY <2>1 DEF Holds, Tokens
    <3>. QED
      BY <2>1, <3>1, <3>2 DEF OnItsWay
  <2>. QED
    BY <1>3, <1>4, <2>5, <2>6, <2>7, <2>8 DEF BackOrder, WayBackOrder
<1>. QED
  BY <1>6, <1>7 DEF QuietBack

-----------------------------------------------------------------------------
(* What leaves the messages of the broker where they are.                  *)

LEMMA BackLost ==
    ASSUME to_client' = <<>>, to_broker' = <<>> \/ to_broker' = <<[type |-> "CONNECT"]>>, ~b_up'
    PROVE  QuietBack
<1>1. \A i \in 1..Len(to_broker') : to_broker'[i].type # "PUBREC"
  <2>1. CASE to_broker' = <<>>
    BY <2>1
  <2>2. CASE to_broker' = <<[type |-> "CONNECT"]>>
    <3>1. Len(to_broker') = 1 /\ to_broker'[1].type = "CONNECT"
      BY <2>2
    <3>. QED
      BY <3>1
  <2>. QED
    BY <2>1, <2>2
<1>2. \A i \in 1..Len(to_client') : to_client'[i].type \notin Tokens
  OBVIOUS
<1>. QED
  BY <1>1, <1>2 DEF QuietBack

LEMMA BackKept ==
    ASSUME UNCHANGED <<to_broker, to_client, b_up>>
    PROVE  QuietBack
  BY FollowsSame DEF QuietBack

\* The client sends what it sends itself
LEMMA BackSent ==
    ASSUME TypeInv, TypeInv', Extends(to_broker', to_broker, Tokens), UNCHANGED <<to_client, b_up>>
    PROVE  QuietBack
<1>1. to_broker \in Seq(ToBroker) /\ to_broker' \in Seq(ToBroker)
  BY DEF TypeInv, LinkTypes
<1>2. {"PUBREC"} \cap Tokens = {}
  BY DEF Tokens
<1>3. Follows(to_broker', to_broker, {"PUBREC"})
  BY <1>1, <1>2, FollowsExtends
<1>. QED
  BY <1>3, FollowsSame DEF QuietBack

LEMMA QuietBackSend ==
    ASSUME ~CleanSession, TypeInv, TypeInv', Linked,
           \/ \E q \in Qos : Send(q)
           \/ StartConnect \/ CannotConnect \/ LoseConnection \/ NothingToLose
           \/ PublishCommand \/ PublishFails \/ ConnectTimeout \/ Break \/ PingTimeout
    PROVE  QuietBack
<1>1. ASSUME NEW q \in Qos, Send(q)
      PROVE  QuietBack
  BY <1>1, BackKept DEF Send
<1>2. CASE StartConnect
  BY <1>2, BackLost DEF StartConnect, Linked
<1>3. CASE CannotConnect \/ NothingToLose \/ PublishFails \/ PingTimeout
  BY <1>3, BackKept DEF CannotConnect, NothingToLose, PublishFails, PingTimeout
<1>4. CASE LoseConnection
  BY <1>4, BackLost DEF LoseConnection, CloseSession, Close
<1>5. CASE PublishCommand
  <2>. DEFINE p == Publish(Head(commands).id, FALSE, Head(commands).msg)
  <2>1. /\ to_broker' = to_broker \/ to_broker' = Append(to_broker, p)
        /\ UNCHANGED <<to_client, b_up>>
    BY <1>5 DEF PublishCommand
  <2>2. p \in ToBroker
    <3>1. Head(commands) \in Command /\ Head(commands).type = "PUBLISH"
      BY <1>5 DEF PublishCommand, CanPublish, NextIs, TypeInv, SendTypes
    <3>2. Head(commands).id \in MsgId /\ Head(commands).msg \in Sent
      BY <3>1, CommandTypes
    <3>. QED
      BY <3>2, PacketTypes
  <2>3. p.type \in Tokens /\ to_broker \in Seq(ToBroker)
    BY DEF Publish, Tokens, TypeInv, LinkTypes
  <2>. HIDE DEF p
  <2>4. Extends(to_broker', to_broker, Tokens)
    BY <2>1, <2>2, <2>3, ExtendsAppend, ExtendsSame
  <2>. QED
    BY <2>1, <2>4, BackSent
<1>6. CASE ConnectTimeout
  <2>1. messageQueue \in Seq(Incoming) /\ ConnectFailed(messageQueue)
    BY <1>6 DEF ConnectTimeout, TypeInv, SessionTypes
  <2>2. Close
    BY <2>1, ConnectFailedTypes
  <2>. QED
    BY <2>2, BackLost DEF Close
<1>7. CASE Break
  BY <1>7, BackLost DEF Break
<1>. QED
  BY <1>1, <1>2, <1>3, <1>4, <1>5, <1>6, <1>7

LEMMA QuietBackReceive ==
    ASSUME TypeInv, TypeInv', RecvPubrec \/ RecvPuback \/ RecvPubcomp \/ RecvPingresp \/ RecvConnack
    PROVE  QuietBack
<1>0. LinkTypes /\ to_broker \in Seq(ToBroker) /\ to_client \in Seq(ToClient) /\ to_broker' \in Seq(ToBroker)
  BY DEF TypeInv, LinkTypes
<1>1. ASSUME NEW type, type \notin Tokens, Reads(type), UNCHANGED b_up,
             Extends(to_broker', to_broker, {"PUBREL"})
      PROVE  QuietBack
  <2>1. Follows(to_client', to_client, Tokens)
    BY <1>0, <1>1, FollowsTail DEF Reads
  <2>2. Follows(to_broker', to_broker, {"PUBREC"})
    BY <1>0, <1>1, FollowsExtends
  <2>. QED
    BY <1>1, <2>1, <2>2 DEF QuietBack
<1>t. "PUBREC" \notin Tokens /\ "PUBACK" \notin Tokens /\ "PUBCOMP" \notin Tokens /\ "CONNACK" \notin Tokens
  BY DEF Tokens
<1>2. CASE RecvPubrec
  <2>. DEFINE p == Packet("PUBREL", Head(to_client).id)
  <2>1. Reads("PUBREC") /\ UNCHANGED b_up /\ (to_broker' = to_broker \/ to_broker' = Append(to_broker, p))
    BY <1>2 DEF RecvPubrec, Answer
  <2>2. Head(to_client).id \in Nat
    BY <1>0, <2>1, ReadsProps, PacketTypes
  <2>3. p \in ToBroker /\ p.type \in {"PUBREL"}
    BY <2>2, PacketTypes DEF Packet
  <2>. HIDE DEF p
  <2>4. Extends(to_broker', to_broker, {"PUBREL"})
    BY <1>0, <2>1, <2>3, ExtendsAppend, ExtendsSame
  <2>. QED
    BY <1>1, <1>t, <2>1, <2>4
<1>3. ASSUME UNCHANGED to_broker
      PROVE  Extends(to_broker', to_broker, {"PUBREL"})
  BY <1>0, <1>3, ExtendsSame
<1>4. CASE RecvPuback \/ RecvPubcomp
  BY <1>1, <1>3, <1>4, <1>t DEF RecvPuback, RecvPubcomp, RecvEnd
<1>5. CASE RecvPingresp
  BY <1>5, BackKept DEF RecvPingresp
<1>6. CASE RecvConnack
  BY <1>1, <1>3, <1>6, <1>t DEF RecvConnack
<1>. QED
  BY <1>2, <1>4, <1>5, <1>6

LEMMA QuietBackTurn ==
    ASSUME ~CleanSession, TypeInv, TypeInv',
           ReadFails \/ TurnLost \/ TurnFails \/ TurnEnds \/ ConnectionComplete \/ ConnackUnexpected
    PROVE  QuietBack
<1>1. ASSUME NEW messages \in Seq(Incoming), ConnectFailed(messages)
      PROVE  QuietBack
  <2>1. Close
    BY <1>1, ConnectFailedTypes
  <2>. QED
    BY <2>1, BackLost DEF Close
<1>2. messageQueue \in Seq(Incoming) /\ arrived \in Seq(Incoming) /\ refusals \in Nat
  BY DEF TypeInv, SessionTypes, HistoryTypes, BoundTypes
<1>3. ASSUME ReadFails
      PROVE  QuietBack
  BY <1>1, <1>2, <1>3, BackKept DEF ReadFails
<1>4. ASSUME TurnLost \/ TurnEnds
      PROVE  QuietBack
  BY <1>4, BackKept DEF TurnLost, TurnEnds
<1>5. ASSUME TurnFails
      PROVE  QuietBack
  BY <1>5, BackKept, BackLost DEF TurnFails, Close
<1>6. ASSUME ConnackUnexpected
      PROVE  QuietBack
  <2>1. PICK ok \in BOOLEAN : DeliverHead(ok) /\ ConnectFailed(AfterDelivery(ok))
    BY <1>6 DEF ConnackUnexpected
  <2>2. AfterDelivery(ok) \in Seq(Incoming)
    BY <1>2, <2>1, DeliverHeadTypes
  <2>. QED
    BY <1>1, <2>1, <2>2
<1>7. ASSUME ConnectionComplete
      PROVE  QuietBack
  <2>1. UNCHANGED <<to_client, b_up>> /\ (to_broker' = to_broker \/ to_broker' = Resume)
    BY <1>7 DEF ConnectionComplete
  <2>2. to_broker \in Seq(ToBroker) /\ outboundMsgs \in Seq(Entries(Sent))
    BY DEF TypeInv, LinkTypes, SessionTypes
  <2>3. Extends(to_broker', to_broker, Tokens)
    BY <2>1, <2>2, ExtendsSame, ResumeExtends DEF Tokens
  <2>. QED
    BY <2>1, <2>3, BackSent
<1>. QED
  BY <1>3, <1>4, <1>5, <1>6, <1>7

LEMMA QuietBackBroker ==
    ASSUME TypeInv, TypeInv', BrokerPublish1 \/ BrokerPublish2 \/ BrokerPubrel
    PROVE  QuietBack
<1>0. /\ to_broker \in Seq(ToBroker) /\ to_client \in Seq(ToClient) /\ to_client' \in Seq(ToClient)
  BY DEF TypeInv, LinkTypes
<1>1. PICK t \in Acks, type \in {"PUBLISH", "PUBREL"} :
         /\ BrokerReads(type) /\ to_client' = Append(to_client, Packet(t, Head(to_broker).id))
         /\ UNCHANGED b_up
  BY DEF BrokerPublish1, BrokerPublish2, BrokerPubrel, BrokerAnswers, BrokerOnly, Acks
<1>. DEFINE p == Packet(t, Head(to_broker).id)
<1>2. p.type = t /\ to_client' = Append(to_client, p)
  BY <1>1 DEF Packet
<1>. HIDE DEF p
<1>3. p = to_client'[Len(to_client')] /\ Len(to_client') \in 1..Len(to_client')
  BY <1>0, <1>2
<1>4. p \in ToClient
  BY <1>0, <1>3
<1>5. Extends(to_client', to_client, Acks)
  BY <1>0, <1>2, <1>4, ExtendsAppend
<1>6. Tokens \cap Acks = {}
  BY DEF Tokens, Acks
<1>7. Follows(to_client', to_client, Tokens)
  BY <1>0, <1>5, <1>6, FollowsExtends
<1>8. Follows(to_broker', to_broker, {"PUBREC"})
  BY <1>0, <1>1, FollowsTail DEF BrokerReads
<1>. QED
  BY <1>1, <1>7, <1>8 DEF QuietBack

LEMMA QuietBackRetry ==
    ASSUME TypeInv, TypeInv', NEW n \in 1..Len(outboundMsgs),
           NEW due \in [1..n -> 1..Len(outboundMsgs)], RetryTimer(due)
    PROVE  QuietBack
<1>1. UNCHANGED <<to_client, b_up>>
  BY DEF RetryTimer
<1>2. Extends(to_broker', to_broker, Tokens)
  BY RetryExtends DEF Tokens
<1>. QED
  BY <1>1, <1>2, BackSent

-----------------------------------------------------------------------------
(* The client reads a message of the broker's, or its release.             *)

(***************************************************************************)
(* The packet read is the first.  Either a message is on its way still,    *)
(* now as a PUBREC behind the others, or it has been given.                *)
(***************************************************************************)
LEMMA TokenWay ==
    ASSUME WayBackOrder, InInv, TypeInv, TypeInv', NEW type \in Tokens, Reads(type), NEW t \in Acks,
           to_broker' = to_broker \/ Answer(Packet(t, Head(to_client).id)), UNCHANGED <<b_unacked, b_up>>,
           \A m \in Incoming : Given(m) => Given(m)',
           \/ type = "PUBLISH" /\ t = "PUBREC" /\ Answer(Packet(t, Head(to_client).id))
           \/ t # "PUBREC" /\ \A m \in Incoming : Due(Head(to_client).id, m) => Given(m)'
    PROVE  WayBackOrder'
<1>. DEFINE id0 == Head(to_client).id
            m0 == Head(to_client).msg
            p == Packet(t, id0)
            c == to_client
            v == to_client'
            b == to_broker
            w == to_broker'
<1>0. /\ c \in Seq(ToClient) /\ b \in Seq(ToBroker) /\ w \in Seq(ToBroker) /\ LinkTypes
  BY DEF TypeInv, LinkTypes
<1>1. /\ c # <<>> /\ v = Tail(c) /\ Head(c).type = type /\ Head(c).id = id0 /\ id0 \in Nat
      /\ p.type = t /\ p.id = id0
  BY <1>0, ReadsProps, PacketTypes DEF Reads, Packet
<1>2. /\ 1 \in 1..Len(c) /\ c[1] = Head(c) /\ \A y, n : ~Before(c, y, n, 1)
      /\ \A j \in 1..Len(v) : j + 1 \in 1..Len(c) /\ v[j] = c[j + 1]
      /\ \A y, n : \A j \in 1..Len(v) : Before(c, y, n, j + 1) => Before(v, y, n, j) \/ (type = y /\ id0 = n)
      /\ \A y, n : Holds(c, {y}, n) => Holds(v, {y}, n) \/ (type = y /\ id0 = n)
  <2>. DEFINE T == Tail(c)
  <2>. HIDE DEF c
  <2>1. /\ 1 \in 1..Len(c) /\ c[1] = Head(c) /\ \A y, n : ~Before(c, y, n, 1)
        /\ \A j \in 1..Len(T) : j + 1 \in 1..Len(c) /\ T[j] = c[j + 1]
        /\ \A y, n : \A j \in 1..Len(T) :
              Before(c, y, n, j + 1) => Before(T, y, n, j) \/ (Head(c).type = y /\ Head(c).id = n)
        /\ \A y, n : Holds(c, {y}, n) => Holds(T, {y}, n) \/ (Head(c).type = y /\ Head(c).id = n)
    BY <1>0, <1>1, Shorter
  <2>2. v = T
    BY <1>1
  <2>. HIDE DEF v, T, id0
  <2>. QED
    BY <1>1, <2>1, <2>2
<1>3. w = b \/ w = Append(b, p)
  BY DEF Answer
<1>4. p \in ToBroker
  BY <1>1, PacketTypes DEF Acks
<1>5. type = "PUBLISH" => Owes(id0, m0, "PUBREC") /\ m0 \in Incoming
  <2>. SUFFICES ASSUME type = "PUBLISH"
                PROVE  Owes(id0, m0, "PUBREC") /\ m0 \in Incoming
    OBVIOUS
  <2>1. Offered(id0, m0) /\ m0 \in Incoming
    BY TokenRead
  <2>. QED
    BY <1>1, <2>1 DEF InInv, Stages
<1>6. \/ type = "PUBLISH" /\ t = "PUBREC" /\ w = Append(b, p)
      \/ t # "PUBREC" /\ \A m \in Incoming : Due(id0, m) => Given(m)'
  BY DEF Answer
<1>7. PublishTurn /\ PubrecTurn /\ PubrelTurn /\ AllOnTheirWay
  BY DEF WayBackOrder
<1>8. \A id \in Nat, m \in Incoming : Pending(id, m)' => Pending(id, m) /\ Due(id, m) /\ ~Given(m)'
  BY DEF Pending, Due, Owes
<1>9. \A id, m : Due(id, m)' <=> Due(id, m)
  BY DEF Due, Owes
<1>m. type = "PUBLISH" => c[1].type = "PUBLISH" /\ c[1].msg = m0
  BY <1>1, <1>2
<1>. HIDE DEF p, id0, m0, c, v, b, w
<1>10. /\ Len(w) >= Len(b) /\ \A i \in 1..Len(b) : w[i] = b[i]
       /\ w # b => Len(w) = Len(b) + 1 /\ w[Len(b) + 1] = p /\ Len(b) \in Nat
       /\ \A j \in 1..Len(w) : j \in 1..Len(b) \/ (j = Len(b) + 1 /\ w # b /\ j > Len(b))
  BY <1>0, <1>3, <1>4, AppendAt
<1>11. /\ \A y, n : \A j \in 1..Len(b) : Before(b, y, n, j) => Before(w, y, n, j)
       /\ \A y, n : \A j \in 1..Len(w) : j > Len(b) /\ Holds(b, {y}, n) => Before(w, y, n, j)
       /\ \A y, n : Holds(b, {y}, n) => Holds(w, {y}, n)
  BY <1>0, <1>10, Longer
<1>12. type = "PUBLISH" /\ t = "PUBREC" /\ w = Append(b, p) => Holds(w, {"PUBREC"}, id0)
  <2>. SUFFICES ASSUME type = "PUBLISH", t = "PUBREC", w = Append(b, p)
                PROVE  Holds(w, {"PUBREC"}, id0)
    OBVIOUS
  <2>1. Len(w) \in 1..Len(w) /\ w[Len(w)] = p
    BY <1>0, <1>4
  <2>. QED
    BY <1>1, <2>1 DEF Holds
<1>13. \A id \in Nat, m \in Incoming : Pending(id, m)' =>
          id # id0 \/ (type = "PUBLISH" /\ Holds(w, {"PUBREC"}, id0))
  BY <1>6, <1>8, <1>12
<1>14. \A id \in Nat, m \in Incoming : Pending(id, m)' /\ Holds(c, {"PUBREL"}, id) => Holds(v, {"PUBREL"}, id)
  <2>. TAKE id \in Nat, m \in Incoming
  <2>1. Holds(c, {"PUBREL"}, id) => Holds(v, {"PUBREL"}, id) \/ (type = "PUBREL" /\ id0 = id)
    BY <1>2
  <2>. QED
    BY <1>13, <2>1
<1>15. PublishTurn'
  <2>. SUFFICES ASSUME NEW j \in 1..Len(v), NEW id \in Nat, NEW m \in Incoming,
                       v[j].type = "PUBLISH", Pending(id, m)', m.qos = v[j].msg.qos, m.seq < v[j].msg.seq
                PROVE  \/ Before(v, "PUBLISH", id, j)
                       \/ Holds(w, {"PUBREC"}, id) \/ Holds(v, {"PUBREL"}, id)
    BY DEF PublishTurn, v, w
  <2>1. j + 1 \in 1..Len(c) /\ c[j + 1] = v[j] /\ Pending(id, m)
    BY <1>2, <1>8
  <2>2. Before(c, "PUBLISH", id, j + 1) \/ Holds(b, {"PUBREC"}, id) \/ Holds(c, {"PUBREL"}, id)
    BY <1>7, <2>1 DEF PublishTurn, c, b
  <2>. QED
    BY <1>2, <1>11, <1>13, <1>14, <2>2
<1>16. PubrecTurn'
  <2>. SUFFICES ASSUME NEW j \in 1..Len(w), NEW id \in Nat, NEW m \in Incoming, NEW k \in Incoming,
                       w[j].type = "PUBREC", Due(w[j].id, k), Pending(id, m)', m.qos = k.qos, m.seq < k.seq
                PROVE  Before(w, "PUBREC", id, j) \/ Holds(v, {"PUBREL"}, id)
    BY <1>9 DEF PubrecTurn, v, w
  <2>0. Pending(id, m)
    BY <1>8
  <2>1. CASE j \in 1..Len(b)
    <3>1. Before(b, "PUBREC", id, j) \/ Holds(c, {"PUBREL"}, id)
      BY <1>7, <1>10, <2>0, <2>1 DEF PubrecTurn, c, b
    <3>. QED
      BY <1>11, <1>14, <2>1, <3>1
  <2>2. CASE j = Len(b) + 1 /\ w # b /\ j > Len(b)
    <3>1. w[j] = p
      BY <1>10, <2>2
    <3>2. t = "PUBREC" /\ w[j].id = id0
      BY <1>1, <3>1
    <3>3. type = "PUBLISH"
      BY <1>6, <3>2
    <3>4. k = m0
      BY <1>5, <3>2, <3>3, OwesOnce DEF Due
    <3>5. Before(c, "PUBLISH", id, 1) \/ Holds(b, {"PUBREC"}, id) \/ Holds(c, {"PUBREL"}, id)
      BY <1>2, <1>7, <1>m, <2>0, <3>3, <3>4 DEF PublishTurn, c, b
    <3>. QED
      BY <1>2, <1>11, <1>14, <2>2, <3>5
  <2>. QED
    BY <1>10, <2>1, <2>2
<1>17. PubrelTurn'
  <2>. SUFFICES ASSUME NEW j \in 1..Len(v), NEW id \in Nat, NEW m \in Incoming, NEW k \in Incoming,
                       v[j].type = "PUBREL", Due(v[j].id, k), Pending(id, m)', m.qos = k.qos, m.seq < k.seq
                PROVE  Before(v, "PUBREL", id, j)
    BY <1>9 DEF PubrelTurn, v
  <2>1. j + 1 \in 1..Len(c) /\ c[j + 1] = v[j] /\ Pending(id, m)
    BY <1>2, <1>8
  <2>2. Before(c, "PUBREL", id, j + 1)
    BY <1>7, <2>1 DEF PubrelTurn, c
  <2>. QED
    BY <1>2, <1>13, <2>2
<1>18. AllOnTheirWay'
  <2>. SUFFICES ASSUME b_up, NEW id \in Nat, NEW m \in Incoming, Pending(id, m)'
                PROVE  Holds(v, Tokens, id) \/ Holds(w, {"PUBREC"}, id)
    BY DEF AllOnTheirWay, OnItsWay, v, w
  <2>1. Holds(c, Tokens, id) \/ Holds(b, {"PUBREC"}, id)
    BY <1>7, <1>8 DEF AllOnTheirWay, OnItsWay, c, b
  <2>2. CASE Holds(b, {"PUBREC"}, id)
    BY <1>11, <2>2
  <2>3. CASE Holds(c, Tokens, id)
    <3>1. PICK y \in Tokens : Holds(c, {y}, id)
      BY <2>3 DEF Holds
    <3>2. Holds(v, {y}, id) => Holds(v, Tokens, id)
      BY DEF Holds
    <3>. QED
      BY <1>2, <1>13, <3>1, <3>2
  <2>. QED
    BY <2>1, <2>2, <2>3
<1>. QED
  BY <1>15, <1>16, <1>17, <1>18 DEF WayBackOrder

LEMMA IncomingNumbers ==
    /\ Incoming \subseteq Numbers
    /\ \A m, k \in Incoming : m.qos = k.qos /\ m.seq = k.seq => m = k
    /\ \A m \in Incoming : m.seq \in Nat
<1>1. MaxIncoming \in Nat /\ Qos \subseteq {1, 2}
  BY DeliveryAssumption
<1>2. \A m \in Incoming : m = [seq |-> m.seq, qos |-> m.qos] /\ m.seq \in 1..MaxIncoming /\ m.qos \in Qos
  BY DEF Incoming
<1>3. \A m \in Incoming : m.seq \in Nat /\ m.qos \in {1, 2}
  BY <1>1, <1>2
<1>4. Incoming \subseteq Numbers
  BY <1>2, <1>3 DEF Numbers
<1>5. ASSUME NEW m \in Incoming, NEW k \in Incoming, m.qos = k.qos, m.seq = k.seq
      PROVE  m = k
  BY <1>2, <1>5
<1>. QED
  BY <1>3, <1>4, <1>5

(***************************************************************************)
(* A message that is due is given, and none before it is outstanding: what *)
(* is given stays in order, and before what is not.                        *)
(***************************************************************************)
LEMMA GivenArrival ==
    ASSUME BackOrder, InInv, TypeInv, NEW id0 \in Nat, NEW m0 \in Incoming, Due(id0, m0),
           Arrivals' = Append(Arrivals, m0), UNCHANGED b_unacked,
           \A id \in Nat, m \in Incoming : Pending(id, m) /\ m.qos = m0.qos => ~(m.seq < m0.seq)
    PROVE  Ordered(Arrivals)' /\ OwedOrder'
<1>0. Arrivals \in Seq(Incoming)
  BY ConcatProperties DEF Arrivals, TypeInv, HistoryTypes, SessionTypes
<1>. DEFINE a == Arrivals
<1>1. a \in Seq(Numbers) /\ m0 \in Numbers /\ \A i \in 1..Len(a) : a[i] \in Incoming
  BY <1>0, IncomingNumbers
<1>2. \/ \E i \in 1..Len(a) : a[i] = m0
      \/ \A i \in 1..Len(a) : a[i].qos = m0.qos => a[i].seq < m0.seq
  <2>. SUFFICES ASSUME ~Given(m0), NEW i \in 1..Len(a), a[i].qos = m0.qos
                PROVE  a[i].seq < m0.seq
    BY DEF Given
  <2>1. Given(a[i]) /\ Pending(id0, m0)
    BY DEF Given, Pending
  <2>. QED
    BY <1>1, <2>1 DEF BackOrder, OwedOrder, GivenFirst
<1>3. Ordered(Append(a, m0))
  BY <1>1, <1>2, OrderedAppend DEF BackOrder
<1>4. Ordered(Arrivals)'
  BY <1>3 DEF Ordered
<1>5. \A m \in Incoming : Given(m)' <=> Given(m) \/ m = m0
  BY GivenMore
<1>6. \A id, m, x : Owes(id, m, x)' <=> Owes(id, m, x)
  BY DEF Owes
<1>7. OwedInTurn' /\ ReleasedFirst'
  BY <1>6 DEF BackOrder, OwedOrder, OwedInTurn, ReleasedFirst
<1>8. GivenFirst'
  <2>. SUFFICES ASSUME NEW id \in Nat, NEW m \in Incoming, NEW k \in Incoming,
                       Pending(id, m)', Given(k)', k.qos = m.qos
                PROVE  k.seq < m.seq
    BY DEF GivenFirst
  <2>1. Pending(id, m) /\ m # m0
    BY <1>5, <1>6 DEF Pending, Due
  <2>2. CASE Given(k)
    BY <2>1, <2>2 DEF BackOrder, OwedOrder, GivenFirst
  <2>3. CASE k = m0
    <3>1. ~(m.seq < k.seq) /\ m.seq # k.seq
      BY <2>1, <2>3, IncomingNumbers
    <3>. QED
      BY <3>1, IncomingNumbers
  <2>. QED
    BY <1>5, <2>2, <2>3
<1>. QED
  BY <1>4, <1>7, <1>8 DEF OwedOrder

\* The first packet in flight has none of its type before it
LEMMA NoneBefore ==
    ASSUME NEW s, NEW y, NEW n
    PROVE  ~Before(s, y, n, 1)
  BY DEF Before

\* What is given has to be known for what is due only
LEMMA PendingSame ==
    ASSUME UNCHANGED b_unacked, Arrivals' = Arrivals
    PROVE  /\ \A id, m : (Pending(id, m)' <=> Pending(id, m)) /\ (Due(id, m)' <=> Due(id, m)) /\ (Given(m)' <=> Given(m))
           /\ \A id, m, x : Owes(id, m, x)' <=> Owes(id, m, x)
           /\ BackOrder => Ordered(Arrivals)' /\ OwedOrder'
<1>1. \A id, m : (Pending(id, m)' <=> Pending(id, m)) /\ (Due(id, m)' <=> Due(id, m)) /\ (Given(m)' <=> Given(m))
  BY DEF Pending, Due, Owes, Given
<1>2. \A id, m, x : Owes(id, m, x)' <=> Owes(id, m, x)
  BY DEF Owes
<1>3. Ordered(Arrivals) => Ordered(Arrivals)'
  BY DEF Ordered
<1>4. OwedOrder => OwedOrder'
  BY <1>1, <1>2 DEF OwedOrder, OwedInTurn, ReleasedFirst, GivenFirst
<1>. QED
  BY <1>1, <1>2, <1>3, <1>4 DEF BackOrder

LEMMA BackPublish1 ==
    ASSUME BackOrder, InInv, TypeInv, TypeInv', RecvPublish1
    PROVE  BackOrder'
<1>. DEFINE id0 == Head(to_client).id
            m0 == Head(to_client).msg
<1>0. "PUBLISH" \in Tokens /\ "PUBACK" \in Acks
  BY DEF Tokens, Acks
<1>1. Reads("PUBLISH") /\ Answer(Packet("PUBACK", id0)) /\ m0.qos = 1 /\ UNCHANGED <<b_unacked, b_up>>
  BY DEF RecvPublish1
<1>2. id0 \in Nat /\ m0 \in Incoming /\ Offered(id0, m0)
  BY <1>0, <1>1, TokenRead
<1>3. Owes(id0, m0, "PUBREC") /\ Due(id0, m0)
  BY <1>2 DEF InInv, Stages, Due
<1>4. Arrivals' = Append(Arrivals, m0)
  BY <1>2, ProcessArrivals DEF RecvPublish1
<1>5. to_client # <<>> /\ to_client[1] = Head(to_client) /\ 1 \in 1..Len(to_client) /\ to_client[1].type = "PUBLISH"
  BY <1>1 DEF Reads, TypeInv, LinkTypes
<1>6. \A m \in Incoming : Given(m)' <=> Given(m) \/ m = m0
  BY <1>2, <1>4, GivenMore
<1>7. \A id \in Nat, m \in Incoming : Pending(id, m) /\ m.qos = m0.qos => ~(m.seq < m0.seq)
  <2>. SUFFICES ASSUME NEW id \in Nat, NEW m \in Incoming, Pending(id, m), m.qos = m0.qos, m.seq < m0.seq
                PROVE  FALSE
    OBVIOUS
  <2>1. Holds(to_broker, {"PUBREC"}, id) \/ Holds(to_client, {"PUBREL"}, id)
    BY <1>5, NoneBefore DEF BackOrder, WayBackOrder, PublishTurn
  <2>2. \E k \in Incoming : k.qos = 2 /\ Due(id, k)
    BY <2>1 DEF InInv, Stages, Due
  <2>3. PICK k \in Incoming : k.qos = 2 /\ Due(id, k)
    BY <2>2
  <2>4. k = m
    BY <2>3, OwesOnce DEF Pending, Due
  <2>. QED
    BY <1>1, <2>3, <2>4
<1>8. \A m \in Incoming : Due(id0, m) => Given(m)'
  BY <1>3, <1>6, OwesOnce DEF Due
<1>9. WayBackOrder'
  BY <1>0, <1>1, <1>6, <1>8, TokenWay DEF BackOrder
<1>. HIDE DEF id0, m0
<1>10. Ordered(Arrivals)' /\ OwedOrder'
  BY <1>1, <1>2, <1>3, <1>4, <1>7, GivenArrival
<1>. QED
  BY <1>9, <1>10 DEF BackOrder

LEMMA BackPublish2 ==
    ASSUME BackOrder, InInv, TypeInv, TypeInv', RecvPublish2
    PROVE  BackOrder'
<1>1. /\ "PUBLISH" \in Tokens /\ "PUBREC" \in Acks
      /\ Reads("PUBLISH") /\ Answer(Packet("PUBREC", Head(to_client).id))
      /\ UNCHANGED <<arrived, messageQueue, b_unacked, b_up>>
  BY DEF RecvPublish2, Tokens, Acks
<1>2. Arrivals' = Arrivals
  BY <1>1 DEF Arrivals
<1>3. /\ \A m \in Incoming : Given(m) => Given(m)'
      /\ Ordered(Arrivals)' /\ OwedOrder'
  BY <1>1, <1>2, PendingSame
<1>4. WayBackOrder'
  BY <1>1, <1>3, TokenWay DEF BackOrder
<1>. QED
  BY <1>3, <1>4 DEF BackOrder

LEMMA BackPubrel ==
    ASSUME BackOrder, InInv, TypeInv, TypeInv', RecvPubrel
    PROVE  BackOrder'
<1>. DEFINE id0 == Head(to_client).id
            m0 == inboundMsgs[IndexOf(inboundMsgs, id0)].msg
<1>0. "PUBREL" \in Tokens /\ "PUBCOMP" \in Acks
  BY DEF Tokens, Acks
<1>1. /\ Reads("PUBREL") /\ Answer(Packet("PUBCOMP", id0)) /\ HasId(inboundMsgs, id0)
      /\ inboundMsgs' = Without(inboundMsgs, id0)
      /\ UNCHANGED <<b_unacked, b_up>>
      /\ \E ok \in BOOLEAN : ProcessPublication(m0, ok)
  BY DEF RecvPubrel
<1>2. id0 \in Nat
  BY <1>0, <1>1, TokenRead
<1>3. m0 \in Incoming /\ Kept(id0, m0)
  BY <1>1, <1>2, ReleasedKept
<1>4. Arrivals' = Append(Arrivals, m0)
  BY <1>1, <1>3, ProcessArrivals
<1>5. Due(id0, m0)
  BY <1>2, <1>3 DEF InInv, Stages, Due
<1>6. to_client[1] = Head(to_client) /\ 1 \in 1..Len(to_client) /\ to_client[1].type = "PUBREL"
  BY <1>1 DEF Reads, TypeInv, LinkTypes
<1>7. \A m \in Incoming : Given(m)' <=> Given(m) \/ m = m0
  BY <1>3, <1>4, GivenMore
<1>8. \A m \in Incoming : Due(id0, m) => Given(m)'
  BY <1>3, <1>5, <1>7, OwesOnce DEF Due
<1>9. WayBackOrder'
  BY <1>0, <1>1, <1>7, <1>8, TokenWay DEF BackOrder
<1>10. to_client[1].id = id0
  BY <1>6
<1>. HIDE DEF id0, m0
<1>11. \A id \in Nat, m \in Incoming : Pending(id, m) /\ m.qos = m0.qos => ~(m.seq < m0.seq)
  BY <1>3, <1>5, <1>6, <1>10, NoneBefore DEF BackOrder, WayBackOrder, PubrelTurn
<1>12. Ordered(Arrivals)' /\ OwedOrder'
  BY <1>1, <1>2, <1>3, <1>4, <1>5, <1>11, GivenArrival
<1>. QED
  BY <1>9, <1>12 DEF BackOrder

LEMMA BackStrayPubrel ==
    ASSUME BackOrder, InInv, TypeInv, TypeInv', RecvStrayPubrel
    PROVE  BackOrder'
<1>. DEFINE id0 == Head(to_client).id
<1>0. "PUBREL" \in Tokens /\ "PUBCOMP" \in Acks
  BY DEF Tokens, Acks
<1>1. /\ Reads("PUBREL") /\ (to_broker' = to_broker \/ Answer(Packet("PUBCOMP", id0)))
      /\ ~HasId(inboundMsgs, id0)
      /\ UNCHANGED <<arrived, messageQueue, b_unacked, b_up>>
  BY DEF RecvStrayPubrel, AnswerStray
<1>2. id0 \in Nat /\ Holds(to_client, {"PUBREL"}, id0)
  BY <1>0, <1>1, TokenRead
<1>3. Arrivals' = Arrivals /\ \A m \in Incoming : ~Kept(id0, m)
  BY <1>1 DEF Arrivals, Kept, HasId
<1>4. /\ \A m \in Incoming : Given(m) <=> Given(m)'
      /\ Ordered(Arrivals)' /\ OwedOrder'
  BY <1>1, <1>3, PendingSame
<1>5. \A m \in Incoming : Due(id0, m) => Given(m)'
  <2>. SUFFICES ASSUME NEW m \in Incoming, Due(id0, m)
                PROVE  Given(m)
    BY <1>4
  <2>1. PICK k \in Incoming : Owes(id0, k, "PUBCOMP")
    BY <1>2 DEF InInv, Stages
  <2>2. k = m
    BY <2>1, OwesOnce DEF Due
  <2>. QED
    BY <1>2, <1>3, <2>1, <2>2 DEF InInv, Stages
<1>6. WayBackOrder'
  BY <1>0, <1>1, <1>4, <1>5, TokenWay DEF BackOrder
<1>. QED
  BY <1>4, <1>6 DEF BackOrder

-----------------------------------------------------------------------------
(* The broker reads what acknowledges a message of its own.                *)

(***************************************************************************)
(* A PUBREC read is answered by the PUBREL, behind those of the messages   *)
(* before it; what else is read says that the message has been given.      *)
(***************************************************************************)
LEMMA AckWay ==
    ASSUME WayBackOrder, TypeInv, TypeInv', NEW type \in Acks, BrokerReads(type),
           Arrivals' = Arrivals, UNCHANGED b_up, \A id, m : Due(id, m)' => Due(id, m),
           \/ type = "PUBREC" /\ BrokerAnswers(Packet("PUBREL", Head(to_broker).id))
           \/ type # "PUBREC" /\ to_client' = to_client
    PROVE  WayBackOrder'
<1>. DEFINE id0 == Head(to_broker).id
            p == Packet("PUBREL", id0)
            b == to_broker
            v == to_broker'
            c == to_client
            w == to_client'
<1>0. /\ c \in Seq(ToClient) /\ b \in Seq(ToBroker) /\ w \in Seq(ToClient) /\ LinkTypes
  BY DEF TypeInv, LinkTypes
<1>1. /\ b # <<>> /\ v = Tail(b) /\ Head(b).type = type /\ Head(b).id = id0 /\ id0 \in Nat
      /\ p.type = "PUBREL" /\ p.id = id0
  BY <1>0, BrokerReadsProps, PacketTypes DEF BrokerReads, Packet, Acks
<1>2. /\ 1 \in 1..Len(b) /\ b[1] = Head(b) /\ \A y, n : ~Before(b, y, n, 1)
      /\ \A j \in 1..Len(v) : j + 1 \in 1..Len(b) /\ v[j] = b[j + 1]
      /\ \A y, n : \A j \in 1..Len(v) : Before(b, y, n, j + 1) => Before(v, y, n, j) \/ (type = y /\ id0 = n)
      /\ \A y, n : Holds(b, {y}, n) => Holds(v, {y}, n) \/ (type = y /\ id0 = n)
  <2>. DEFINE T == Tail(b)
  <2>. HIDE DEF b
  <2>1. /\ 1 \in 1..Len(b) /\ b[1] = Head(b) /\ \A y, n : ~Before(b, y, n, 1)
        /\ \A j \in 1..Len(T) : j + 1 \in 1..Len(b) /\ T[j] = b[j + 1]
        /\ \A y, n : \A j \in 1..Len(T) :
              Before(b, y, n, j + 1) => Before(T, y, n, j) \/ (Head(b).type = y /\ Head(b).id = n)
        /\ \A y, n : Holds(b, {y}, n) => Holds(T, {y}, n) \/ (Head(b).type = y /\ Head(b).id = n)
    BY <1>0, <1>1, Shorter
  <2>2. v = T
    BY <1>1
  <2>. HIDE DEF v, T, id0
  <2>. QED
    BY <1>1, <2>1, <2>2
<1>3. w = c \/ w = Append(c, p)
  BY DEF BrokerAnswers
<1>4. p \in ToClient
  BY <1>1, PacketTypes
<1>5. (type = "PUBREC" /\ w = Append(c, p)) \/ (type # "PUBREC" /\ w = c)
  BY DEF BrokerAnswers
<1>6. PublishTurn /\ PubrecTurn /\ PubrelTurn /\ AllOnTheirWay
  BY DEF WayBackOrder
<1>7. \A id, m : Pending(id, m)' => Pending(id, m)
  BY DEF Pending, Given
<1>. HIDE DEF p, id0, c, v, b, w
<1>8. /\ Len(w) >= Len(c) /\ \A i \in 1..Len(c) : w[i] = c[i]
      /\ w # c => Len(w) = Len(c) + 1 /\ w[Len(c) + 1] = p /\ Len(c) \in Nat
      /\ \A j \in 1..Len(w) : j \in 1..Len(c) \/ (j = Len(c) + 1 /\ w # c /\ j > Len(c))
  BY <1>0, <1>3, <1>4, AppendAt
<1>9. /\ \A y, n : \A j \in 1..Len(c) : Before(c, y, n, j) => Before(w, y, n, j)
      /\ \A y, n : \A j \in 1..Len(w) : j > Len(c) /\ Holds(c, {y}, n) => Before(w, y, n, j)
      /\ \A y, n : Holds(c, {y}, n) => Holds(w, {y}, n)
  BY <1>0, <1>8, Longer
<1>10. type = "PUBREC" => Holds(w, {"PUBREL"}, id0)
  <2>. SUFFICES ASSUME w = Append(c, p)
                PROVE  Holds(w, {"PUBREL"}, id0)
    BY <1>5
  <2>1. Len(w) \in 1..Len(w) /\ w[Len(w)] = p
    BY <1>0, <1>4
  <2>. QED
    BY <1>1, <2>1 DEF Holds
<1>11. \A n : Holds(b, {"PUBREC"}, n) => Holds(v, {"PUBREC"}, n) \/ Holds(w, {"PUBREL"}, n)
  BY <1>2, <1>10
<1>12. PublishTurn'
  <2>. SUFFICES ASSUME NEW j \in 1..Len(w), NEW id \in Nat, NEW m \in Incoming,
                       w[j].type = "PUBLISH", Pending(id, m)', m.qos = w[j].msg.qos, m.seq < w[j].msg.seq
                PROVE  \/ Before(w, "PUBLISH", id, j)
                       \/ Holds(v, {"PUBREC"}, id) \/ Holds(w, {"PUBREL"}, id)
    BY DEF PublishTurn, v, w
  <2>1. j \in 1..Len(c)
    BY <1>1, <1>8
  <2>2. c[j] = w[j] /\ Pending(id, m)
    BY <1>7, <1>8, <2>1
  <2>3. Before(c, "PUBLISH", id, j) \/ Holds(b, {"PUBREC"}, id) \/ Holds(c, {"PUBREL"}, id)
    BY <1>6, <2>1, <2>2 DEF PublishTurn, c, b
  <2>. QED
    BY <1>9, <1>11, <2>1, <2>3
<1>13. PubrecTurn'
  <2>. SUFFICES ASSUME NEW j \in 1..Len(v), NEW id \in Nat, NEW m \in Incoming, NEW k \in Incoming,
                       v[j].type = "PUBREC", Due(v[j].id, k), Pending(id, m)', m.qos = k.qos, m.seq < k.seq
                PROVE  Before(v, "PUBREC", id, j) \/ Holds(w, {"PUBREL"}, id)
    BY DEF PubrecTurn, v, w
  <2>1. j + 1 \in 1..Len(b) /\ b[j + 1] = v[j] /\ Pending(id, m)
    BY <1>2, <1>7
  <2>2. Before(b, "PUBREC", id, j + 1) \/ Holds(c, {"PUBREL"}, id)
    BY <1>6, <2>1 DEF PubrecTurn, c, b
  <2>. QED
    BY <1>2, <1>9, <1>10, <2>2
<1>14. PubrelTurn'
  <2>. SUFFICES ASSUME NEW j \in 1..Len(w), NEW id \in Nat, NEW m \in Incoming, NEW k \in Incoming,
                       w[j].type = "PUBREL", Due(w[j].id, k), Pending(id, m)', m.qos = k.qos, m.seq < k.seq
                PROVE  Before(w, "PUBREL", id, j)
    BY DEF PubrelTurn, w
  <2>0. Pending(id, m)
    BY <1>7
  <2>1. CASE j \in 1..Len(c)
    <3>1. Before(c, "PUBREL", id, j)
      BY <1>6, <1>8, <2>0, <2>1 DEF PubrelTurn, c
    <3>. QED
      BY <1>9, <2>1, <3>1
  <2>2. CASE j = Len(c) + 1 /\ w # c /\ j > Len(c)
    <3>1. w[j].id = id0 /\ type = "PUBREC"
      BY <1>1, <1>5, <1>8, <2>2
    <3>2. b[1].type = "PUBREC" /\ Due(b[1].id, k)
      BY <1>1, <1>2, <3>1
    <3>3. Before(b, "PUBREC", id, 1) \/ Holds(c, {"PUBREL"}, id)
      BY <1>2, <1>6, <2>0, <3>2 DEF PubrecTurn, c, b
    <3>. QED
      BY <1>2, <1>9, <2>2, <3>3
  <2>. QED
    BY <1>8, <2>1, <2>2
<1>15. AllOnTheirWay'
  <2>. SUFFICES ASSUME b_up, NEW id \in Nat, NEW m \in Incoming, Pending(id, m)'
                PROVE  Holds(w, Tokens, id) \/ Holds(v, {"PUBREC"}, id)
    BY DEF AllOnTheirWay, OnItsWay, v, w
  <2>1. Holds(c, Tokens, id) \/ Holds(b, {"PUBREC"}, id)
    BY <1>6, <1>7 DEF AllOnTheirWay, OnItsWay, c, b
  <2>2. \A y \in Tokens : Holds(w, {y}, id) => Holds(w, Tokens, id)
    BY DEF Holds
  <2>3. CASE Holds(c, Tokens, id)
    <3>1. PICK y \in Tokens : Holds(c, {y}, id)
      BY <2>3 DEF Holds
    <3>. QED
      BY <1>9, <2>2, <3>1
  <2>4. CASE Holds(b, {"PUBREC"}, id)
    BY <1>11, <2>2, <2>4 DEF Tokens
  <2>. QED
    BY <2>1, <2>3, <2>4
<1>. QED
  BY <1>12, <1>13, <1>14, <1>15 DEF WayBackOrder

\* The PUBREC of a message comes before those of the messages behind it
LEMMA BackBrokerPubrec ==
    ASSUME BackOrder, InInv, TypeInv, TypeInv', BrokerPubrec
    PROVE  BackOrder'
<1>. DEFINE h == Head(to_broker).id
<1>1. /\ "PUBREC" \in Acks /\ BrokerReads("PUBREC") /\ BrokerAnswers(Packet("PUBREL", h))
      /\ UNCHANGED <<arrived, messageQueue, b_up>>
  BY DEF BrokerPubrec, BrokerOnly, Acks
<1>2. h \in Nat /\ Holds(to_broker, {"PUBREC"}, h)
  BY <1>1, AckRead
<1>3. 1 \in 1..Len(to_broker) /\ to_broker[1].type = "PUBREC" /\ to_broker[1].id = h
  BY <1>1 DEF BrokerReads, TypeInv, LinkTypes
<1>4. /\ Len(b_unacked') = Len(b_unacked)
      /\ \A k \in 1..Len(b_unacked) :
            /\ b_unacked'[k].id = b_unacked[k].id /\ b_unacked'[k].msg = b_unacked[k].msg
            /\ b_unacked'[k].next = IF b_unacked[k].id = h THEN "PUBCOMP" ELSE b_unacked[k].next
      /\ \A k \in 1..Len(b_unacked) : b_unacked[k].next \in {"PUBREC", "PUBCOMP"}
  <2>1. b_unacked \in Seq(Owing)
    BY DEF TypeInv, BrokerTypes
  <2>2. \A k \in 1..Len(b_unacked) : b_unacked[k] \in Owing
    BY <2>1
  <2>. QED
    BY <2>1, <2>2, PubrecProps DEF Owing
<1>5. /\ Arrivals' = Arrivals /\ \A m : Given(m)' <=> Given(m)
  BY <1>1 DEF Arrivals, Given
<1>. HIDE DEF h
<1>6. \A id, m : Due(id, m)' <=> Due(id, m)
  BY <1>4 DEF Due, Owes
<1>7. \A id, m : Pending(id, m)' <=> Pending(id, m)
  BY <1>5, <1>6 DEF Pending
<1>8. WayBackOrder'
  BY <1>1, <1>5, <1>6, AckWay DEF BackOrder, h
<1>9. OwedInTurn'
  BY <1>4 DEF BackOrder, OwedOrder, OwedInTurn
<1>10. GivenFirst'
  BY <1>5, <1>7 DEF BackOrder, OwedOrder, GivenFirst
<1>11. PICK m0 \in Incoming : Owes(h, m0, "PUBREC") /\ m0.qos = 2
  BY <1>2 DEF InInv, Stages
<1>12. \A id, m : Owes(id, m, "PUBREC")' => Owes(id, m, "PUBREC")
  BY <1>4 DEF Owes
<1>13. \A id, m : Owes(id, m, "PUBCOMP")' => Owes(id, m, "PUBCOMP") \/ m = m0
  <2>. SUFFICES ASSUME NEW id, NEW m, NEW k \in 1..Len(b_unacked), b_unacked'[k].id = id,
                       b_unacked'[k].msg = m, b_unacked'[k].next = "PUBCOMP"
                PROVE  Owes(id, m, "PUBCOMP") \/ m = m0
    BY <1>4 DEF Owes
  <2>1. CASE b_unacked[k].id = h
    <3>1. Owes(h, m, b_unacked[k].next)
      BY <1>4, <2>1 DEF Owes
    <3>. QED
      BY <1>11, <3>1, OwesOnce
  <2>2. CASE b_unacked[k].id # h
    BY <1>4, <2>2 DEF Owes
  <2>. QED
    BY <2>1, <2>2
<1>14. ReleasedFirst'
  <2>. SUFFICES ASSUME NEW id \in Nat, NEW n \in Nat, NEW m \in Incoming, NEW k \in Incoming,
                       Owes(id, m, "PUBREC")', m.qos = 2, Owes(n, k, "PUBCOMP")', m.seq < k.seq
                PROVE  FALSE
    BY DEF ReleasedFirst
  <2>1. Owes(id, m, "PUBREC")
    BY <1>12
  <2>2. CASE Owes(n, k, "PUBCOMP")
    BY <2>1, <2>2 DEF BackOrder, OwedOrder, ReleasedFirst
  <2>3. CASE k = m0
    <3>1. Pending(id, m)
      BY <2>1 DEF Pending, Due, InInv, GivenOnce
    <3>2. Due(to_broker[1].id, m0)
      BY <1>3, <1>11 DEF Due
    <3>3. Holds(to_client, {"PUBREL"}, id)
      BY <1>3, <1>11, <2>3, <3>1, <3>2, NoneBefore DEF BackOrder, WayBackOrder, PubrecTurn
    <3>4. PICK o \in Incoming : Owes(id, o, "PUBCOMP")
      BY <3>3 DEF InInv, Stages
    <3>. QED
      BY <2>1, <3>4, OwesOnce
  <2>. QED
    BY <1>13, <2>2, <2>3
<1>15. Ordered(Arrivals)'
  BY <1>5 DEF BackOrder, Ordered
<1>. QED
  BY <1>8, <1>9, <1>10, <1>14, <1>15 DEF BackOrder, OwedOrder

\* A message is forgotten; the others stay as they are
LEMMA BackBrokerEnd ==
    ASSUME BackOrder, TypeInv, TypeInv', BrokerEnd
    PROVE  BackOrder'
<1>1. PICK type \in Acks : type # "PUBREC" /\ BrokerReads(type)
  BY DEF BrokerEnd, Acks
<1>2. /\ b_unacked' = Without(b_unacked, Head(to_broker).id)
      /\ UNCHANGED <<to_client, arrived, messageQueue, b_up>>
  BY DEF BrokerEnd, BrokerOnly
<1>3. Arrivals' = Arrivals /\ \A m : Given(m)' <=> Given(m)
  BY <1>2 DEF Arrivals, Given
<1>4. b_unacked \in Seq(Owing)
  BY DEF TypeInv, BrokerTypes
<1>5. Within(b_unacked', b_unacked)
  BY <1>2, <1>4, WithinWithout
<1>6. PICK f \in [1..Len(b_unacked') -> 1..Len(b_unacked)] :
            /\ \A i \in 1..Len(b_unacked') : b_unacked'[i] = b_unacked[f[i]]
            /\ \A i, j \in 1..Len(b_unacked') : i < j => f[i] < f[j]
  BY <1>5 DEF Within
<1>7. \A id, m, x : Owes(id, m, x)' => Owes(id, m, x)
  BY <1>6 DEF Owes
<1>8. \A id, m : /\ Due(id, m)' => Due(id, m)
                 /\ Pending(id, m)' => Pending(id, m)
  BY <1>3, <1>7 DEF Due, Pending
<1>9. WayBackOrder'
  BY <1>1, <1>2, <1>3, <1>8, AckWay DEF BackOrder
<1>10. OwedInTurn'
  BY <1>6 DEF BackOrder, OwedOrder, OwedInTurn
<1>11. ReleasedFirst'
  BY <1>7 DEF BackOrder, OwedOrder, ReleasedFirst
<1>12. GivenFirst'
  BY <1>3, <1>8 DEF BackOrder, OwedOrder, GivenFirst
<1>13. Ordered(Arrivals)'
  BY <1>3 DEF BackOrder, Ordered
<1>. QED
  BY <1>9, <1>10, <1>11, <1>12, <1>13 DEF BackOrder, OwedOrder

\* A message the broker begins to send is behind all the others
LEMMA BackBrokerSend ==
    ASSUME BackOrder, InInv, TypeInv, TypeInv', NEW q \in Qos, BrokerSend(q)
    PROVE  BackOrder'
<1>1. PICK e \in Owing :
         /\ e.msg = [seq |-> incoming + 1, qos |-> q] /\ e.next = "PUBREC"
         /\ ~HasId(b_unacked, e.id)
         /\ b_unacked' = Append(b_unacked, e)
         /\ to_client' = IF b_up THEN Append(to_client, Publish(e.id, FALSE, e.msg)) ELSE to_client
  BY BrokerSendProps
<1>2. /\ UNCHANGED <<to_broker, arrived, messageQueue, b_up>> /\ incoming \in Nat
  BY DEF BrokerSend, BrokerOnly, TypeInv, BoundTypes
<1>3. PICK id0 \in Nat, m0 \in Incoming : id0 = e.id /\ m0 = e.msg /\ m0.seq = incoming + 1
  BY <1>1 DEF Owing
<1>4. PICK p \in ToClient : p = Publish(id0, FALSE, m0) /\ p.type = "PUBLISH" /\ p.id = id0 /\ p.msg = m0
  BY <1>3, PacketTypes DEF Publish
<1>. DEFINE s == b_unacked
            t == b_unacked'
            c == to_client
            w == to_client'
<1>5. /\ c \in Seq(ToClient) /\ w \in Seq(ToClient) /\ s \in Seq(Owing)
  BY DEF TypeInv, LinkTypes, BrokerTypes
<1>6. w = c \/ w = Append(c, p)
  BY <1>1, <1>3, <1>4
<1>u. b_up => w = Append(c, p)
  BY <1>1, <1>3, <1>4
<1>7. \A m, x : ~Owes(id0, m, x)
  BY <1>1, <1>3 DEF Owes, HasId
<1>8. /\ Len(s) \in Nat /\ Len(t) = Len(s) + 1 /\ t[Len(s) + 1] = e
      /\ \A i \in 1..Len(s) : t[i] = s[i] /\ i \in 1..Len(t)
      /\ \A i \in 1..Len(t) : i = Len(s) + 1 \/ i \in 1..Len(s)
  BY <1>1, <1>5, AppendAt
<1>9. Arrivals' = Arrivals /\ \A m : Given(m)' <=> Given(m)
  BY <1>2 DEF Arrivals, Given
<1>. HIDE DEF s, t, c, w
<1>10. \A id, m, x : Owes(id, m, x)' => Owes(id, m, x) \/ (id = id0 /\ m = m0 /\ x = "PUBREC")
  <2>. SUFFICES ASSUME NEW id, NEW m, NEW x, NEW i \in 1..Len(t), t[i].id = id, t[i].msg = m, t[i].next = x
                PROVE  Owes(id, m, x) \/ (id = id0 /\ m = m0 /\ x = "PUBREC")
    BY DEF Owes, t
  <2>1. CASE i = Len(s) + 1
    BY <1>1, <1>3, <1>8, <2>1
  <2>2. CASE i \in 1..Len(s)
    BY <1>8, <2>2 DEF Owes, s
  <2>. QED
    BY <1>8, <2>1, <2>2
<1>11. \A id \in Nat, m \in Incoming : /\ Due(id, m) => m.seq < m0.seq
                                       /\ Given(m) => m.seq < m0.seq
  <2>1. /\ \A m \in Incoming : Given(m) => m.seq <= incoming
        /\ \A id \in Nat, m \in Incoming, x \in {"PUBREC", "PUBCOMP"} : Owes(id, m, x) => m.seq <= incoming
    BY DEF InInv, GivenOnce
  <2>2. \A m \in Incoming : m.seq <= incoming => m.seq < m0.seq
    BY <1>2, <1>3, IncomingNumbers
  <2>. QED
    BY <2>1, <2>2 DEF Due
<1>12. \A id, m : Due(id, m)' => Due(id, m) \/ (id = id0 /\ m = m0)
  BY <1>10 DEF Due
<1>13. \A id, m : Pending(id, m)' => Pending(id, m) \/ (id = id0 /\ m = m0)
  BY <1>9, <1>12 DEF Pending
<1>14. OwedInTurn'
  <2>. SUFFICES ASSUME NEW i \in 1..Len(t), NEW j \in 1..Len(t), i < j
                PROVE  t[i].msg.seq < t[j].msg.seq
    BY DEF OwedInTurn, t
  <2>1. CASE j \in 1..Len(s)
    <3>1. i \in 1..Len(s)
      BY <1>8, <2>1
    <3>. QED
      BY <1>8, <2>1, <3>1 DEF BackOrder, OwedOrder, OwedInTurn, s
  <2>2. CASE j = Len(s) + 1
    <3>1. i \in 1..Len(s)
      BY <1>8, <2>2
    <3>2. s[i] \in Owing
      BY <1>5, <3>1
    <3>3. s[i].id \in Nat /\ s[i].msg \in Incoming /\ s[i].next \in {"PUBREC", "PUBCOMP"}
      BY <3>2 DEF Owing
    <3>4. Due(s[i].id, s[i].msg)
      BY <3>1, <3>3 DEF Due, Owes, s
    <3>5. s[i].msg.seq < m0.seq
      BY <1>11, <3>3, <3>4
    <3>. QED
      BY <1>3, <1>8, <2>2, <3>1, <3>5
  <2>. QED
    BY <1>8, <2>1, <2>2
<1>15. ReleasedFirst'
  <2>. SUFFICES ASSUME NEW id \in Nat, NEW n \in Nat, NEW m \in Incoming, NEW k \in Incoming,
                       Owes(id, m, "PUBREC")', m.qos = 2, Owes(n, k, "PUBCOMP")', m.seq < k.seq
                PROVE  FALSE
    BY DEF ReleasedFirst
  <2>1. Owes(n, k, "PUBCOMP")
    BY <1>10
  <2>2. CASE Owes(id, m, "PUBREC")
    BY <2>1, <2>2 DEF BackOrder, OwedOrder, ReleasedFirst
  <2>3. CASE m = m0
    <3>1. k.seq < m0.seq
      BY <1>11, <2>1 DEF Due
    <3>. QED
      BY <2>3, <3>1, IncomingNumbers
  <2>. QED
    BY <1>10, <2>2, <2>3
<1>16. GivenFirst'
  <2>. SUFFICES ASSUME NEW id \in Nat, NEW m \in Incoming, NEW k \in Incoming,
                       Pending(id, m)', Given(k), k.qos = m.qos
                PROVE  k.seq < m.seq
    BY <1>9 DEF GivenFirst
  <2>1. CASE Pending(id, m)
    BY <2>1 DEF BackOrder, OwedOrder, GivenFirst
  <2>2. CASE m = m0
    BY <1>11, <2>2
  <2>. QED
    BY <1>13, <2>1, <2>2
<1>17. Ordered(Arrivals)'
  BY <1>9 DEF BackOrder, Ordered
<1>18. /\ Len(w) >= Len(c) /\ \A i \in 1..Len(c) : w[i] = c[i]
       /\ w # c => Len(w) = Len(c) + 1 /\ w[Len(c) + 1] = p /\ Len(c) \in Nat
       /\ \A j \in 1..Len(w) : j \in 1..Len(c) \/ (j = Len(c) + 1 /\ w # c /\ j > Len(c))
  BY <1>5, <1>6, AppendAt
<1>19. /\ \A y, n : \A j \in 1..Len(c) : Before(c, y, n, j) => Before(w, y, n, j)
       /\ \A y, n : \A j \in 1..Len(w) : j > Len(c) /\ Holds(c, {y}, n) => Before(w, y, n, j)
       /\ \A y, n : Holds(c, {y}, n) => Holds(w, {y}, n)
  BY <1>5, <1>18, Longer
<1>20. PublishTurn /\ PubrecTurn /\ PubrelTurn /\ AllOnTheirWay
  BY DEF BackOrder, WayBackOrder
<1>21. ~Holds(c, Tokens, id0) /\ ~Holds(to_broker, Acks, id0)
  <2>1. ~Holds(c, {"PUBREL"}, id0)
    BY <1>7 DEF InInv, Stages, c
  <2>2. ~Holds(c, {"PUBLISH"}, id0)
    <3>. SUFFICES ASSUME NEW i \in 1..Len(c), c[i].type = "PUBLISH", c[i].id = id0
                  PROVE  FALSE
      BY DEF Holds
    <3>1. c[i] \in ToClient
      BY <1>5
    <3>2. c[i].msg \in Incoming
      BY <3>1, PacketTypes
    <3>3. Offered(id0, c[i].msg)
      BY DEF Offered, c
    <3>. QED
      BY <1>7, <3>2, <3>3 DEF InInv, Stages
  <2>3. /\ ~Holds(to_broker, {"PUBACK"}, id0) /\ ~Holds(to_broker, {"PUBREC"}, id0)
        /\ ~Holds(to_broker, {"PUBCOMP"}, id0)
    BY <1>7 DEF InInv, Stages
  <2>. QED
    BY <2>1, <2>2, <2>3 DEF Holds, Tokens, Acks
<1>22. /\ \A j \in 1..Len(c) : c[j].type \in Tokens => c[j].id \in Nat /\ c[j].id # id0
       /\ \A j \in 1..Len(to_broker) :
             to_broker[j].type = "PUBREC" => to_broker[j].id \in Nat /\ to_broker[j].id # id0
  <2>1. ASSUME NEW j \in 1..Len(c), c[j].type \in Tokens
        PROVE  c[j].id \in Nat /\ c[j].id # id0
    <3>1. c[j] \in ToClient
      BY <1>5
    <3>. QED
      BY <1>21, <2>1, <3>1, PacketTypes DEF Holds
  <2>2. ASSUME NEW j \in 1..Len(to_broker), to_broker[j].type = "PUBREC"
        PROVE  to_broker[j].id \in Nat /\ to_broker[j].id # id0
    <3>1. to_broker[j] \in ToBroker
      BY DEF TypeInv, LinkTypes
    <3>2. to_broker[j].id # id0
      BY <1>21, <2>2 DEF Holds, Acks
    <3>. QED
      BY <2>2, <3>1, <3>2, PacketTypes
  <2>. QED
    BY <2>1, <2>2
<1>23. \A j \in 1..Len(c) : c[j].type = "PUBLISH" => c[j].msg.seq < m0.seq /\ c[j].msg.seq \in Nat
  <2>. SUFFICES ASSUME NEW j \in 1..Len(c), c[j].type = "PUBLISH"
                PROVE  c[j].msg.seq < m0.seq /\ c[j].msg.seq \in Nat
    OBVIOUS
  <2>1. c[j] \in ToClient
    BY <1>5
  <2>2. PICK id \in Nat, m \in Incoming : id = c[j].id /\ m = c[j].msg
    BY <2>1, PacketTypes
  <2>3. Offered(id, m)
    BY <2>2 DEF Offered, c
  <2>4. Due(id, m)
    BY <2>3 DEF InInv, Stages, Due
  <2>. QED
    BY <1>11, <2>2, <2>4, IncomingNumbers
<1>24. w # c => b_up
  BY <1>1 DEF w, c
<1>25. PublishTurn'
  <2>. SUFFICES ASSUME NEW j \in 1..Len(w), NEW id \in Nat, NEW m \in Incoming,
                       w[j].type = "PUBLISH", Pending(id, m)', m.qos = w[j].msg.qos, m.seq < w[j].msg.seq
                PROVE  \/ Before(w, "PUBLISH", id, j)
                       \/ Holds(to_broker, {"PUBREC"}, id) \/ Holds(w, {"PUBREL"}, id)
    BY <1>2 DEF PublishTurn, w
  <2>1. CASE j \in 1..Len(c)
    <3>1. c[j] = w[j]
      BY <1>18, <2>1
    <3>2. m # m0
      BY <1>23, <2>1, <3>1, IncomingNumbers
    <3>3. Pending(id, m)
      BY <1>13, <3>2
    <3>4. Before(c, "PUBLISH", id, j) \/ Holds(to_broker, {"PUBREC"}, id) \/ Holds(c, {"PUBREL"}, id)
      BY <1>20, <2>1, <3>1, <3>3 DEF PublishTurn, c
    <3>. QED
      BY <1>19, <2>1, <3>4
  <2>2. CASE j = Len(c) + 1 /\ w # c /\ j > Len(c)
    <3>1. w[j].msg = m0
      BY <1>4, <1>18, <2>2
    <3>2. m # m0
      BY <3>1, IncomingNumbers
    <3>3. Pending(id, m)
      BY <1>13, <3>2
    <3>4. Holds(c, Tokens, id) \/ Holds(to_broker, {"PUBREC"}, id)
      BY <1>20, <1>24, <2>2, <3>3 DEF AllOnTheirWay, OnItsWay, c
    <3>5. Holds(c, Tokens, id) => Holds(c, {"PUBLISH"}, id) \/ Holds(c, {"PUBREL"}, id)
      BY DEF Holds, Tokens
    <3>. QED
      BY <1>19, <2>2, <3>4, <3>5
  <2>. QED
    BY <1>18, <2>1, <2>2
<1>26. PubrecTurn'
  <2>. SUFFICES ASSUME NEW j \in 1..Len(to_broker), NEW id \in Nat, NEW m \in Incoming, NEW k \in Incoming,
                       to_broker[j].type = "PUBREC", Due(to_broker[j].id, k), Pending(id, m)',
                       m.qos = k.qos, m.seq < k.seq
                PROVE  Before(to_broker, "PUBREC", id, j) \/ Holds(w, {"PUBREL"}, id)
    BY <1>2, <1>12, <1>22 DEF PubrecTurn, w
  <2>2. k.seq < m0.seq
    BY <1>11, <1>22
  <2>3. m # m0
    BY <2>2, IncomingNumbers
  <2>4. Pending(id, m)
    BY <1>13, <2>3
  <2>5. Before(to_broker, "PUBREC", id, j) \/ Holds(c, {"PUBREL"}, id)
    BY <1>20, <2>4 DEF PubrecTurn, c
  <2>. QED
    BY <1>19, <2>5
<1>r. \A j \in 1..Len(w) : w[j].type = "PUBREL" =>
         j \in 1..Len(c) /\ c[j] = w[j] /\ w[j].id \in Nat /\ w[j].id # id0
  BY <1>4, <1>18, <1>22 DEF Tokens
<1>27. PubrelTurn'
  <2>. SUFFICES ASSUME NEW j \in 1..Len(w), NEW id \in Nat, NEW m \in Incoming, NEW k \in Incoming,
                       w[j].type = "PUBREL", Due(w[j].id, k), Pending(id, m)', m.qos = k.qos, m.seq < k.seq
                PROVE  Before(w, "PUBREL", id, j)
    BY <1>12, <1>r DEF PubrelTurn, w
  <2>4. k.seq < m0.seq
    BY <1>11, <1>r
  <2>5. m # m0
    BY <2>4, IncomingNumbers
  <2>6. Pending(id, m)
    BY <1>13, <2>5
  <2>7. Before(c, "PUBREL", id, j)
    BY <1>20, <1>r, <2>6 DEF PubrelTurn, c
  <2>. QED
    BY <1>19, <1>r, <2>7
<1>28. AllOnTheirWay'
  <2>. SUFFICES ASSUME b_up, NEW id \in Nat, NEW m \in Incoming, Pending(id, m)'
                PROVE  Holds(w, Tokens, id) \/ Holds(to_broker, {"PUBREC"}, id)
    BY <1>2 DEF AllOnTheirWay, OnItsWay, w
  <2>1. CASE Pending(id, m)
    <3>1. Holds(c, Tokens, id) \/ Holds(to_broker, {"PUBREC"}, id)
      BY <1>20, <2>1 DEF AllOnTheirWay, OnItsWay, c
    <3>2. Holds(c, Tokens, id) => Holds(w, Tokens, id)
      BY <1>5, <1>18 DEF Holds
    <3>. QED
      BY <3>1, <3>2
  <2>2. CASE id = id0
    <3>1. Len(w) \in 1..Len(w) /\ w[Len(w)] = p
      BY <1>5, <1>u
    <3>. QED
      BY <1>4, <2>2, <3>1 DEF Holds, Tokens
  <2>. QED
    BY <1>13, <2>1, <2>2
<1>. QED
  BY <1>14, <1>15, <1>16, <1>17, <1>25, <1>26, <1>27, <1>28 DEF BackOrder, OwedOrder, WayBackOrder

(***************************************************************************)
(* The broker greets the client with all its messages, in their order:     *)
(* PUBRELs first as far as messages of QoS 2 go.                           *)
(***************************************************************************)
LEMMA BackBrokerConnect ==
    ASSUME ~CleanSession, BackOrder, InInv, TypeInv, Linked, BrokerConnect
    PROVE  BackOrder'
<1>. DEFINE n == Len(b_unacked)
            w == to_client'
            again(k) == BrokerAgain(b_unacked[k])
<1>0. /\ b_unacked \in Seq(Owing) /\ to_broker \in Seq(ToBroker) /\ n \in Nat /\ n = Len(b_unacked)
  BY DEF TypeInv, BrokerTypes, LinkTypes
<1>1. /\ to_broker # <<>> /\ Head(to_broker).type = "CONNECT" /\ to_broker' = Tail(to_broker)
      /\ UNCHANGED <<arrived, messageQueue, b_unacked>>
  BY DEF BrokerConnect, BrokerReads, BrokerOnly
<1>2. /\ Len(w) = n + 1 /\ w[1] = Packet("CONNACK", 0)
      /\ \A k \in 1..n : w[k + 1] = again(k)
  BY <1>0, GreetingType
<1>3. \A k \in 1..n : /\ again(k).id = b_unacked[k].id /\ again(k).type \in Tokens
                      /\ again(k).type = "PUBLISH" => again(k).msg = b_unacked[k].msg /\ b_unacked[k].next = "PUBREC"
                      /\ again(k).type = "PUBREL" => b_unacked[k].next = "PUBCOMP"
                      /\ b_unacked[k].id \in Nat /\ b_unacked[k].msg \in Incoming
  <2>. TAKE k \in 1..n
  <2>1. b_unacked[k] \in Owing
    BY <1>0
  <2>. QED
    BY <2>1, BrokerAgainType DEF Tokens, Owing
<1>4. Packet("CONNACK", 0).type \notin Tokens
  BY DEF Packet, Tokens
<1>5. OwedInTurn /\ ReleasedFirst
  BY DEF BackOrder, OwedOrder
<1>. HIDE DEF n, w, again
<1>6. \A i \in 1..Len(w) : w[i].type \in Tokens => \E k \in 1..n : i = k + 1 /\ w[i] = again(k)
  <2>. SUFFICES ASSUME NEW i \in 1..Len(w), w[i].type \in Tokens
                PROVE  \E k \in 1..n : i = k + 1 /\ w[i] = again(k)
    OBVIOUS
  <2>1. i # 1
    BY <1>2, <1>4
  <2>2. i - 1 \in 1..n /\ (i - 1) + 1 = i
    BY <1>0, <1>2, <2>1
  <2>. QED
    BY <1>2, <2>2
<1>7. \A i \in 1..Len(to_broker') : to_broker'[i].type # "PUBREC"
  <2>1. 1 \in 1..Len(to_broker) /\ to_broker[1].type = "CONNECT"
    BY <1>0, <1>1
  <2>2. ~b_up
    BY <2>1 DEF Linked
  <2>3. \A i \in 1..Len(to_broker) : to_broker[i].type # "PUBREC"
    BY <2>2 DEF Linked, Acks
  <2>4. \A i \in 1..Len(to_broker') : i + 1 \in 1..Len(to_broker) /\ to_broker'[i] = to_broker[i + 1]
    BY <1>0, <1>1
  <2>. QED
    BY <2>3, <2>4
<1>8. Arrivals' = Arrivals
  BY <1>1 DEF Arrivals
<1>9. /\ \A id, m : (Pending(id, m)' <=> Pending(id, m)) /\ (Due(id, m)' <=> Due(id, m))
      /\ Ordered(Arrivals)' /\ OwedOrder'
  BY <1>1, <1>8, PendingSame
<1>10. \A id \in Nat, m \in Incoming : Pending(id, m) =>
          \E y \in 1..n : /\ b_unacked[y].id = id /\ b_unacked[y].msg = m /\ y + 1 \in 1..Len(w)
                          /\ w[y + 1].id = id
                          /\ \/ w[y + 1].type = "PUBLISH" /\ b_unacked[y].next = "PUBREC"
                             \/ w[y + 1].type = "PUBREL" /\ b_unacked[y].next = "PUBCOMP"
  <2>. SUFFICES ASSUME NEW id \in Nat, NEW m \in Incoming, Pending(id, m)
                PROVE  \E y \in 1..n : /\ b_unacked[y].id = id /\ b_unacked[y].msg = m /\ y + 1 \in 1..Len(w)
                                       /\ w[y + 1].id = id
                                       /\ \/ w[y + 1].type = "PUBLISH" /\ b_unacked[y].next = "PUBREC"
                                          \/ w[y + 1].type = "PUBREL" /\ b_unacked[y].next = "PUBCOMP"
    OBVIOUS
  <2>1. PICK y \in 1..n : b_unacked[y].id = id /\ b_unacked[y].msg = m
    BY DEF Pending, Due, Owes, n
  <2>2. y + 1 \in 1..Len(w) /\ w[y + 1] = again(y)
    BY <1>0, <1>2
  <2>. QED
    BY <1>3, <2>1, <2>2 DEF Tokens
<1>11. ASSUME NEW x \in 1..n, NEW y \in 1..n, b_unacked[y].msg.seq < b_unacked[x].msg.seq
       PROVE  y + 1 \in 1..x
  <2>1. \A i, j \in 1..n : i < j => b_unacked[i].msg.seq < b_unacked[j].msg.seq
    BY <1>5 DEF OwedInTurn, n
  <2>2. b_unacked[x].msg.seq \in Nat /\ b_unacked[y].msg.seq \in Nat
    BY <1>3, IncomingNumbers
  <2>3. ~(x < y) /\ x # y
    BY <1>11, <2>1, <2>2
  <2>. QED
    BY <1>0, <2>3
<1>12. PublishTurn'
  <2>. SUFFICES ASSUME NEW j \in 1..Len(w), NEW id \in Nat, NEW m \in Incoming,
                       w[j].type = "PUBLISH", Pending(id, m), m.qos = w[j].msg.qos, m.seq < w[j].msg.seq
                PROVE  Before(w, "PUBLISH", id, j) \/ Holds(w, {"PUBREL"}, id)
    BY <1>9 DEF PublishTurn, w
  <2>1. PICK x \in 1..n : j = x + 1 /\ w[j] = again(x)
    BY <1>6 DEF Tokens
  <2>2. w[j].msg = b_unacked[x].msg
    BY <1>3, <2>1
  <2>3. PICK y \in 1..n : /\ b_unacked[y].msg = m /\ y + 1 \in 1..Len(w) /\ w[y + 1].id = id
                          /\ w[y + 1].type = "PUBLISH" \/ w[y + 1].type = "PUBREL"
    BY <1>10
  <2>4. y + 1 \in 1..x
    BY <1>11, <2>2, <2>3
  <2>5. y + 1 \in 1..(j - 1)
    BY <1>0, <2>1, <2>4
  <2>6. CASE w[y + 1].type = "PUBLISH"
    BY <2>3, <2>5, <2>6 DEF Before
  <2>7. CASE w[y + 1].type = "PUBREL"
    BY <2>3, <2>7 DEF Holds
  <2>. QED
    BY <2>3, <2>6, <2>7
<1>13. PubrecTurn'
  BY <1>7 DEF PubrecTurn
<1>14. PubrelTurn'
  <2>. SUFFICES ASSUME NEW j \in 1..Len(w), NEW id \in Nat, NEW m \in Incoming, NEW k \in Incoming,
                       w[j].type = "PUBREL", Due(w[j].id, k), Pending(id, m), m.qos = k.qos, m.seq < k.seq
                PROVE  Before(w, "PUBREL", id, j)
    BY <1>9 DEF PubrelTurn, w
  <2>1. PICK x \in 1..n : j = x + 1 /\ w[j] = again(x)
    BY <1>6 DEF Tokens
  <2>2. PICK xid \in Nat, mx \in Incoming : xid = b_unacked[x].id /\ mx = b_unacked[x].msg
    BY <1>3
  <2>3. w[j].id = xid /\ Owes(xid, mx, "PUBCOMP")
    BY <1>0, <1>3, <2>1, <2>2 DEF Owes
  <2>4. k = mx
    BY <2>3, OwesOnce DEF Due
  <2>5. mx.qos = 2
    BY <2>3 DEF InInv, Stages
  <2>6. PICK y \in 1..n : /\ b_unacked[y].id = id /\ b_unacked[y].msg = m /\ y + 1 \in 1..Len(w)
                          /\ w[y + 1].id = id
                          /\ \/ w[y + 1].type = "PUBLISH" /\ b_unacked[y].next = "PUBREC"
                             \/ w[y + 1].type = "PUBREL" /\ b_unacked[y].next = "PUBCOMP"
    <3>. DEFINE Answered(i, a) ==
                   \E y \in 1..n : /\ b_unacked[y].id = i /\ b_unacked[y].msg = a /\ y + 1 \in 1..Len(w)
                                   /\ w[y + 1].id = i
                                   /\ \/ w[y + 1].type = "PUBLISH" /\ b_unacked[y].next = "PUBREC"
                                      \/ w[y + 1].type = "PUBREL" /\ b_unacked[y].next = "PUBCOMP"
    <3>1. \A i \in Nat, a \in Incoming : Pending(i, a) => Answered(i, a)
      BY <1>10
    <3>2. Answered(id, m)
      <4>. HIDE DEF Answered
      <4>. QED
        BY <3>1
    <3>. QED
      BY <3>2
  <2>7. b_unacked[y].next # "PUBREC"
    <3>. SUFFICES ASSUME b_unacked[y].next = "PUBREC"
                  PROVE  FALSE
      OBVIOUS
    <3>1. Owes(id, m, "PUBREC")
      BY <1>0, <2>6 DEF Owes
    <3>. QED
      BY <1>5, <2>3, <2>4, <2>5, <3>1 DEF ReleasedFirst
  <2>8. y + 1 \in 1..x
    BY <1>11, <2>2, <2>4, <2>6
  <2>9. y + 1 \in 1..(j - 1)
    BY <1>0, <2>1, <2>8
  <2>. QED
    BY <2>6, <2>7, <2>9 DEF Before
<1>15. AllOnTheirWay'
  <2>. SUFFICES ASSUME NEW id \in Nat, NEW m \in Incoming, Pending(id, m)
                PROVE  Holds(w, Tokens, id)
    BY <1>9 DEF AllOnTheirWay, OnItsWay, w
  <2>1. PICK y \in 1..n : /\ y + 1 \in 1..Len(w) /\ w[y + 1].id = id
                          /\ w[y + 1].type = "PUBLISH" \/ w[y + 1].type = "PUBREL"
    BY <1>10
  <2>. QED
    BY <2>1 DEF Holds, Tokens
<1>. QED
  BY <1>9, <1>12, <1>13, <1>14, <1>15 DEF BackOrder, WayBackOrder

LEMMA BackOrderNext ==
    ~CleanSession /\ TypeInv /\ TypeInv' /\ Linked /\ InInv /\ BackOrder /\ [Next]_vars => BackOrder'
<1>. SUFFICES ASSUME ~CleanSession, TypeInv, TypeInv', Linked, InInv, BackOrder, [Next]_vars
              PROVE  BackOrder'
  OBVIOUS
<1>1. CASE \/ \E q \in Qos : Send(q)
           \/ StartConnect \/ CannotConnect \/ LoseConnection \/ NothingToLose
           \/ PublishCommand \/ PublishFails \/ ConnectTimeout \/ Break \/ PingTimeout
  BY <1>1, QuietInSend, QuietBackSend, BackOrderKept
<1>2. CASE RecvPubrec \/ RecvPuback \/ RecvPubcomp \/ RecvPingresp \/ RecvConnack
  BY <1>2, QuietInReceive, QuietBackReceive, BackOrderKept
<1>3. CASE ReadFails \/ TurnLost \/ TurnFails \/ TurnEnds \/ ConnectionComplete \/ ConnackUnexpected
  BY <1>3, QuietInTurn, QuietBackTurn, BackOrderKept
<1>4. CASE BrokerPublish1 \/ BrokerPublish2 \/ BrokerPubrel
  BY <1>4, QuietInBroker, QuietBackBroker, BackOrderKept
<1>5. CASE \E n \in 1..Len(outboundMsgs) : \E due \in [1..n -> 1..Len(outboundMsgs)] : RetryTimer(due)
  BY <1>5, QuietInRetry, QuietBackRetry, BackOrderKept
<1>6. CASE RecvPublish1
  BY <1>6, BackPublish1
<1>7. CASE RecvPublish2
  BY <1>7, BackPublish2
<1>8. CASE RecvPubrel
  BY <1>8, BackPubrel
<1>9. CASE RecvStrayPubrel
  BY <1>9, BackStrayPubrel
<1>10. CASE BrokerConnect
  BY <1>10, BackBrokerConnect
<1>11. CASE BrokerPubrec
  BY <1>11, BackBrokerPubrec
<1>12. CASE BrokerEnd
  BY <1>12, BackBrokerEnd
<1>13. CASE \E q \in Qos : BrokerSend(q)
  BY <1>13, BackBrokerSend
<1>14. CASE UNCHANGED vars
  BY <1>14, FlightChangesIn, BackKept, BackOrderKept DEF vars, QuietIn
<1>. QED
  BY <1>1, <1>2, <1>3, <1>4, <1>5, <1>6, <1>7, <1>8, <1>9, <1>10, <1>11, <1>12, <1>13, <1>14
     DEF Next, SendThread, ReceiveThread, Timers, Broker, BrokerHandles

LEMMA BackOrderCorrect ==
    ASSUME ~CleanSession
    PROVE  Spec => [](TypeInv /\ Linked /\ InInv /\ BackOrder)
<1>1. Init => TypeInv /\ Linked /\ InInv /\ BackOrder
  BY TypesInit, LinkedInit, InInit, BackOrderInit
<1>2. TypeInv /\ Linked /\ InInv /\ BackOrder /\ [Next]_vars => (TypeInv /\ Linked /\ InInv /\ BackOrder)'
  BY TypesNext, LinkedNext, InNext, BackOrderNext
<1>. QED
  BY <1>1, <1>2, PTL DEF Spec

\* What messageArrived accepted comes before what waits for it
LEMMA ArrivedOrdered ==
    ASSUME TypeInv, Ordered(Arrivals)
    PROVE  ArrivesInOrder
<1>1. arrived \in Seq(Numbers)
  BY IncomingNumbers DEF TypeInv, HistoryTypes
<1>2. Len(arrived) \in Nat /\ \A i \in 1..Len(arrived) : i \in 1..Len(Arrivals) /\ Arrivals[i] = arrived[i]
  BY <1>1, ArrivalsParts
<1>3. Ordered(arrived)
  <2>. SUFFICES ASSUME NEW i \in 1..Len(arrived), NEW j \in 1..Len(arrived),
                       arrived[i].qos = arrived[j].qos, arrived[i].seq < arrived[j].seq
                PROVE  \E h \in 1..(j - 1) : arrived[h] = arrived[i]
    BY DEF Ordered
  <2>1. PICK h \in 1..(j - 1) : Arrivals[h] = Arrivals[i]
    BY <1>2 DEF Ordered
  <2>2. h \in 1..Len(arrived)
    BY <1>2
  <2>. QED
    BY <1>2, <2>1, <2>2
<1>. QED
  BY <1>1, <1>3, OrderedIsInOrder DEF ArrivesInOrder

(***************************************************************************)
(* In a session that is kept the broker publishes messages of one quality  *)
(* of service in the order in which MQTTAsync_send accepted them, and      *)
(* messageArrived accepts them in the order in which the broker sent them, *)
(* whatever breaks, is repeated or is refused.                             *)
(***************************************************************************)
THEOREM OrderKept ==
    ASSUME KeptSession
    PROVE  Spec => []OrderIsKept
<1>1. Spec => []PublishedInOrder
  BY PublishedOrdered
<1>2. Spec => [](TypeInv /\ Linked /\ InInv /\ BackOrder)
  BY BackOrderCorrect DEF KeptSession
<1>3. TypeInv /\ BackOrder => ArrivesInOrder
  BY ArrivedOrdered DEF BackOrder
<1>4. PublishedInOrder /\ ArrivesInOrder => OrderIsKept
  BY DEF OrderIsKept
<1>. QED
  BY <1>1, <1>2, <1>3, <1>4, PTL
=============================================================================

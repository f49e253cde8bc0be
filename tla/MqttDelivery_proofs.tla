------------------------ MODULE MqttDelivery_proofs ------------------------
(***************************************************************************)
(* The types of MqttDelivery for all bounds and both kinds of session, and *)
(* what a connection can have in flight.                                   *)
(*                                                                         *)
(* TypeOK is not inductive: the type of a PUBREL the client answers says   *)
(* what the broker may release, and a broker that finds an id for a        *)
(* message needs that no two of its messages have the same.  TypeInv adds  *)
(* the types of what goes to the client and of what the broker keeps, and  *)
(* that its ids are its messages' own (Owed1): a free id then exists       *)
(* because MaxIncoming + 1 ids cannot all be taken by MaxIncoming          *)
(* messages (Places).  IndexOf and Without are chosen by the least place   *)
(* that matches; that there is one (Least) is by well-founded sets.        *)
(***************************************************************************)
EXTENDS MqttDelivery, SequenceTheorems, FiniteSetTheorems, TLAPS

-----------------------------------------------------------------------------
(* Lists.                                                                  *)

\* A set of numbers has a least one
LEMMA Least ==
    ASSUME NEW S \in SUBSET Nat, S # {}
    PROVE  \E m \in S : \A k \in S : m <= k
<1>. DEFINE Upto == {0..k : k \in S}
<1>1. \A k \in S : 0..k \in FiniteSubsetsOf(Nat)
  BY FS_Interval DEF FiniteSubsetsOf
<1>2. Upto \subseteq FiniteSubsetsOf(Nat) /\ Upto # {}
  BY <1>1
<1>. HIDE DEF Upto
<1>3. PICK x \in Upto : \A y \in Upto : <<y, x>> \notin StrictSubsetOrdering(Nat)
  BY <1>2, FS_StrictSubsetOrderingWellFounded, WFMin
<1>4. PICK m \in S : x = 0..m
  BY <1>3 DEF Upto
<1>5. ASSUME NEW k \in S, k < m
      PROVE  FALSE
  <2>1. 0..k \in Upto
    BY DEF Upto
  <2>2. 0..k \in SUBSET Nat /\ 0..m \in SUBSET Nat /\ 0..k \subseteq 0..m /\ m \in 0..m /\ m \notin 0..k
    BY <1>5
  <2>3. <<0..k, 0..m>> \in StrictSubsetOrdering(Nat)
    BY <2>2 DEF StrictSubsetOrdering
  <2>. QED
    BY <2>1, <2>3, <1>3, <1>4
<1>. QED
  BY <1>5

LEMMA IndexOfFirst ==
    ASSUME NEW S, NEW list \in Seq(S), NEW id, HasId(list, id)
    PROVE  /\ IndexOf(list, id) \in 1..Len(list)
           /\ list[IndexOf(list, id)].id = id
           /\ \A j \in 1..Len(list) : list[j].id = id => IndexOf(list, id) <= j
<1>. DEFINE I == {i \in 1..Len(list) : list[i].id = id}
<1>1. I \in SUBSET Nat /\ I # {}
  BY DEF HasId
<1>2. \E m \in I : \A k \in I : m <= k
  BY <1>1, Least
<1>3. Min(I) \in I /\ \A k \in I : Min(I) <= k
  BY <1>2 DEF Min
<1>4. IndexOf(list, id) = Min(I)
  BY <1>1 DEF IndexOf, SelectInSeq
<1>. QED
  BY <1>3, <1>4

\* Without leaves out the first element with the id, and nothing else
LEMMA WithoutFirst ==
    ASSUME NEW S, NEW list \in Seq(S), NEW id, HasId(list, id)
    PROVE  /\ Without(list, id) \in Seq(S)
           /\ Len(Without(list, id)) = Len(list) - 1
           /\ \A i \in 1..Len(list) - 1 :
                 Without(list, id)[i] = IF i < IndexOf(list, id) THEN list[i] ELSE list[i + 1]
<1>. DEFINE p == IndexOf(list, id)
<1>1. p \in 1..Len(list)
  BY IndexOfFirst
<1>2. Without(list, id) = SubSeq(list, 1, p - 1) \o SubSeq(list, p + 1, Len(list))
  BY DEF Without, RemoveFirstMatch, RemoveAt, IndexOf, HasId
<1>. HIDE DEF p
<1>3. /\ SubSeq(list, 1, p - 1) \in Seq(S) /\ Len(SubSeq(list, 1, p - 1)) = p - 1
      /\ \A i \in 1..p - 1 : SubSeq(list, 1, p - 1)[i] = list[i]
  BY <1>1
<1>4. /\ SubSeq(list, p + 1, Len(list)) \in Seq(S)
      /\ Len(SubSeq(list, p + 1, Len(list))) = Len(list) - p
      /\ \A i \in 1..Len(list) - p : SubSeq(list, p + 1, Len(list))[i] = list[p + i]
  BY <1>1
<1>. DEFINE a == SubSeq(list, 1, p - 1)
            b == SubSeq(list, p + 1, Len(list))
            n == Len(list)
<1>5. /\ a \in Seq(S) /\ b \in Seq(S) /\ n \in Nat /\ p \in 1..n /\ Len(a) = p - 1 /\ Len(b) = n - p
      /\ \A i \in 1..p - 1 : a[i] = list[i]
      /\ \A i \in 1..n - p : b[i] = list[p + i]
  BY <1>1, <1>3, <1>4
<1>. HIDE DEF a, b, n
<1>6. /\ a \o b \in Seq(S) /\ Len(a \o b) = n - 1
      /\ \A i \in 1..n - 1 : (a \o b)[i] = IF i < p THEN a[i] ELSE b[i - (p - 1)]
  <2>1. /\ a \o b \in Seq(S) /\ Len(a \o b) = Len(a) + Len(b)
        /\ \A i \in 1..Len(a) + Len(b) : (a \o b)[i] = IF i <= Len(a) THEN a[i] ELSE b[i - Len(a)]
    BY <1>5, ConcatProperties
  <2>2. Len(a) + Len(b) = n - 1 /\ \A i \in 1..n - 1 : i <= Len(a) <=> i < p
    BY <1>5
  <2>. QED
    BY <1>5, <2>1, <2>2
<1>7. \A i \in 1..n - 1 : (a \o b)[i] = IF i < p THEN list[i] ELSE list[i + 1]
  <2>. TAKE i \in 1..n - 1
  <2>1. CASE i < p
    BY <1>5, <1>6, <2>1
  <2>2. CASE i >= p
    <3>1. i - (p - 1) \in 1..n - p /\ p + (i - (p - 1)) = i + 1
      BY <1>5, <2>2
    <3>. QED
      BY <1>5, <1>6, <2>2, <3>1
  <2>. QED
    BY <1>5, <2>1, <2>2
<1>8. /\ Without(list, id) = a \o b /\ n = Len(list)
  BY <1>2 DEF a, b, n
<1>. QED
  BY <1>6, <1>7, <1>8 DEF p

\* Without an element of that id the list is as it was
LEMMA WithoutNone ==
    ASSUME NEW list, NEW id, ~HasId(list, id)
    PROVE  Without(list, id) = list
BY DEF Without, RemoveFirstMatch, HasId

(***************************************************************************)
(* What comes from a list: the elements of the types T of the one sequence *)
(* are elements of the other, in the same order.                           *)
(***************************************************************************)
Within(t, s) ==
    \E f \in [1..Len(t) -> 1..Len(s)] :
        /\ \A i \in 1..Len(t) : t[i] = s[f[i]]
        /\ \A i, j \in 1..Len(t) : i < j => f[i] < f[j]
WithinFor(t, s, T) ==
    \E f \in [1..Len(t) -> Int] :
        /\ \A i \in 1..Len(t) : t[i].type \in T => f[i] \in 1..Len(s) /\ t[i] = s[f[i]]
        /\ \A i, j \in 1..Len(t) : t[i].type \in T /\ t[j].type \in T /\ i < j => f[i] < f[j]

LEMMA WithinSame ==
    ASSUME NEW S, NEW s \in Seq(S)
    PROVE  Within(s, s) /\ Within(<<>>, s) /\ (s # <<>> => Within(Tail(s), s))
<1>1. Within(s, s)
  <2>1. [i \in 1..Len(s) |-> i] \in [1..Len(s) -> 1..Len(s)]
    OBVIOUS
  <2>. QED
    BY <2>1 DEF Within
<1>2. Within(<<>>, s)
  <2>. DEFINE e == <<>>
              f == [i \in 1..Len(e) |-> i]
  <2>1. \A i \in 1..Len(e) : FALSE
    OBVIOUS
  <2>. HIDE DEF e
  <2>2. /\ f \in [1..Len(e) -> 1..Len(s)]
        /\ \A i \in 1..Len(e) : e[i] = s[f[i]]
        /\ \A i, j \in 1..Len(e) : i < j => f[i] < f[j]
    BY <2>1
  <2>3. Within(e, s)
    BY <2>2 DEF Within
  <2>. QED
    BY <2>3 DEF e
<1>3. ASSUME s # <<>>
      PROVE  Within(Tail(s), s)
  <2>1. /\ Len(Tail(s)) = Len(s) - 1 /\ Len(s) \in Nat \ {0}
        /\ \A i \in 1..Len(s) - 1 : Tail(s)[i] = s[i + 1]
    BY <1>3
  <2>. DEFINE t == Tail(s)
              n == Len(s)
              f == [i \in 1..n - 1 |-> i + 1]
  <2>2. /\ Len(t) = n - 1 /\ n \in Nat \ {0} /\ n = Len(s)
        /\ \A i \in 1..n - 1 : t[i] = s[i + 1]
    BY <2>1
  <2>. HIDE DEF t, n
  <2>3. /\ f \in [1..n - 1 -> 1..n]
        /\ \A i \in 1..n - 1 : t[i] = s[f[i]]
        /\ \A i, j \in 1..n - 1 : i < j => f[i] < f[j]
    BY <2>2
  <2>4. Within(t, s)
    BY <2>2, <2>3 DEF Within
  <2>. QED
    BY <2>4 DEF t
<1>. QED
  BY <1>1, <1>2, <1>3

LEMMA WithinWithout ==
    ASSUME NEW S, NEW s \in Seq(S), NEW id
    PROVE  Within(Without(s, id), s) /\ Without(s, id) \in Seq(S)
<1>1. CASE HasId(s, id)
  <2>. DEFINE p == IndexOf(s, id)
              n == Len(s)
              w == Without(s, id)
              f == [i \in 1..n - 1 |-> IF i < p THEN i ELSE i + 1]
  <2>1. p \in 1..n /\ n \in Nat
    BY <1>1, IndexOfFirst
  <2>2. w \in Seq(S) /\ Len(w) = n - 1 /\ \A i \in 1..n - 1 : w[i] = IF i < p THEN s[i] ELSE s[i + 1]
    BY <1>1, WithoutFirst
  <2>. HIDE DEF p, n, w
  <2>3. f \in [1..n - 1 -> 1..n]
    BY <2>1
  <2>4. \A i \in 1..n - 1 : w[i] = s[f[i]]
    BY <2>1, <2>2
  <2>5. \A i, j \in 1..n - 1 : i < j => f[i] < f[j]
    BY <2>1
  <2>6. Len(w) = n - 1 /\ n = Len(s) /\ w = Without(s, id)
    BY <2>2 DEF n, w
  <2>. HIDE DEF f
  <2>. QED
    BY <2>2, <2>3, <2>4, <2>5, <2>6 DEF Within
<1>2. CASE ~HasId(s, id)
  BY <1>2, WithoutNone, WithinSame
<1>. QED
  BY <1>1, <1>2

\* What is within is within for any types; nothing of other types counts
LEMMA WithinForAny ==
    ASSUME NEW S, NEW t \in Seq(S), NEW s \in Seq(S), Within(t, s), NEW T
    PROVE  WithinFor(t, s, T)
<1>1. PICK f \in [1..Len(t) -> 1..Len(s)] :
         /\ \A i \in 1..Len(t) : t[i] = s[f[i]]
         /\ \A i, j \in 1..Len(t) : i < j => f[i] < f[j]
  BY DEF Within
<1>2. f \in [1..Len(t) -> Int]
  OBVIOUS
<1>. QED
  BY <1>1, <1>2 DEF WithinFor

\* An element of another type is put behind
LEMMA WithinForBehind ==
    ASSUME NEW S, NEW s \in Seq(S), NEW t \in Seq(S), NEW T, NEW e \in S, WithinFor(t, s, T), e.type \notin T
    PROVE  WithinFor(Append(t, e), s, T)
<1>1. PICK f \in [1..Len(t) -> Int] :
         /\ \A i \in 1..Len(t) : t[i].type \in T => f[i] \in 1..Len(s) /\ t[i] = s[f[i]]
         /\ \A i, j \in 1..Len(t) : t[i].type \in T /\ t[j].type \in T /\ i < j => f[i] < f[j]
  BY DEF WithinFor
<1>. DEFINE u == Append(t, e)
            g == [i \in 1..Len(t) + 1 |-> IF i = Len(t) + 1 THEN 0 ELSE f[i]]
<1>2. /\ Len(u) = Len(t) + 1 /\ Len(t) \in Nat /\ u[Len(t) + 1] = e
      /\ \A i \in 1..Len(t) : u[i] = t[i]
  OBVIOUS
<1>. HIDE DEF u
<1>3. g \in [1..Len(u) -> Int]
  BY <1>2
<1>4. \A i \in 1..Len(u) : u[i].type \in T => i \in 1..Len(t) /\ u[i] = t[i] /\ g[i] = f[i]
  BY <1>2
<1>. HIDE DEF g
<1>5. \A i \in 1..Len(u) : u[i].type \in T => g[i] \in 1..Len(s) /\ u[i] = s[g[i]]
  BY <1>1, <1>4
<1>6. \A i, j \in 1..Len(u) : u[i].type \in T /\ u[j].type \in T /\ i < j => g[i] < g[j]
  BY <1>1, <1>4
<1>7. WithinFor(u, s, T)
  BY <1>3, <1>5, <1>6 DEF WithinFor
<1>. QED
  BY <1>7 DEF u

\* An element of another type is put in front
LEMMA WithinForFront ==
    ASSUME NEW S, NEW s \in Seq(S), NEW t \in Seq(S), NEW T, NEW e \in S, WithinFor(t, s, T), e.type \notin T
    PROVE  WithinFor(<<e>> \o t, s, T)
<1>1. PICK f \in [1..Len(t) -> Int] :
         /\ \A i \in 1..Len(t) : t[i].type \in T => f[i] \in 1..Len(s) /\ t[i] = s[f[i]]
         /\ \A i, j \in 1..Len(t) : t[i].type \in T /\ t[j].type \in T /\ i < j => f[i] < f[j]
  BY DEF WithinFor
<1>. DEFINE u == <<e>> \o t
            g == [i \in 1..Len(t) + 1 |-> IF i = 1 THEN 0 ELSE f[i - 1]]
<1>2. /\ Len(u) = Len(t) + 1 /\ Len(t) \in Nat /\ u[1] = e
      /\ \A i \in 2..Len(t) + 1 : u[i] = t[i - 1]
  OBVIOUS
<1>. HIDE DEF u
<1>3. g \in [1..Len(u) -> Int]
  BY <1>2
<1>4. \A i \in 1..Len(u) : u[i].type \in T => i - 1 \in 1..Len(t) /\ u[i] = t[i - 1] /\ g[i] = f[i - 1]
  BY <1>2
<1>. HIDE DEF g
<1>5. \A i \in 1..Len(u) : u[i].type \in T => g[i] \in 1..Len(s) /\ u[i] = s[g[i]]
  BY <1>1, <1>4
<1>6. \A i, j \in 1..Len(u) : u[i].type \in T /\ u[j].type \in T /\ i < j => g[i] < g[j]
  <2>. SUFFICES ASSUME NEW i \in 1..Len(u), NEW j \in 1..Len(u),
                       u[i].type \in T /\ u[j].type \in T, i < j
                PROVE  g[i] < g[j]
    OBVIOUS
  <2>1. PICK a \in 1..Len(t) : a = i - 1 /\ u[i] = t[a] /\ g[i] = f[a]
    BY <1>4
  <2>2. PICK b \in 1..Len(t) : b = j - 1 /\ u[j] = t[b] /\ g[j] = f[b]
    BY <1>4
  <2>3. a < b
    BY <1>2, <2>1, <2>2
  <2>. QED
    BY <1>1, <2>1, <2>2, <2>3
<1>7. WithinFor(u, s, T)
  BY <1>3, <1>5, <1>6 DEF WithinFor
<1>. QED
  BY <1>7 DEF u

-----------------------------------------------------------------------------
(* The types of everything.                                                *)

USE DEF sendVars, connVars, sessionVars, linkVars, brokerVars, bounds, history

Command == [type : {"CONNECT"}, version : {0, 4}] \cup {Disconnect}
           \cup [type : {"PUBLISH"}, id : MsgId, msg : Sent]
Response == [id : MsgId, msg : Sent]
Inbox == [id : Nat, msg : Incoming]
Owing == [id : 1..(MaxIncoming + 1), msg : Incoming, next : {"PUBREC", "PUBCOMP"}]
ToClient == [type : {"PUBLISH"}, id : Nat, dup : BOOLEAN, msg : Incoming]
            \cup [type : {"CONNACK", "PUBREL", "PUBACK", "PUBREC", "PUBCOMP"},
                  id : Nat, dup : BOOLEAN]

SendTypes == commands \in Seq(Command) /\ responses \in Seq(Response)
ConnTypes == version \in {0, 3, 4} /\ connected \in BOOLEAN /\ connect_state \in {0, 3}
SessionTypes == /\ msgID \in 0..MaxMsgId
                /\ outboundMsgs \in Seq(Entries(Sent)) /\ inboundMsgs \in Seq(Inbox)
                /\ messageQueue \in Seq(Incoming)
PackTypes == pack \in {"none", "other", "CONNACK", "error"}
LinkTypes == /\ link \in {"closed", "open", "broken"}
             /\ to_broker \in Seq(ToBroker) /\ to_client \in Seq(ToClient)

\* The broker's messages under way have ids of their own
Owed1 == /\ Len(b_unacked) <= incoming
         /\ \A i, j \in 1..Len(b_unacked) : b_unacked[i].id = b_unacked[j].id => i = j
BrokerTypes == /\ b_up \in BOOLEAN /\ b_received \subseteq Response
               /\ b_unacked \in Seq(Owing)
BoundTypes == /\ sends \in 0..MaxSends /\ incoming \in 0..MaxIncoming
              /\ breaks \in Nat /\ refusals \in Nat /\ retries \in Nat
HistoryTypes == /\ succeeded \subseteq Sent /\ failed \subseteq Sent
                /\ published \in Seq(Sent) /\ arrived \in Seq(Incoming)
                /\ gave_up \in BOOLEAN

TypeInv == /\ SendTypes /\ ConnTypes /\ SessionTypes /\ PackTypes /\ LinkTypes
           /\ BrokerTypes /\ Owed1 /\ BoundTypes /\ HistoryTypes

LEMMA TypeInvGivesTypeOK == TypeInv => TypeOK
BY DEF TypeInv, TypeOK, SendTypes, ConnTypes, SessionTypes, PackTypes, LinkTypes, BrokerTypes,
       BoundTypes, HistoryTypes, Command, Response, Inbox

LEMMA TypesKept ==
    /\ SendTypes /\ UNCHANGED sendVars => SendTypes'
    /\ ConnTypes /\ UNCHANGED connVars => ConnTypes'
    /\ SessionTypes /\ UNCHANGED sessionVars => SessionTypes'
    /\ PackTypes /\ UNCHANGED pack => PackTypes'
    /\ LinkTypes /\ UNCHANGED linkVars => LinkTypes'
    /\ BrokerTypes /\ UNCHANGED brokerVars => BrokerTypes'
    /\ Owed1 /\ UNCHANGED b_unacked /\ UNCHANGED incoming => Owed1'
    /\ BoundTypes /\ UNCHANGED bounds => BoundTypes'
    /\ HistoryTypes /\ UNCHANGED history => HistoryTypes'
BY DEF SendTypes, ConnTypes, SessionTypes, PackTypes, LinkTypes, BrokerTypes, Owed1, BoundTypes,
       HistoryTypes

LEMMA TypesInit == Init => TypeInv
<1>. SUFFICES ASSUME Init PROVE TypeInv
  OBVIOUS
<1>. USE DEF Init
<1>1. SendTypes
  <2>1. Connect(0) \in Command
    BY DEF Connect, Command
  <2>. QED
    BY <2>1 DEF SendTypes
<1>e. \A S : <<>> \in Seq(S)
  OBVIOUS
<1>2. ConnTypes /\ PackTypes
  BY DEF ConnTypes, PackTypes
<1>7. SessionTypes
  BY <1>e, DeliveryAssumption DEF SessionTypes
<1>4. LinkTypes /\ HistoryTypes
  BY <1>e DEF LinkTypes, HistoryTypes
<1>5. BrokerTypes
  BY <1>e DEF BrokerTypes
<1>6. Owed1
  BY DEF Owed1
<1>3. BoundTypes
  BY DeliveryAssumption DEF BoundTypes
<1>. QED
  BY <1>1, <1>2, <1>3, <1>4, <1>5, <1>6, <1>7 DEF TypeInv

\* What the send thread puts in front of the queue
LEMMA AddFirstType ==
    ASSUME NEW queue \in Seq(Command), NEW c \in Command
    PROVE  AddFirst(c, queue) \in Seq(Command)
BY DEF AddFirst

LEMMA TailType ==
    ASSUME NEW S, NEW s \in Seq(S), s # <<>>
    PROVE  Tail(s) \in Seq(S) /\ Head(s) \in S
OBVIOUS

LEMMA AppendType ==
    ASSUME NEW S, NEW s \in Seq(S), NEW e \in S
    PROVE  Append(s, e) \in Seq(S)
OBVIOUS

LEMMA CommandTypes ==
    /\ Disconnect \in Command /\ Connect(0) \in Command /\ Connect(4) \in Command
    /\ \A id \in MsgId, m \in Sent : [type |-> "PUBLISH", id |-> id, msg |-> m] \in Command
    /\ \A c \in Command : c.type = "PUBLISH" => c.id \in MsgId /\ c.msg \in Sent
BY DEF Command, Connect, Disconnect

LEMMA CloseTypes ==
    ASSUME Close, LinkTypes
    PROVE  LinkTypes' /\ b_up' = FALSE /\ connected' = FALSE /\ connect_state' = 0
BY DEF Close, LinkTypes

LEMMA CloseSessionTypes ==
    ASSUME NEW queue \in Seq(Command), NEW then \in Seq(Command), NEW messages \in Seq(Incoming),
           CloseSession(queue, then, messages), TypeInv
    PROVE  /\ LinkTypes' /\ b_up' = FALSE /\ connected' = FALSE /\ connect_state' = 0
           /\ SendTypes' /\ SessionTypes'
<1>1. Close
  BY DEF CloseSession
<1>2. /\ commands' \in Seq(Command) /\ responses' \in Seq(Response)
      /\ msgID' \in 0..MaxMsgId /\ outboundMsgs' \in Seq(Entries(Sent))
      /\ inboundMsgs' \in Seq(Inbox) /\ messageQueue' \in Seq(Incoming)
  <2>1. CASE CleanSession
    BY <2>1, DeliveryAssumption DEF CloseSession, DiscardSession
  <2>2. CASE ~CleanSession
    <3>1. then \o queue \in Seq(Command)
      OBVIOUS
    <3>. QED
      BY <2>2, <3>1 DEF CloseSession, TypeInv, SendTypes, SessionTypes
  <2>. QED
    BY <2>1, <2>2
<1>3. SendTypes' /\ SessionTypes'
  BY <1>2 DEF SendTypes, SessionTypes
<1>. QED
  BY <1>1, <1>2, <1>3, CloseTypes DEF TypeInv

LEMMA ConnectFailedTypes ==
    ASSUME NEW messages \in Seq(Incoming), ConnectFailed(messages), TypeInv
    PROVE  /\ LinkTypes' /\ BrokerTypes' /\ ConnTypes' /\ SendTypes' /\ SessionTypes'
           /\ gave_up' \in BOOLEAN /\ UNCHANGED b_unacked
           /\ b_up' = FALSE /\ connected' = FALSE /\ connect_state' = 0 /\ Close
<1>1. CASE version = 4
  <2>1. /\ Close /\ commands' = AddFirst(Connect(4), commands) /\ messageQueue' = messages
        /\ UNCHANGED <<msgID, outboundMsgs, inboundMsgs, responses>>
    BY <1>1 DEF ConnectFailed
  <2>2. SendTypes'
    BY <2>1, AddFirstType, CommandTypes DEF TypeInv, SendTypes
  <2>3. SessionTypes'
    BY <2>1 DEF TypeInv, SessionTypes
  <2>4. LinkTypes' /\ b_up' = FALSE /\ connected' = FALSE /\ connect_state' = 0
    BY <2>1, CloseTypes DEF TypeInv
  <2>5. gave_up' \in BOOLEAN /\ version' = version /\ b_received' = b_received /\ b_unacked' = b_unacked
    BY DEF ConnectFailed
  <2>. QED
    BY <2>1, <2>2, <2>3, <2>4, <2>5 DEF TypeInv, ConnTypes, BrokerTypes
<1>2. CASE version # 4
  <2>1. CloseSession(commands, <<>>, messages)
    BY <1>2 DEF ConnectFailed
  <2>2. /\ LinkTypes' /\ b_up' = FALSE /\ connected' = FALSE /\ connect_state' = 0
        /\ SendTypes' /\ SessionTypes'
    <3>1. commands \in Seq(Command) /\ <<>> \in Seq(Command)
      BY DEF TypeInv, SendTypes
    <3>. QED
      BY <2>1, <3>1, CloseSessionTypes
  <2>3. gave_up' \in BOOLEAN /\ version' = version /\ b_received' = b_received /\ b_unacked' = b_unacked
    BY DEF ConnectFailed
  <2>4. Close
    BY <2>1 DEF CloseSession
  <2>. QED
    BY <2>2, <2>3, <2>4 DEF TypeInv, ConnTypes, BrokerTypes
<1>. QED
  BY <1>1, <1>2

LEMMA PacketTypes ==
    /\ \A id \in MsgId, dup \in BOOLEAN, m \in Sent : Publish(id, dup, m) \in ToBroker
    /\ \A id \in Nat, t \in {"PUBREL", "PUBACK", "PUBREC", "PUBCOMP"} : Packet(t, id) \in ToBroker
    /\ \A id \in Nat, dup \in BOOLEAN, m \in Incoming : Publish(id, dup, m) \in ToClient
    /\ \A id \in Nat, t \in {"CONNACK", "PUBREL", "PUBACK", "PUBREC", "PUBCOMP"} :
          /\ Packet(t, id) \in ToClient
          /\ \A dup \in BOOLEAN : [Packet(t, id) EXCEPT !.dup = dup] \in ToClient
    /\ [type |-> "CONNECT"] \in ToBroker
    /\ \A p \in ToBroker : /\ p.type = "PUBLISH" => p.id \in MsgId /\ p.msg \in Sent
                           /\ p.type # "CONNECT" => p.id \in Nat
    /\ \A p \in ToClient : /\ p.type = "PUBLISH" => p.msg \in Incoming
                           /\ p.id \in Nat /\ p.dup \in BOOLEAN
<1>1. /\ \A id \in MsgId, dup \in BOOLEAN, m \in Sent : Publish(id, dup, m) \in ToBroker
      /\ \A id \in Nat, t \in {"PUBREL", "PUBACK", "PUBREC", "PUBCOMP"} : Packet(t, id) \in ToBroker
      /\ [type |-> "CONNECT"] \in ToBroker
  BY DEF Publish, Packet, ToBroker
<1>2. \A id \in Nat, dup \in BOOLEAN, m \in Incoming : Publish(id, dup, m) \in ToClient
  BY DEF Publish, ToClient
<1>3. \A id \in Nat, t \in {"CONNACK", "PUBREL", "PUBACK", "PUBREC", "PUBCOMP"} :
          /\ Packet(t, id) \in ToClient
          /\ \A dup \in BOOLEAN : [Packet(t, id) EXCEPT !.dup = dup] \in ToClient
  BY DEF Packet, ToClient
<1>4. \A p \in ToBroker : /\ p.type = "PUBLISH" => p.id \in MsgId /\ p.msg \in Sent
                          /\ p.type # "CONNECT" => p.id \in Nat
  <2>. TAKE p \in ToBroker
  <2>1. CASE p \in [type : {"CONNECT"}]
    BY <2>1
  <2>2. CASE p \in [type : {"PUBLISH"}, id : MsgId, dup : BOOLEAN, msg : Sent]
    BY <2>2, DeliveryAssumption DEF MsgId
  <2>3. CASE p \in [type : {"PUBREL", "PUBACK", "PUBREC", "PUBCOMP"}, id : Nat, dup : {FALSE}]
    BY <2>3
  <2>. QED
    BY <2>1, <2>2, <2>3 DEF ToBroker
<1>5. \A p \in ToClient : /\ p.type = "PUBLISH" => p.msg \in Incoming
                          /\ p.id \in Nat /\ p.dup \in BOOLEAN
  BY DEF ToClient
<1>. QED
  BY <1>1, <1>2, <1>3, <1>4, <1>5

\* The ids that may be taken next, and the one that is
LEMMA NextIdProps ==
    ASSUME TypeInv, NextMsgId # 0
    PROVE  /\ NextMsgId \in MsgId /\ ~IdInUse(NextMsgId)
           /\ msgID < MaxMsgId /\ ~IdInUse(msgID + 1) => NextMsgId = msgID + 1
<1>1. FreeSteps \in SUBSET Nat /\ FreeSteps # {}
  BY DeliveryAssumption DEF NextMsgId, FreeSteps
<1>2. \E k \in FreeSteps : \A j \in FreeSteps : k <= j
  BY <1>1, Least
<1>. DEFINE k0 == CHOOSE k \in FreeSteps : \A j \in FreeSteps : k <= j
<1>3. k0 \in FreeSteps /\ \A j \in FreeSteps : k0 <= j
  BY <1>2
<1>4. NextMsgId = Following(k0)
  BY <1>1 DEF NextMsgId
<1>. HIDE DEF k0
<1>5. msgID \in 0..MaxMsgId /\ MaxMsgId \in Nat \ {0, 1} /\ k0 \in Nat \ {0}
  BY <1>1, <1>3, DeliveryAssumption DEF TypeInv, SessionTypes, FreeSteps
<1>6. Following(k0) \in MsgId
  <2>1. (msgID + k0 - 1) \in Nat
    BY <1>5
  <2>2. (msgID + k0 - 1) % MaxMsgId \in 0..MaxMsgId - 1
    BY <1>5, <2>1
  <2>. QED
    BY <1>5, <2>2 DEF Following, MsgId
<1>7. ~IdInUse(Following(k0))
  BY <1>3 DEF FreeSteps
<1>8. ASSUME msgID < MaxMsgId, ~IdInUse(msgID + 1)
      PROVE  Following(k0) = msgID + 1
  <2>1. Following(1) = msgID + 1
    <3>1. msgID + 1 - 1 = msgID /\ msgID % MaxMsgId = msgID
      BY <1>5, <1>8
    <3>. QED
      BY <3>1 DEF Following
  <2>2. 1 \in FreeSteps
    BY <1>5, <1>8, <2>1 DEF FreeSteps
  <2>3. k0 = 1
    BY <1>3, <1>5, <2>2
  <2>. QED
    BY <2>1, <2>3
<1>. QED
  BY <1>4, <1>6, <1>7, <1>8

\* Fewer places than things: two things have one place
LEMMA Places ==
    ASSUME NEW n \in Nat, NEW k \in Nat, n < k, NEW f \in [1..k -> 1..n]
    PROVE  \E x, y \in 1..k : x # y /\ f[x] = f[y]
<1>. DEFINE S == 1..k
            T == 1..n
<1>1. IsFiniteSet(S) /\ Cardinality(S) = k
  <2>1. 1 \in Int /\ k \in Int /\ (IF 1 > k THEN 0 ELSE k - 1 + 1) = k
    OBVIOUS
  <2>. QED
    BY <2>1, FS_Interval
<1>2. IsFiniteSet(T) /\ Cardinality(T) = n
  <2>1. 1 \in Int /\ n \in Int /\ (IF 1 > n THEN 0 ELSE n - 1 + 1) = n
    OBVIOUS
  <2>. QED
    BY <2>1, FS_Interval
<1>3. f \in [S -> T] /\ Cardinality(T) < Cardinality(S)
  BY <1>1, <1>2
<1>. HIDE DEF S, T
<1>4. \E x, y \in S : x # y /\ f[x] = f[y]
  BY <1>1, <1>2, <1>3, FS_PigeonHole
<1>. QED
  BY <1>4 DEF S

\* The broker has an id for what it sends: a message under way for each would be
\* more than there are
LEMMA BrokerHasId ==
    ASSUME TypeInv, incoming < MaxIncoming
    PROVE  \E i \in 1..(MaxIncoming + 1) :
              ~HasId(b_unacked, i) /\ \A j \in 1..(i - 1) : HasId(b_unacked, j)
<1>. DEFINE n == Len(b_unacked)
            All == 1..(MaxIncoming + 1)
            Unused == {i \in All : ~HasId(b_unacked, i)}
<1>1. /\ MaxIncoming \in Nat /\ incoming \in Nat /\ n \in Nat /\ n <= incoming
      /\ b_unacked \in Seq(Owing)
  BY DeliveryAssumption DEF TypeInv, BrokerTypes, Owed1, BoundTypes
<1>2. Unused # {}
  <2>. SUFFICES ASSUME Unused = {} PROVE FALSE
    OBVIOUS
  <2>. DEFINE f == [i \in All |-> IndexOf(b_unacked, i)]
  <2>1. \A i \in All : f[i] \in 1..n /\ b_unacked[f[i]].id = i
    BY <1>1, IndexOfFirst
  <2>2. f \in [All -> 1..n]
    BY <2>1
  <2>5. n < MaxIncoming + 1 /\ MaxIncoming + 1 \in Nat /\ n \in Nat
    BY <1>1
  <2>. HIDE DEF f, n
  <2>6. \E x, y \in 1..(MaxIncoming + 1) : x # y /\ f[x] = f[y]
    BY <2>2, <2>5, Places
  <2>. QED
    BY <2>1, <2>6
<1>3. PICK i \in Unused : \A j \in Unused : i <= j
  <2>1. Unused \in SUBSET Nat
    BY <1>1
  <2>. QED
    BY <1>2, <2>1, Least
<1>4. \A j \in 1..(i - 1) : HasId(b_unacked, j)
  BY <1>1, <1>3
<1>. QED
  BY <1>3, <1>4

LEMMA TypesSend ==
    ASSUME TypeInv
    PROVE  /\ \A q \in Qos : Send(q) => TypeInv'
           /\ StartConnect => TypeInv'
           /\ CannotConnect => TypeInv'
           /\ LoseConnection => TypeInv'
           /\ NothingToLose => TypeInv'
<1>. USE DEF TypeInv
<1>0. commands \in Seq(Command) /\ (commands # <<>> => Tail(commands) \in Seq(Command) /\ Head(commands) \in Command)
  BY TailType DEF SendTypes
<1>e. \A S : <<>> \in Seq(S)
  OBVIOUS
<1>1. ASSUME NEW q \in Qos, Send(q)
      PROVE  TypeInv'
  <2>1. /\ NextMsgId \in MsgId /\ sends' = sends + 1 /\ sends < MaxSends /\ msgID' = NextMsgId
        /\ commands' = Append(commands, [type |-> "PUBLISH", id |-> NextMsgId,
                                         msg |-> [seq |-> sends + 1, qos |-> q]])
    BY <1>1, NextIdProps DEF Send
  <2>2. [seq |-> sends + 1, qos |-> q] \in Sent
    BY <2>1, DeliveryAssumption DEF BoundTypes, Sent
  <2>3. commands' \in Seq(Command)
    BY <1>0, <2>1, <2>2, CommandTypes
  <2>4. SendTypes' /\ SessionTypes' /\ BoundTypes'
    BY <1>1, <2>1, <2>3, DeliveryAssumption DEF Send, SendTypes, SessionTypes, BoundTypes, MsgId
  <2>. QED
    BY <1>1, <2>4, TypesKept DEF Send
<1>2. ASSUME StartConnect
      PROVE  TypeInv'
  <2>1. commands' \in Seq(Command) /\ pack' \in {pack, "none"} /\ version' \in {0, 3, 4}
    BY <1>0, <1>2 DEF StartConnect, NextIs, VersionToTry
  <2>2. to_broker' \in Seq(ToBroker) /\ to_client' \in Seq(ToClient)
    BY <1>e, <1>2, PacketTypes DEF StartConnect
  <2>3. SendTypes' /\ PackTypes' /\ ConnTypes' /\ LinkTypes'
    BY <1>2, <2>1, <2>2 DEF StartConnect, SendTypes, PackTypes, ConnTypes, LinkTypes
  <2>. QED
    BY <1>2, <2>3, TypesKept DEF StartConnect
<1>3. ASSUME CannotConnect
      PROVE  TypeInv'
  <2>1. commands' \in Seq(Command)
    BY <1>0, <1>3, CommandTypes DEF CannotConnect, NextIs
  <2>2. SendTypes' /\ BoundTypes' /\ HistoryTypes'
    BY <1>3, <2>1 DEF CannotConnect, SendTypes, BoundTypes, HistoryTypes
  <2>. QED
    BY <1>3, <2>2, TypesKept DEF CannotConnect
<1>4. ASSUME LoseConnection
      PROVE  TypeInv'
  <2>. DEFINE then == IF connected THEN <<Connect(0)>> ELSE <<>>
  <2>1. then \in Seq(Command) /\ Tail(commands) \in Seq(Command) /\ messageQueue \in Seq(Incoming)
    BY <1>0, <1>4, <1>e, CommandTypes DEF LoseConnection, NextIs, SessionTypes
  <2>2. CloseSession(Tail(commands), then, messageQueue)
    BY <1>4 DEF LoseConnection
  <2>3. /\ LinkTypes' /\ b_up' = FALSE /\ connected' = FALSE /\ connect_state' = 0
        /\ SendTypes' /\ SessionTypes'
    BY <2>1, <2>2, CloseSessionTypes
  <2>4. ConnTypes' /\ BrokerTypes'
    BY <1>4, <2>3 DEF LoseConnection, ConnTypes, BrokerTypes
  <2>. QED
    BY <1>4, <2>3, <2>4, TypesKept DEF LoseConnection
<1>5. ASSUME NothingToLose
      PROVE  TypeInv'
  <2>1. SendTypes'
    BY <1>0, <1>5 DEF NothingToLose, NextIs, SendTypes
  <2>. QED
    BY <1>5, <2>1, TypesKept DEF NothingToLose
<1>. QED
  BY <1>1, <1>2, <1>3, <1>4, <1>5

LEMMA TypesSend2 ==
    ASSUME TypeInv
    PROVE  /\ PublishCommand => TypeInv'
           /\ PublishFails => TypeInv'
           /\ ConnectTimeout => TypeInv'
           /\ Break => TypeInv'
           /\ PingTimeout => TypeInv'
<1>. USE DEF TypeInv
<1>0. commands \in Seq(Command) /\ (commands # <<>> => Tail(commands) \in Seq(Command) /\ Head(commands) \in Command)
  BY TailType DEF SendTypes
<1>e. \A S : <<>> \in Seq(S)
  OBVIOUS
<1>1. ASSUME CanPublish, Stored(Head(commands))
      PROVE  /\ outboundMsgs' \in Seq(Entries(Sent)) /\ Head(commands).id \in MsgId
             /\ Head(commands).msg \in Sent /\ Tail(commands) \in Seq(Command)
  <2>1. Head(commands).id \in MsgId /\ Head(commands).msg \in Sent /\ Tail(commands) \in Seq(Command)
    BY <1>0, <1>1, CommandTypes DEF CanPublish, NextIs
  <2>2. [id |-> Head(commands).id, msg |-> Head(commands).msg, next |-> "PUBREC"] \in Entries(Sent)
    BY <2>1 DEF Entries
  <2>3. outboundMsgs \in Seq(Entries(Sent))
    BY DEF SessionTypes
  <2>. QED
    BY <1>1, <2>1, <2>2, <2>3 DEF Stored
<1>2. ASSUME PublishCommand
      PROVE  TypeInv'
  <2>1. /\ CanPublish /\ Stored(Head(commands)) /\ commands' = Tail(commands)
        /\ responses' = Append(responses, [id |-> Head(commands).id, msg |-> Head(commands).msg])
        /\ to_broker' = IF link = "open"
                        THEN Append(to_broker, Publish(Head(commands).id, FALSE, Head(commands).msg))
                        ELSE to_broker
    BY <1>2 DEF PublishCommand
  <2>2. /\ outboundMsgs' \in Seq(Entries(Sent)) /\ Head(commands).id \in MsgId
        /\ Head(commands).msg \in Sent /\ Tail(commands) \in Seq(Command)
    BY <1>1, <2>1
  <2>3. responses' \in Seq(Response)
    <3>1. [id |-> Head(commands).id, msg |-> Head(commands).msg] \in Response
      BY <2>2 DEF Response
    <3>2. responses \in Seq(Response)
      BY DEF SendTypes
    <3>. QED
      BY <2>1, <3>1, <3>2
  <2>4. to_broker' \in Seq(ToBroker)
    <3>1. Publish(Head(commands).id, FALSE, Head(commands).msg) \in ToBroker
      BY <2>2, PacketTypes
    <3>2. to_broker \in Seq(ToBroker)
      BY DEF LinkTypes
    <3>. QED
      BY <2>1, <3>1, <3>2, AppendType
  <2>5. SendTypes' /\ SessionTypes' /\ LinkTypes'
    BY <1>2, <2>1, <2>2, <2>3, <2>4 DEF PublishCommand, SendTypes, SessionTypes, LinkTypes
  <2>. QED
    BY <1>2, <2>5, TypesKept DEF PublishCommand
<1>3. ASSUME PublishFails
      PROVE  TypeInv'
  <2>1. /\ CanPublish /\ Stored(Head(commands)) /\ commands' = AddFirst(Disconnect, Tail(commands))
        /\ failed' = failed \cup {Head(commands).msg}
    BY <1>3 DEF PublishFails
  <2>2. /\ outboundMsgs' \in Seq(Entries(Sent)) /\ Head(commands).msg \in Sent
        /\ Tail(commands) \in Seq(Command)
    BY <1>1, <2>1
  <2>3. commands' \in Seq(Command)
    BY <2>1, <2>2, AddFirstType, CommandTypes
  <2>4. SendTypes' /\ SessionTypes' /\ HistoryTypes'
    BY <1>3, <2>1, <2>2, <2>3 DEF PublishFails, SendTypes, SessionTypes, HistoryTypes
  <2>. QED
    BY <1>3, <2>4, TypesKept DEF PublishFails
<1>4. ASSUME ConnectTimeout
      PROVE  TypeInv'
  <2>1. /\ LinkTypes' /\ BrokerTypes' /\ ConnTypes' /\ SendTypes' /\ SessionTypes'
        /\ gave_up' \in BOOLEAN /\ UNCHANGED b_unacked
    BY <1>4, ConnectFailedTypes DEF ConnectTimeout, SessionTypes
  <2>2. BoundTypes' /\ HistoryTypes'
    BY <1>4, <2>1 DEF ConnectTimeout, BoundTypes, HistoryTypes
  <2>. QED
    BY <1>4, <2>1, <2>2, TypesKept DEF ConnectTimeout
<1>5. ASSUME Break
      PROVE  TypeInv'
  <2>1. LinkTypes'
    BY <1>5, <1>e DEF Break, LinkTypes
  <2>2. BrokerTypes'
    BY <1>5 DEF Break, BrokerTypes
  <2>3. BoundTypes'
    BY <1>5 DEF Break, BoundTypes
  <2>. QED
    BY <1>5, <2>1, <2>2, <2>3, TypesKept DEF Break
<1>6. ASSUME PingTimeout
      PROVE  TypeInv'
  <2>1. SendTypes'
    BY <1>0, <1>6, AddFirstType, CommandTypes DEF PingTimeout, SendTypes
  <2>2. BoundTypes'
    BY <1>6 DEF PingTimeout, BoundTypes
  <2>. QED
    BY <1>6, <2>1, <2>2, TypesKept DEF PingTimeout
<1>. QED
  BY <1>2, <1>3, <1>4, <1>5, <1>6

LEMMA ReadsProps ==
    ASSUME NEW type, Reads(type), LinkTypes
    PROVE  /\ Head(to_client) \in ToClient /\ Head(to_client).type = type
           /\ to_client' \in Seq(ToClient) /\ pack = "none" /\ to_client # <<>>
BY TailType DEF Reads, LinkTypes

\* What the receive thread answers
LEMMA AnswerTypes ==
    ASSUME NEW p \in ToBroker, Answer(p), LinkTypes
    PROVE  to_broker' \in Seq(ToBroker)
BY AppendType DEF Answer, LinkTypes

LEMMA DeliverTypes ==
    ASSUME NEW m \in Incoming, NEW ok \in BOOLEAN, ProcessPublication(m, ok),
           messageQueue \in Seq(Incoming), arrived \in Seq(Incoming), refusals \in Nat
    PROVE  messageQueue' \in Seq(Incoming) /\ arrived' \in Seq(Incoming) /\ refusals' \in Nat
<1>1. Append(arrived, m) \in Seq(Incoming) /\ Append(messageQueue, m) \in Seq(Incoming)
  BY AppendType
<1>. QED
  BY <1>1 DEF ProcessPublication

LEMMA DeliverHeadTypes ==
    ASSUME NEW ok \in BOOLEAN, DeliverHead(ok),
           messageQueue \in Seq(Incoming), arrived \in Seq(Incoming), refusals \in Nat
    PROVE  AfterDelivery(ok) \in Seq(Incoming) /\ arrived' \in Seq(Incoming) /\ refusals' \in Nat
<1>1. messageQueue # <<>> => /\ Tail(messageQueue) \in Seq(Incoming)
                             /\ Append(arrived, Head(messageQueue)) \in Seq(Incoming)
  BY TailType, AppendType
<1>. QED
  BY <1>1 DEF DeliverHead, AfterDelivery

LEMMA TypesReceive ==
    ASSUME TypeInv
    PROVE  /\ RecvPublish1 => TypeInv'
           /\ RecvPublish2 => TypeInv'
           /\ RecvPubrel => TypeInv'
           /\ RecvStrayPubrel => TypeInv'
<1>. USE DEF TypeInv
<1>1. ASSUME RecvPublish1
      PROVE  TypeInv'
  <2>1. /\ Head(to_client) \in ToClient /\ Head(to_client).type = "PUBLISH" /\ to_client' \in Seq(ToClient)
    BY <1>1, ReadsProps DEF RecvPublish1
  <2>2. Head(to_client).msg \in Incoming /\ Head(to_client).id \in Nat
    BY <2>1, PacketTypes
  <2>3. to_broker' \in Seq(ToBroker)
    <3>1. Packet("PUBACK", Head(to_client).id) \in ToBroker
      BY <2>2, PacketTypes
    <3>. QED
      BY <1>1, <3>1, AnswerTypes DEF RecvPublish1
  <2>4. messageQueue' \in Seq(Incoming) /\ arrived' \in Seq(Incoming) /\ refusals' \in Nat
    BY <1>1, <2>2, DeliverTypes DEF RecvPublish1, SessionTypes, HistoryTypes, BoundTypes
  <2>5. PackTypes' /\ LinkTypes' /\ SessionTypes'
    BY <1>1, <2>1, <2>3, <2>4 DEF RecvPublish1, PackTypes, LinkTypes, SessionTypes
  <2>6. BoundTypes' /\ HistoryTypes'
    BY <1>1, <2>4 DEF RecvPublish1, BoundTypes, HistoryTypes
  <2>. QED
    BY <1>1, <2>5, <2>6, TypesKept DEF RecvPublish1
<1>2. ASSUME RecvPublish2
      PROVE  TypeInv'
  <2>. DEFINE p == Head(to_client)
              e == [id |-> p.id, msg |-> p.msg]
  <2>1. /\ p \in ToClient /\ p.type = "PUBLISH" /\ to_client' \in Seq(ToClient)
    BY <1>2, ReadsProps DEF RecvPublish2
  <2>2. e \in Inbox /\ p.id \in Nat
    BY <2>1, PacketTypes DEF Inbox
  <2>3. to_broker' \in Seq(ToBroker)
    <3>1. Packet("PUBREC", p.id) \in ToBroker
      BY <2>2, PacketTypes
    <3>. QED
      BY <1>2, <3>1, AnswerTypes DEF RecvPublish2
  <2>4. inboundMsgs' \in Seq(Inbox)
    <3>1. inboundMsgs' = Inbound(e) /\ inboundMsgs \in Seq(Inbox)
      BY <1>2 DEF RecvPublish2, SessionTypes
    <3>. HIDE DEF e
    <3>2. CASE HasId(inboundMsgs, e.id)
      <4>1. IndexOf(inboundMsgs, e.id) \in 1..Len(inboundMsgs)
        BY <3>1, <3>2, IndexOfFirst
      <4>2. inboundMsgs' = [inboundMsgs EXCEPT ![IndexOf(inboundMsgs, e.id)] = e]
        BY <3>1, <3>2 DEF Inbound, ReplaceAt
      <4>. QED
        BY <2>2, <3>1, <4>1, <4>2
    <3>3. CASE ~HasId(inboundMsgs, e.id)
      BY <2>2, <3>1, <3>3, AppendType DEF Inbound
    <3>. QED
      BY <3>2, <3>3
  <2>5. PackTypes' /\ LinkTypes' /\ SessionTypes'
    BY <1>2, <2>1, <2>3, <2>4 DEF RecvPublish2, PackTypes, LinkTypes, SessionTypes
  <2>. QED
    BY <1>2, <2>5, TypesKept DEF RecvPublish2
<1>3. ASSUME RecvPubrel
      PROVE  TypeInv'
  <2>. DEFINE id == Head(to_client).id
              x == inboundMsgs[IndexOf(inboundMsgs, id)]
  <2>1. /\ Head(to_client) \in ToClient /\ to_client' \in Seq(ToClient)
        /\ inboundMsgs \in Seq(Inbox) /\ HasId(inboundMsgs, id)
    BY <1>3, ReadsProps DEF RecvPubrel, SessionTypes
  <2>2. id \in Nat /\ x.msg \in Incoming
    <3>1. IndexOf(inboundMsgs, id) \in 1..Len(inboundMsgs)
      BY <2>1, IndexOfFirst
    <3>2. x \in Inbox
      BY <2>1, <3>1
    <3>. QED
      BY <2>1, <3>2, PacketTypes DEF Inbox
  <2>3. to_broker' \in Seq(ToBroker)
    <3>1. Packet("PUBCOMP", id) \in ToBroker
      BY <2>2, PacketTypes
    <3>. QED
      BY <1>3, <3>1, AnswerTypes DEF RecvPubrel
  <2>4. messageQueue' \in Seq(Incoming) /\ arrived' \in Seq(Incoming) /\ refusals' \in Nat
    BY <1>3, <2>2, DeliverTypes DEF RecvPubrel, SessionTypes, HistoryTypes, BoundTypes
  <2>5. inboundMsgs' \in Seq(Inbox)
    BY <1>3, <2>1, WithinWithout DEF RecvPubrel
  <2>6. PackTypes' /\ LinkTypes' /\ SessionTypes'
    BY <1>3, <2>1, <2>3, <2>4, <2>5 DEF RecvPubrel, PackTypes, LinkTypes, SessionTypes
  <2>7. BoundTypes' /\ HistoryTypes'
    BY <1>3, <2>4 DEF RecvPubrel, BoundTypes, HistoryTypes
  <2>. QED
    BY <1>3, <2>6, <2>7, TypesKept DEF RecvPubrel
<1>4. ASSUME RecvStrayPubrel
      PROVE  TypeInv'
  <2>1. Head(to_client) \in ToClient /\ to_client' \in Seq(ToClient) /\ AnswerStray
    BY <1>4, ReadsProps DEF RecvStrayPubrel
  <2>2. to_broker' \in Seq(ToBroker)
    <3>1. Packet("PUBCOMP", Head(to_client).id) \in ToBroker
      BY <2>1, PacketTypes
    <3>. QED
      BY <2>1, <3>1, AnswerTypes DEF AnswerStray, LinkTypes
  <2>3. PackTypes' /\ LinkTypes'
    BY <1>4, <2>1, <2>2 DEF RecvStrayPubrel, PackTypes, LinkTypes
  <2>. QED
    BY <1>4, <2>3, TypesKept DEF RecvStrayPubrel
<1>. QED
  BY <1>1, <1>2, <1>3, <1>4

LEMMA RecordedType ==
    ASSUME outboundMsgs \in Seq(Entries(Sent)), NEW id, HasId(outboundMsgs, id), Recorded(id)
    PROVE  /\ outboundMsgs' \in Seq(Entries(Sent)) /\ Len(outboundMsgs') = Len(outboundMsgs)
           /\ \A i \in 1..Len(outboundMsgs) :
                 /\ i # IndexOf(outboundMsgs, id) => outboundMsgs'[i] = outboundMsgs[i]
                 /\ outboundMsgs'[i].id = outboundMsgs[i].id
                 /\ outboundMsgs'[i].msg = outboundMsgs[i].msg
           /\ outboundMsgs'[IndexOf(outboundMsgs, id)].next = "PUBCOMP"
<1>. DEFINE p == IndexOf(outboundMsgs, id)
            e == [outboundMsgs[p] EXCEPT !.next = "PUBCOMP"]
<1>1. p \in 1..Len(outboundMsgs) /\ Len(outboundMsgs) \in Nat
  BY IndexOfFirst
<1>2. outboundMsgs' = [outboundMsgs EXCEPT ![p] = e]
  BY DEF Recorded
<1>. HIDE DEF p
<1>3. outboundMsgs[p] \in Entries(Sent)
  BY <1>1
<1>4. /\ e \in Entries(Sent) /\ e.id = outboundMsgs[p].id /\ e.msg = outboundMsgs[p].msg
      /\ e.next = "PUBCOMP"
  BY <1>3 DEF Entries
<1>. HIDE DEF e
<1>5. outboundMsgs' \in Seq(Entries(Sent)) /\ Len(outboundMsgs') = Len(outboundMsgs)
  BY <1>1, <1>2, <1>4
<1>6. \A i \in 1..Len(outboundMsgs) : outboundMsgs'[i] = IF i = p THEN e ELSE outboundMsgs[i]
  BY <1>1, <1>2
<1>. QED
  BY <1>1, <1>4, <1>5, <1>6 DEF p

LEMMA TypesReceive2 ==
    ASSUME TypeInv
    PROVE  /\ RecvPubrec => TypeInv'
           /\ RecvPuback => TypeInv'
           /\ RecvPubcomp => TypeInv'
           /\ RecvPingresp => TypeInv'
           /\ RecvConnack => TypeInv'
<1>. USE DEF TypeInv
<1>0. outboundMsgs \in Seq(Entries(Sent)) /\ responses \in Seq(Response) /\ to_broker \in Seq(ToBroker)
  BY DEF SessionTypes, SendTypes, LinkTypes
<1>1. ASSUME RecvPubrec
      PROVE  TypeInv'
  <2>. DEFINE id == Head(to_client).id
  <2>1. Head(to_client) \in ToClient /\ to_client' \in Seq(ToClient)
    BY <1>1, ReadsProps DEF RecvPubrec
  <2>2. outboundMsgs' \in Seq(Entries(Sent)) /\ to_broker' \in Seq(ToBroker)
    <3>1. CASE Expecting("PUBREC", id, 2)
      <4>1. Recorded(id) /\ Answer(Packet("PUBREL", id)) /\ HasId(outboundMsgs, id)
        BY <1>1, <3>1 DEF RecvPubrec, Expecting
      <4>2. Packet("PUBREL", id) \in ToBroker
        BY <2>1, PacketTypes
      <4>. QED
        BY <1>0, <4>1, <4>2, AnswerTypes, RecordedType
    <3>2. CASE ~Expecting("PUBREC", id, 2)
      BY <1>0, <1>1, <3>2 DEF RecvPubrec
    <3>. QED
      BY <3>1, <3>2
  <2>3. PackTypes' /\ LinkTypes' /\ SessionTypes'
    BY <1>1, <2>1, <2>2 DEF RecvPubrec, PackTypes, LinkTypes, SessionTypes
  <2>. QED
    BY <1>1, <2>3, TypesKept DEF RecvPubrec
<1>2. ASSUME NEW t \in {"PUBACK", "PUBCOMP"}, NEW q \in {1, 2}, RecvEnd(t, q)
      PROVE  TypeInv'
  <2>. DEFINE id == Head(to_client).id
  <2>1. Head(to_client) \in ToClient /\ to_client' \in Seq(ToClient)
    BY <1>2, ReadsProps DEF RecvEnd
  <2>2. outboundMsgs' \in Seq(Entries(Sent))
    BY <1>0, <1>2, WithinWithout DEF RecvEnd
  <2>3. responses' \in Seq(Response)
    BY <1>0, <1>2, WithinWithout DEF RecvEnd, Completed
  <2>4. succeeded' \subseteq Sent
    <3>1. succeeded \subseteq Sent
      BY DEF HistoryTypes
    <3>2. CASE HasId(responses, id)
      <4>1. IndexOf(responses, id) \in 1..Len(responses)
        BY <1>0, <3>2, IndexOfFirst
      <4>2. responses[IndexOf(responses, id)] \in Response
        BY <1>0, <4>1
      <4>. QED
        BY <1>2, <3>1, <3>2, <4>2 DEF RecvEnd, Completed, Response
    <3>3. CASE ~HasId(responses, id)
      BY <1>2, <3>1, <3>3 DEF RecvEnd, Completed
    <3>. QED
      BY <3>2, <3>3
  <2>5. PackTypes' /\ LinkTypes' /\ SessionTypes' /\ SendTypes' /\ HistoryTypes'
    BY <1>2, <2>1, <2>2, <2>3, <2>4 DEF RecvEnd, PackTypes, LinkTypes, SessionTypes, SendTypes, HistoryTypes
  <2>. QED
    BY <1>2, <2>5, TypesKept DEF RecvEnd
<1>3. ASSUME RecvPingresp
      PROVE  TypeInv'
  BY <1>3, TypesKept DEF RecvPingresp, PackTypes
<1>4. ASSUME RecvConnack
      PROVE  TypeInv'
  <2>1. to_client' \in Seq(ToClient)
    BY <1>4, ReadsProps DEF RecvConnack
  <2>2. PackTypes' /\ LinkTypes'
    BY <1>4, <2>1 DEF RecvConnack, PackTypes, LinkTypes
  <2>. QED
    BY <1>4, <2>2, TypesKept DEF RecvConnack
<1>. QED
  BY <1>1, <1>2, <1>3, <1>4 DEF RecvPuback, RecvPubcomp

LEMMA ConcatParts ==
    ASSUME NEW S, NEW s \in Seq(S), NEW t \in Seq(S)
    PROVE  /\ s \o t \in Seq(S) /\ Len(s \o t) = Len(s) + Len(t)
           /\ \A i \in 1..Len(s) : (s \o t)[i] = s[i]
           /\ \A i \in 1..Len(t) : (s \o t)[Len(s) + i] = t[i]
<1>. DEFINE n == Len(s)
            m == Len(t)
            u == s \o t
<1>1. /\ n \in Nat /\ m \in Nat /\ u \in Seq(S) /\ Len(u) = n + m
      /\ \A i \in 1..n + m : u[i] = IF i <= n THEN s[i] ELSE t[i - n]
  BY ConcatProperties
<1>. HIDE DEF n, m, u
<1>2. \A i \in 1..n : u[i] = s[i]
  BY <1>1
<1>3. \A i \in 1..m : u[n + i] = t[i]
  <2>. TAKE i \in 1..m
  <2>1. n + i \in 1..n + m /\ ~(n + i <= n) /\ n + i - n = i
    BY <1>1
  <2>. QED
    BY <1>1, <2>1
<1>. QED
  BY <1>1, <1>2, <1>3 DEF n, m, u

\* What is sent again
LEMMA AgainType ==
    ASSUME NEW m \in Entries(Sent)
    PROVE  /\ Again(m) \in ToBroker /\ Again(m).id = m.id
           /\ Again(m).type \in {"PUBLISH", "PUBREL"}
           /\ Again(m).type = "PUBLISH" => /\ Again(m).msg = m.msg
                                           /\ m.msg.qos = 1 \/ m.next = "PUBREC"
           /\ Again(m).type = "PUBREL" => m.msg.qos = 2 /\ m.next = "PUBCOMP"
<1>1. m.id \in MsgId /\ m.msg \in Sent /\ m.next \in {"PUBREC", "PUBCOMP"} /\ m.id \in Nat
  BY DeliveryAssumption DEF Entries, MsgId
<1>2. m.msg.qos \in {1, 2}
  BY <1>1, DeliveryAssumption DEF Sent
<1>3. CASE m.msg.qos = 1 \/ m.next = "PUBREC"
  <2>1. Again(m) = Publish(m.id, TRUE, m.msg)
    BY <1>3 DEF Again
  <2>2. Again(m) \in ToBroker
    BY <1>1, <2>1, PacketTypes
  <2>3. Again(m).id = m.id /\ Again(m).type = "PUBLISH" /\ Again(m).msg = m.msg
    BY <2>1 DEF Publish
  <2>. QED
    BY <1>3, <2>2, <2>3
<1>4. CASE ~(m.msg.qos = 1 \/ m.next = "PUBREC")
  <2>1. Again(m) = Packet("PUBREL", m.id)
    BY <1>4 DEF Again
  <2>2. m.msg.qos = 2 /\ m.next = "PUBCOMP"
    BY <1>1, <1>2, <1>4
  <2>3. Again(m) \in ToBroker
    BY <1>1, <2>1, PacketTypes
  <2>4. Again(m).id = m.id /\ Again(m).type = "PUBREL"
    BY <2>1 DEF Packet
  <2>. QED
    BY <2>2, <2>3, <2>4
<1>. QED
  BY <1>3, <1>4

LEMMA ResumeType ==
    ASSUME outboundMsgs \in Seq(Entries(Sent)), to_broker \in Seq(ToBroker)
    PROVE  /\ Resume \in Seq(ToBroker) /\ Len(Resume) = Len(to_broker) + Len(outboundMsgs)
           /\ \A i \in 1..Len(to_broker) : Resume[i] = to_broker[i]
           /\ \A i \in 1..Len(outboundMsgs) : Resume[Len(to_broker) + i] = Again(outboundMsgs[i])
<1>. DEFINE t == [i \in 1..Len(outboundMsgs) |-> Again(outboundMsgs[i])]
            m == Len(outboundMsgs)
            n == Len(to_broker)
<1>1. t \in Seq(ToBroker) /\ Len(t) = m /\ m \in Nat /\ n \in Nat
  <2>1. \A i \in 1..Len(outboundMsgs) : Again(outboundMsgs[i]) \in ToBroker
    BY AgainType
  <2>. HIDE DEF Again
  <2>. QED
    BY <2>1
<1>2. \A i \in 1..m : t[i] = Again(outboundMsgs[i])
  <2>. HIDE DEF Again
  <2>. QED
    OBVIOUS
<1>3. Resume = to_broker \o t
  BY DEF Resume
<1>. HIDE DEF t
<1>4. /\ to_broker \o t \in Seq(ToBroker) /\ Len(to_broker \o t) = n + Len(t)
      /\ \A i \in 1..n : (to_broker \o t)[i] = to_broker[i]
      /\ \A i \in 1..Len(t) : (to_broker \o t)[n + i] = t[i]
  <2>1. to_broker \in Seq(ToBroker) /\ t \in Seq(ToBroker)
    BY <1>1
  <2>. DEFINE b == to_broker
              S == ToBroker
  <2>2. b \in Seq(S) /\ t \in Seq(S)
    BY <2>1
  <2>. HIDE DEF b, S
  <2>3. /\ b \o t \in Seq(S) /\ Len(b \o t) = Len(b) + Len(t)
        /\ \A i \in 1..Len(b) : (b \o t)[i] = b[i]
        /\ \A i \in 1..Len(t) : (b \o t)[Len(b) + i] = t[i]
    BY <2>2, ConcatParts
  <2>. QED
    BY <2>3 DEF b, S
<1>. QED
  BY <1>1, <1>2, <1>3, <1>4

LEMMA TypesTurn ==
    ASSUME TypeInv
    PROVE  /\ ReadFails => TypeInv'
           /\ TurnLost => TypeInv'
           /\ TurnFails => TypeInv'
           /\ TurnEnds => TypeInv'
           /\ ConnectionComplete => TypeInv'
           /\ ConnackUnexpected => TypeInv'
<1>. USE DEF TypeInv
<1>0. /\ commands \in Seq(Command) /\ messageQueue \in Seq(Incoming) /\ arrived \in Seq(Incoming)
      /\ refusals \in Nat /\ outboundMsgs \in Seq(Entries(Sent)) /\ to_broker \in Seq(ToBroker)
  BY DEF SendTypes, SessionTypes, HistoryTypes, BoundTypes, LinkTypes
<1>e. \A S : <<>> \in Seq(S)
  OBVIOUS
<1>1. ASSUME ReadFails
      PROVE  TypeInv'
  <2>1. CASE connect_state = 3
    <3>1. ConnectFailed(messageQueue) /\ pack' = "error"
      BY <1>1, <2>1 DEF ReadFails
    <3>2. /\ LinkTypes' /\ BrokerTypes' /\ ConnTypes' /\ SendTypes' /\ SessionTypes'
          /\ gave_up' \in BOOLEAN /\ UNCHANGED b_unacked
      BY <1>0, <3>1, ConnectFailedTypes
    <3>3. PackTypes' /\ HistoryTypes'
      BY <1>1, <3>1, <3>2 DEF ReadFails, PackTypes, HistoryTypes
    <3>. QED
      BY <1>1, <3>2, <3>3, TypesKept DEF ReadFails
  <2>2. CASE connect_state # 3
    <3>1. PackTypes' /\ UNCHANGED <<sendVars, connVars, sessionVars, linkVars, brokerVars, bounds, history>>
      BY <1>1, <2>2 DEF ReadFails, PackTypes
    <3>. QED
      BY <3>1, TypesKept
  <2>. QED
    BY <2>1, <2>2
<1>2. ASSUME TurnLost
      PROVE  TypeInv'
  BY <1>2, TypesKept DEF TurnLost, PackTypes
<1>3. ASSUME TurnFails
      PROVE  TypeInv'
  <2>1. PackTypes'
    BY <1>3 DEF TurnFails, PackTypes
  <2>2. CASE connected
    <3>1. SendTypes'
      BY <1>0, <1>3, <2>2, AddFirstType, CommandTypes DEF TurnFails, SendTypes
    <3>2. /\ UNCHANGED <<connVars, sessionVars, linkVars, brokerVars, bounds, history>>
      BY <1>3, <2>2 DEF TurnFails
    <3>. QED
      BY <2>1, <3>1, <3>2, TypesKept
  <2>3. CASE ~connected
    <3>1. Close /\ UNCHANGED <<sendVars, version, sessionVars, b_received, b_unacked, bounds, history>>
      BY <1>3, <2>3 DEF TurnFails
    <3>2. LinkTypes' /\ b_up' = FALSE /\ connected' = FALSE /\ connect_state' = 0
      BY <3>1, CloseTypes
    <3>3. ConnTypes' /\ BrokerTypes'
      BY <3>1, <3>2 DEF ConnTypes, BrokerTypes
    <3>. QED
      BY <2>1, <3>1, <3>2, <3>3, TypesKept
  <2>. QED
    BY <2>2, <2>3
<1>4. ASSUME TurnEnds
      PROVE  TypeInv'
  <2>1. PICK ok \in BOOLEAN : DeliverHead(ok) /\ messageQueue' = AfterDelivery(ok)
    BY <1>4 DEF TurnEnds
  <2>2. messageQueue' \in Seq(Incoming) /\ arrived' \in Seq(Incoming) /\ refusals' \in Nat
    BY <1>0, <2>1, DeliverHeadTypes
  <2>3. PackTypes' /\ SessionTypes' /\ HistoryTypes' /\ BoundTypes'
    BY <1>4, <2>2 DEF TurnEnds, PackTypes, SessionTypes, HistoryTypes, BoundTypes
  <2>. QED
    BY <1>4, <2>3, TypesKept DEF TurnEnds
<1>5. ASSUME ConnectionComplete
      PROVE  TypeInv'
  <2>1. PICK ok \in BOOLEAN :
          /\ DeliverHead(ok)
          /\ CleanSession => /\ DiscardSession /\ messageQueue' = <<>> /\ commands' = <<>>
                             /\ UNCHANGED to_broker
          /\ ~CleanSession => /\ messageQueue' = AfterDelivery(ok)
                              /\ to_broker' = IF link = "open" THEN Resume ELSE to_broker
                              /\ UNCHANGED <<msgID, outboundMsgs, inboundMsgs, sendVars>>
    BY <1>5 DEF ConnectionComplete
  <2>2. AfterDelivery(ok) \in Seq(Incoming) /\ arrived' \in Seq(Incoming) /\ refusals' \in Nat
    BY <1>0, <2>1, DeliverHeadTypes
  <2>3. PackTypes' /\ ConnTypes' /\ HistoryTypes' /\ BoundTypes'
    BY <1>5, <2>2 DEF ConnectionComplete, PackTypes, ConnTypes, HistoryTypes, BoundTypes
  <2>4. SessionTypes' /\ SendTypes' /\ to_broker' \in Seq(ToBroker)
    <3>1. CASE CleanSession
      BY <1>0, <1>e, <2>1, <3>1, DeliveryAssumption DEF DiscardSession, SessionTypes, SendTypes
    <3>2. CASE ~CleanSession
      <4>1. Resume \in Seq(ToBroker)
        BY <1>0, ResumeType
      <4>. QED
        BY <1>0, <2>1, <2>2, <3>2, <4>1 DEF SessionTypes, SendTypes
    <3>. QED
      BY <3>1, <3>2
  <2>5. LinkTypes'
    BY <1>5, <2>4 DEF ConnectionComplete, LinkTypes
  <2>. QED
    BY <1>5, <2>3, <2>4, <2>5, TypesKept DEF ConnectionComplete
<1>6. ASSUME ConnackUnexpected
      PROVE  TypeInv'
  <2>1. PICK ok \in BOOLEAN : DeliverHead(ok) /\ ConnectFailed(AfterDelivery(ok))
    BY <1>6 DEF ConnackUnexpected
  <2>2. AfterDelivery(ok) \in Seq(Incoming) /\ arrived' \in Seq(Incoming) /\ refusals' \in Nat
    BY <1>0, <2>1, DeliverHeadTypes
  <2>3. /\ LinkTypes' /\ BrokerTypes' /\ ConnTypes' /\ SendTypes' /\ SessionTypes'
        /\ gave_up' \in BOOLEAN /\ UNCHANGED b_unacked
    BY <2>1, <2>2, ConnectFailedTypes
  <2>4. PackTypes' /\ HistoryTypes' /\ BoundTypes'
    BY <1>6, <2>2, <2>3 DEF ConnackUnexpected, PackTypes, HistoryTypes, BoundTypes
  <2>. QED
    BY <1>6, <2>3, <2>4, TypesKept DEF ConnackUnexpected
<1>. QED
  BY <1>1, <1>2, <1>3, <1>4, <1>5, <1>6

\* Retries: messages under way, behind what is in flight
LEMMA RetryType ==
    ASSUME TypeInv, NEW n \in 1..Len(outboundMsgs), NEW due \in [1..n -> 1..Len(outboundMsgs)],
           RetryTimer(due)
    PROVE  /\ to_broker' \in Seq(ToBroker) /\ Len(to_broker') = Len(to_broker) + n
           /\ \A i \in 1..Len(to_broker) : to_broker'[i] = to_broker[i]
           /\ \A i \in 1..n : \E k \in 1..Len(outboundMsgs) :
                 to_broker'[Len(to_broker) + i] = Again(outboundMsgs[k])
<1>. DEFINE t == [i \in 1..n |-> Again(outboundMsgs[due[i]])]
<1>1. outboundMsgs \in Seq(Entries(Sent)) /\ to_broker \in Seq(ToBroker) /\ n \in Nat
  BY DEF TypeInv, SessionTypes, LinkTypes
<1>2. \A i \in 1..n : Again(outboundMsgs[due[i]]) \in ToBroker
  BY <1>1, AgainType
<1>3. t \in Seq(ToBroker) /\ Len(t) = n /\ \A i \in 1..n : t[i] = Again(outboundMsgs[due[i]])
  <2>. HIDE DEF Again
  <2>. QED
    BY <1>1, <1>2
<1>4. to_broker' = to_broker \o t
  BY DEF RetryTimer
<1>. HIDE DEF t
<1>5. /\ to_broker \o t \in Seq(ToBroker) /\ Len(to_broker \o t) = Len(to_broker) + Len(t)
      /\ \A i \in 1..Len(to_broker) : (to_broker \o t)[i] = to_broker[i]
      /\ \A i \in 1..Len(t) : (to_broker \o t)[Len(to_broker) + i] = t[i]
  BY <1>1, <1>3, ConcatParts
<1>. HIDE DEF Again
<1>6. \A i \in 1..n : \E k \in 1..Len(outboundMsgs) :
         to_broker'[Len(to_broker) + i] = Again(outboundMsgs[k])
  <2>. TAKE i \in 1..n
  <2>1. due[i] \in 1..Len(outboundMsgs)
    OBVIOUS
  <2>2. to_broker'[Len(to_broker) + i] = Again(outboundMsgs[due[i]])
    BY <1>3, <1>4, <1>5
  <2>. QED
    BY <2>1, <2>2
<1>7. to_broker' \in Seq(ToBroker) /\ Len(to_broker') = Len(to_broker) + n
  BY <1>3, <1>4, <1>5
<1>8. \A i \in 1..Len(to_broker) : to_broker'[i] = to_broker[i]
  BY <1>4, <1>5
<1>. QED
  BY <1>6, <1>7, <1>8

LEMMA TypesRetry ==
    ASSUME TypeInv, NEW n \in 1..Len(outboundMsgs), NEW due \in [1..n -> 1..Len(outboundMsgs)],
           RetryTimer(due)
    PROVE  TypeInv'
<1>. USE DEF TypeInv
<1>1. to_broker' \in Seq(ToBroker)
  BY RetryType
<1>2. LinkTypes' /\ BoundTypes'
  BY <1>1 DEF RetryTimer, LinkTypes, BoundTypes
<1>. QED
  BY <1>2, TypesKept DEF RetryTimer

\* The broker reads a packet
LEMMA BrokerReadsProps ==
    ASSUME NEW type, BrokerReads(type), LinkTypes
    PROVE  /\ Head(to_broker) \in ToBroker /\ Head(to_broker).type = type
           /\ to_broker' \in Seq(ToBroker) /\ to_broker # <<>>
BY TailType DEF BrokerReads, LinkTypes

LEMMA BrokerAnswersTypes ==
    ASSUME NEW p \in ToClient, BrokerAnswers(p), LinkTypes
    PROVE  to_client' \in Seq(ToClient)
BY AppendType DEF BrokerAnswers, LinkTypes

\* What the broker sends again
LEMMA BrokerAgainType ==
    ASSUME NEW m \in Owing
    PROVE  /\ BrokerAgain(m) \in ToClient /\ BrokerAgain(m).id = m.id
           /\ BrokerAgain(m).type \in {"PUBLISH", "PUBREL"}
           /\ BrokerAgain(m).type = "PUBLISH" => BrokerAgain(m).msg = m.msg /\ m.next = "PUBREC"
           /\ BrokerAgain(m).type = "PUBREL" => m.next = "PUBCOMP"
<1>1. m.id \in Nat /\ m.msg \in Incoming /\ m.next \in {"PUBREC", "PUBCOMP"} /\ PubrelDup \in BOOLEAN
  BY DeliveryAssumption DEF Owing
<1>2. CASE m.next = "PUBREC"
  <2>1. BrokerAgain(m) = Publish(m.id, TRUE, m.msg)
    BY <1>2 DEF BrokerAgain
  <2>2. BrokerAgain(m) \in ToClient
    BY <1>1, <2>1, PacketTypes
  <2>3. /\ BrokerAgain(m).id = m.id /\ BrokerAgain(m).type = "PUBLISH"
        /\ BrokerAgain(m).msg = m.msg
    BY <2>1 DEF Publish
  <2>. QED
    BY <1>2, <2>2, <2>3
<1>3. CASE m.next = "PUBCOMP"
  <2>1. BrokerAgain(m) = [Packet("PUBREL", m.id) EXCEPT !.dup = PubrelDup]
    BY <1>3 DEF BrokerAgain
  <2>2. BrokerAgain(m) \in ToClient
    BY <1>1, <2>1, PacketTypes
  <2>3. BrokerAgain(m).id = m.id /\ BrokerAgain(m).type = "PUBREL"
    BY <2>1 DEF Packet
  <2>. QED
    BY <1>3, <2>2, <2>3
<1>. QED
  BY <1>1, <1>2, <1>3

\* The broker notes that the client has received a message
LEMMA PubrecProps ==
    ASSUME b_unacked \in Seq(Owing), BrokerPubrec
    PROVE  /\ b_unacked' \in Seq(Owing) /\ Len(b_unacked') = Len(b_unacked)
           /\ \A k \in 1..Len(b_unacked) :
                 /\ b_unacked'[k].id = b_unacked[k].id /\ b_unacked'[k].msg = b_unacked[k].msg
                 /\ b_unacked'[k].next = IF b_unacked[k].id = Head(to_broker).id
                                         THEN "PUBCOMP" ELSE b_unacked[k].next
<1>. DEFINE e(k) == IF b_unacked[k].id = Head(to_broker).id
                    THEN [b_unacked[k] EXCEPT !.next = "PUBCOMP"] ELSE b_unacked[k]
<1>1. \A k \in 1..Len(b_unacked) :
         /\ e(k) \in Owing /\ e(k).id = b_unacked[k].id /\ e(k).msg = b_unacked[k].msg
         /\ e(k).next = IF b_unacked[k].id = Head(to_broker).id
                        THEN "PUBCOMP" ELSE b_unacked[k].next
  <2>. TAKE k \in 1..Len(b_unacked)
  <2>1. b_unacked[k] \in Owing
    OBVIOUS
  <2>. QED
    BY <2>1 DEF Owing
<1>2. b_unacked' = [k \in 1..Len(b_unacked) |-> e(k)]
  BY DEF BrokerPubrec
<1>. HIDE DEF e
<1>3. /\ b_unacked' \in Seq(Owing) /\ Len(b_unacked') = Len(b_unacked)
      /\ \A k \in 1..Len(b_unacked) : b_unacked'[k] = e(k)
  BY <1>1, <1>2
<1>. QED
  BY <1>1, <1>3

LEMMA TypesBroker ==
    ASSUME TypeInv
    PROVE  /\ BrokerPublish1 => TypeInv'
           /\ BrokerPublish2 => TypeInv'
           /\ BrokerPubrel => TypeInv'
           /\ BrokerPubrec => TypeInv'
           /\ BrokerEnd => TypeInv'
<1>. USE DEF TypeInv
<1>. DEFINE p == Head(to_broker)
<1>0. /\ published \in Seq(Sent) /\ b_received \subseteq Response /\ b_unacked \in Seq(Owing)
      /\ to_client \in Seq(ToClient)
  BY DEF HistoryTypes, BrokerTypes, LinkTypes
<1>1. ASSUME BrokerPublish1
      PROVE  TypeInv'
  <2>1. p \in ToBroker /\ p.type = "PUBLISH" /\ to_broker' \in Seq(ToBroker)
    BY <1>1, BrokerReadsProps DEF BrokerPublish1
  <2>2. p.id \in Nat /\ p.msg \in Sent
    BY <2>1, PacketTypes
  <2>3. to_client' \in Seq(ToClient)
    <3>1. Packet("PUBACK", p.id) \in ToClient
      BY <2>2, PacketTypes
    <3>. QED
      BY <1>1, <3>1, BrokerAnswersTypes DEF BrokerPublish1
  <2>4. published' \in Seq(Sent)
    BY <1>0, <1>1, <2>2, AppendType DEF BrokerPublish1
  <2>5. LinkTypes' /\ HistoryTypes' /\ BoundTypes'
    BY <1>1, <2>1, <2>3, <2>4 DEF BrokerPublish1, BrokerOnly, LinkTypes, HistoryTypes, BoundTypes
  <2>. QED
    BY <1>1, <2>5, TypesKept DEF BrokerPublish1, BrokerOnly
<1>2. ASSUME BrokerPublish2
      PROVE  TypeInv'
  <2>1. p \in ToBroker /\ p.type = "PUBLISH" /\ to_broker' \in Seq(ToBroker)
    BY <1>2, BrokerReadsProps DEF BrokerPublish2
  <2>2. p.id \in Nat /\ p.msg \in Sent /\ p.id \in MsgId
    BY <2>1, PacketTypes
  <2>3. to_client' \in Seq(ToClient)
    <3>1. Packet("PUBREC", p.id) \in ToClient
      BY <2>2, PacketTypes
    <3>. QED
      BY <1>2, <3>1, BrokerAnswersTypes DEF BrokerPublish2
  <2>4. b_received' \subseteq Response
    BY <1>0, <1>2, <2>2 DEF BrokerPublish2, Response
  <2>5. LinkTypes' /\ HistoryTypes' /\ BoundTypes' /\ BrokerTypes'
    BY <1>2, <2>1, <2>3, <2>4 DEF BrokerPublish2, BrokerOnly, LinkTypes, HistoryTypes, BoundTypes, BrokerTypes
  <2>. QED
    BY <1>2, <2>5, TypesKept DEF BrokerPublish2, BrokerOnly
<1>3. ASSUME BrokerPubrel
      PROVE  TypeInv'
  <2>. DEFINE released == {r \in b_received : r.id = p.id}
  <2>1. p \in ToBroker /\ p.type = "PUBREL" /\ to_broker' \in Seq(ToBroker)
    BY <1>3, BrokerReadsProps DEF BrokerPubrel
  <2>2. p.id \in Nat
    BY <2>1, PacketTypes
  <2>3. to_client' \in Seq(ToClient)
    <3>1. Packet("PUBCOMP", p.id) \in ToClient
      BY <2>2, PacketTypes
    <3>. QED
      BY <1>3, <3>1, BrokerAnswersTypes DEF BrokerPubrel
  <2>4. b_received' \subseteq Response
    BY <1>0, <1>3 DEF BrokerPubrel
  <2>5. published' \in Seq(Sent)
    <3>1. published' = IF released = {} THEN published ELSE Append(published, (CHOOSE r \in released : TRUE).msg)
      BY <1>3 DEF BrokerPubrel
    <3>2. released # {} => (CHOOSE r \in released : TRUE) \in released
      OBVIOUS
    <3>3. released # {} => (CHOOSE r \in released : TRUE).msg \in Sent
      BY <1>0, <3>2 DEF Response
    <3>. QED
      BY <1>0, <3>1, <3>3, AppendType
  <2>6. LinkTypes' /\ HistoryTypes' /\ BoundTypes' /\ BrokerTypes'
    BY <1>3, <2>1, <2>3, <2>4, <2>5 DEF BrokerPubrel, BrokerOnly, LinkTypes, HistoryTypes, BoundTypes, BrokerTypes
  <2>. QED
    BY <1>3, <2>6, TypesKept DEF BrokerPubrel, BrokerOnly
<1>4. ASSUME BrokerPubrec
      PROVE  TypeInv'
  <2>1. p \in ToBroker /\ p.type = "PUBREC" /\ to_broker' \in Seq(ToBroker)
    BY <1>4, BrokerReadsProps DEF BrokerPubrec
  <2>2. p.id \in Nat
    BY <2>1, PacketTypes
  <2>3. to_client' \in Seq(ToClient)
    <3>1. Packet("PUBREL", p.id) \in ToClient
      BY <2>2, PacketTypes
    <3>. QED
      BY <1>4, <3>1, BrokerAnswersTypes DEF BrokerPubrec
  <2>4. /\ b_unacked' \in Seq(Owing) /\ Len(b_unacked') = Len(b_unacked)
        /\ \A k \in 1..Len(b_unacked) : b_unacked'[k].id = b_unacked[k].id
    BY <1>0, <1>4, PubrecProps
  <2>5. BrokerTypes' /\ Owed1'
    BY <1>4, <2>4 DEF BrokerPubrec, BrokerOnly, BrokerTypes, Owed1
  <2>6. LinkTypes' /\ BoundTypes' /\ HistoryTypes'
    BY <1>4, <2>1, <2>3 DEF BrokerPubrec, BrokerOnly, LinkTypes, BoundTypes, HistoryTypes
  <2>. QED
    BY <1>4, <2>5, <2>6, TypesKept DEF BrokerPubrec, BrokerOnly
<1>5. ASSUME BrokerEnd
      PROVE  TypeInv'
  <2>1. p \in ToBroker /\ to_broker' \in Seq(ToBroker)
    BY <1>5, BrokerReadsProps DEF BrokerEnd
  <2>2. b_unacked' = Without(b_unacked, p.id) /\ incoming' = incoming
    BY <1>5 DEF BrokerEnd
  <2>3. /\ b_unacked' \in Seq(Owing) /\ Len(b_unacked') <= Len(b_unacked)
        /\ Within(b_unacked', b_unacked)
    BY <1>0, <2>2, WithoutFirst, WithoutNone, WithinWithout
  <2>4. Owed1'
    <3>1. PICK f \in [1..Len(b_unacked') -> 1..Len(b_unacked)] :
             /\ \A i \in 1..Len(b_unacked') : b_unacked'[i] = b_unacked[f[i]]
             /\ \A i, j \in 1..Len(b_unacked') : i < j => f[i] < f[j]
      BY <2>3 DEF Within
    <3>2. \A i, j \in 1..Len(b_unacked') : b_unacked'[i].id = b_unacked'[j].id => i = j
      <4>. TAKE i, j \in 1..Len(b_unacked')
      <4>. HAVE b_unacked'[i].id = b_unacked'[j].id
      <4>1. f[i] = f[j]
        BY <3>1 DEF Owed1
      <4>. QED
        BY <3>1, <4>1
    <3>3. Len(b_unacked') <= incoming'
      BY <1>0, <2>2, <2>3 DEF Owed1, BoundTypes
    <3>. QED
      BY <3>2, <3>3 DEF Owed1
  <2>5. BrokerTypes'
    BY <1>5, <2>3 DEF BrokerEnd, BrokerOnly, BrokerTypes
  <2>6. LinkTypes' /\ BoundTypes' /\ HistoryTypes'
    BY <1>5, <2>1 DEF BrokerEnd, BrokerOnly, LinkTypes, BoundTypes, HistoryTypes
  <2>. QED
    BY <1>5, <2>4, <2>5, <2>6, TypesKept DEF BrokerEnd, BrokerOnly
<1>. QED
  BY <1>1, <1>2, <1>3, <1>4, <1>5

\* The answer to a CONNECT, and behind it what the broker sends again
LEMMA GreetingType ==
    ASSUME b_unacked \in Seq(Owing), BrokerConnect
    PROVE  /\ to_client' \in Seq(ToClient)
           /\ CleanSession => to_client' = <<Packet("CONNACK", 0)>>
           /\ ~CleanSession =>
                 /\ Len(to_client') = Len(b_unacked) + 1 /\ to_client'[1] = Packet("CONNACK", 0)
                 /\ \A k \in 1..Len(b_unacked) : to_client'[k + 1] = BrokerAgain(b_unacked[k])
<1>1. Packet("CONNACK", 0) \in ToClient
  BY PacketTypes
<1>2. CASE CleanSession
  <2>1. to_client' = <<Packet("CONNACK", 0)>>
    BY <1>2 DEF BrokerConnect
  <2>. HIDE DEF Packet
  <2>. QED
    BY <1>1, <1>2, <2>1
<1>3. CASE ~CleanSession
  <2>. DEFINE a == <<Packet("CONNACK", 0)>>
              t == [k \in 1..Len(b_unacked) |-> BrokerAgain(b_unacked[k])]
  <2>1. \A k \in 1..Len(b_unacked) : BrokerAgain(b_unacked[k]) \in ToClient
    BY BrokerAgainType
  <2>2. /\ t \in Seq(ToClient) /\ Len(t) = Len(b_unacked) /\ Len(b_unacked) \in Nat
        /\ \A k \in 1..Len(b_unacked) : t[k] = BrokerAgain(b_unacked[k])
    <3>. HIDE DEF BrokerAgain
    <3>. QED
      BY <2>1
  <2>3. a \in Seq(ToClient) /\ Len(a) = 1 /\ a[1] = Packet("CONNACK", 0)
    BY <1>1
  <2>4. to_client' = a \o t
    BY <1>3 DEF BrokerConnect
  <2>. DEFINE S == ToClient
  <2>5. a \in Seq(S) /\ t \in Seq(S)
    BY <2>2, <2>3
  <2>. HIDE DEF a, t, S
  <2>6. /\ a \o t \in Seq(S) /\ Len(a \o t) = Len(a) + Len(t)
        /\ \A i \in 1..Len(a) : (a \o t)[i] = a[i]
        /\ \A i \in 1..Len(t) : (a \o t)[Len(a) + i] = t[i]
    BY <2>5, ConcatParts
  <2>7. /\ Len(to_client') = Len(b_unacked) + 1 /\ to_client'[1] = Packet("CONNACK", 0)
        /\ to_client' \in Seq(ToClient)
    BY <2>2, <2>3, <2>4, <2>6 DEF S
  <2>8. \A k \in 1..Len(b_unacked) : to_client'[k + 1] = BrokerAgain(b_unacked[k])
    <3>. TAKE k \in 1..Len(b_unacked)
    <3>1. k \in 1..Len(t) /\ Len(a) + k = k + 1
      BY <2>2, <2>3
    <3>. QED
      BY <2>2, <2>4, <2>6, <3>1
  <2>. QED
    BY <1>3, <2>7, <2>8
<1>. QED
  BY <1>2, <1>3

\* The message the broker sends has a number of its own, and an id no other has
LEMMA BrokerSendProps ==
    ASSUME TypeInv, NEW q \in Qos, BrokerSend(q)
    PROVE  \E e \in Owing :
              /\ e.msg = [seq |-> incoming + 1, qos |-> q] /\ e.next = "PUBREC"
              /\ ~HasId(b_unacked, e.id)
              /\ b_unacked' = Append(b_unacked, e)
              /\ to_client' = IF b_up THEN Append(to_client, Publish(e.id, FALSE, e.msg))
                              ELSE to_client
<1>. DEFINE id == CHOOSE i \in 1..(MaxIncoming + 1) :
                    /\ ~HasId(b_unacked, i)
                    /\ \A j \in 1..(i - 1) : HasId(b_unacked, j)
            m == [seq |-> incoming + 1, qos |-> q]
            e == [id |-> id, msg |-> m, next |-> "PUBREC"]
<1>1. id \in 1..(MaxIncoming + 1) /\ ~HasId(b_unacked, id)
  BY BrokerHasId DEF BrokerSend
<1>2. /\ b_unacked' = Append(b_unacked, e)
      /\ to_client' = IF b_up THEN Append(to_client, Publish(id, FALSE, m)) ELSE to_client
  BY DEF BrokerSend
<1>3. m \in Incoming
  BY DeliveryAssumption DEF BrokerSend, TypeInv, BoundTypes, Incoming
<1>. HIDE DEF id, m
<1>4. e \in Owing /\ e.id = id /\ e.msg = m /\ e.next = "PUBREC"
  BY <1>1, <1>3 DEF Owing
<1>. QED
  BY <1>1, <1>2, <1>4 DEF m

LEMMA TypesBroker2 ==
    ASSUME TypeInv
    PROVE  /\ BrokerConnect => TypeInv'
           /\ \A q \in Qos : BrokerSend(q) => TypeInv'
<1>s. \A q \in Qos : BrokerSend(q) =>
         \E e \in Owing :
            /\ e.msg = [seq |-> incoming + 1, qos |-> q] /\ e.next = "PUBREC"
            /\ ~HasId(b_unacked, e.id)
            /\ b_unacked' = Append(b_unacked, e)
            /\ to_client' = IF b_up THEN Append(to_client, Publish(e.id, FALSE, e.msg))
                            ELSE to_client
  BY BrokerSendProps
<1>. USE DEF TypeInv
<1>0. /\ b_unacked \in Seq(Owing) /\ to_client \in Seq(ToClient)
  BY DEF BrokerTypes, LinkTypes
<1>e. \A S : <<>> \in Seq(S)
  OBVIOUS
<1>1. ASSUME BrokerConnect
      PROVE  TypeInv'
  <2>1. to_broker' \in Seq(ToBroker)
    BY <1>1, BrokerReadsProps DEF BrokerConnect
  <2>2. to_client' \in Seq(ToClient)
    BY <1>0, <1>1, GreetingType DEF BrokerConnect
  <2>3. BrokerTypes' /\ Owed1'
    <3>1. CASE CleanSession
      <4>1. b_up' = TRUE /\ b_received' = {} /\ b_unacked' = <<>> /\ incoming' = incoming
        BY <1>1, <3>1 DEF BrokerConnect
      <4>2. BrokerTypes'
        BY <1>e, <4>1 DEF BrokerTypes
      <4>3. Owed1'
        BY <4>1 DEF Owed1, BoundTypes
      <4>. QED
        BY <4>2, <4>3
    <3>2. CASE ~CleanSession
      BY <1>1, <3>2 DEF BrokerConnect, BrokerTypes, Owed1
    <3>. QED
      BY <3>1, <3>2
  <2>4. LinkTypes' /\ BoundTypes' /\ HistoryTypes'
    BY <1>1, <2>1, <2>2 DEF BrokerConnect, BrokerOnly, LinkTypes, BoundTypes, HistoryTypes
  <2>. QED
    BY <1>1, <2>3, <2>4, TypesKept DEF BrokerConnect, BrokerOnly
<1>2. ASSUME NEW q \in Qos, BrokerSend(q)
      PROVE  TypeInv'
  <2>1. PICK e \in Owing :
              /\ e.msg = [seq |-> incoming + 1, qos |-> q] /\ e.next = "PUBREC"
              /\ ~HasId(b_unacked, e.id)
              /\ b_unacked' = Append(b_unacked, e)
              /\ to_client' = IF b_up THEN Append(to_client, Publish(e.id, FALSE, e.msg))
                              ELSE to_client
    BY <1>2, <1>s
  <2>2. to_client' \in Seq(ToClient)
    <3>0. e.id \in Nat /\ e.msg \in Incoming
      BY DEF Owing
    <3>1. Publish(e.id, FALSE, e.msg) \in ToClient
      BY <3>0, PacketTypes
    <3>. QED
      BY <1>0, <2>1, <3>1, AppendType
  <2>3. b_unacked' \in Seq(Owing)
    BY <1>0, <2>1, AppendType
  <2>4. incoming' = incoming + 1 /\ incoming < MaxIncoming
    BY <1>2 DEF BrokerSend
  <2>5. Owed1'
    <3>. DEFINE n == Len(b_unacked)
                w == b_unacked'
    <3>1. /\ n \in Nat /\ Len(w) = n + 1 /\ w[n + 1] = e /\ \A i \in 1..n : w[i] = b_unacked[i]
      BY <1>0, <2>1
    <3>2. \A i \in 1..n : b_unacked[i].id # e.id
      BY <2>1 DEF HasId
    <3>3. \A i, j \in 1..n : b_unacked[i].id = b_unacked[j].id => i = j
      BY DEF Owed1
    <3>4. n + 1 <= incoming'
      BY <2>4 DEF Owed1, BoundTypes, BrokerTypes
    <3>. HIDE DEF n, w
    <3>5. \A i, j \in 1..n + 1 : w[i].id = w[j].id => i = j
      BY <3>1, <3>2, <3>3
    <3>. QED
      BY <3>1, <3>4, <3>5 DEF Owed1, w
  <2>0. UNCHANGED <<sendVars, connVars, sessionVars, pack, link, sends, breaks, refusals, retries,
                    succeeded, failed, arrived, gave_up, b_up, b_received, to_broker, published>>
    BY <1>2 DEF BrokerSend, BrokerOnly
  <2>6. BrokerTypes'
    BY <2>0, <2>3 DEF BrokerTypes
  <2>7. LinkTypes'
    BY <2>0, <2>2 DEF LinkTypes
  <2>8. BoundTypes' /\ HistoryTypes'
    BY <2>0, <2>4, DeliveryAssumption DEF BoundTypes, HistoryTypes
  <2>. QED
    BY <2>0, <2>5, <2>6, <2>7, <2>8, TypesKept
<1>. QED
  BY <1>1, <1>2

LEMMA TypesNext == TypeInv /\ [Next]_vars => TypeInv'
<1>. SUFFICES ASSUME TypeInv, [Next]_vars PROVE TypeInv'
  OBVIOUS
<1>1. CASE \/ \E q \in Qos : Send(q)
           \/ StartConnect \/ CannotConnect \/ LoseConnection \/ NothingToLose
  BY <1>1, TypesSend
<1>2. CASE PublishCommand \/ PublishFails \/ ConnectTimeout \/ Break \/ PingTimeout
  BY <1>2, TypesSend2
<1>3. CASE RecvPublish1 \/ RecvPublish2 \/ RecvPubrel \/ RecvStrayPubrel
  BY <1>3, TypesReceive
<1>4. CASE RecvPubrec \/ RecvPuback \/ RecvPubcomp \/ RecvPingresp \/ RecvConnack
  BY <1>4, TypesReceive2
<1>5. CASE ReadFails \/ TurnLost \/ TurnFails \/ TurnEnds \/ ConnectionComplete \/ ConnackUnexpected
  BY <1>5, TypesTurn
<1>6. CASE \E n \in 1..Len(outboundMsgs) : \E due \in [1..n -> 1..Len(outboundMsgs)] : RetryTimer(due)
  BY <1>6, TypesRetry
<1>7. CASE BrokerPublish1 \/ BrokerPublish2 \/ BrokerPubrel \/ BrokerPubrec \/ BrokerEnd
  BY <1>7, TypesBroker
<1>8. CASE BrokerConnect \/ \E q \in Qos : BrokerSend(q)
  BY <1>8, TypesBroker2
<1>9. CASE UNCHANGED vars
  BY <1>9, TypesKept DEF vars, TypeInv
<1>. QED
  BY <1>1, <1>2, <1>3, <1>4, <1>5, <1>6, <1>7, <1>8, <1>9
     DEF Next, SendThread, ReceiveThread, Timers, Broker, BrokerHandles

\* A message id is never 0 nor above MAX_MSG_ID, and what reaches the
\* application was sent to it: every assignment of the two threads and of the
\* broker keeps its type.
THEOREM TypeCorrect == Spec => []TypeOK
<1>1. Init => TypeInv
  BY TypesInit
<1>2. TypeInv /\ [Next]_vars => TypeInv'
  BY TypesNext
<1>3. TypeInv => TypeOK
  BY TypeInvGivesTypeOK
<1>. QED
  BY <1>1, <1>2, <1>3, PTL DEF Spec

-----------------------------------------------------------------------------
(* The connection, and what is in flight.                                  *)

Acks == {"PUBACK", "PUBREC", "PUBCOMP"}

\* Something of the types T is put behind a sequence
Extends(t, s, T) ==
    /\ Len(t) >= Len(s)
    /\ \A i \in 1..Len(s) : t[i] = s[i]
    /\ \A i \in 1..Len(t) : i > Len(s) => t[i].type \in T

LEMMA ExtendsSame ==
    ASSUME NEW S, NEW s \in Seq(S), NEW T
    PROVE  Extends(s, s, T)
BY DEF Extends

LEMMA ExtendsAppend ==
    ASSUME NEW S, NEW s \in Seq(S), NEW e \in S, NEW T, e.type \in T
    PROVE  Extends(Append(s, e), s, T)
<1>. DEFINE n == Len(s)
            t == Append(s, e)
<1>1. /\ n \in Nat /\ Len(t) = n + 1 /\ t[n + 1] = e /\ n = Len(s)
      /\ \A i \in 1..n : t[i] = s[i]
  OBVIOUS
<1>. HIDE DEF n, t
<1>2. \A i \in 1..n + 1 : i > n => t[i].type \in T
  BY <1>1
<1>3. Extends(t, s, T)
  BY <1>1, <1>2 DEF Extends
<1>. QED
  BY <1>3 DEF t

\* Of other types there is nothing new
LEMMA ExtendsWithin ==
    ASSUME NEW S, NEW s \in Seq(S), NEW t \in Seq(S), NEW T, Extends(t, s, T), NEW U, U \cap T = {}
    PROVE  WithinFor(t, s, U)
<1>. DEFINE f == [i \in 1..Len(t) |-> i]
<1>1. \A i \in 1..Len(t) : t[i].type \in U => i \in 1..Len(s)
  BY DEF Extends
<1>2. /\ f \in [1..Len(t) -> Int] /\ \A i \in 1..Len(t) : f[i] = i
  OBVIOUS
<1>. HIDE DEF f
<1>3. \A i \in 1..Len(t) : t[i].type \in U => f[i] \in 1..Len(s) /\ t[i] = s[f[i]]
  BY <1>1, <1>2 DEF Extends
<1>4. \A i, j \in 1..Len(t) : t[i].type \in U /\ t[j].type \in U /\ i < j => f[i] < f[j]
  BY <1>2
<1>. QED
  BY <1>2, <1>3, <1>4 DEF WithinFor

(***************************************************************************)
(* Packets are in flight on an open connection only, and the first the     *)
(* broker reads is the CONNECT: nobody answers across a connection.        *)
(***************************************************************************)
Linked ==
    /\ ~connected /\ connect_state = 0 => link = "closed"
    /\ link # "open" => ~b_up /\ to_broker = <<>>
    /\ link = "open" /\ ~b_up => to_broker # <<>>
    /\ ~b_up => /\ to_client = <<>>
                /\ \A i \in 1..Len(to_broker) : to_broker[i].type \notin Acks
    /\ \A i \in 1..Len(to_broker) : to_broker[i].type = "CONNECT" <=> i = 1 /\ ~b_up

LEMMA LinkedInit == Init => Linked
BY DEF Init, Linked

\* The connection is gone
LEMMA LinkedClosed ==
    ASSUME link' # "open", b_up' = FALSE, to_broker' = <<>>, to_client' = <<>>,
           connected' \/ connect_state' # 0 \/ link' = "closed"
    PROVE  Linked'
BY DEF Linked

\* The connection goes on, and something is put behind what is in flight
LEMMA LinkedGoesOn ==
    ASSUME Linked, to_broker \in Seq(ToBroker), to_broker' \in Seq(ToBroker),
           UNCHANGED <<link, b_up>>, connected' \/ connect_state' # 0 \/ link = "closed",
           NEW T, Extends(to_broker', to_broker, T), "CONNECT" \notin T,
           link # "open" => to_broker' = to_broker,
           ~b_up => to_client' = <<>> /\ T \cap Acks = {}
    PROVE  Linked'
<1>1. Len(to_broker) \in Nat /\ Len(to_broker') \in Nat
  OBVIOUS
<1>2. \A i \in 1..Len(to_broker') :
         \/ i \in 1..Len(to_broker) /\ to_broker'[i] = to_broker[i]
         \/ i > Len(to_broker) /\ to_broker'[i].type \in T
  BY <1>1 DEF Extends
<1>3. link' = "open" /\ ~b_up' => to_broker' # <<>> /\ Len(to_broker) > 0
  <2>. SUFFICES ASSUME link' = "open", ~b_up' PROVE to_broker' # <<>> /\ Len(to_broker) > 0
    OBVIOUS
  <2>1. to_broker # <<>>
    BY DEF Linked
  <2>2. Len(to_broker) > 0 /\ Len(to_broker') > 0
    BY <2>1 DEF Extends
  <2>. QED
    BY <2>2
<1>4. \A i \in 1..Len(to_broker') : to_broker'[i].type = "CONNECT" <=> i = 1 /\ ~b_up'
  <2>. TAKE i \in 1..Len(to_broker')
  <2>1. CASE i \in 1..Len(to_broker) /\ to_broker'[i] = to_broker[i]
    BY <2>1 DEF Linked
  <2>2. CASE i > Len(to_broker) /\ to_broker'[i].type \in T
    <3>1. ~(i = 1 /\ ~b_up')
      BY <1>1, <1>3, <2>2 DEF Linked
    <3>. QED
      BY <2>2, <3>1
  <2>. QED
    BY <1>2, <2>1, <2>2
<1>5. ~b_up' => /\ to_client' = <<>>
                /\ \A i \in 1..Len(to_broker') : to_broker'[i].type \notin Acks
  BY <1>2 DEF Linked
<1>. QED
  BY <1>3, <1>4, <1>5 DEF Linked

\* The broker reads
LEMMA LinkedBrokerReads ==
    ASSUME Linked, to_broker \in Seq(ToBroker), NEW type, BrokerReads(type), b_up' = TRUE,
           UNCHANGED <<link, connected, connect_state>>
    PROVE  Linked'
<1>1. /\ to_broker # <<>> /\ to_broker' = Tail(to_broker) /\ link = "open"
  BY DEF BrokerReads, Linked
<1>2. \A i \in 1..Len(to_broker') : i + 1 \in 1..Len(to_broker) /\ to_broker'[i] = to_broker[i + 1]
  BY <1>1
<1>3. \A i \in 1..Len(to_broker') : to_broker'[i].type # "CONNECT"
  <2>. TAKE i \in 1..Len(to_broker')
  <2>1. i + 1 # 1
    OBVIOUS
  <2>. QED
    BY <1>2, <2>1 DEF Linked
<1>. QED
  BY <1>1, <1>3 DEF Linked

LEMMA LinkedKept ==
    ASSUME Linked, UNCHANGED <<connected, connect_state, link, b_up, to_broker, to_client>>
    PROVE  Linked'
BY DEF Linked

\* What the receive thread makes of a packet: it answers, or not
LEMMA LinkedReads ==
    ASSUME Linked, TypeInv, NEW type, Reads(type), NEW T, "CONNECT" \notin T,
           to_broker' \in Seq(ToBroker), Extends(to_broker', to_broker, T),
           UNCHANGED <<connected, connect_state, link, b_up>>
    PROVE  Linked'
<1>1. b_up /\ link = "open" /\ to_broker \in Seq(ToBroker)
  BY DEF Linked, Reads, TypeInv, BrokerTypes, LinkTypes
<1>2. connected' \/ connect_state' # 0 \/ link = "closed"
  BY DEF Linked
<1>. QED
  BY <1>1, <1>2, LinkedGoesOn

LEMMA LinkedSend ==
    ASSUME Linked, TypeInv
    PROVE  /\ \A q \in Qos : Send(q) => Linked'
           /\ StartConnect => Linked'
           /\ CannotConnect => Linked'
           /\ LoseConnection => Linked'
           /\ NothingToLose => Linked'
           /\ PublishCommand => Linked'
           /\ PublishFails => Linked'
           /\ ConnectTimeout => Linked'
           /\ Break => Linked'
           /\ PingTimeout => Linked'
<1>0. to_broker \in Seq(ToBroker)
  BY DEF TypeInv, LinkTypes
<1>1. ASSUME \/ \E q \in Qos : Send(q)
             \/ CannotConnect \/ NothingToLose \/ PublishFails \/ PingTimeout
      PROVE  Linked'
  BY <1>1, LinkedKept DEF Send, CannotConnect, NothingToLose, PublishFails, PingTimeout
<1>2. ASSUME StartConnect
      PROVE  Linked'
  <2>1. /\ link' = "open" /\ to_broker' = <<[type |-> "CONNECT"]>> /\ to_client' = <<>>
        /\ connect_state' = 3 /\ b_up' = b_up /\ ~b_up
    BY <1>2 DEF StartConnect, Linked
  <2>2. /\ Len(to_broker') = 1 /\ to_broker'[1].type = "CONNECT" /\ to_broker' # <<>>
    BY <2>1
  <2>. QED
    BY <2>1, <2>2 DEF Linked, Acks
<1>3. ASSUME LoseConnection
      PROVE  Linked'
  BY <1>3, LinkedClosed DEF LoseConnection, CloseSession, Close
<1>4. ASSUME PublishCommand
      PROVE  Linked'
  <2>. DEFINE p == Publish(Head(commands).id, FALSE, Head(commands).msg)
  <2>1. /\ to_broker' = IF link = "open" THEN Append(to_broker, p) ELSE to_broker
        /\ UNCHANGED <<connected, connect_state, link, b_up, to_client>>
    BY <1>4 DEF PublishCommand
  <2>2. to_broker' \in Seq(ToBroker)
    BY <1>4, TypesSend2 DEF TypeInv, LinkTypes
  <2>3. Extends(to_broker', to_broker, {"PUBLISH"})
    <3>1. CASE link = "open"
      <4>1. p \in ToBroker /\ p.type \in {"PUBLISH"}
        <5>1. Head(commands).id \in MsgId /\ Head(commands).msg \in Sent
          BY <1>4, TailType, CommandTypes DEF PublishCommand, CanPublish, NextIs, TypeInv, SendTypes
        <5>2. p \in ToBroker
          BY <5>1, PacketTypes
        <5>. QED
          BY <5>2 DEF Publish
      <4>. HIDE DEF p
      <4>. QED
        BY <1>0, <2>1, <3>1, <4>1, ExtendsAppend
    <3>2. CASE link # "open"
      BY <1>0, <2>1, <3>2, ExtendsSame
    <3>. QED
      BY <3>1, <3>2
  <2>4. connected' \/ connect_state' # 0 \/ link = "closed"
    BY <2>1 DEF Linked
  <2>5. "CONNECT" \notin {"PUBLISH"} /\ {"PUBLISH"} \cap Acks = {}
    BY DEF Acks
  <2>6. ~b_up => to_client' = <<>>
    BY <2>1 DEF Linked
  <2>. QED
    BY <1>0, <2>1, <2>2, <2>3, <2>4, <2>5, <2>6, LinkedGoesOn
<1>5. ASSUME ConnectTimeout
      PROVE  Linked'
  <2>1. Close
    BY <1>5, ConnectFailedTypes DEF ConnectTimeout, TypeInv, SessionTypes
  <2>. QED
    BY <2>1, LinkedClosed DEF Close
<1>6. ASSUME Break
      PROVE  Linked'
  <2>1. connected' \/ connect_state' # 0
    BY <1>6 DEF Break, Linked
  <2>. QED
    BY <1>6, <2>1, LinkedClosed DEF Break
<1>. QED
  BY <1>1, <1>2, <1>3, <1>4, <1>5, <1>6

\* The receive thread answers with one packet
LEMMA LinkedAnswer ==
    ASSUME Linked, TypeInv, NEW type, Reads(type),
           NEW t \in {"PUBREL", "PUBACK", "PUBREC", "PUBCOMP"}, Answer(Packet(t, Head(to_client).id)),
           UNCHANGED <<connected, connect_state, link, b_up>>
    PROVE  /\ Linked' /\ to_broker' \in Seq(ToBroker)
           /\ Extends(to_broker', to_broker, {"PUBREL", "PUBACK", "PUBREC", "PUBCOMP"})
<1>. DEFINE p == Packet(t, Head(to_client).id)
            T == {"PUBREL", "PUBACK", "PUBREC", "PUBCOMP"}
<1>0. to_broker \in Seq(ToBroker) /\ LinkTypes
  BY DEF TypeInv, LinkTypes
<1>1. Head(to_client).id \in Nat
  BY <1>0, ReadsProps, PacketTypes
<1>2. p \in ToBroker /\ p.type \in T
  <2>1. p \in ToBroker
    BY <1>1, PacketTypes
  <2>. QED
    BY <2>1 DEF Packet
<1>3. to_broker' = Append(to_broker, p)
  BY DEF Answer
<1>4. "CONNECT" \notin T
  OBVIOUS
<1>. HIDE DEF p, T
<1>5. to_broker' \in Seq(ToBroker) /\ Extends(to_broker', to_broker, T)
  BY <1>0, <1>2, <1>3, AppendType, ExtendsAppend
<1>6. Linked'
  BY <1>4, <1>5, LinkedReads
<1>. QED
  BY <1>5, <1>6 DEF T

LEMMA LinkedReceive ==
    ASSUME Linked, TypeInv
    PROVE  /\ RecvPublish1 => Linked'
           /\ RecvPublish2 => Linked'
           /\ RecvPubrel => Linked'
           /\ RecvStrayPubrel => Linked'
           /\ RecvPubrec => Linked'
           /\ RecvPuback => Linked'
           /\ RecvPubcomp => Linked'
           /\ RecvPingresp => Linked'
           /\ RecvConnack => Linked'
<1>0. to_broker \in Seq(ToBroker) /\ Extends(to_broker, to_broker, {})
  BY ExtendsSame DEF TypeInv, LinkTypes
<1>1. ASSUME RecvPublish1
      PROVE  Linked'
  BY <1>1, LinkedAnswer DEF RecvPublish1
<1>2. ASSUME RecvPublish2
      PROVE  Linked'
  BY <1>2, LinkedAnswer DEF RecvPublish2
<1>3. ASSUME RecvPubrel
      PROVE  Linked'
  BY <1>3, LinkedAnswer DEF RecvPubrel
<1>4. ASSUME NEW type, Reads(type), UNCHANGED <<connected, connect_state, link, b_up, to_broker>>
      PROVE  Linked'
  BY <1>0, <1>4, LinkedReads
<1>5. ASSUME RecvStrayPubrel
      PROVE  Linked'
  <2>1. CASE Head(to_client).dup
    BY <1>5, <2>1, LinkedAnswer DEF RecvStrayPubrel, AnswerStray
  <2>2. CASE ~Head(to_client).dup
    BY <1>4, <1>5, <2>2 DEF RecvStrayPubrel, AnswerStray
  <2>. QED
    BY <2>1, <2>2
<1>6. ASSUME RecvPubrec
      PROVE  Linked'
  <2>1. CASE Expecting("PUBREC", Head(to_client).id, 2)
    BY <1>6, <2>1, LinkedAnswer DEF RecvPubrec
  <2>2. CASE ~Expecting("PUBREC", Head(to_client).id, 2)
    BY <1>4, <1>6, <2>2 DEF RecvPubrec
  <2>. QED
    BY <2>1, <2>2
<1>7. ASSUME RecvPuback \/ RecvPubcomp
      PROVE  Linked'
  BY <1>4, <1>7 DEF RecvPuback, RecvPubcomp, RecvEnd
<1>8. ASSUME RecvPingresp
      PROVE  Linked'
  BY <1>8, LinkedKept DEF RecvPingresp
<1>9. ASSUME RecvConnack
      PROVE  Linked'
  BY <1>4, <1>9 DEF RecvConnack
<1>. QED
  BY <1>1, <1>2, <1>3, <1>5, <1>6, <1>7, <1>8, <1>9

\* What is sent again is put behind what is in flight
LEMMA ResumeExtends ==
    ASSUME outboundMsgs \in Seq(Entries(Sent)), to_broker \in Seq(ToBroker)
    PROVE  Extends(Resume, to_broker, {"PUBLISH", "PUBREL"})
<1>. DEFINE n == Len(to_broker)
            m == Len(outboundMsgs)
            t == Resume
<1>1. /\ n \in Nat /\ m \in Nat /\ Len(t) = n + m
      /\ \A i \in 1..n : t[i] = to_broker[i]
      /\ \A i \in 1..m : t[n + i] = Again(outboundMsgs[i])
  BY ResumeType
<1>2. \A i \in 1..m : Again(outboundMsgs[i]).type \in {"PUBLISH", "PUBREL"}
  BY AgainType
<1>. HIDE DEF n, m, t
<1>3. \A i \in 1..n + m : i > n => t[i].type \in {"PUBLISH", "PUBREL"}
  <2>. TAKE i \in 1..n + m
  <2>. HAVE i > n
  <2>1. i - n \in 1..m /\ n + (i - n) = i
    BY <1>1
  <2>. QED
    BY <1>1, <1>2, <2>1
<1>4. Extends(t, to_broker, {"PUBLISH", "PUBREL"})
  <2>1. n = Len(to_broker)
    BY DEF n
  <2>. QED
    BY <1>1, <1>3, <2>1 DEF Extends
<1>. QED
  BY <1>4 DEF t

LEMMA RetryExtends ==
    ASSUME TypeInv, NEW k \in 1..Len(outboundMsgs), NEW due \in [1..k -> 1..Len(outboundMsgs)],
           RetryTimer(due)
    PROVE  Extends(to_broker', to_broker, {"PUBLISH", "PUBREL"})
<1>. DEFINE n == Len(to_broker)
            t == to_broker'
<1>0. outboundMsgs \in Seq(Entries(Sent)) /\ to_broker \in Seq(ToBroker) /\ k \in Nat
  BY DEF TypeInv, SessionTypes, LinkTypes
<1>1. /\ n \in Nat /\ k \in Nat /\ Len(t) = n + k
      /\ \A i \in 1..n : t[i] = to_broker[i]
      /\ \A i \in 1..k : \E j \in 1..Len(outboundMsgs) : t[n + i] = Again(outboundMsgs[j])
  <2>1. /\ Len(to_broker') = Len(to_broker) + k
        /\ \A i \in 1..Len(to_broker) : to_broker'[i] = to_broker[i]
        /\ \A i \in 1..k : \E j \in 1..Len(outboundMsgs) :
              to_broker'[Len(to_broker) + i] = Again(outboundMsgs[j])
    BY RetryType
  <2>. HIDE DEF Again
  <2>. QED
    BY <1>0, <2>1
<1>2. \A j \in 1..Len(outboundMsgs) : Again(outboundMsgs[j]).type \in {"PUBLISH", "PUBREL"}
  BY <1>0, AgainType
<1>. HIDE DEF n, t
<1>3. \A i \in 1..n + k : i > n => t[i].type \in {"PUBLISH", "PUBREL"}
  <2>. TAKE i \in 1..n + k
  <2>. HAVE i > n
  <2>1. i - n \in 1..k /\ n + (i - n) = i
    BY <1>1
  <2>. QED
    BY <1>1, <1>2, <2>1
<1>4. Extends(t, to_broker, {"PUBLISH", "PUBREL"})
  <2>1. n = Len(to_broker)
    BY DEF n
  <2>. QED
    BY <1>1, <1>3, <2>1 DEF Extends
<1>. QED
  BY <1>4 DEF t

LEMMA LinkedTurn ==
    ASSUME Linked, TypeInv
    PROVE  /\ ReadFails => Linked'
           /\ TurnLost => Linked'
           /\ TurnFails => Linked'
           /\ TurnEnds => Linked'
           /\ ConnectionComplete => Linked'
           /\ ConnackUnexpected => Linked'
<1>0. /\ to_broker \in Seq(ToBroker) /\ outboundMsgs \in Seq(Entries(Sent))
      /\ messageQueue \in Seq(Incoming) /\ arrived \in Seq(Incoming) /\ refusals \in Nat
  BY DEF TypeInv, LinkTypes, SessionTypes, HistoryTypes, BoundTypes
<1>1. ASSUME NEW messages \in Seq(Incoming), ConnectFailed(messages)
      PROVE  Linked'
  <2>1. Close
    BY <1>1, ConnectFailedTypes
  <2>. QED
    BY <2>1, LinkedClosed DEF Close
<1>2. ASSUME ReadFails
      PROVE  Linked'
  BY <1>0, <1>1, <1>2, LinkedKept DEF ReadFails
<1>3. ASSUME TurnLost \/ TurnEnds
      PROVE  Linked'
  BY <1>3, LinkedKept DEF TurnLost, TurnEnds
<1>4. ASSUME TurnFails
      PROVE  Linked'
  <2>1. CASE connected
    BY <1>4, <2>1, LinkedKept DEF TurnFails
  <2>2. CASE ~connected
    BY <1>4, <2>2, LinkedClosed DEF TurnFails, Close
  <2>. QED
    BY <2>1, <2>2
<1>5. ASSUME ConnectionComplete
      PROVE  Linked'
  <2>1. /\ connected' = TRUE /\ UNCHANGED <<link, b_up, to_client>>
        /\ CleanSession \/ link # "open" => to_broker' = to_broker
        /\ ~CleanSession /\ link = "open" => to_broker' = Resume
    BY <1>5 DEF ConnectionComplete
  <2>2. to_broker' \in Seq(ToBroker)
    BY <1>5, TypesTurn DEF TypeInv, LinkTypes
  <2>3. Extends(to_broker', to_broker, {"PUBLISH", "PUBREL"})
    <3>1. CASE CleanSession \/ link # "open"
      BY <1>0, <2>1, <3>1, ExtendsSame
    <3>2. CASE ~CleanSession /\ link = "open"
      BY <1>0, <2>1, <3>2, ResumeExtends
    <3>. QED
      BY <3>1, <3>2
  <2>4. ~b_up => to_client' = <<>> /\ {"PUBLISH", "PUBREL"} \cap Acks = {}
    BY <2>1 DEF Linked, Acks
  <2>. QED
    BY <1>0, <2>1, <2>2, <2>3, <2>4, LinkedGoesOn
<1>6. ASSUME ConnackUnexpected
      PROVE  Linked'
  <2>1. PICK ok \in BOOLEAN : DeliverHead(ok) /\ ConnectFailed(AfterDelivery(ok))
    BY <1>6 DEF ConnackUnexpected
  <2>2. AfterDelivery(ok) \in Seq(Incoming)
    BY <1>0, <2>1, DeliverHeadTypes
  <2>. QED
    BY <1>1, <2>1, <2>2
<1>. QED
  BY <1>2, <1>3, <1>4, <1>5, <1>6

LEMMA LinkedBroker ==
    ASSUME Linked, TypeInv
    PROVE  /\ BrokerConnect => Linked'
           /\ BrokerPublish1 => Linked'
           /\ BrokerPublish2 => Linked'
           /\ BrokerPubrel => Linked'
           /\ BrokerPubrec => Linked'
           /\ BrokerEnd => Linked'
           /\ \A q \in Qos : BrokerSend(q) => Linked'
<1>0. to_broker \in Seq(ToBroker)
  BY DEF TypeInv, LinkTypes
<1>1. ASSUME BrokerConnect
      PROVE  Linked'
  BY <1>0, <1>1, LinkedBrokerReads DEF BrokerConnect, BrokerOnly
<1>2. ASSUME NEW type, BrokerReads(type), type # "CONNECT"
      PROVE  b_up = TRUE
  <2>1. 1 \in 1..Len(to_broker) /\ to_broker[1].type # "CONNECT"
    BY <1>0, <1>2 DEF BrokerReads
  <2>. QED
    BY <2>1 DEF Linked, TypeInv, BrokerTypes
<1>3. ASSUME NEW type, BrokerReads(type), type # "CONNECT",
             UNCHANGED <<link, connected, connect_state, b_up>>
      PROVE  Linked'
  BY <1>0, <1>2, <1>3, LinkedBrokerReads
<1>4. ASSUME BrokerPublish1 \/ BrokerPublish2 \/ BrokerPubrel
      PROVE  Linked'
  BY <1>3, <1>4 DEF BrokerPublish1, BrokerPublish2, BrokerPubrel, BrokerOnly
<1>5. ASSUME BrokerPubrec \/ BrokerEnd
      PROVE  Linked'
  BY <1>3, <1>5 DEF BrokerPubrec, BrokerEnd, BrokerOnly
<1>6. ASSUME NEW q \in Qos, BrokerSend(q)
      PROVE  Linked'
  <2>1. /\ UNCHANGED <<connected, connect_state, link, b_up, to_broker>>
        /\ ~b_up => to_client' = to_client
    BY <1>6 DEF BrokerSend, BrokerOnly
  <2>. QED
    BY <2>1 DEF Linked
<1>. QED
  BY <1>1, <1>4, <1>5, <1>6

LEMMA LinkedRetry ==
    ASSUME Linked, TypeInv, NEW n \in 1..Len(outboundMsgs),
           NEW due \in [1..n -> 1..Len(outboundMsgs)], RetryTimer(due)
    PROVE  Linked'
<1>1. to_broker \in Seq(ToBroker) /\ to_broker' \in Seq(ToBroker)
  BY TypesRetry DEF TypeInv, LinkTypes
<1>2. Extends(to_broker', to_broker, {"PUBLISH", "PUBREL"})
  BY RetryExtends
<1>3. connected' /\ link = "open" /\ UNCHANGED <<link, b_up, to_client>>
  BY DEF RetryTimer
<1>4. ~b_up => to_client' = <<>> /\ {"PUBLISH", "PUBREL"} \cap Acks = {}
  BY <1>3 DEF Linked, Acks
<1>. QED
  BY <1>1, <1>2, <1>3, <1>4, LinkedGoesOn

LEMMA LinkedNext == TypeInv /\ Linked /\ [Next]_vars => Linked'
<1>. SUFFICES ASSUME TypeInv, Linked, [Next]_vars PROVE Linked'
  OBVIOUS
<1>1. CASE \/ \E q \in Qos : Send(q)
           \/ StartConnect \/ CannotConnect \/ LoseConnection \/ NothingToLose
           \/ PublishCommand \/ PublishFails \/ ConnectTimeout \/ Break \/ PingTimeout
  BY <1>1, LinkedSend
<1>2. CASE \/ RecvPublish1 \/ RecvPublish2 \/ RecvPubrel \/ RecvStrayPubrel
           \/ RecvPubrec \/ RecvPuback \/ RecvPubcomp \/ RecvPingresp \/ RecvConnack
  BY <1>2, LinkedReceive
<1>3. CASE ReadFails \/ TurnLost \/ TurnFails \/ TurnEnds \/ ConnectionComplete \/ ConnackUnexpected
  BY <1>3, LinkedTurn
<1>4. CASE \E n \in 1..Len(outboundMsgs) : \E due \in [1..n -> 1..Len(outboundMsgs)] : RetryTimer(due)
  BY <1>4, LinkedRetry
<1>5. CASE \/ BrokerConnect \/ BrokerPublish1 \/ BrokerPublish2 \/ BrokerPubrel \/ BrokerPubrec
           \/ BrokerEnd \/ \E q \in Qos : BrokerSend(q)
  BY <1>5, LinkedBroker
<1>6. CASE UNCHANGED vars
  BY <1>6, LinkedKept DEF vars
<1>. QED
  BY <1>1, <1>2, <1>3, <1>4, <1>5, <1>6
     DEF Next, SendThread, ReceiveThread, Timers, Broker, BrokerHandles
=============================================================================

--------------------------- MODULE IcpBus_proofs ---------------------------
(***************************************************************************)
(* Proofs about IcpBus, for any set of nodes, any bounds and any length of *)
(* frames and timeouts.  The first half holds with any timing, the second, *)
(* about the line, under the timing assumptions it names.                  *)
(*                                                                         *)
(* TypeOK is not inductive.  A frame leaves the main thread as packet at   *)
(* DeliverAcked and tx_buffer at BytesOut, and that they hold one there    *)
(* follows from where pc is, which Held adds.                              *)
(***************************************************************************)
EXTENDS IcpBus, SequenceTheorems, TLAPS

USE DEF lineVars, flagVars, roleVars, txVars, mainVars, busVars, bounds, history

Held ==
    \A n \in Node :
        /\ pc[n] \in {"ack_spin", "acked"} => packet[n] \in Frame
        /\ tx_buffer[n] = NoFrame => tx_buf_end[n] = 0
        /\ pc[n] \in {"set_access", "bytes_out"} =>
              tx_buffer[n] # NoFrame /\ tx_buf_start[n] <= tx_buf_end[n]

InvType == TypeOK /\ Held

\* The types, and what a node holds at each point: at the start
LEMMA InitType == Init => InvType
BY BusAssumption DEF Init, InvType, TypeOK, LineType, IcpType, TxType, MainType,
    NetType, HistoryType, Held, Role, Points

\* Messages taken from the inbox keep the types.
LEMMA ReceiveKeepsType ==
    ASSUME InvType, NEW n \in Node, Receive(n)
    PROVE  InvType'
<1>1. CASE RecvGrant(n)
  <2>1. LineType'
    BY <1>1 DEF InvType, TypeOK, LineType, RecvGrant, Arrives, Consume
  <2>2. NetType'
    BY <1>1 DEF InvType, TypeOK, NetType, RecvGrant, Arrives, Consume
  <2>. QED
    BY <1>1, <2>1, <2>2 DEF InvType, TypeOK, IcpType, TxType, MainType,
        HistoryType, Held, RecvGrant, Consume
<1>2. CASE RecvForeignActive(n)
  <2>1. LineType'
    BY <1>2 DEF InvType, TypeOK, LineType, RecvForeignActive, Arrives, Consume,
        NotifyAccessActive
  <2>2. IcpType'
    BY <1>2 DEF InvType, TypeOK, IcpType, Role, RecvForeignActive, Arrives,
        Consume, NotifyAccessActive
  <2>3. NetType'
    BY <1>2 DEF InvType, TypeOK, NetType, RecvForeignActive, Arrives, Consume,
        NotifyAccessActive
  <2>. QED
    BY <1>2, <2>1, <2>2, <2>3 DEF InvType, TypeOK, TxType, MainType,
        HistoryType, Held, RecvForeignActive, Consume
<1>3. CASE RecvActiveIgnored(n)
  <2>1. NetType'
    BY <1>3 DEF InvType, TypeOK, NetType, RecvActiveIgnored, Arrives, Consume
  <2>. QED
    BY <1>3, <2>1 DEF InvType, TypeOK, LineType, IcpType, TxType, MainType,
        HistoryType, Held, RecvActiveIgnored, Consume
<1>4. CASE RecvInactive(n)
  <2>1. LineType'
    BY <1>4 DEF InvType, TypeOK, LineType, RecvInactive, Arrives, Consume,
        LineFreed, NotifyAccessInactive
  <2>2. IcpType'
    <3>1. <<>> \in Seq(Chunk)
      OBVIOUS
    <3>2. role' \in [Node -> Role] /\ waiting_for_ack' \in [Node -> BOOLEAN]
      BY <1>4 DEF InvType, TypeOK, IcpType, Role, RecvInactive, NotifyAccessInactive
    <3>3. rx_buffer' \in [Node -> Seq(Chunk)]
      BY <1>4, <3>1 DEF InvType, TypeOK, IcpType, RecvInactive, NotifyAccessInactive
    <3>. QED
      BY <1>4, <3>2, <3>3 DEF InvType, TypeOK, IcpType, RecvInactive
  <2>3. NetType'
    BY <1>4 DEF InvType, TypeOK, NetType, RecvInactive, Arrives, Consume,
        LineFreed, NotifyAccessInactive
  <2>4. HistoryType'
    BY <1>4 DEF InvType, TypeOK, HistoryType, IcpType, Role, RecvInactive,
        Arrives, Consume, LineFreed, NotifyAccessInactive
  <2>. QED
    BY <1>4, <2>1, <2>2, <2>3, <2>4 DEF InvType, TypeOK, TxType, MainType,
        Held, RecvInactive, Consume
<1>5. CASE RecvFrame(n)
  <2>1. LineType'
    <3>1. Head(inbox[n]) \in Message /\ Head(inbox[n]).type = "RS485"
      BY <1>5 DEF InvType, TypeOK, NetType, RecvFrame, Arrives
    <3>2. Head(inbox[n]) \in [type : {"RS485"}, chunk : Chunk]
      BY <3>1 DEF Message, AccessText
    <3>3. Head(inbox[n]).chunk \in Chunk
      BY <3>2
    <3>. QED
      BY <1>5, <3>3 DEF InvType, TypeOK, LineType, RecvFrame
  <2>2. NetType'
    BY <1>5 DEF InvType, TypeOK, NetType, RecvFrame, Arrives, Consume
  <2>. QED
    BY <1>5, <2>1, <2>2 DEF InvType, TypeOK, IcpType, TxType, MainType,
        HistoryType, Held, RecvFrame, Consume
<1>. QED
  BY <1>1, <1>2, <1>3, <1>4, <1>5 DEF Receive

\* So do the commands of the tester and the calls of the host.
LEMMA HostKeepsType ==
    ASSUME InvType, NEW n \in Node, Update(n) \/ Command(n)
    PROVE  InvType'
<1>1. CASE Update(n)
  <2>1. LineType'
    BY <1>1 DEF InvType, TypeOK, LineType, Update
  <2>. QED
    BY <1>1, <2>1 DEF InvType, TypeOK, IcpType, TxType, MainType, NetType,
        HistoryType, Held, Update
<1>2. CASE StopUpdate(n)
  <2>1. LineType'
    BY <1>2 DEF InvType, TypeOK, LineType, StopUpdate
  <2>2. HistoryType'
    BY <1>2, BusAssumption DEF InvType, TypeOK, HistoryType, StopUpdate
  <2>. QED
    BY <1>2, <2>1, <2>2 DEF InvType, TypeOK, IcpType, TxType, MainType,
        NetType, Held, StopUpdate
<1>3. CASE Reset(n)
  <2>1. LineType'
    BY <1>3 DEF InvType, TypeOK, LineType, Reset, LineFreed
  <2>2. HistoryType'
    BY <1>3, BusAssumption DEF InvType, TypeOK, HistoryType, Reset, LineFreed
  <2>. QED
    BY <1>3, <2>1, <2>2 DEF InvType, TypeOK, IcpType, TxType, MainType,
        NetType, Held, Reset
<1>4. CASE SetListenToAll(n)
  <2>1. IcpType'
    BY <1>4 DEF InvType, TypeOK, IcpType, Role, SetListenToAll
  <2>. QED
    BY <1>4, <2>1 DEF InvType, TypeOK, LineType, TxType, MainType, NetType,
        HistoryType, Held, SetListenToAll
<1>5. ASSUME NEW d \in Targets, Ping(n, d)
      PROVE  InvType'
  <2>0. [dst |-> d, src |-> n, id |-> pings + 1] \in Frame
    BY <1>5, BusAssumption DEF InvType, TypeOK, HistoryType, Ping, Mac, Frame
  <2>1. FrameLen[d] - 1 \in Nat /\ FrameLen[d] - 1 > 0
    <3>1. d \in Node \cup {Broadcast}
      BY BusAssumption
    <3>2. FrameLen[d] \in Nat /\ FrameLen[d] >= 2
      BY <3>1, BusAssumption
    <3>. QED
      BY <3>2
  <2>2. TxType'
    BY <1>5, <2>0, <2>1 DEF InvType, TypeOK, TxType, Ping
  <2>3. HistoryType'
    BY <1>5, BusAssumption DEF InvType, TypeOK, HistoryType, Ping
  <2>4. Held'
    <3>1. /\ tx_buffer' = [tx_buffer EXCEPT ![n] = [dst |-> d, src |-> n, id |-> pings + 1]]
          /\ tx_buf_start' = [tx_buf_start EXCEPT ![n] = 0]
          /\ tx_buf_end' = [tx_buf_end EXCEPT ![n] = FrameLen[d] - 1]
          /\ pc' = pc /\ packet' = packet
      BY <1>5 DEF Ping
    <3>2. [dst |-> d, src |-> n, id |-> pings + 1] # NoFrame
      BY <2>0, MarkersAreNoFrames
    <3>. QED
      BY <3>1, <3>2, <2>1 DEF InvType, TypeOK, Held, TxType, MainType
  <2>. QED
    BY <1>5, <2>2, <2>3, <2>4 DEF InvType, TypeOK, LineType, IcpType, MainType,
        NetType, Ping
<1>. QED
  BY <1>1, <1>2, <1>3, <1>4, <1>5 DEF Command

\* So does the bus node.
LEMMA BusKeepsType ==
    ASSUME InvType, NEW n \in Node, Bus(n)
    PROVE  InvType'
<1>1. CASE BusGrant(n)
  <2>1. NetType'
    BY <1>1 DEF InvType, TypeOK, NetType, BusGrant, BusArrives, BusVarsFrom
  <2>. QED
    BY <1>1, <2>1 DEF InvType, TypeOK, LineType, IcpType, TxType, MainType,
        HistoryType, Held, BusGrant, BusVarsFrom
<1>2. CASE BusRefuse(n)
  <2>1. NetType'
    BY <1>2 DEF InvType, TypeOK, NetType, BusRefuse, BusArrives, BusVarsFrom
  <2>. QED
    BY <1>2, <2>1 DEF InvType, TypeOK, LineType, IcpType, TxType, MainType,
        HistoryType, Held, BusRefuse, BusVarsFrom
<1>3. CASE BusRelease(n)
  <2>1. NetType'
    BY <1>3 DEF InvType, TypeOK, NetType, BusRelease, BusArrives, BusVarsFrom
  <2>. QED
    BY <1>3, <2>1 DEF InvType, TypeOK, LineType, IcpType, TxType, MainType,
        HistoryType, Held, BusRelease, BusVarsFrom
<1>. QED
  BY <1>1, <1>2, <1>3 DEF Bus

\* So does every step of the main thread.
LEMMA MainKeepsType ==
    ASSUME InvType, NEW n \in Node, Main(n)
    PROVE  InvType'
<1>1. CASE BytesIn(n)
  <2>1. LineType'
    BY <1>1 DEF InvType, TypeOK, LineType, BytesIn, TakeBytes, At, Goto, FirstByteIsMine,
        Bystander
  <2>2. IcpType'
    BY <1>1 DEF InvType, TypeOK, IcpType, Role, LineType, BytesIn, At, Goto,
        FirstByteIsMine, Bystander
  <2>3. MainType'
    BY <1>1 DEF InvType, TypeOK, MainType, Points, BytesIn, At, Goto,
        FirstByteIsMine, Bystander
  <2>4. Held'
    BY <1>1 DEF InvType, TypeOK, Held, TxType, MainType, Points, BytesIn, At,
        Goto, FirstByteIsMine, Bystander
  <2>. QED
    BY <1>1, <2>1, <2>2, <2>3, <2>4 DEF InvType, TypeOK, TxType, NetType,
        HistoryType, BytesIn
<1>3. CASE NoUpdate(n)
  <2>1. MainType'
    BY <1>3 DEF InvType, TypeOK, MainType, Points, NoUpdate, AtUpdate, At, Goto, TurnDone
  <2>2. Held'
    BY <1>3 DEF InvType, TypeOK, Held, TxType, MainType, Points, NoUpdate, AtUpdate, At,
        Goto, TurnDone
  <2>. QED
    BY <1>3, <2>1, <2>2 DEF InvType, TypeOK, LineType, IcpType, TxType,
        NetType, HistoryType, NoUpdate
<1>4. CASE Acknowledge(n)
  <2>1. MainType'
    BY <1>4 DEF InvType, TypeOK, MainType, Points, IcpType, Role, Chunk,
        Acknowledge, AtUpdate, At, Goto, PublishAccess, InactiveBy, AccessText,
        ValidPacket
  <2>2. NetType'
    BY <1>4 DEF InvType, TypeOK, NetType, IcpType, Role, Chunk, Acknowledge,
        At, Goto, PublishAccess, InactiveBy, AccessText, ValidPacket
  <2>3. Held'
    BY <1>4 DEF InvType, TypeOK, Held, TxType, MainType, Points, IcpType, Role,
        Chunk, Acknowledge, AtUpdate, At, Goto, PublishAccess, InactiveBy, AccessText,
        ValidPacket
  <2>. QED
    BY <1>4, <2>1, <2>2, <2>3 DEF InvType, TypeOK, LineType, IcpType, TxType,
        HistoryType, Acknowledge
<1>5. CASE AckSpin(n)
  <2>1. MainType'
    BY <1>5 DEF InvType, TypeOK, MainType, Points, AckSpin, At, Goto
  <2>2. Held'
    BY <1>5 DEF InvType, TypeOK, Held, TxType, MainType, Points, AckSpin, At,
        Goto
  <2>. QED
    BY <1>5, <2>1, <2>2 DEF InvType, TypeOK, LineType, IcpType, TxType,
        NetType, HistoryType, AckSpin
<1>6. CASE DeliverAcked(n)
  <2>1. IcpType'
    BY <1>6 DEF InvType, TypeOK, IcpType, Role, DeliverAcked, At, Goto, Deliver
  <2>2. MainType'
    BY <1>6 DEF InvType, TypeOK, MainType, Points, DeliverAcked, At, Goto,
        Deliver
  <2>3. HistoryType'
    BY <1>6 DEF InvType, TypeOK, HistoryType, MainType, Points, Held,
        DeliverAcked, At, Goto, Deliver
  <2>4. Held'
    BY <1>6 DEF InvType, TypeOK, Held, TxType, MainType, Points, DeliverAcked,
        At, Goto, Deliver
  <2>. QED
    BY <1>6, <2>1, <2>2, <2>3, <2>4 DEF InvType, TypeOK, LineType, TxType,
        NetType, DeliverAcked
<1>7. CASE DeliverUnacked(n)
  <2>1. IcpType'
    BY <1>7 DEF InvType, TypeOK, IcpType, Role, DeliverUnacked, AtUpdate, At, Goto,
        Deliver, ValidPacket
  <2>2. MainType'
    BY <1>7 DEF InvType, TypeOK, MainType, Points, DeliverUnacked, AtUpdate, At, Goto,
        Deliver, ValidPacket
  <2>3. HistoryType'
    BY <1>7 DEF InvType, TypeOK, HistoryType, IcpType, Role, Chunk,
        DeliverUnacked, AtUpdate, At, Goto, Deliver, ValidPacket
  <2>4. Held'
    BY <1>7 DEF InvType, TypeOK, Held, TxType, MainType, Points,
        DeliverUnacked, AtUpdate, At, Goto, Deliver, ValidPacket
  <2>. QED
    BY <1>7, <2>1, <2>2, <2>3, <2>4 DEF InvType, TypeOK, LineType, TxType,
        NetType, DeliverUnacked
<1>8. CASE NothingReceived(n)
  <2>1. MainType'
    BY <1>8 DEF InvType, TypeOK, MainType, Points, NothingReceived, AtUpdate, At, Goto
  <2>2. Held'
    BY <1>8 DEF InvType, TypeOK, Held, TxType, MainType, Points,
        NothingReceived, AtUpdate, At, Goto
  <2>. QED
    BY <1>8, <2>1, <2>2 DEF InvType, TypeOK, LineType, IcpType, TxType,
        NetType, HistoryType, NothingReceived
<1>9. CASE KeepWaiting(n)
  <2>1. LineType'
    BY <1>9 DEF InvType, TypeOK, LineType, KeepWaiting, At, Goto, UpdateDone,
        TurnDone, CountUpdate, AckOverdue
  <2>2. IcpType'
    BY <1>9, BusAssumption DEF InvType, TypeOK, IcpType, Role, KeepWaiting, At,
        Goto, UpdateDone, TurnDone, CountUpdate, AckOverdue
  <2>3. MainType'
    BY <1>9 DEF InvType, TypeOK, MainType, Points, KeepWaiting, At, Goto,
        UpdateDone, TurnDone, CountUpdate, AckOverdue
  <2>4. Held'
    BY <1>9 DEF InvType, TypeOK, Held, TxType, MainType, Points, KeepWaiting,
        At, Goto, UpdateDone, TurnDone, CountUpdate, AckOverdue
  <2>. QED
    BY <1>9, <2>1, <2>2, <2>3, <2>4 DEF InvType, TypeOK, TxType, NetType,
        HistoryType, KeepWaiting
<1>10. CASE AckTimedOut(n)
  <2>1. IcpType'
    BY <1>10, BusAssumption DEF InvType, TypeOK, IcpType, Role, AckTimedOut,
        At, Goto, PublishAccess, InactiveBy, AccessText, AckOverdue
  <2>2. MainType'
    BY <1>10 DEF InvType, TypeOK, MainType, Points, AckTimedOut, At, Goto,
        PublishAccess, InactiveBy, AccessText, AckOverdue
  <2>3. NetType'
    BY <1>10 DEF InvType, TypeOK, NetType, AckTimedOut, At, Goto,
        PublishAccess, InactiveBy, AccessText, AckOverdue
  <2>4. Held'
    BY <1>10 DEF InvType, TypeOK, Held, TxType, MainType, Points, AckTimedOut,
        At, Goto, PublishAccess, InactiveBy, AccessText, AckOverdue
  <2>. QED
    BY <1>10, <2>1, <2>2, <2>3, <2>4 DEF InvType, TypeOK, LineType, TxType,
        HistoryType, AckTimedOut
<1>11. CASE TimeoutSpin(n)
  <2>1. LineType'
    BY <1>11 DEF InvType, TypeOK, LineType, TimeoutSpin, At, Goto, UpdateDone,
        TurnDone
  <2>2. MainType'
    BY <1>11 DEF InvType, TypeOK, MainType, Points, TimeoutSpin, At, Goto,
        UpdateDone, TurnDone
  <2>3. Held'
    BY <1>11 DEF InvType, TypeOK, Held, TxType, MainType, Points, TimeoutSpin,
        At, Goto, UpdateDone, TurnDone
  <2>. QED
    BY <1>11, <2>1, <2>2, <2>3 DEF InvType, TypeOK, IcpType, TxType, NetType,
        HistoryType, TimeoutSpin
<1>12. CASE NothingSent(n)
  <2>1. LineType'
    BY <1>12 DEF InvType, TypeOK, LineType, NothingSent, At, Goto, UpdateDone,
        TurnDone
  <2>2. MainType'
    BY <1>12 DEF InvType, TypeOK, MainType, Points, NothingSent, At, Goto,
        UpdateDone, TurnDone
  <2>3. Held'
    BY <1>12 DEF InvType, TypeOK, Held, TxType, MainType, Points, NothingSent,
        At, Goto, UpdateDone, TurnDone
  <2>. QED
    BY <1>12, <2>1, <2>2, <2>3 DEF InvType, TypeOK, IcpType, TxType, NetType,
        HistoryType, NothingSent
<1>13. CASE RequestLine(n)
  <2>1. MainType'
    BY <1>13 DEF InvType, TypeOK, MainType, Points, TxType, RequestLine, At,
        Goto, PublishAccess, ActiveBy, AccessText, BytesToSend
  <2>2. NetType'
    BY <1>13 DEF InvType, TypeOK, NetType, TxType, RequestLine, At, Goto,
        PublishAccess, ActiveBy, AccessText, BytesToSend
  <2>3. Held'
    BY <1>13 DEF InvType, TypeOK, Held, TxType, MainType, Points, RequestLine,
        At, Goto, PublishAccess, ActiveBy, AccessText, BytesToSend
  <2>. QED
    BY <1>13, <2>1, <2>2, <2>3 DEF InvType, TypeOK, LineType, IcpType, TxType,
        HistoryType, RequestLine
<1>14. CASE LineReserved(n)
  <2>1. IcpType'
    BY <1>14 DEF InvType, TypeOK, IcpType, Role, LineReserved, At, Goto
  <2>2. MainType'
    BY <1>14 DEF InvType, TypeOK, MainType, Points, LineReserved, At, Goto
  <2>3. Held'
    BY <1>14 DEF InvType, TypeOK, Held, TxType, MainType, Points, LineReserved,
        At, Goto
  <2>. QED
    BY <1>14, <2>1, <2>2, <2>3 DEF InvType, TypeOK, LineType, TxType, NetType,
        HistoryType, LineReserved
<1>15. CASE LineBusy(n)
  <2>1. LineType'
    BY <1>15 DEF InvType, TypeOK, LineType, LineBusy, At, Goto, UpdateDone,
        TurnDone
  <2>2. MainType'
    BY <1>15 DEF InvType, TypeOK, MainType, Points, LineBusy, At, Goto,
        UpdateDone, TurnDone
  <2>3. Held'
    BY <1>15 DEF InvType, TypeOK, Held, TxType, MainType, Points, LineBusy, At,
        Goto, UpdateDone, TurnDone
  <2>. QED
    BY <1>15, <2>1, <2>2, <2>3 DEF InvType, TypeOK, IcpType, TxType, NetType,
        HistoryType, LineBusy
<1>16. CASE BytesOut(n)
  <2>1. TxType'
    BY <1>16 DEF InvType, TypeOK, TxType, Held, BytesOut, At, Goto, Rs485,
        Message, Chunk
  <2>2. MainType'
    BY <1>16 DEF InvType, TypeOK, MainType, Points, TxType, Held, BytesOut, At,
        Goto, Rs485, Message, Chunk
  <2>3. NetType'
    BY <1>16, SMTT(30) DEF InvType, TypeOK, NetType, TxType, Held, BytesOut, At, Goto,
        Rs485, Message, Chunk
  <2>4. HistoryType'
    BY <1>16 DEF InvType, TypeOK, HistoryType, TxType, Held, BytesOut, At,
        Goto, Rs485, Message, Chunk
  <2>5. Held'
    BY <1>16 DEF InvType, TypeOK, Held, TxType, MainType, Points, BytesOut, At,
        Goto, Rs485, Message, Chunk
  <2>. QED
    BY <1>16, <2>1, <2>2, <2>3, <2>4, <2>5 DEF InvType, TypeOK, LineType,
        IcpType, BytesOut
<1>17. CASE SentToOne(n)
  <2>1. LineType'
    BY <1>17 DEF InvType, TypeOK, LineType, SentToOne, At, Goto, UpdateDone,
        TurnDone, Advance
  <2>2. IcpType'
    BY <1>17 DEF InvType, TypeOK, IcpType, Role, SentToOne, At, Goto,
        UpdateDone, TurnDone, Advance
  <2>3. TxType'
    BY <1>17 DEF InvType, TypeOK, TxType, SentToOne, At, Goto, UpdateDone,
        TurnDone, Advance
  <2>4. MainType'
    BY <1>17 DEF InvType, TypeOK, MainType, Points, SentToOne, At, Goto,
        UpdateDone, TurnDone, Advance
  <2>5. Held'
    BY <1>17 DEF InvType, TypeOK, Held, TxType, MainType, Points, SentToOne,
        At, Goto, UpdateDone, TurnDone, Advance
  <2>. QED
    BY <1>17, <2>1, <2>2, <2>3, <2>4, <2>5 DEF InvType, TypeOK, NetType,
        HistoryType, SentToOne
<1>18. CASE SentToAll(n)
  <2>1. MainType'
    BY <1>18 DEF InvType, TypeOK, MainType, Points, SentToAll, At, Goto,
        PublishAccess, InactiveBy, AccessText
  <2>2. NetType'
    BY <1>18 DEF InvType, TypeOK, NetType, SentToAll, At, Goto, PublishAccess,
        InactiveBy, AccessText
  <2>3. Held'
    BY <1>18 DEF InvType, TypeOK, Held, TxType, MainType, Points, SentToAll,
        At, Goto, PublishAccess, InactiveBy, AccessText
  <2>. QED
    BY <1>18, <2>1, <2>2, <2>3 DEF InvType, TypeOK, LineType, IcpType, TxType,
        HistoryType, SentToAll
<1>19. CASE BroadcastSpin(n)
  <2>1. MainType'
    BY <1>19 DEF InvType, TypeOK, MainType, Points, BroadcastSpin, At, Goto
  <2>2. Held'
    BY <1>19 DEF InvType, TypeOK, Held, TxType, MainType, Points,
        BroadcastSpin, At, Goto
  <2>. QED
    BY <1>19, <2>1, <2>2 DEF InvType, TypeOK, LineType, IcpType, TxType,
        NetType, HistoryType, BroadcastSpin
<1>20. CASE BroadcastDone(n)
  <2>1. LineType'
    BY <1>20 DEF InvType, TypeOK, LineType, BroadcastDone, At, Goto,
        UpdateDone, TurnDone, Advance
  <2>2. IcpType'
    BY <1>20 DEF InvType, TypeOK, IcpType, Role, BroadcastDone, At, Goto,
        UpdateDone, TurnDone, Advance
  <2>3. TxType'
    BY <1>20 DEF InvType, TypeOK, TxType, BroadcastDone, At, Goto, UpdateDone,
        TurnDone, Advance
  <2>4. MainType'
    BY <1>20 DEF InvType, TypeOK, MainType, Points, BroadcastDone, At, Goto,
        UpdateDone, TurnDone, Advance
  <2>5. Held'
    BY <1>20 DEF InvType, TypeOK, Held, TxType, MainType, Points,
        BroadcastDone, At, Goto, UpdateDone, TurnDone, Advance
  <2>. QED
    BY <1>20, <2>1, <2>2, <2>3, <2>4, <2>5 DEF InvType, TypeOK, NetType,
        HistoryType, BroadcastDone
<1>21. CASE Reinit(n)
  <2>1. LineType'
    BY <1>21 DEF InvType, TypeOK, LineType, Reinit, At, Goto
  <2>2. IcpType'
    BY <1>21 DEF InvType, TypeOK, IcpType, Role, Reinit, At, Goto
  <2>3. TxType'
    BY <1>21 DEF InvType, TypeOK, TxType, Reinit, At, Goto
  <2>4. MainType'
    BY <1>21 DEF InvType, TypeOK, MainType, Points, Reinit, At, Goto
  <2>5. Held'
    BY <1>21 DEF InvType, TypeOK, Held, TxType, MainType, Points, Reinit, At,
        Goto
  <2>. QED
    BY <1>21, <2>1, <2>2, <2>3, <2>4, <2>5 DEF InvType, TypeOK, NetType,
        HistoryType, Reinit
<1>. QED
  BY <1>1, <1>3, <1>4, <1>5, <1>6, <1>7, <1>8, <1>9, <1>10, <1>11, <1>12,
      <1>13, <1>14, <1>15, <1>16, <1>17, <1>18, <1>19, <1>20, <1>21 DEF Main
\* The bus node's own steps, and those in which nothing happens
LEMMA BusResetKeepsType == ASSUME InvType, BusReset PROVE InvType'
<1>1. NetType' /\ HistoryType'
  BY BusAssumption DEF InvType, TypeOK, NetType, HistoryType, BusReset
<1>. QED
  BY <1>1 DEF InvType, TypeOK, LineType, IcpType, TxType, MainType, Held, BusReset

\* The bus node's broadcast
LEMMA BusPublishKeepsType == ASSUME InvType, BusPublish PROVE InvType'
<1>1. NetType'
  <2>1. bus_payload \in Seq(Message)
    BY DEF InvType, TypeOK, NetType, Message
  <2>2. inbox' \in [Node -> Seq(Message)]
    BY <2>1 DEF InvType, TypeOK, NetType, BusPublish
  <2>. QED
    BY <2>2 DEF InvType, TypeOK, NetType, BusPublish
<1>. QED
  BY <1>1 DEF InvType, TypeOK, LineType, IcpType, TxType, MainType, HistoryType,
      Held, BusPublish

\* A step of nobody
LEMMA StutterKeepsType == ASSUME InvType, UNCHANGED vars PROVE InvType'
BY DEF InvType, TypeOK, LineType, IcpType, TxType, MainType, NetType,
    HistoryType, Held, vars

\* ... and across every step
LEMMA NextKeepsType == InvType /\ [Next]_vars => InvType'
BY ReceiveKeepsType, HostKeepsType, BusKeepsType, MainKeepsType,
    BusResetKeepsType, BusPublishKeepsType, StutterKeepsType DEF Next

\* The types of all variables, in every reachable state
THEOREM InvTypeCorrect == Spec => []InvType
BY InitType, NextKeepsType, PTL DEF Spec

\* IcpBus's TypeOK
THEOREM TypeCorrect == Spec => []TypeOK
<1>1. InvType => TypeOK
  BY DEF InvType
<1>. QED
  BY <1>1, InvTypeCorrect, PTL

-----------------------------------------------------------------------------
(***************************************************************************)
(* No packet reaches a host it is not addressed to.  What protects a node  *)
(* that does not listen in is that its rx_buffer is empty or begins with   *)
(* bytes that passed the address test, and that it is not empty whenever   *)
(* the test is taken as passed.                                            *)
(***************************************************************************)
MyFirst(n) == Head(rx_buffer[n]) = Junk \/ Head(rx_buffer[n]).dst = n

AddressedTo(n) ==
    /\ ~listen_to_all[n] /\ role[n] # "LISTEN_IN"
    /\ rx_buffer[n] # <<>> => MyFirst(n)
    /\ role[n] = "RX" /\ destination_received[n] => rx_buffer[n] # <<>>
    /\ packet[n] # NoFrame => packet[n].dst = n
    /\ \A i \in 1..Len(host_in[n]) : host_in[n][i].dst = n

Addressed == \A n \in Node \ Listeners : AddressedTo(n)

receiveVars == <<role, destination_received, listen_to_all, rx_buffer, packet, host_in>>

\* At the start every buffer is empty
LEMMA InitAddressed == Init => Addressed
BY DEF Init, Addressed, AddressedTo

\* What is appended to a sequence does not change how it begins
LEMMA AppendBehindHead ==
    ASSUME NEW S, NEW s \in Seq(S), NEW e \in S
    PROVE  /\ Append(s, e) # <<>>
           /\ s # <<>> => Head(Append(s, e)) = Head(s)
           /\ s = <<>> => Head(Append(s, e)) = e
<1>1. Len(Append(s, e)) = Len(s) + 1 /\ Len(s) \in Nat
  OBVIOUS
<1>2. Append(s, e)[1] = IF Len(s) = 0 THEN e ELSE s[1]
  BY <1>1
<1>3. s # <<>> <=> Len(s) > 0
  BY <1>1
<1>4. Append(s, e) # <<>>
  BY <1>1
<1>5. Head(Append(s, e)) = Append(s, e)[1] /\ (s # <<>> => Head(s) = s[1])
  BY <1>4
<1>. QED
  BY <1>2, <1>3, <1>4, <1>5

\* A host that only gets packets of its own still has only such
LEMMA DeliverMine ==
    ASSUME NEW m \in Node, NEW p \in Frame, p.dst = m, NEW s \in Seq(Frame),
           \A i \in 1..Len(s) : s[i].dst = m
    PROVE  \A i \in 1..Len(Append(s, p)) : Append(s, p)[i].dst = m
OBVIOUS

\* The steps of the receive thread and of the host
LEMMA ReceiveKeepsAddressed ==
    ASSUME InvType, NEW n \in Node, Receive(n) \/ Update(n) \/ Command(n),
           NEW m \in Node \ Listeners, AddressedTo(m)
    PROVE  AddressedTo(m)'
<1>1. CASE RecvForeignActive(n)
  BY <1>1 DEF AddressedTo, MyFirst, InvType, TypeOK, IcpType, RecvForeignActive,
      NotifyAccessActive
<1>2. CASE RecvInactive(n)
  BY <1>2 DEF AddressedTo, MyFirst, InvType, TypeOK, IcpType, RecvInactive,
      NotifyAccessInactive
<1>3. CASE SetListenToAll(n)
  BY <1>3 DEF AddressedTo, MyFirst, InvType, TypeOK, IcpType, SetListenToAll
<1>4. CASE UNCHANGED receiveVars
  BY <1>4 DEF AddressedTo, MyFirst, receiveVars
<1>5. RecvGrant(n) \/ RecvActiveIgnored(n) \/ RecvFrame(n) => UNCHANGED receiveVars
  BY DEF RecvGrant, RecvActiveIgnored, RecvFrame, receiveVars
<1>6. Update(n) \/ StopUpdate(n) \/ Reset(n) => UNCHANGED receiveVars
  BY DEF Update, StopUpdate, Reset, receiveVars
<1>7. (\E d \in Targets : Ping(n, d)) => UNCHANGED receiveVars
  BY DEF Ping, receiveVars
<1>. QED
  BY <1>1, <1>2, <1>3, <1>4, <1>5, <1>6, <1>7 DEF Receive, Command

\* The steps of the main thread
LEMMA MainKeepsAddressed ==
    ASSUME InvType, NEW n \in Node, Main(n),
           NEW m \in Node \ Listeners, AddressedTo(m)
    PROVE  AddressedTo(m)'
<1>1. CASE BytesIn(n)
  <2>1. CASE n # m
    BY <1>1, <2>1 DEF AddressedTo, MyFirst, InvType, TypeOK, IcpType, BytesIn
  <2>2. CASE n = m
    <3>1. PICK mine \in FirstByteIsMine(m, payload_in[m]) :
            LET c == payload_in[m]
                rejected == role[m] = "RX" /\ ~destination_received[m] /\ ~mine
                r == IF rejected THEN "NO_ROLE" ELSE role[m]
            IN /\ role'[m] = r
               /\ rejected => rx_buffer'[m] = <<>>
               /\ ~rejected /\ r = "RX" => rx_buffer'[m] = Append(rx_buffer[m], c)
               /\ ~rejected /\ r # "RX" => rx_buffer'[m] = rx_buffer[m]
      BY <1>1, <2>2 DEF BytesIn, InvType, TypeOK, IcpType, AddressedTo, Bystander
    <3>2. payload_in[m] \in Chunk
      BY <1>1, <2>2 DEF BytesIn, InvType, TypeOK, LineType
    <3>3. mine => payload_in[m] = Junk \/ payload_in[m].dst = m
      BY <3>1 DEF FirstByteIsMine
    <3>4. rx_buffer[m] \in Seq(Chunk)
      BY DEF InvType, TypeOK, IcpType
    <3>5. /\ Append(rx_buffer[m], payload_in[m]) # <<>>
          /\ rx_buffer[m] # <<>> =>
                Head(Append(rx_buffer[m], payload_in[m])) = Head(rx_buffer[m])
          /\ rx_buffer[m] = <<>> =>
                Head(Append(rx_buffer[m], payload_in[m])) = payload_in[m]
      BY <3>2, <3>4, AppendBehindHead
    <3>6. UNCHANGED <<listen_to_all, packet, host_in>>
      BY <1>1 DEF BytesIn
    <3>7. ~listen_to_all'[m] /\ role'[m] # "LISTEN_IN"
      BY <3>1, <3>6 DEF AddressedTo
    <3>8. rx_buffer'[m] # <<>> => MyFirst(m)'
      BY <3>1, <3>3, <3>5 DEF AddressedTo, MyFirst
    <3>9. role'[m] = "RX" => rx_buffer'[m] # <<>>
      BY <3>1, <3>5
    <3>. QED
      BY <3>6, <3>7, <3>8, <3>9 DEF AddressedTo
  <2>. QED
    BY <2>1, <2>2
<1>2. CASE Acknowledge(n)
  BY <1>2 DEF AddressedTo, MyFirst, InvType, TypeOK, MainType, Acknowledge, ValidPacket
<1>3. CASE DeliverAcked(n)
  <2>1. packet[n] \in Frame /\ packet[n] # NoFrame
    BY <1>3, MarkersAreNoFrames DEF InvType, Held, DeliverAcked, At
  <2>2. CASE n # m
    BY <1>3, <2>2 DEF AddressedTo, MyFirst, InvType, TypeOK, IcpType, MainType,
        HistoryType, DeliverAcked, Deliver
  <2>3. CASE n = m
    <3>1. host_in'[m] = Append(host_in[m], packet[m]) /\ host_in[m] \in Seq(Frame)
      BY <1>3, <2>3 DEF DeliverAcked, Deliver, InvType, TypeOK, HistoryType
    <3>2. packet[m].dst = m
      BY <2>1, <2>3 DEF AddressedTo
    <3>3. \A i \in 1..Len(host_in'[m]) : host_in'[m][i].dst = m
      BY <2>1, <2>3, <3>1, <3>2, DeliverMine DEF AddressedTo
    <3>4. /\ role'[m] = "NO_ROLE" /\ rx_buffer'[m] = <<>>
          /\ packet'[m] = NoFrame /\ UNCHANGED listen_to_all
      BY <1>3, <2>3 DEF DeliverAcked, Deliver, InvType, TypeOK, IcpType, MainType
    <3>. QED
      BY <3>3, <3>4 DEF AddressedTo
  <2>. QED
    BY <2>2, <2>3
<1>4. CASE DeliverUnacked(n)
  <2>1. CASE n # m
    BY <1>4, <2>1 DEF AddressedTo, MyFirst, InvType, TypeOK, IcpType,
        HistoryType, DeliverUnacked, Deliver
  <2>2. CASE n = m
    <3>1. /\ host_in'[m] = Append(host_in[m], Head(rx_buffer[m]))
          /\ host_in[m] \in Seq(Frame)
      BY <1>4, <2>2 DEF DeliverUnacked, Deliver, InvType, TypeOK, HistoryType
    <3>2. Head(rx_buffer[m]) \in Frame /\ Head(rx_buffer[m]).dst = m
      BY <1>4, <2>2 DEF DeliverUnacked, ValidPacket, InvType, TypeOK, IcpType,
          Chunk, AddressedTo, MyFirst
    <3>3. \A i \in 1..Len(host_in'[m]) : host_in'[m][i].dst = m
      BY <3>1, <3>2, DeliverMine DEF AddressedTo
    <3>4. /\ role'[m] \notin {"RX", "LISTEN_IN"} /\ rx_buffer'[m] = <<>>
          /\ UNCHANGED <<packet, listen_to_all>>
      BY <1>4, <2>2 DEF DeliverUnacked, Deliver, InvType, TypeOK, IcpType
    <3>. QED
      BY <3>3, <3>4 DEF AddressedTo
  <2>. QED
    BY <2>1, <2>2
<1>5. CASE AckTimedOut(n) \/ LineReserved(n) \/ BroadcastDone(n)
  BY <1>5 DEF AddressedTo, MyFirst, InvType, TypeOK, IcpType, AckTimedOut,
      LineReserved, BroadcastDone
<1>6. CASE Reinit(n)
  BY <1>6 DEF AddressedTo, MyFirst, InvType, TypeOK, IcpType, Reinit
<1>7. CASE UNCHANGED receiveVars
  BY <1>7 DEF AddressedTo, MyFirst, receiveVars
<1>8. NoUpdate(n) \/ AckSpin(n) \/ NothingReceived(n) => UNCHANGED receiveVars
  BY DEF NoUpdate, AckSpin, NothingReceived, receiveVars
<1>9. KeepWaiting(n) \/ TimeoutSpin(n) \/ NothingSent(n) => UNCHANGED receiveVars
  BY DEF KeepWaiting, TimeoutSpin, NothingSent, receiveVars
<1>10. RequestLine(n) \/ LineBusy(n) \/ BytesOut(n) => UNCHANGED receiveVars
  BY DEF RequestLine, LineBusy, BytesOut, receiveVars
<1>11. SentToOne(n) \/ SentToAll(n) \/ BroadcastSpin(n) => UNCHANGED receiveVars
  BY DEF SentToOne, SentToAll, BroadcastSpin, receiveVars
<1>. QED
  BY <1>1, <1>2, <1>3, <1>4, <1>5, <1>6, <1>7, <1>8, <1>9, <1>10, <1>11 DEF Main

\* No step puts foreign bytes first
LEMMA NextKeepsAddressed == InvType /\ Addressed /\ [Next]_vars => Addressed'
<1>. SUFFICES ASSUME InvType, Addressed, [Next]_vars, NEW m \in Node \ Listeners
              PROVE  AddressedTo(m)'
  BY DEF Addressed
<1>1. AddressedTo(m)
  BY DEF Addressed
<1>2. ASSUME NEW n \in Node, Receive(n) \/ Update(n) \/ Command(n)
      PROVE  AddressedTo(m)'
  BY <1>1, <1>2, ReceiveKeepsAddressed
<1>3. ASSUME NEW n \in Node, Main(n)
      PROVE  AddressedTo(m)'
  BY <1>1, <1>3, MainKeepsAddressed
<1>4. ASSUME NEW n \in Node, Bus(n)
      PROVE  AddressedTo(m)'
  BY <1>1, <1>4 DEF AddressedTo, MyFirst, Bus, BusGrant, BusRefuse, BusRelease,
      BusVarsFrom
<1>5. CASE BusReset \/ BusPublish
  BY <1>1, <1>5 DEF AddressedTo, MyFirst, BusReset, BusPublish
<1>6. CASE UNCHANGED vars
  BY <1>1, <1>6 DEF AddressedTo, MyFirst, vars
<1>. QED
  BY <1>2, <1>3, <1>4, <1>5, <1>6 DEF Next

\* ... hence in no reachable state are they
LEMMA AddressedCorrect == Spec => []Addressed
BY InitAddressed, NextKeepsAddressed, InvTypeCorrect, PTL DEF Spec

\* A host that does not listen in is given its own packets: RightRecipient
THEOREM RecipientCorrect == Spec => []RightRecipient
<1>1. Addressed => RightRecipient
  BY DEF Addressed, AddressedTo, RightRecipient
<1>. QED
  BY <1>1, AddressedCorrect, PTL
-----------------------------------------------------------------------------
(***************************************************************************)
(* A host of IcpBus is given a frame at most once: for any set of nodes,   *)
(* any bounds, any timing of the timers and any commands of the tester.    *)
(*                                                                         *)
(* A frame is followed from the transmit buffer, which publishes it whole  *)
(* at most once, through the places of a receiving node: on its way to it, *)
(* in payload_in, kept in rx_buffer or as the packet that is being         *)
(* acknowledged, given to the host.  It is never in two of them.           *)
(***************************************************************************)

In(s, e) == \E i \in 1..Len(s) : s[i] = e
OnceIn(s, e) == \A i, j \in 1..Len(s) : s[i] = e /\ s[j] = e => i = j

Coming(m, f) == In(inbox[m], Rs485(f))
Stored(m, f) == In(rx_buffer[m], f) \/ packet[m] = f
Given(m, f)  == In(host_in[m], f)
Somewhere(m, f) == Coming(m, f) \/ payload_in[m] = f \/ Stored(m, f) \/ Given(m, f)

OncePlaced(m, f) ==
    /\ OnceIn(inbox[m], Rs485(f)) /\ OnceIn(host_in[m], f)
    /\ Coming(m, f) => payload_in[m] # f /\ ~Stored(m, f) /\ ~Given(m, f)
    /\ payload_in[m] = f => ~Stored(m, f) /\ ~Given(m, f)
    /\ Stored(m, f) => ~Given(m, f)

\* Between BytesOut and Advance the bytes at 0 are on the line already
OnLine(n) == pc[n] \in {"puback", "bcast_spin", "cleared"}
Unsent(n) == tx_buffer[n] # NoFrame /\ tx_buf_start[n] = 0 /\ ~OnLine(n)

PacketHeld == \A n \in Node : packet[n] # NoFrame => pc[n] \in {"ack_spin", "acked"}
Placed == \A m \in Node, f \in Frame : OncePlaced(m, f) /\ (Somewhere(m, f) => f.id <= pings)
SentOnce ==
    \A n \in Node :
        /\ tx_buffer[n] # NoFrame => tx_buffer[n].src = n /\ tx_buffer[n].id <= pings
        /\ Unsent(n) => \A m \in Node : ~Somewhere(m, tx_buffer[n])
        /\ OnLine(n) => array_len[n] >= 1

OnceInv == PacketHeld /\ Placed /\ SentOnce

-----------------------------------------------------------------------------
(* Sequences: what a tail, an appended element and a suffix leave in them. *)

\* A tail holds what the sequence holds, less the head if that was there once
LEMMA TailIn ==
    ASSUME NEW S, NEW s \in Seq(S), s # <<>>, NEW e
    PROVE  /\ In(s, Head(s))
           /\ In(Tail(s), e) => In(s, e)
           /\ OnceIn(s, e) => OnceIn(Tail(s), e)
           /\ OnceIn(s, e) /\ Head(s) = e => ~In(Tail(s), e)
<1>1. /\ Len(s) \in Nat /\ Len(s) >= 1 /\ Len(Tail(s)) = Len(s) - 1 /\ Head(s) = s[1]
      /\ \A i \in 1..Len(s) - 1 : Tail(s)[i] = s[i + 1]
  OBVIOUS
<1>2. \A i \in 1..Len(s) - 1 : i + 1 \in 1..Len(s) /\ i + 1 # 1
  BY <1>1
<1>3. In(s, Head(s))
  BY <1>1 DEF In
<1>4. In(Tail(s), e) => In(s, e)
  BY <1>1, <1>2 DEF In
<1>5. OnceIn(s, e) => OnceIn(Tail(s), e)
  <2>. SUFFICES ASSUME OnceIn(s, e), NEW i \in 1..Len(s) - 1, NEW j \in 1..Len(s) - 1,
                       Tail(s)[i] = e, Tail(s)[j] = e
                PROVE  i = j
    BY <1>1 DEF OnceIn
  <2>1. s[i + 1] = e /\ s[j + 1] = e /\ i + 1 \in 1..Len(s) /\ j + 1 \in 1..Len(s)
    BY <1>1, <1>2
  <2>2. i + 1 = j + 1
    BY <2>1 DEF OnceIn
  <2>. QED
    BY <2>2
<1>6. OnceIn(s, e) /\ Head(s) = e => ~In(Tail(s), e)
  <2>. SUFFICES ASSUME OnceIn(s, e), Head(s) = e, NEW i \in 1..Len(s) - 1, Tail(s)[i] = e
                PROVE  FALSE
    BY <1>1 DEF In
  <2>1. s[i + 1] = e /\ s[1] = e /\ i + 1 \in 1..Len(s) /\ 1 \in 1..Len(s) /\ i + 1 # 1
    BY <1>1, <1>2
  <2>. QED
    BY <2>1 DEF OnceIn
<1>. QED
  BY <1>3, <1>4, <1>5, <1>6

\* An appended element is there once if it was not there
LEMMA AppendIn ==
    ASSUME NEW S, NEW s \in Seq(S), NEW x \in S, NEW e
    PROVE  /\ In(Append(s, x), e) <=> In(s, e) \/ x = e
           /\ OnceIn(s, e) /\ ~(In(s, e) /\ x = e) => OnceIn(Append(s, x), e)
<1>1. /\ Len(s) \in Nat /\ Len(Append(s, x)) = Len(s) + 1
      /\ Append(s, x)[Len(s) + 1] = x
      /\ \A i \in 1..Len(s) : Append(s, x)[i] = s[i]
  OBVIOUS
<1>2. \A i \in 1..Len(s) + 1 : i \in 1..Len(s) \/ i = Len(s) + 1
  BY <1>1
<1>3. In(Append(s, x), e) <=> In(s, e) \/ x = e
  <2>1. In(s, e) => In(Append(s, x), e)
    BY <1>1 DEF In
  <2>2. x = e => In(Append(s, x), e)
    BY <1>1 DEF In
  <2>3. In(Append(s, x), e) => In(s, e) \/ x = e
    BY <1>1, <1>2 DEF In
  <2>. QED
    BY <2>1, <2>2, <2>3
<1>4. OnceIn(s, e) /\ ~(In(s, e) /\ x = e) => OnceIn(Append(s, x), e)
  <2>. SUFFICES ASSUME OnceIn(s, e), ~(In(s, e) /\ x = e),
                       NEW i \in 1..Len(s) + 1, NEW j \in 1..Len(s) + 1,
                       Append(s, x)[i] = e, Append(s, x)[j] = e
                PROVE  i = j
    BY <1>1 DEF OnceIn
  <2>1. CASE i \in 1..Len(s) /\ j \in 1..Len(s)
    BY <1>1, <2>1 DEF OnceIn
  <2>2. CASE i = Len(s) + 1 \/ j = Len(s) + 1
    <3>1. x = e
      BY <1>1, <2>2
    <3>2. ~In(s, e)
      BY <3>1
    <3>3. i \notin 1..Len(s) /\ j \notin 1..Len(s)
      BY <1>1, <3>2 DEF In
    <3>. QED
      BY <1>2, <3>3
  <2>. QED
    BY <1>2, <2>1, <2>2
<1>. QED
  BY <1>3, <1>4

\* A suffix without an element does not add it
LEMMA ConcatIn ==
    ASSUME NEW S, NEW s \in Seq(S), NEW t \in Seq(S), NEW e, ~In(t, e)
    PROVE  /\ In(s \o t, e) => In(s, e)
           /\ OnceIn(s, e) => OnceIn(s \o t, e)
<1>1. /\ Len(s) \in Nat /\ Len(t) \in Nat /\ Len(s \o t) = Len(s) + Len(t)
      /\ \A i \in 1..Len(s) + Len(t) : (s \o t)[i] = IF i <= Len(s) THEN s[i] ELSE t[i - Len(s)]
  BY ConcatProperties, LenProperties
<1>2. ASSUME NEW i \in 1..Len(s) + Len(t), (s \o t)[i] = e
      PROVE  i \in 1..Len(s) /\ s[i] = e
  <2>1. CASE i <= Len(s)
    BY <1>1, <1>2, <2>1
  <2>2. CASE ~(i <= Len(s))
    <3>1. i - Len(s) \in 1..Len(t) /\ t[i - Len(s)] = e
      BY <1>1, <1>2, <2>2
    <3>. QED
      BY <3>1 DEF In
  <2>. QED
    BY <2>1, <2>2
<1>3. In(s \o t, e) => In(s, e)
  BY <1>1, <1>2 DEF In
<1>4. OnceIn(s, e) => OnceIn(s \o t, e)
  BY <1>1, <1>2 DEF OnceIn
<1>. QED
  BY <1>3, <1>4

-----------------------------------------------------------------------------
(* A step other than BytesOut brings no frame anywhere, and moves one from *)
(* one place to the next.                                                  *)

Moves(m, f) == OncePlaced(m, f)' /\ (Somewhere(m, f)' => Somewhere(m, f))

\* The places of node m that a step leaves alone
Still(m) == /\ inbox'[m] = inbox[m] /\ payload_in'[m] = payload_in[m]
            /\ rx_buffer'[m] = rx_buffer[m] /\ packet'[m] = packet[m]
            /\ host_in'[m] = host_in[m]

\* Nothing moves at a node whose places stay as they are
LEMMA NothingMoves ==
    ASSUME NEW m \in Node, NEW f \in Frame, OncePlaced(m, f), Still(m)
    PROVE  Moves(m, f)
BY DEF Still, Moves, OncePlaced, Somewhere, Coming, Stored, Given

\* A message or bytes that are dropped, or that are no frame
LEMMA FrameLost ==
    ASSUME InvType, NEW m \in Node, NEW f \in Frame, OncePlaced(m, f),
           inbox'[m] = inbox[m] \/ (inbox[m] # <<>> /\ inbox'[m] = Tail(inbox[m])),
           payload_in'[m] \in {payload_in[m], NoFrame},
           rx_buffer'[m] \in {rx_buffer[m], <<>>},
           packet'[m] = packet[m], host_in'[m] = host_in[m]
    PROVE  Moves(m, f)
<1>1. inbox[m] \in Seq(Message)
  BY DEF InvType, TypeOK, NetType
<1>2. (Coming(m, f)' => Coming(m, f)) /\ OnceIn(inbox[m], Rs485(f))'
  BY <1>1, TailIn DEF OncePlaced, Coming
<1>3. payload_in'[m] = f => payload_in[m] = f
  BY MarkersAreNoFrames
<1>4. Stored(m, f)' => Stored(m, f)
  BY DEF Stored, In
<1>5. (Given(m, f)' <=> Given(m, f)) /\ OnceIn(host_in[m], f)'
  BY DEF Given, OncePlaced
<1>. QED
  BY <1>2, <1>3, <1>4, <1>5 DEF Moves, OncePlaced, Somewhere

\* The receive thread takes the bytes in
LEMMA FrameTaken ==
    ASSUME InvType, NEW m \in Node, NEW f \in Frame, OncePlaced(m, f), RecvFrame(m)
    PROVE  Moves(m, f)
<1>1. /\ inbox[m] \in Seq(Message) /\ inbox[m] # <<>>
      /\ Head(inbox[m]) \in Message /\ Head(inbox[m]).type = "RS485"
  BY DEF InvType, TypeOK, NetType, RecvFrame, Arrives
<1>2. Head(inbox[m]) = Rs485(Head(inbox[m]).chunk)
  BY <1>1 DEF Message, AccessText, Rs485
<1>3. inbox'[m] = Tail(inbox[m]) /\ payload_in'[m] = Head(inbox[m]).chunk
  BY DEF RecvFrame, Consume, InvType, TypeOK, NetType, LineType
<1>4. rx_buffer' = rx_buffer /\ packet' = packet /\ host_in' = host_in
  BY DEF RecvFrame
<1>5. OnceIn(inbox[m], Rs485(f))' /\ (Coming(m, f)' => Coming(m, f))
  BY <1>1, <1>3, TailIn DEF OncePlaced, Coming
<1>6. payload_in'[m] = f => Coming(m, f) /\ ~Coming(m, f)'
  BY <1>1, <1>2, <1>3, TailIn DEF OncePlaced, Coming
<1>7. (Stored(m, f)' <=> Stored(m, f)) /\ (Given(m, f)' <=> Given(m, f)) /\ OnceIn(host_in[m], f)'
  BY <1>4 DEF OncePlaced, Stored, Given
<1>. QED
  BY <1>5, <1>6, <1>7 DEF Moves, OncePlaced, Somewhere

\* The main thread takes them into rx_buffer, flushes it or leaves it
LEMMA FrameStored ==
    ASSUME InvType, NEW m \in Node, NEW f \in Frame, OncePlaced(m, f), BytesIn(m)
    PROVE  Moves(m, f)
<1>1. payload_in[m] \in Chunk /\ rx_buffer[m] \in Seq(Chunk)
  BY DEF InvType, TypeOK, LineType, IcpType, BytesIn
<1>2. payload_in'[m] = NoFrame /\ inbox' = inbox /\ packet' = packet /\ host_in' = host_in
  BY DEF BytesIn, TakeBytes, InvType, TypeOK, LineType
<1>3. rx_buffer'[m] \in {<<>>, rx_buffer[m], Append(rx_buffer[m], payload_in[m])}
  BY DEF BytesIn, InvType, TypeOK, IcpType
<1>4. In(rx_buffer'[m], f) => In(rx_buffer[m], f) \/ payload_in[m] = f
  <2>1. CASE rx_buffer'[m] = <<>>
    BY <2>1 DEF In
  <2>2. CASE rx_buffer'[m] = Append(rx_buffer[m], payload_in[m])
    BY <1>1, <2>2, AppendIn
  <2>. QED
    BY <1>3, <2>1, <2>2
<1>5. Stored(m, f)' => Stored(m, f) \/ payload_in[m] = f
  BY <1>2, <1>4 DEF Stored
<1>6. /\ (Coming(m, f)' <=> Coming(m, f)) /\ (Given(m, f)' <=> Given(m, f))
      /\ OnceIn(inbox[m], Rs485(f))' /\ OnceIn(host_in[m], f)'
  BY <1>2 DEF Coming, Given, OncePlaced
<1>7. payload_in'[m] # f
  BY <1>2, MarkersAreNoFrames
<1>. QED
  BY <1>5, <1>6, <1>7 DEF Moves, OncePlaced, Somewhere

\* A packet that is acknowledged is a copy of what is stored
LEMMA FrameAcknowledged ==
    ASSUME InvType, NEW m \in Node, NEW f \in Frame, OncePlaced(m, f), Acknowledge(m)
    PROVE  Moves(m, f)
<1>1. rx_buffer[m] \in Seq(Chunk) /\ rx_buffer[m] # <<>> /\ packet'[m] = Head(rx_buffer[m])
  BY DEF InvType, TypeOK, IcpType, MainType, Acknowledge, ValidPacket
<1>2. In(rx_buffer[m], Head(rx_buffer[m]))
  BY <1>1, TailIn
<1>3. /\ inbox' = inbox /\ payload_in' = payload_in
      /\ rx_buffer' = rx_buffer /\ host_in' = host_in
  BY DEF Acknowledge
<1>4. Stored(m, f)' => Stored(m, f)
  BY <1>1, <1>2, <1>3 DEF Stored
<1>5. /\ (Coming(m, f)' <=> Coming(m, f)) /\ (Given(m, f)' <=> Given(m, f))
      /\ OnceIn(inbox[m], Rs485(f))' /\ OnceIn(host_in[m], f)'
  BY <1>3 DEF Coming, Given, OncePlaced
<1>. QED
  BY <1>3, <1>4, <1>5 DEF Moves, OncePlaced, Somewhere

\* The host is given what was stored, of which nothing is left
LEMMA FrameGiven ==
    ASSUME InvType, PacketHeld, NEW m \in Node, NEW f \in Frame, OncePlaced(m, f),
           DeliverAcked(m) \/ DeliverUnacked(m)
    PROVE  Moves(m, f)
<1>1. /\ inbox' = inbox /\ payload_in' = payload_in
      /\ rx_buffer'[m] = <<>> /\ host_in[m] \in Seq(Frame)
  BY DEF DeliverAcked, DeliverUnacked, Deliver, InvType, TypeOK, IcpType, HistoryType
<1>2. PICK p \in Frame : /\ host_in'[m] = Append(host_in[m], p)
                         /\ p = f => Stored(m, f)
  <2>1. CASE DeliverAcked(m)
    <3>1. packet[m] \in Frame
      BY <2>1 DEF DeliverAcked, At, InvType, Held
    <3>2. host_in'[m] = Append(host_in[m], packet[m])
      BY <2>1 DEF DeliverAcked, Deliver, InvType, TypeOK, HistoryType
    <3>. QED
      BY <3>1, <3>2 DEF Stored
  <2>2. CASE DeliverUnacked(m)
    <3>1. rx_buffer[m] \in Seq(Chunk) /\ rx_buffer[m] # <<>> /\ Head(rx_buffer[m]) \in Frame
      BY <2>2 DEF DeliverUnacked, ValidPacket, InvType, TypeOK, IcpType, Chunk
    <3>2. host_in'[m] = Append(host_in[m], Head(rx_buffer[m]))
      BY <2>2 DEF DeliverUnacked, Deliver, InvType, TypeOK, HistoryType
    <3>. QED
      BY <3>1, <3>2, TailIn DEF Stored
  <2>. QED
    BY <2>1, <2>2
<1>3. packet'[m] = NoFrame
  <2>1. CASE DeliverAcked(m)
    BY <2>1 DEF DeliverAcked, InvType, TypeOK, MainType
  <2>2. CASE DeliverUnacked(m)
    BY <2>2 DEF DeliverUnacked, AtUpdate, At, PacketHeld
  <2>. QED
    BY <2>1, <2>2
<1>4. ~Stored(m, f)'
  BY <1>1, <1>3, MarkersAreNoFrames DEF Stored, In
<1>5. Given(m, f)' <=> Given(m, f) \/ p = f
  BY <1>1, <1>2, AppendIn DEF Given
<1>6. OnceIn(host_in[m], f)'
  BY <1>1, <1>2, AppendIn DEF OncePlaced, Given
<1>7. (Coming(m, f)' <=> Coming(m, f)) /\ OnceIn(inbox[m], Rs485(f))'
  BY <1>1 DEF Coming, OncePlaced
<1>. QED
  BY <1>1, <1>2, <1>4, <1>5, <1>6, <1>7 DEF Moves, OncePlaced, Somewhere

-----------------------------------------------------------------------------
\* What stays where it is at a node, however others act
LEMMA OthersMoveNothing ==
    ASSUME InvType, NEW n \in Node, NEW m \in Node, n # m,
           Receive(n) \/ Update(n) \/ Command(n) \/ Bus(n) \/ (Main(n) /\ ~BytesOut(n))
    PROVE  Still(m)
<1>. USE DEF InvType, TypeOK, LineType, IcpType, MainType, NetType, HistoryType, Still
<1>1. CASE Receive(n)
  BY <1>1 DEF Receive, RecvGrant, RecvForeignActive, RecvActiveIgnored, RecvInactive,
      RecvFrame, Consume, NotifyAccessActive, NotifyAccessInactive
<1>2. CASE Update(n) \/ Command(n)
  BY <1>2 DEF Update, Command, StopUpdate, Reset, SetListenToAll, Ping
<1>3. CASE Bus(n)
  BY <1>3 DEF Bus, BusGrant, BusRefuse, BusRelease, BusVarsFrom
<1>4. CASE BytesIn(n)
  BY <1>4 DEF BytesIn, TakeBytes
<1>5. CASE NoUpdate(n) \/ Acknowledge(n) \/ AckSpin(n) \/ NothingReceived(n) \/ Reinit(n)
  BY <1>5 DEF NoUpdate, Acknowledge, AckSpin, NothingReceived, Reinit
<1>6. CASE DeliverAcked(n) \/ DeliverUnacked(n)
  BY <1>6 DEF DeliverAcked, DeliverUnacked, Deliver
<1>7. CASE KeepWaiting(n) \/ AckTimedOut(n) \/ TimeoutSpin(n) \/ NothingSent(n) \/ RequestLine(n)
  BY <1>7 DEF KeepWaiting, AckTimedOut, TimeoutSpin, NothingSent, RequestLine
<1>8. CASE LineReserved(n) \/ LineBusy(n) \/ SentToOne(n) \/ SentToAll(n)
           \/ BroadcastSpin(n) \/ BroadcastDone(n)
  BY <1>8 DEF LineReserved, LineBusy, SentToOne, SentToAll, BroadcastSpin, BroadcastDone
<1>. QED
  BY <1>1, <1>2, <1>3, <1>4, <1>5, <1>6, <1>7, <1>8 DEF Main

\* A node's own steps
LEMMA OwnMoves ==
    ASSUME InvType, PacketHeld, NEW m \in Node, NEW f \in Frame, OncePlaced(m, f),
           Receive(m) \/ Update(m) \/ Command(m) \/ Bus(m) \/ (Main(m) /\ ~BytesOut(m))
    PROVE  Moves(m, f)
<1>1. CASE RecvGrant(m) \/ RecvForeignActive(m) \/ RecvActiveIgnored(m)
  BY <1>1, FrameLost DEF RecvGrant, RecvForeignActive, RecvActiveIgnored, Arrives, Consume,
      InvType, TypeOK, NetType
<1>2. CASE RecvInactive(m)
  BY <1>2, FrameLost DEF RecvInactive, NotifyAccessInactive, Arrives, Consume,
      InvType, TypeOK, NetType, IcpType
<1>3. CASE RecvFrame(m)
  BY <1>3, FrameTaken
<1>4. CASE Update(m) \/ StopUpdate(m) \/ SetListenToAll(m)
  BY <1>4, NothingMoves DEF Update, StopUpdate, SetListenToAll, Still
<1>5. CASE Reset(m) \/ Reinit(m)
  BY <1>5, FrameLost DEF Reset, Reinit, InvType, TypeOK, LineType, IcpType
<1>6. CASE \E d \in Targets : Ping(m, d)
  BY <1>6, NothingMoves DEF Ping, Still
<1>7. CASE Bus(m)
  BY <1>7, NothingMoves DEF Bus, BusGrant, BusRefuse, BusRelease, BusVarsFrom, Still
<1>8. CASE BytesIn(m)
  BY <1>8, FrameStored
<1>9. CASE Acknowledge(m)
  BY <1>9, FrameAcknowledged
<1>10. CASE DeliverAcked(m) \/ DeliverUnacked(m)
  BY <1>10, FrameGiven
<1>11. CASE NoUpdate(m) \/ AckSpin(m) \/ NothingReceived(m) \/ KeepWaiting(m)
            \/ AckTimedOut(m) \/ TimeoutSpin(m) \/ NothingSent(m) \/ RequestLine(m)
  BY <1>11, NothingMoves DEF NoUpdate, AckSpin, NothingReceived, KeepWaiting,
      AckTimedOut, TimeoutSpin, NothingSent, RequestLine, Still
<1>12. CASE LineReserved(m) \/ LineBusy(m) \/ SentToOne(m) \/ SentToAll(m)
            \/ BroadcastSpin(m) \/ BroadcastDone(m)
  BY <1>12, NothingMoves DEF LineReserved, LineBusy, SentToOne, SentToAll, BroadcastSpin,
      BroadcastDone, Still
<1>. QED
  BY <1>1, <1>2, <1>3, <1>4, <1>5, <1>6, <1>7, <1>8, <1>9, <1>10, <1>11, <1>12
      DEF Receive, Command, Main

\* What the bus node publishes is no frame
LEMMA TextsMoveNothing ==
    ASSUME InvType, NEW m \in Node, NEW f \in Frame, OncePlaced(m, f), BusPublish
    PROVE  Moves(m, f)
<1>1. inbox[m] \in Seq(Message) /\ bus_payload \in Seq(AccessText) /\ bus_payload \in Seq(Message)
  BY DEF InvType, TypeOK, NetType, Message
<1>2. inbox'[m] = inbox[m] \o bus_payload
  BY DEF BusPublish
<1>3. ~In(bus_payload, Rs485(f))
  <2>1. Rs485(f) \notin AccessText
    BY DEF Rs485, AccessText
  <2>2. \A i \in 1..Len(bus_payload) : bus_payload[i] \in AccessText
    BY <1>1
  <2>. QED
    BY <2>1, <2>2 DEF In
<1>4. (Coming(m, f)' => Coming(m, f)) /\ OnceIn(inbox[m], Rs485(f))'
  BY <1>1, <1>2, <1>3, ConcatIn DEF OncePlaced, Coming
<1>5. payload_in' = payload_in /\ rx_buffer' = rx_buffer /\ packet' = packet /\ host_in' = host_in
  BY DEF BusPublish
<1>. QED
  BY <1>4, <1>5 DEF Moves, OncePlaced, Somewhere, Stored, Given

\* Any step but BytesOut moves a frame on, at any node
LEMMA OneMoves ==
    ASSUME InvType, PacketHeld, NEW m \in Node, NEW f \in Frame, OncePlaced(m, f),
           [Next]_vars, \A n \in Node : ~BytesOut(n)
    PROVE  Moves(m, f)
<1>1. ASSUME NEW n \in Node,
             Receive(n) \/ Update(n) \/ Command(n) \/ Bus(n) \/ (Main(n) /\ ~BytesOut(n))
      PROVE  Moves(m, f)
  BY <1>1, OwnMoves, OthersMoveNothing, NothingMoves
<1>2. CASE BusReset
  BY <1>2, NothingMoves DEF BusReset, Still
<1>3. CASE BusPublish
  BY <1>3, TextsMoveNothing
<1>4. CASE UNCHANGED vars
  BY <1>4, NothingMoves DEF vars, Still
<1>. QED
  BY <1>1, <1>2, <1>3, <1>4 DEF Next

-----------------------------------------------------------------------------
(* The transmit buffer and the packet being acknowledged.                  *)

\* A packet is held while its acknowledgement is on its way, and only then
LEMMA PacketSteps == ASSUME InvType, PacketHeld, [Next]_vars PROVE PacketHeld'
<1>. SUFFICES ASSUME NEW n \in Node, packet'[n] # NoFrame
              PROVE  pc'[n] \in {"ack_spin", "acked"}
  BY DEF PacketHeld
<1>. USE DEF PacketHeld
<1>1. CASE pc'[n] = pc[n] /\ packet'[n] = packet[n]
  BY <1>1
<1>2. CASE pc[n] \notin {"ack_spin", "acked"} /\ packet'[n] = packet[n]
  BY <1>2
<1>3. ASSUME NEW k \in Node, Receive(k) \/ Update(k) \/ Command(k) \/ Bus(k)
      PROVE  UNCHANGED <<pc, packet>>
  BY <1>3 DEF Receive, RecvGrant, RecvForeignActive, RecvActiveIgnored, RecvInactive,
      RecvFrame, Update, Command, StopUpdate, Reset, SetListenToAll, Ping, Bus, BusGrant,
      BusRefuse, BusRelease, BusVarsFrom
<1>4. ASSUME NEW k \in Node, Main(k), k # n
      PROVE  pc'[n] = pc[n] /\ packet'[n] = packet[n]
  <2>. USE <1>4 DEF InvType, TypeOK, MainType, Goto, TurnDone, UpdateDone, Deliver
  <2>1. CASE BytesIn(k) \/ NoUpdate(k) \/ Acknowledge(k) \/ AckSpin(k) \/ DeliverAcked(k)
             \/ DeliverUnacked(k) \/ NothingReceived(k) \/ KeepWaiting(k) \/ AckTimedOut(k)
    BY <2>1 DEF BytesIn, NoUpdate, Acknowledge, AckSpin, DeliverAcked, DeliverUnacked,
        NothingReceived, KeepWaiting, AckTimedOut
  <2>2. CASE TimeoutSpin(k) \/ NothingSent(k) \/ RequestLine(k) \/ LineReserved(k) \/ LineBusy(k)
             \/ BytesOut(k) \/ SentToOne(k) \/ SentToAll(k) \/ BroadcastSpin(k)
             \/ BroadcastDone(k) \/ Reinit(k)
    BY <2>2 DEF TimeoutSpin, NothingSent, RequestLine, LineReserved, LineBusy, BytesOut,
        SentToOne, SentToAll, BroadcastSpin, BroadcastDone, Reinit
  <2>. QED
    BY <2>1, <2>2 DEF Main
<1>5. CASE Acknowledge(n) \/ AckSpin(n)
  BY <1>5 DEF Acknowledge, AckSpin, Goto, InvType, TypeOK, MainType
<1>6. CASE DeliverAcked(n)
  BY <1>6 DEF DeliverAcked, InvType, TypeOK, MainType
<1>7. CASE Main(n) /\ ~Acknowledge(n) /\ ~AckSpin(n) /\ ~DeliverAcked(n)
  <2>1. CASE BytesIn(n) \/ NoUpdate(n) \/ DeliverUnacked(n) \/ NothingReceived(n)
             \/ KeepWaiting(n) \/ AckTimedOut(n) \/ TimeoutSpin(n) \/ NothingSent(n)
    BY <1>2, <2>1 DEF BytesIn, NoUpdate, DeliverUnacked, NothingReceived, KeepWaiting,
        AckTimedOut, TimeoutSpin, NothingSent, AtUpdate, At
  <2>2. CASE RequestLine(n) \/ LineReserved(n) \/ LineBusy(n) \/ BytesOut(n) \/ SentToOne(n)
             \/ SentToAll(n) \/ BroadcastSpin(n) \/ BroadcastDone(n) \/ Reinit(n)
    BY <1>2, <2>2 DEF RequestLine, LineReserved, LineBusy, BytesOut, SentToOne, SentToAll,
        BroadcastSpin, BroadcastDone, Reinit, At
  <2>. QED
    BY <1>7, <2>1, <2>2 DEF Main
<1>8. CASE BusReset \/ BusPublish \/ UNCHANGED vars
  BY <1>8 DEF BusReset, BusPublish, vars
<1>. QED
  BY <1>1, <1>3, <1>4, <1>5, <1>6, <1>7, <1>8 DEF Next

\* What a node would send whole, it would have sent before this step, or a
\* ping asks for it; and what it has sent, it will step over
LEMMA TxSteps ==
    ASSUME InvType, SentOnce, [Next]_vars, NEW n \in Node
    PROVE  /\ OnLine(n)' => array_len'[n] >= 1
           /\ \/ ~Unsent(n)'
              \/ Unsent(n) /\ tx_buffer'[n] = tx_buffer[n] /\ ~BytesOut(n)
              \/ \E d \in Targets : Ping(n, d)
           /\ \/ tx_buffer'[n] \in {tx_buffer[n], NoFrame}
              \/ \E d \in Targets : Ping(n, d)
<1>. DEFINE Same == /\ pc'[n] = pc[n] /\ array_len'[n] = array_len[n]
                    /\ tx_buffer'[n] = tx_buffer[n] /\ tx_buf_start'[n] = tx_buf_start[n]
            Off == /\ ~OnLine(n) /\ ~OnLine(n)' /\ tx_buffer'[n] = tx_buffer[n]
                   /\ tx_buf_start'[n] = tx_buf_start[n]
            Result == /\ OnLine(n)' => array_len'[n] >= 1
                      /\ \/ ~Unsent(n)'
                         \/ Unsent(n) /\ tx_buffer'[n] = tx_buffer[n] /\ ~BytesOut(n)
                         \/ \E d \in Targets : Ping(n, d)
                      /\ \/ tx_buffer'[n] \in {tx_buffer[n], NoFrame}
                         \/ \E d \in Targets : Ping(n, d)
<1>1. Same => ~BytesOut(n)
  BY DEF BytesOut, Goto, InvType, TypeOK, MainType, At
<1>2. ASSUME Same, ~BytesOut(n) PROVE Result
  BY <1>2 DEF SentOnce, OnLine, Unsent
<1>3. ASSUME Off, ~BytesOut(n) PROVE Result
  BY <1>3 DEF Unsent
<1>4. ASSUME NEW k \in Node, Receive(k) \/ Update(k) \/ Bus(k)
      PROVE  Same
  BY <1>4 DEF Receive, RecvGrant, RecvForeignActive, RecvActiveIgnored, RecvInactive,
      RecvFrame, Update, Bus, BusGrant, BusRefuse, BusRelease, BusVarsFrom
<1>5. ASSUME NEW k \in Node, StopUpdate(k) \/ Reset(k) \/ SetListenToAll(k)
      PROVE  Same
  BY <1>5 DEF StopUpdate, Reset, SetListenToAll
<1>6. ASSUME NEW k \in Node, NEW d \in Targets, Ping(k, d), k # n
      PROVE  Same
  BY <1>6 DEF Ping, InvType, TypeOK, TxType
<1>7. ASSUME NEW k \in Node, Main(k), k # n
      PROVE  Same
  <2>. USE <1>7 DEF InvType, TypeOK, MainType, TxType, Goto, TurnDone, UpdateDone, Deliver, Advance
  <2>1. CASE BytesIn(k) \/ NoUpdate(k) \/ Acknowledge(k) \/ AckSpin(k) \/ DeliverAcked(k)
             \/ DeliverUnacked(k) \/ NothingReceived(k) \/ KeepWaiting(k) \/ AckTimedOut(k)
    BY <2>1 DEF BytesIn, NoUpdate, Acknowledge, AckSpin, DeliverAcked, DeliverUnacked,
        NothingReceived, KeepWaiting, AckTimedOut
  <2>2. CASE TimeoutSpin(k) \/ NothingSent(k) \/ RequestLine(k) \/ LineReserved(k) \/ LineBusy(k)
             \/ BytesOut(k) \/ SentToOne(k) \/ SentToAll(k) \/ BroadcastSpin(k)
             \/ BroadcastDone(k) \/ Reinit(k)
    BY <2>2 DEF TimeoutSpin, NothingSent, RequestLine, LineReserved, LineBusy, BytesOut,
        SentToOne, SentToAll, BroadcastSpin, BroadcastDone, Reinit
  <2>. QED
    BY <2>1, <2>2 DEF Main
<1>8. ASSUME NEW d \in Targets, Ping(n, d)
      PROVE  Result
  BY <1>8 DEF Ping, SentOnce, OnLine
<1>9. CASE BytesIn(n) \/ NoUpdate(n) \/ Acknowledge(n) \/ AckSpin(n) \/ DeliverAcked(n)
           \/ DeliverUnacked(n) \/ NothingReceived(n) \/ KeepWaiting(n)
  <2>1. Off /\ ~BytesOut(n)
    BY <1>9 DEF BytesIn, NoUpdate, Acknowledge, AckSpin, DeliverAcked, DeliverUnacked,
        NothingReceived, KeepWaiting, Goto, TurnDone, UpdateDone, Deliver, AtUpdate, At,
        OnLine, BytesOut, InvType, TypeOK, MainType
  <2>. QED
    BY <1>3, <2>1
<1>10. CASE AckTimedOut(n) \/ TimeoutSpin(n) \/ NothingSent(n) \/ RequestLine(n)
            \/ LineReserved(n) \/ LineBusy(n)
  <2>1. Off /\ ~BytesOut(n)
    BY <1>10 DEF AckTimedOut, TimeoutSpin, NothingSent, RequestLine, LineReserved, LineBusy,
        Goto, TurnDone, UpdateDone, At, OnLine, BytesOut, InvType, TypeOK, MainType
  <2>. QED
    BY <1>3, <2>1
<1>11. CASE BytesOut(n)
  <2>1. /\ pc'[n] = "puback" /\ tx_buffer' = tx_buffer
        /\ array_len'[n] = tx_buf_end[n] - tx_buf_start[n] + 1
    BY <1>11 DEF BytesOut, Goto, InvType, TypeOK, MainType, TxType
  <2>2. tx_buf_start[n] <= tx_buf_end[n]
    BY <1>11 DEF BytesOut, At, InvType, Held
  <2>3. array_len'[n] >= 1
    BY <2>1, <2>2 DEF InvType, TypeOK, TxType
  <2>. QED
    BY <2>1, <2>3 DEF Unsent, OnLine
<1>12. CASE SentToAll(n) \/ BroadcastSpin(n)
  <2>1. /\ OnLine(n) /\ OnLine(n)' /\ array_len'[n] = array_len[n] /\ tx_buffer' = tx_buffer
    BY <1>12 DEF SentToAll, BroadcastSpin, Goto, At, OnLine, InvType, TypeOK, MainType
  <2>. QED
    BY <2>1 DEF SentOnce, Unsent
<1>13. CASE SentToOne(n) \/ BroadcastDone(n)
  <2>1. OnLine(n) /\ ~OnLine(n)' /\ tx_buffer' = tx_buffer
    BY <1>13 DEF SentToOne, BroadcastDone, UpdateDone, TurnDone, Goto, At, OnLine, InvType,
        TypeOK, MainType
  <2>2. tx_buf_start'[n] = tx_buf_start[n] + array_len[n]
    BY <1>13 DEF SentToOne, BroadcastDone, Advance, InvType, TypeOK, TxType
  <2>3. tx_buf_start[n] \in Nat /\ array_len[n] \in Nat /\ array_len[n] >= 1
    BY <2>1 DEF SentOnce, InvType, TypeOK, TxType
  <2>4. tx_buf_start'[n] # 0
    BY <2>2, <2>3
  <2>. QED
    BY <2>1, <2>4 DEF Unsent
<1>14. CASE Reinit(n)
  BY <1>14 DEF Reinit, Goto, OnLine, Unsent, InvType, TypeOK, MainType, TxType
<1>15. CASE BusReset \/ BusPublish \/ UNCHANGED vars
  <2>1. Same
    BY <1>15 DEF BusReset, BusPublish, vars
  <2>. QED
    BY <1>1, <1>2, <2>1
<1>. QED
  BY <1>1, <1>2, <1>4, <1>5, <1>6, <1>7, <1>8, <1>9, <1>10, <1>11, <1>12, <1>13, <1>14,
     <1>15 DEF Next, Command, Main

\* BytesOut puts a frame on its way that is nowhere yet
LEMMA BytesOutMoves ==
    ASSUME InvType, Placed, SentOnce, NEW k \in Node, BytesOut(k),
           NEW m \in Node, NEW f \in Frame
    PROVE  /\ OncePlaced(m, f)'
           /\ Somewhere(m, f)' => Somewhere(m, f) \/ (Unsent(k) /\ tx_buffer[k] = f)
<1>. DEFINE c == IF tx_buf_start[k] = 0 THEN tx_buffer[k] ELSE Junk
<1>1. c \in Chunk /\ tx_buffer[k] # NoFrame
  BY DEF BytesOut, At, InvType, Held, TypeOK, TxType, Chunk
<1>2. c = f => Unsent(k) /\ tx_buffer[k] = f
  BY <1>1, MarkersAreNoFrames DEF Unsent, OnLine, BytesOut, At
<1>3. c = f => ~Somewhere(m, f)
  BY <1>2 DEF SentOnce
<1>4. inbox'[m] = Append(inbox[m], Rs485(c)) /\ inbox[m] \in Seq(Message)
  BY DEF BytesOut, InvType, TypeOK, NetType
<1>5. payload_in' = payload_in /\ rx_buffer' = rx_buffer /\ packet' = packet /\ host_in' = host_in
  BY DEF BytesOut
<1>. HIDE DEF c
<1>6. Rs485(c) \in Message /\ (Rs485(c) = Rs485(f) => c = f)
  BY <1>1 DEF Rs485, Message
<1>7. OncePlaced(m, f)
  BY DEF Placed
<1>8. Coming(m, f)' => Coming(m, f) \/ c = f
  BY <1>4, <1>6, AppendIn DEF Coming
<1>9. OnceIn(inbox[m], Rs485(f))'
  BY <1>3, <1>4, <1>6, <1>7, AppendIn DEF OncePlaced, Somewhere, Coming
<1>10. (Stored(m, f)' <=> Stored(m, f)) /\ (Given(m, f)' <=> Given(m, f)) /\ OnceIn(host_in[m], f)'
  BY <1>5, <1>7 DEF OncePlaced, Stored, Given
<1>. QED
  BY <1>2, <1>3, <1>5, <1>7, <1>8, <1>9, <1>10 DEF OncePlaced, Somewhere

\* Identifiers are not given twice
LEMMA PingsCount ==
    ASSUME InvType, [Next]_vars
    PROVE  /\ pings' \in Nat /\ pings \in Nat /\ pings' >= pings
           /\ \A n \in Node, d \in Targets : Ping(n, d) =>
                 /\ pings' = pings + 1 /\ \A k \in Node : ~BytesOut(k)
                 /\ tx_buffer'[n] = [dst |-> d, src |-> n, id |-> pings + 1]
<1>1. pings \in Nat
  BY BusAssumption DEF InvType, TypeOK, HistoryType
<1>2. ASSUME NEW n \in Node, NEW d \in Targets, Ping(n, d)
      PROVE  /\ pings' = pings + 1
             /\ tx_buffer'[n] = [dst |-> d, src |-> n, id |-> pings + 1]
  BY <1>2 DEF Ping, InvType, TypeOK, TxType
<1>3. ASSUME NEW k \in Node, BytesOut(k)
      PROVE  pings' = pings
  BY <1>3 DEF BytesOut
<1>4. pings' = pings \/ pings' = pings + 1
  <2>1. ASSUME NEW n \in Node, Receive(n) \/ Update(n) \/ Bus(n)
        PROVE  pings' = pings
    BY <2>1 DEF Receive, RecvGrant, RecvForeignActive, RecvActiveIgnored, RecvInactive,
        RecvFrame, Update, Bus, BusGrant, BusRefuse, BusRelease, BusVarsFrom
  <2>2. ASSUME NEW n \in Node, StopUpdate(n) \/ Reset(n) \/ SetListenToAll(n)
        PROVE  pings' = pings
    BY <2>2 DEF StopUpdate, Reset, SetListenToAll
  <2>3. ASSUME NEW n \in Node, Main(n)
        PROVE  pings' = pings
    BY <2>3 DEF Main, BytesIn, NoUpdate, Acknowledge, AckSpin, DeliverAcked, DeliverUnacked,
        NothingReceived, KeepWaiting, AckTimedOut, TimeoutSpin, NothingSent, RequestLine,
        LineReserved, LineBusy, BytesOut, SentToOne, SentToAll, BroadcastSpin,
        BroadcastDone, Reinit
  <2>4. CASE BusReset \/ BusPublish \/ UNCHANGED vars
    BY <2>4 DEF BusReset, BusPublish, vars
  <2>. QED
    BY <1>2, <2>1, <2>2, <2>3, <2>4 DEF Next, Command
<1>. QED
  BY <1>1, <1>2, <1>3, <1>4

-----------------------------------------------------------------------------
\* Nothing is anywhere at the start
LEMMA InitOnce == Init => OnceInv
<1>. SUFFICES ASSUME Init PROVE OnceInv
  OBVIOUS
<1>1. PacketHeld
  BY DEF Init, PacketHeld
<1>2. ASSUME NEW m \in Node, NEW f \in Frame
      PROVE  OncePlaced(m, f) /\ ~Somewhere(m, f)
  BY MarkersAreNoFrames DEF Init, OncePlaced, Somewhere, Coming, Stored, Given, In, OnceIn
<1>3. SentOnce
  BY DEF Init, SentOnce, Unsent, OnLine
<1>. QED
  BY <1>1, <1>2, <1>3 DEF OnceInv, Placed

\* The inductive step: frames enter with Ping, go on the line once, move on
LEMMA NextKeepsOnce == InvType /\ OnceInv /\ [Next]_vars => OnceInv'
<1>. SUFFICES ASSUME InvType, OnceInv, [Next]_vars PROVE OnceInv'
  OBVIOUS
<1>1. PacketHeld /\ Placed /\ SentOnce
  BY DEF OnceInv
<1>2. PacketHeld'
  BY <1>1, PacketSteps
<1>3. /\ pings' \in Nat /\ pings \in Nat /\ pings' >= pings
      /\ \A n \in Node, d \in Targets : Ping(n, d) =>
            /\ pings' = pings + 1 /\ \A k \in Node : ~BytesOut(k)
            /\ tx_buffer'[n] = [dst |-> d, src |-> n, id |-> pings + 1]
  BY PingsCount
<1>4. ASSUME NEW m \in Node, NEW f \in Frame
      PROVE  /\ OncePlaced(m, f)'
             /\ Somewhere(m, f)' =>
                   \/ Somewhere(m, f)
                   \/ \E k \in Node : BytesOut(k) /\ Unsent(k) /\ tx_buffer[k] = f
  <2>1. CASE \E k \in Node : BytesOut(k)
    BY <1>1, <2>1, BytesOutMoves
  <2>2. CASE \A k \in Node : ~BytesOut(k)
    <3>1. OncePlaced(m, f)
      BY <1>1 DEF Placed
    <3>. QED
      BY <1>1, <2>2, <3>1, OneMoves DEF Moves
  <2>. QED
    BY <2>1, <2>2
<1>5. Placed'
  <2>. SUFFICES ASSUME NEW m \in Node, NEW f \in Frame, Somewhere(m, f)'
                PROVE  f.id <= pings'
    BY <1>4 DEF Placed
  <2>1. f.id \in Nat
    BY BusAssumption DEF Frame
  <2>2. f.id <= pings
    BY <1>1, <1>4 DEF Placed, SentOnce, Unsent
  <2>. QED
    BY <1>3, <2>1, <2>2
<1>6. SentOnce'
  <2>. SUFFICES ASSUME NEW n \in Node
                PROVE  /\ tx_buffer'[n] # NoFrame =>
                             tx_buffer'[n].src = n /\ tx_buffer'[n].id <= pings'
                       /\ Unsent(n)' => \A m \in Node : ~Somewhere(m, tx_buffer[n])'
                       /\ OnLine(n)' => array_len'[n] >= 1
    BY DEF SentOnce
  <2>1. /\ OnLine(n)' => array_len'[n] >= 1
        /\ \/ ~Unsent(n)'
           \/ Unsent(n) /\ tx_buffer'[n] = tx_buffer[n] /\ ~BytesOut(n)
           \/ \E d \in Targets : Ping(n, d)
        /\ \/ tx_buffer'[n] \in {tx_buffer[n], NoFrame}
           \/ \E d \in Targets : Ping(n, d)
    BY <1>1, TxSteps
  <2>2. tx_buffer[n] \in Frame \cup {NoFrame} /\ tx_buffer'[n] \in Frame \cup {NoFrame}
    BY NextKeepsType DEF InvType, TypeOK, TxType
  <2>3. \A f \in Frame : f.id \in Nat
    BY BusAssumption DEF Frame
  <2>4. tx_buffer'[n] # NoFrame => tx_buffer'[n].src = n /\ tx_buffer'[n].id <= pings'
    <3>1. CASE tx_buffer'[n] = tx_buffer[n]
      <4>1. tx_buffer[n] # NoFrame => tx_buffer[n].src = n /\ tx_buffer[n].id <= pings
        BY <1>1 DEF SentOnce
      <4>2. tx_buffer[n] # NoFrame => tx_buffer[n].id \in Nat
        BY <2>2, <2>3
      <4>3. tx_buffer[n] # NoFrame => tx_buffer[n].id <= pings'
        <5>1. pings' \in Nat /\ pings \in Nat /\ pings' >= pings
          BY <1>3
        <5>. QED
          BY <4>1, <4>2, <5>1
      <4>. QED
        BY <3>1, <4>1, <4>3
    <3>2. CASE \E d \in Targets : Ping(n, d)
      <4>1. PICK d \in Targets : Ping(n, d)
        BY <3>2
      <4>2. tx_buffer'[n] = [dst |-> d, src |-> n, id |-> pings + 1] /\ pings' = pings + 1
        BY <1>3, <4>1
      <4>. QED
        BY <1>3, <4>2
    <3>. QED
      BY <2>1, <3>1, <3>2
  <2>5. ASSUME Unsent(n)', NEW m \in Node, NEW f \in Frame, f = tx_buffer'[n]
        PROVE  ~Somewhere(m, f)'
    <3>2. CASE Unsent(n) /\ f = tx_buffer[n] /\ ~BytesOut(n)
      <4>1. ~Somewhere(m, f) /\ f.src = n
        BY <1>1, <3>2 DEF SentOnce, Unsent
      <4>2. \A k \in Node : BytesOut(k) /\ Unsent(k) /\ tx_buffer[k] = f => k = n
        BY <1>1, <4>1 DEF SentOnce, Unsent
      <4>. QED
        BY <1>4, <3>2, <4>1, <4>2
    <3>3. CASE \E d \in Targets : Ping(n, d)
      <4>0. PICK d \in Targets : Ping(n, d)
        BY <3>3
      <4>1. f.id = pings + 1 /\ \A k \in Node : ~BytesOut(k)
        <5>1. f = [dst |-> d, src |-> n, id |-> pings + 1] /\ \A k \in Node : ~BytesOut(k)
          BY <1>3, <2>5, <4>0
        <5>. QED
          BY <5>1
      <4>2. ~(f.id <= pings)
        BY <1>3, <4>1
      <4>3. ~Somewhere(m, f)
        BY <1>1, <4>2 DEF Placed
      <4>. QED
        BY <1>4, <4>1, <4>3
    <3>. QED
      BY <2>1, <2>5, <3>2, <3>3
  <2>6. Unsent(n)' => \A m \in Node : ~Somewhere(m, tx_buffer[n])'
    <3>1. Unsent(n)' => tx_buffer'[n] \in Frame
      BY <2>2 DEF Unsent
    <3>. QED
      BY <2>5, <3>1 DEF Somewhere, Coming, Stored, Given
  <2>. QED
    BY <2>1, <2>4, <2>6
<1>. QED
  BY <1>2, <1>5, <1>6 DEF OnceInv

\* Every reachable state holds each frame in one place per node at most
LEMMA OnceCorrect == Spec => []OnceInv
BY InitOnce, NextKeepsOnce, InvTypeCorrect, PTL DEF Spec

\* A host is given a frame at most once: IcpBus's DeliveredOnce
THEOREM DeliveredOnceCorrect == Spec => []DeliveredOnce
<1>1. TypeOK /\ OnceInv => DeliveredOnce
  <2>. SUFFICES ASSUME TypeOK, OnceInv, NEW n \in Node, NEW i \in 1..Len(host_in[n]),
                       NEW j \in 1..Len(host_in[n]), host_in[n][i] = host_in[n][j]
                PROVE  i = j
    BY DEF DeliveredOnce
  <2>1. host_in[n] \in Seq(Frame)
    BY DEF TypeOK, HistoryType
  <2>2. host_in[n][i] \in Frame
    BY <2>1
  <2>3. OnceIn(host_in[n], host_in[n][i])
    BY <2>2 DEF OnceInv, Placed, OncePlaced
  <2>. QED
    BY <2>3 DEF OnceIn
<1>. QED
  BY <1>1, OnceCorrect, TypeCorrect, PTL

-----------------------------------------------------------------------------
(***************************************************************************)
(* Mutual exclusion on the RS485 line, and what an acknowledgement means.  *)
(* Of the seven timing assumptions of IcpBus these rest on four: signals   *)
(* do not overtake each other at the bus node (slot), an acknowledgement   *)
(* is not awaited too briefly (ack), it does not overtake the broker's     *)
(* confirmation (puback), and the host hands over one frame at a time      *)
(* (ping).                                                                 *)
(*                                                                         *)
(* The right to transmit is a token.  It is created by BusGrant, travels   *)
(* as the text ACTIVE to the node it names, stays there as line_is_mine,   *)
(* and dies when a release reaches the bus node.  No two exist, and a      *)
(* release is under way only if the owner of the token has sent and has    *)
(* been served, has broadcast, or has given up.                            *)
(***************************************************************************)
OnTime == /\ Early \cap {"slot", "ack", "puback", "ping"} = {}
          /\ MaxCommands = 0 /\ Listeners = {}

-----------------------------------------------------------------------------
(* Messages under way to a node.                                           *)

Frees(s, i) == \E k \in i..Len(s) : s[k].type = "INACTIVE"
Freed(n) == Frees(bus_payload, 1) \/ Frees(inbox[n], 1)

Offers(s, n) == In(s, ActiveBy(n))
Offered(n) == Offers(bus_payload, n) \/ Offers(inbox[n], n)

\* The token: on its way to n, or there
Owns(n) == line_is_mine[n] /\ ~Freed(n)
Live(n) == Offered(n) \/ Owns(n)

\* What is offered to n is offered once, and no release follows it
LastOffer(s, n) == \A i \in 1..Len(s) : s[i] = ActiveBy(n) => ~Frees(s, i)
OneOffer(n) ==
    /\ LastOffer(inbox[n], n) /\ OnceIn(inbox[n], ActiveBy(n))
    /\ Offers(inbox[n], n) => ~Frees(bus_payload, 1) /\ ~Offers(bus_payload, n)

Signals ==
    /\ \/ bus_payload = <<>>
       \/ \E n \in Node : bus_payload = <<ActiveBy(n)>> /\ bus_access = "ACTIVE"
       \/ \E n \in Node : bus_payload = <<InactiveBy(n)>> /\ bus_access = "INACTIVE"
    /\ \A n \in Node : \A i \in 1..Len(bus_in[n]) : bus_in[n][i].by = n

Granted ==
    /\ \A n \in Node : Live(n) => bus_access = "ACTIVE"
    /\ \A n, m \in Node : Live(n) /\ Live(m) => n = m
    /\ \A n \in Node : OneOffer(n) /\ (Owns(n) => ~Offered(n))
    /\ \A n \in Node : line_is_mine[n] => g_access[n] = "ACTIVE"

-----------------------------------------------------------------------------
(* The nodes.                                                              *)

Quiet == \A n \in Node : ~reset_flag[n] /\ pc[n] # "reset"

Sending == {"set_access", "bytes_out", "puback", "bcast_spin", "cleared"}
BufferedAt(n) ==
    /\ tx_buf_start[n] = 0 \/ tx_buf_end[n] < tx_buf_start[n]
    /\ pc[n] \in Sending => BytesToSend(n)
    /\ OnLine(n) => array_len[n] = tx_buf_end[n] + 1
Buffered == \A n \in Node : BufferedAt(n)

NoTails == \A n \in Node : /\ ~In(inbox[n], Rs485(Junk)) /\ payload_in[n] # Junk
                           /\ ~In(rx_buffer[n], Junk)

ReleaseAt(x, i) == bus_in[x][i].type = "INACTIVE"
NoRelease == \A x \in Node : \A i \in 1..Len(bus_in[x]) : ~ReleaseAt(x, i)

Awaits(h) == pc[h] = "puback" \/ waiting_for_ack[h]
Ending(h) == \/ Awaits(h) /\ Received(on_air[h])
             \/ pc[h] \in {"bcast_spin", "timeout_spin"}

\* One release at a time, of a hold that comes to its end
Releases ==
    /\ \A x, y \in Node : \A i \in 1..Len(bus_in[x]), j \in 1..Len(bus_in[y]) :
           ReleaseAt(x, i) /\ ReleaseAt(y, j) => x = y /\ i = j
    /\ NoRelease \/ \E h \in Node : Owns(h) /\ Ending(h)

SenderAt(n) ==
    /\ pc[n] = "set_access" /\ line_is_mine[n] => Owns(n)
    /\ pc[n] = "bytes_out" => Owns(n)
    /\ pc[n] \in {"bytes_out", "puback"} => ~waiting_for_ack[n] /\ role[n] = "TX"
    /\ pc[n] = "puback" => line_is_mine[n] /\ on_air[n] = tx_buffer[n]
    /\ pc[n] \in Sending \ {"set_access"} => rx_buffer[n] = <<>>
    /\ waiting_for_ack[n] =>
          /\ role[n] = "TX" /\ line_is_mine[n] /\ pc[n] \in {"loop", "update", "role"}
          /\ on_air[n] \in Frame /\ on_air[n].dst \in Node /\ on_air[n].src = n
    /\ rx_buffer[n] # <<>> => role[n] = "RX"
    /\ Awaits(n) /\ Freed(n) => Received(on_air[n])
Senders == \A n \in Node : SenderAt(n)

\* A frame its destination has yet to acknowledge is the token owner's
Unserved(x, f) ==
    \/ In(inbox[x], Rs485(f)) \/ payload_in[x] = f
    \/ In(rx_buffer[x], f) /\ pc[x] \notin {"ack_spin", "acked"}
Outstanding(f) == /\ Owns(f.src) /\ NoRelease
                  /\ Awaits(f.src) /\ on_air[f.src] = f
Served == \A f \in Frame : f.dst \in Node /\ Unserved(f.dst, f) => Outstanding(f)

OverdueAt(n) ==
    /\ pc[n] \notin {"loop", "update"} => update_now[n]
    /\ waiting_for_ack[n] /\ update_now[n] /\ AckOverdue(n) =>
          ~FrameInFlight(on_air[n]) /\ ~ReleaseInFlight(n)
Overdue == \A n \in Node : OverdueAt(n)

LineInv == /\ Signals /\ Granted /\ Quiet /\ Buffered /\ NoTails
           /\ Releases /\ Senders /\ Served /\ Overdue

Known == OnTime /\ InvType /\ OnceInv /\ Addressed /\ LineInv

-----------------------------------------------------------------------------
(* Sequences.                                                              *)

\* What is carried is in the sequence
LEMMA CarriesIn ==
    ASSUME NEW S, NEW s \in Seq(S), NEW e
    PROVE  Carries(s, e) <=> In(s, e)
BY DEF Carries, In, ToSet

\* Releases in a tail
LEMMA TailFrees ==
    ASSUME NEW S, NEW s \in Seq(S), s # <<>>
    PROVE  /\ \A i \in 1..Len(s) : Frees(Tail(s), i) <=> Frees(s, i + 1)
           /\ Frees(s, 1) <=> Head(s).type = "INACTIVE" \/ Frees(s, 2)
<1>1. /\ Len(s) \in Nat /\ Len(s) >= 1 /\ Len(Tail(s)) = Len(s) - 1 /\ Head(s) = s[1]
      /\ \A i \in 1..Len(s) - 1 : Tail(s)[i] = s[i + 1]
  OBVIOUS
<1>2. ASSUME NEW i \in 1..Len(s)
      PROVE  Frees(Tail(s), i) <=> Frees(s, i + 1)
  <2>1. ASSUME NEW k \in i..Len(s) - 1, Tail(s)[k].type = "INACTIVE"
        PROVE  Frees(s, i + 1)
    <3>1. k + 1 \in (i + 1)..Len(s) /\ s[k + 1].type = "INACTIVE"
      BY <1>1, <2>1
    <3>. QED
      BY <3>1 DEF Frees
  <2>2. ASSUME NEW k \in (i + 1)..Len(s), s[k].type = "INACTIVE"
        PROVE  Frees(Tail(s), i)
    <3>1. k - 1 \in i..Len(s) - 1 /\ k - 1 \in 1..Len(s) - 1 /\ (k - 1) + 1 = k
      BY <1>1
    <3>2. Tail(s)[k - 1].type = "INACTIVE"
      BY <1>1, <2>2, <3>1
    <3>. QED
      BY <1>1, <3>1, <3>2 DEF Frees
  <2>. QED
    BY <1>1, <2>1, <2>2 DEF Frees
<1>3. Frees(s, 1) <=> Head(s).type = "INACTIVE" \/ Frees(s, 2)
  <2>1. \A k \in 1..Len(s) : k = 1 \/ k \in 2..Len(s)
    BY <1>1
  <2>2. 1 \in 1..Len(s) /\ \A k \in 2..Len(s) : k \in 1..Len(s)
    BY <1>1
  <2>. QED
    BY <1>1, <2>1, <2>2 DEF Frees
<1>. QED
  BY <1>2, <1>3

\* Releases in a sequence that grows
LEMMA AppendFrees ==
    ASSUME NEW S, NEW s \in Seq(S), NEW x \in S
    PROVE  \A i \in 1..Len(s) + 1 :
              Frees(Append(s, x), i) <=> Frees(s, i) \/ x.type = "INACTIVE"
<1>1. /\ Len(s) \in Nat /\ Len(Append(s, x)) = Len(s) + 1
      /\ Append(s, x)[Len(s) + 1] = x
      /\ \A i \in 1..Len(s) : Append(s, x)[i] = s[i]
  OBVIOUS
<1>2. ASSUME NEW i \in 1..Len(s) + 1
      PROVE  Frees(Append(s, x), i) <=> Frees(s, i) \/ x.type = "INACTIVE"
  <2>1. Len(s) + 1 \in i..Len(s) + 1
    BY <1>1
  <2>2. \A k \in i..Len(s) + 1 : k = Len(s) + 1 \/ (k \in i..Len(s) /\ k \in 1..Len(s))
    BY <1>1
  <2>3. \A k \in i..Len(s) : k \in i..Len(s) + 1 /\ k \in 1..Len(s)
    BY <1>1
  <2>4. Frees(s, i) => Frees(Append(s, x), i)
    BY <1>1, <2>3 DEF Frees
  <2>5. x.type = "INACTIVE" => Frees(Append(s, x), i)
    BY <1>1, <2>1 DEF Frees
  <2>6. Frees(Append(s, x), i) => Frees(s, i) \/ x.type = "INACTIVE"
    BY <1>1, <2>2 DEF Frees
  <2>. QED
    BY <2>4, <2>5, <2>6
<1>. QED
  BY <1>2

\* The last offer in a tail
LEMMA TailOffer ==
    ASSUME NEW S, NEW s \in Seq(S), s # <<>>, NEW n, LastOffer(s, n)
    PROVE  LastOffer(Tail(s), n) /\ (Head(s) = ActiveBy(n) => ~Frees(s, 1))
<1>1. /\ Len(s) \in Nat /\ Len(s) >= 1 /\ Len(Tail(s)) = Len(s) - 1 /\ Head(s) = s[1]
      /\ \A i \in 1..Len(s) - 1 : Tail(s)[i] = s[i + 1]
  OBVIOUS
<1>2. ASSUME NEW i \in 1..Len(s) - 1, Tail(s)[i] = ActiveBy(n)
      PROVE  ~Frees(Tail(s), i)
  <2>1. s[i + 1] = ActiveBy(n) /\ i + 1 \in 1..Len(s) /\ i \in 1..Len(s)
    BY <1>1, <1>2
  <2>2. ~Frees(s, i + 1)
    BY <2>1 DEF LastOffer
  <2>. QED
    BY <2>1, <2>2, TailFrees
<1>3. Head(s) = ActiveBy(n) => ~Frees(s, 1)
  BY <1>1 DEF LastOffer
<1>. QED
  BY <1>1, <1>2, <1>3 DEF LastOffer

\* ... and in a sequence to which no release is appended behind an offer
LEMMA AppendOffer ==
    ASSUME NEW S, NEW s \in Seq(S), NEW x \in S, NEW n, LastOffer(s, n),
           ~(x.type = "INACTIVE" /\ Offers(s, n)), ~(x.type = "INACTIVE" /\ x = ActiveBy(n))
    PROVE  LastOffer(Append(s, x), n)
<1>1. /\ Len(s) \in Nat /\ Len(Append(s, x)) = Len(s) + 1
      /\ Append(s, x)[Len(s) + 1] = x
      /\ \A i \in 1..Len(s) : Append(s, x)[i] = s[i]
  OBVIOUS
<1>2. ASSUME NEW i \in 1..Len(s) + 1, Append(s, x)[i] = ActiveBy(n)
      PROVE  ~Frees(Append(s, x), i)
  <2>1. CASE i \in 1..Len(s)
    <3>1. s[i] = ActiveBy(n)
      BY <1>1, <1>2, <2>1
    <3>2. ~Frees(s, i) /\ Offers(s, n)
      BY <2>1, <3>1 DEF LastOffer, Offers, In
    <3>. QED
      BY <3>2, AppendFrees
  <2>2. CASE i = Len(s) + 1
    <3>1. ~Frees(s, i) /\ x = ActiveBy(n)
      BY <1>1, <1>2, <2>2 DEF Frees
    <3>. QED
      BY <3>1, AppendFrees
  <2>. QED
    BY <1>1, <2>1, <2>2
<1>. QED
  BY <1>1, <1>2 DEF LastOffer

-----------------------------------------------------------------------------
(* What a step does to the messages under way.                             *)

\* The four timing assumptions
LEMMA Timing ==
    ASSUME OnTime, NEW n \in Node
    PROVE  /\ Timely(n, "slot") => bus_payload = <<>>
           /\ Timely(n, "ack") => (waiting_for_ack[n] /\ ack_timeout_cnt[n] = AckTimeout =>
                 ~FrameInFlight(on_air[n]) /\ ~ReleaseInFlight(n))
           /\ Timely(n, "puback") => pc[n] # "puback"
           /\ Timely(n, "ping") => tx_buf_start[n] >= tx_buf_end[n] /\ role[n] # "TX"
<1>1. "slot" \notin Early /\ "ack" \notin Early /\ "puback" \notin Early /\ "ping" \notin Early
  BY DEF OnTime
<1>. QED
  BY <1>1 DEF Timely

\* The tester's commands but update and ping do not occur, nobody listens in
LEMMA NoCommands ==
    ASSUME Known, NEW n \in Node
    PROVE  ~StopUpdate(n) /\ ~Reset(n) /\ ~BusReset /\ ~SetListenToAll(n) /\ ~Reinit(n)
<1>1. commands = 0 /\ MaxCommands = 0 /\ n \notin Listeners /\ pc[n] # "reset"
  BY DEF Known, OnTime, InvType, TypeOK, HistoryType, LineInv, Quiet
<1>. QED
  BY <1>1 DEF StopUpdate, Reset, BusReset, SetListenToAll, Reinit, At

\* The messages under way to n are as they were
NetKept(n) == /\ OneOffer(n)' /\ (Freed(n)' <=> Freed(n)) /\ (Offered(n)' <=> Offered(n))

\* Nothing is sent or received
LEMMA NetStill ==
    ASSUME NEW n \in Node, OneOffer(n), inbox'[n] = inbox[n], bus_payload' = bus_payload
    PROVE  NetKept(n)
BY DEF NetKept, OneOffer, Freed, Offered

\* n receives a message
LEMMA NetReceive ==
    ASSUME InvType, NEW n \in Node, OneOffer(n), inbox[n] # <<>>,
           inbox'[n] = Tail(inbox[n]), bus_payload' = bus_payload
    PROVE  /\ OneOffer(n)' /\ (Freed(n)' => Freed(n)) /\ (Offered(n)' => Offered(n))
           /\ Head(inbox[n]).type = "INACTIVE" => Freed(n)
           /\ Head(inbox[n]).type # "INACTIVE" => (Freed(n)' <=> Freed(n))
           /\ Head(inbox[n]) # ActiveBy(n) => (Offered(n)' <=> Offered(n))
           /\ Head(inbox[n]) = ActiveBy(n) => Offered(n) /\ ~Offered(n)' /\ ~Freed(n)
<1>. DEFINE s == inbox[n]
<1>1. s \in Seq(Message) /\ s # <<>>
  BY DEF InvType, TypeOK, NetType
<1>2. /\ Frees(Tail(s), 1) <=> Frees(s, 2)
      /\ Frees(s, 1) <=> Head(s).type = "INACTIVE" \/ Frees(s, 2)
  <2>1. Len(s) \in Nat /\ Len(s) >= 1
    BY <1>1
  <2>. QED
    BY <1>1, <2>1, TailFrees
<1>3. /\ LastOffer(s, n) => LastOffer(Tail(s), n)
      /\ LastOffer(s, n) /\ Head(s) = ActiveBy(n) => ~Frees(s, 1)
  BY <1>1, TailOffer
<1>4. /\ In(s, Head(s))
      /\ Offers(Tail(s), n) => Offers(s, n)
      /\ OnceIn(s, ActiveBy(n)) => OnceIn(Tail(s), ActiveBy(n))
      /\ OnceIn(s, ActiveBy(n)) /\ Head(s) = ActiveBy(n) => ~Offers(Tail(s), n)
  BY <1>1, TailIn DEF Offers
<1>5. Head(s) # ActiveBy(n) => (Offers(Tail(s), n) <=> Offers(s, n))
  <2>1. /\ Len(s) \in Nat /\ Len(s) >= 1 /\ Len(Tail(s)) = Len(s) - 1 /\ Head(s) = s[1]
        /\ \A i \in 1..Len(s) - 1 : Tail(s)[i] = s[i + 1]
    BY <1>1
  <2>2. ASSUME Head(s) # ActiveBy(n), NEW i \in 1..Len(s), s[i] = ActiveBy(n)
        PROVE  Offers(Tail(s), n)
    <3>1. i - 1 \in 1..Len(s) - 1 /\ (i - 1) + 1 = i
      BY <2>1, <2>2
    <3>2. Tail(s)[i - 1] = ActiveBy(n)
      BY <2>1, <2>2, <3>1
    <3>. QED
      BY <2>1, <3>1, <3>2 DEF Offers, In
  <2>. QED
    BY <1>4, <2>2 DEF Offers, In
<1>. HIDE DEF s
<1>6. inbox[n] = s /\ inbox'[n] = Tail(s)
  BY DEF s
<1>7. OneOffer(n)'
  BY <1>3, <1>4, <1>6 DEF OneOffer
<1>8. /\ Freed(n)' => Freed(n)
      /\ Head(s).type = "INACTIVE" => Freed(n)
      /\ Head(s).type # "INACTIVE" => (Freed(n)' <=> Freed(n))
  BY <1>2, <1>6 DEF Freed
<1>9. /\ Offered(n)' => Offered(n)
      /\ Head(s) # ActiveBy(n) => (Offered(n)' <=> Offered(n))
  BY <1>4, <1>5, <1>6 DEF Offered
<1>10. Head(s) = ActiveBy(n) => Offered(n) /\ ~Offered(n)' /\ ~Freed(n)
  BY <1>3, <1>4, <1>6 DEF Offered, Freed, OneOffer, Offers
<1>. QED
  BY <1>6, <1>7, <1>8, <1>9, <1>10

\* A sequence of one
LEMMA One ==
    ASSUME NEW t, NEW e
    PROVE  /\ In(<<t>>, e) <=> t = e
           /\ Frees(<<t>>, 1) <=> t.type = "INACTIVE"
           /\ ~In(<<>>, e) /\ ~Frees(<<>>, 1)
<1>1. Len(<<t>>) = 1 /\ <<t>>[1] = t /\ Len(<<>>) = 0 /\ 1..1 = {1} /\ 1..0 = {}
  OBVIOUS
<1>. QED
  BY <1>1 DEF In, Frees

\* The bus node's payload is published to all
LEMMA NetPublish ==
    ASSUME InvType, Signals, NEW n \in Node, OneOffer(n), BusPublish
    PROVE  NetKept(n)
<1>1. PICK t \in AccessText : bus_payload = <<t>>
  <2>1. \A k \in Node : ActiveBy(k) \in AccessText /\ InactiveBy(k) \in AccessText
    BY DEF AccessText, ActiveBy, InactiveBy
  <2>. QED
    BY <2>1 DEF Signals, BusPublish
<1>2. inbox[n] \in Seq(Message) /\ t \in Message
  BY <1>1 DEF InvType, TypeOK, NetType, Message
<1>3. inbox'[n] = Append(inbox[n], t) /\ bus_payload' = <<>>
  BY <1>1, <1>2, AppendIsConcat DEF BusPublish
<1>4. t.type = "INACTIVE" => t # ActiveBy(n)
  BY DEF ActiveBy
<1>5. /\ Frees(bus_payload, 1) <=> t.type = "INACTIVE"
      /\ Offers(bus_payload, n) <=> t = ActiveBy(n)
      /\ ~Frees(bus_payload, 1)' /\ ~Offers(bus_payload, n)'
  BY <1>1, <1>3, One DEF Offers
<1>6. Frees(inbox[n], 1)' <=> Frees(inbox[n], 1) \/ t.type = "INACTIVE"
  BY <1>2, <1>3, AppendFrees
<1>7. Offers(inbox[n], n)' <=> Offers(inbox[n], n) \/ t = ActiveBy(n)
  BY <1>2, <1>3, AppendIn DEF Offers
<1>8. LastOffer(inbox[n], n)'
  BY <1>2, <1>3, <1>4, <1>5, AppendOffer DEF OneOffer
<1>9. OnceIn(inbox[n], ActiveBy(n))'
  BY <1>2, <1>3, <1>5, AppendIn DEF OneOffer, Offers
<1>. QED
  BY <1>5, <1>6, <1>7, <1>8, <1>9 DEF NetKept, OneOffer, Freed, Offered

\* Bytes are put on the line
LEMMA NetBytes ==
    ASSUME InvType, NEW k \in Node, BytesOut(k), NEW n \in Node, OneOffer(n)
    PROVE  NetKept(n)
<1>. DEFINE c == IF tx_buf_start[k] = 0 THEN tx_buffer[k] ELSE Junk
<1>1. c \in Chunk
  BY DEF BytesOut, At, InvType, Held, TypeOK, TxType, Chunk
<1>2. inbox'[n] = Append(inbox[n], Rs485(c)) /\ inbox[n] \in Seq(Message)
  BY DEF BytesOut, InvType, TypeOK, NetType
<1>3. bus_payload' = bus_payload
  BY DEF BytesOut
<1>. HIDE DEF c
<1>4. Rs485(c) \in Message /\ Rs485(c).type # "INACTIVE" /\ Rs485(c) # ActiveBy(n)
  BY <1>1 DEF Rs485, Message, ActiveBy
<1>5. Frees(inbox[n], 1)' <=> Frees(inbox[n], 1)
  BY <1>2, <1>4, AppendFrees
<1>6. Offers(inbox[n], n)' <=> Offers(inbox[n], n)
  BY <1>2, <1>4, AppendIn DEF Offers
<1>7. LastOffer(inbox[n], n)'
  BY <1>2, <1>4, AppendOffer DEF OneOffer
<1>8. OnceIn(inbox[n], ActiveBy(n))'
  BY <1>2, <1>4, AppendIn DEF OneOffer, Offers
<1>. QED
  BY <1>3, <1>5, <1>6, <1>7, <1>8 DEF NetKept, OneOffer, Freed, Offered

\* What the bus node takes from k
LEMMA BusTakes ==
    ASSUME Known, NEW k \in Node, Bus(k)
    PROVE  /\ bus_payload = <<>> /\ bus_in[k] \in Seq(AccessText) /\ bus_in[k] # <<>>
           /\ bus_in'[k] = Tail(bus_in[k]) /\ UNCHANGED inbox
           /\ Head(bus_in[k]) = bus_in[k][1] /\ 1 \in 1..Len(bus_in[k])
           /\ Head(bus_in[k]).type = "ACTIVE" => Head(bus_in[k]) = ActiveBy(k)
           /\ Head(bus_in[k]).type = "INACTIVE" => Head(bus_in[k]) = InactiveBy(k)
<1>1. BusArrives(k, "ACTIVE") \/ BusArrives(k, "INACTIVE")
  BY DEF Bus, BusGrant, BusRefuse, BusRelease
<1>2. bus_payload = <<>> /\ bus_in[k] # <<>>
  BY <1>1, Timing DEF BusArrives, Known
<1>3. bus_in[k] \in Seq(AccessText)
  BY DEF Known, InvType, TypeOK, NetType
<1>4. bus_in'[k] = Tail(bus_in[k]) /\ UNCHANGED inbox
  BY DEF Bus, BusGrant, BusRefuse, BusRelease, BusVarsFrom, Known, InvType, TypeOK, NetType
<1>5. Head(bus_in[k]) = bus_in[k][1] /\ 1 \in 1..Len(bus_in[k]) /\ Head(bus_in[k]) \in AccessText
  BY <1>2, <1>3
<1>6. Head(bus_in[k]).by = k
  BY <1>5 DEF Known, LineInv, Signals
<1>. QED
  BY <1>2, <1>3, <1>4, <1>5, <1>6 DEF AccessText, ActiveBy, InactiveBy

\* A grant: nobody was offered the line or owned it
LEMMA NetGrant ==
    ASSUME Known, NEW k \in Node, BusGrant(k), NEW n \in Node
    PROVE  /\ OneOffer(n)' /\ (Freed(n)' <=> Freed(n)) /\ ~Live(n)
           /\ Offered(n)' <=> n = k
<1>1. bus_payload = <<>> /\ bus_payload' = <<ActiveBy(k)>> /\ inbox' = inbox
  BY BusTakes DEF Bus, BusGrant, BusArrives
<1>2. ~Live(n) /\ OneOffer(n)
  BY DEF BusGrant, Known, LineInv, Granted
<1>3. ActiveBy(k).type # "INACTIVE" /\ (ActiveBy(k) = ActiveBy(n) <=> n = k)
  BY DEF ActiveBy
<1>4. /\ ~Frees(bus_payload, 1) /\ ~Frees(bus_payload, 1)'
      /\ ~Offers(bus_payload, n) /\ (Offers(bus_payload, n)' <=> n = k)
  BY <1>1, <1>3, One DEF Offers
<1>. QED
  BY <1>1, <1>2, <1>4 DEF OneOffer, Freed, Offered, Live

\* A release: the owner's token dies
LEMMA NetRelease ==
    ASSUME Known, NEW k \in Node, BusRelease(k), NEW n \in Node
    PROVE  OneOffer(n)' /\ Freed(n)' /\ ~Live(n)' /\ ~Offered(n)
<1>1. bus_payload = <<>> /\ bus_payload' = <<InactiveBy(k)>> /\ inbox' = inbox
  BY BusTakes DEF Bus, BusRelease, BusArrives
<1>2. ~NoRelease
  BY BusTakes DEF Bus, BusRelease, BusArrives, NoRelease, ReleaseAt
<1>3. PICK h \in Node : Owns(h)
  BY <1>2 DEF Known, LineInv, Releases
<1>4. ~Offered(n) /\ OneOffer(n)
  BY <1>3 DEF Known, LineInv, Granted, Live
<1>5. InactiveBy(k).type = "INACTIVE" /\ InactiveBy(k) # ActiveBy(n)
  BY DEF InactiveBy, ActiveBy
<1>6. Frees(bus_payload, 1)' /\ ~Offers(bus_payload, n)'
  BY <1>1, <1>5, One DEF Offers
<1>. QED
  BY <1>1, <1>4, <1>6 DEF OneOffer, Freed, Offered, Live, Owns

\* What a step of another node leaves alone at n
Same(n) ==
    /\ pc'[n] = pc[n] /\ array_len'[n] = array_len[n] /\ packet'[n] = packet[n]
    /\ tx_buffer'[n] = tx_buffer[n] /\ tx_buf_start'[n] = tx_buf_start[n]
    /\ tx_buf_end'[n] = tx_buf_end[n] /\ role'[n] = role[n]
    /\ waiting_for_ack'[n] = waiting_for_ack[n] /\ rx_buffer'[n] = rx_buffer[n]
    /\ payload_in'[n] = payload_in[n] /\ update_now'[n] = update_now[n]
    /\ reset_flag'[n] = reset_flag[n] /\ ack_timeout_cnt'[n] = ack_timeout_cnt[n]
    /\ line_is_mine'[n] = line_is_mine[n] /\ g_access'[n] = g_access[n]
    /\ on_air'[n] = on_air[n] /\ host_in'[n] = host_in[n] /\ bus_in'[n] = bus_in[n]

Step(k) == Receive(k) \/ Update(k) \/ (\E d \in Targets : Ping(k, d)) \/ Bus(k) \/ Main(k)

\* The steps that do occur
LEMMA Steps ==
    ASSUME Known, [Next]_vars
    PROVE  (\E k \in Node : Step(k)) \/ BusPublish \/ UNCHANGED vars
BY NoCommands, BusAssumption DEF Next, Step, Command

\* They leave other nodes alone
LEMMA OthersSame ==
    ASSUME InvType, NEW k \in Node, Step(k), NEW n \in Node, n # k
    PROVE  Same(n)
<1>. USE DEF InvType, TypeOK, LineType, IcpType, TxType, MainType, NetType, HistoryType, Same
<1>1. CASE RecvGrant(k) \/ RecvForeignActive(k) \/ RecvActiveIgnored(k) \/ RecvFrame(k)
  BY <1>1 DEF RecvGrant, RecvForeignActive, RecvActiveIgnored, RecvFrame, Consume,
      NotifyAccessActive
<1>2. CASE RecvInactive(k)
  BY <1>2 DEF RecvInactive, Consume, LineFreed, NotifyAccessInactive
<1>3. CASE Update(k)
  BY <1>3 DEF Update
<1>4. ASSUME NEW d \in Targets, Ping(k, d)
      PROVE  Same(n)
  BY <1>4 DEF Ping
<1>5. CASE Bus(k)
  BY <1>5, SMTT(30) DEF Bus, BusGrant, BusRefuse, BusRelease, BusVarsFrom
<1>6. CASE BytesIn(k) \/ NoUpdate(k) \/ Acknowledge(k) \/ AckSpin(k)
  BY <1>6, SMTT(30)
      DEF BytesIn, TakeBytes, NoUpdate, TurnDone, Acknowledge, PublishAccess, AckSpin, Goto
<1>7. CASE DeliverAcked(k) \/ DeliverUnacked(k) \/ NothingReceived(k) \/ KeepWaiting(k)
  BY <1>7, SMTT(30)
      DEF DeliverAcked, DeliverUnacked, Deliver, NothingReceived, KeepWaiting, CountUpdate,
      UpdateDone, TurnDone, Goto
<1>8. CASE AckTimedOut(k) \/ TimeoutSpin(k) \/ NothingSent(k) \/ RequestLine(k)
  BY <1>8, SMTT(30)
      DEF AckTimedOut, PublishAccess, TimeoutSpin, NothingSent, RequestLine, UpdateDone,
      TurnDone, Goto
<1>9. CASE LineReserved(k) \/ LineBusy(k) \/ BytesOut(k) \/ SentToOne(k)
  BY <1>9, SMTT(30)
      DEF LineReserved, LineBusy, BytesOut, SentToOne, Advance, UpdateDone, TurnDone, Goto
<1>10. CASE SentToAll(k) \/ BroadcastSpin(k) \/ BroadcastDone(k) \/ Reinit(k)
  BY <1>10, SMTT(30) DEF SentToAll, PublishAccess, BroadcastSpin, BroadcastDone, Advance, Reinit,
      UpdateDone, TurnDone, Goto
<1>. QED
  BY <1>1, <1>2, <1>3, <1>4, <1>5, <1>6, <1>7, <1>8, <1>9, <1>10 DEF Step, Receive, Main

\* Nobody else does but BusPublish, and only to the inboxes
LEMMA BusSame ==
    ASSUME NEW n \in Node, BusPublish \/ UNCHANGED vars
    PROVE  Same(n)
BY DEF BusPublish, vars, Same

\* Own steps that neither send nor receive
LEMMA OwnQuiet ==
    ASSUME NEW k \in Node, Update(k) \/ (\E d \in Targets : Ping(k, d)) \/ Main(k), ~BytesOut(k)
    PROVE  inbox' = inbox /\ bus_payload' = bus_payload
<1>1. CASE Update(k) \/ (\E d \in Targets : Ping(k, d))
  BY <1>1 DEF Update, Ping
<1>2. CASE BytesIn(k) \/ NoUpdate(k) \/ Acknowledge(k) \/ AckSpin(k) \/ DeliverAcked(k)
           \/ DeliverUnacked(k) \/ NothingReceived(k) \/ KeepWaiting(k) \/ AckTimedOut(k)
  BY <1>2 DEF BytesIn, NoUpdate, Acknowledge, AckSpin, DeliverAcked, DeliverUnacked,
      NothingReceived, KeepWaiting, AckTimedOut
<1>3. CASE TimeoutSpin(k) \/ NothingSent(k) \/ RequestLine(k) \/ LineReserved(k) \/ LineBusy(k)
           \/ SentToOne(k) \/ SentToAll(k) \/ BroadcastSpin(k) \/ BroadcastDone(k) \/ Reinit(k)
  BY <1>3 DEF TimeoutSpin, NothingSent, RequestLine, LineReserved, LineBusy,
      SentToOne, SentToAll, BroadcastSpin, BroadcastDone, Reinit
<1>. QED
  BY <1>1, <1>2, <1>3 DEF Main

\* What n receives
LEMMA Receives ==
    ASSUME InvType, NEW n \in Node, Receive(n)
    PROVE  /\ inbox[n] # <<>> /\ inbox'[n] = Tail(inbox[n]) /\ bus_payload' = bus_payload
           /\ \A m \in Node \ {n} : inbox'[m] = inbox[m]
           /\ Head(inbox[n]).type = "INACTIVE" <=> RecvInactive(n)
           /\ Head(inbox[n]) = ActiveBy(n) /\ ~line_is_mine[n] <=> RecvGrant(n)
<1>. USE DEF InvType, TypeOK, NetType, Arrives, Consume
<1>1. inbox[n] # <<>> /\ Head(inbox[n]) \in Message
  BY DEF Receive, RecvGrant, RecvForeignActive, RecvActiveIgnored, RecvInactive, RecvFrame
<1>2. /\ inbox'[n] = Tail(inbox[n]) /\ bus_payload' = bus_payload
      /\ \A m \in Node \ {n} : inbox'[m] = inbox[m]
  BY DEF Receive, RecvGrant, RecvForeignActive, RecvActiveIgnored, RecvInactive, RecvFrame
<1>3. Head(inbox[n]).type = "INACTIVE" <=> RecvInactive(n)
  BY DEF Receive, RecvGrant, RecvForeignActive, RecvActiveIgnored, RecvInactive, RecvFrame
<1>4. Head(inbox[n]).type = "ACTIVE" /\ Head(inbox[n]).by = n <=> Head(inbox[n]) = ActiveBy(n)
  BY <1>1 DEF Message, AccessText, ActiveBy
<1>5. Head(inbox[n]) = ActiveBy(n) /\ ~line_is_mine[n] <=> RecvGrant(n)
  BY <1>4 DEF Receive, RecvGrant, RecvForeignActive, RecvActiveIgnored, RecvInactive, RecvFrame
<1>. QED
  BY <1>1, <1>2, <1>3, <1>5

\* All steps, as n sees the texts that are under way to it
LEMMA NetSteps ==
    ASSUME Known, [Next]_vars, NEW n \in Node
    PROVE  /\ OneOffer(n)'
           /\ Freed(n)' => Freed(n) \/ \E k \in Node : BusRelease(k)
           /\ Freed(n) => Freed(n)' \/ RecvInactive(n)
           /\ Offered(n)' => Offered(n) \/ BusGrant(n)
           /\ RecvInactive(n) => Freed(n)
           /\ RecvGrant(n) => Offered(n) /\ ~Freed(n) /\ ~Offered(n)' /\ ~Freed(n)'
<1>. DEFINE Result ==
           /\ OneOffer(n)'
           /\ Freed(n)' => Freed(n) \/ \E k \in Node : BusRelease(k)
           /\ Freed(n) => Freed(n)' \/ RecvInactive(n)
           /\ Offered(n)' => Offered(n) \/ BusGrant(n)
           /\ RecvInactive(n) => Freed(n)
           /\ RecvGrant(n) => Offered(n) /\ ~Freed(n) /\ ~Offered(n)' /\ ~Freed(n)'
<1>1. InvType /\ Signals /\ OneOffer(n)
  BY DEF Known, LineInv, Granted
<1>2. (RecvInactive(n) => Receive(n)) /\ (RecvGrant(n) => Receive(n))
  BY DEF Receive
<1>3. CASE Receive(n)
  <2>1. /\ inbox[n] # <<>> /\ inbox'[n] = Tail(inbox[n]) /\ bus_payload' = bus_payload
        /\ Head(inbox[n]).type = "INACTIVE" <=> RecvInactive(n)
        /\ RecvGrant(n) => Head(inbox[n]) = ActiveBy(n)
    BY <1>1, <1>3, Receives
  <2>. QED
    BY <1>1, <2>1, NetReceive
<1>4. CASE NetKept(n) /\ ~Receive(n)
  BY <1>2, <1>4 DEF NetKept
<1>5. ASSUME NEW k \in Node, Receive(k), k # n
      PROVE  NetKept(n)
  <2>1. inbox'[n] = inbox[n] /\ bus_payload' = bus_payload
    BY <1>1, <1>5, Receives
  <2>. QED
    BY <1>1, <2>1, NetStill
<1>6. ASSUME NEW k \in Node, Update(k) \/ (\E d \in Targets : Ping(k, d)) \/ Main(k)
      PROVE  NetKept(n)
  <2>1. CASE BytesOut(k)
    BY <1>1, <2>1, NetBytes
  <2>2. CASE ~BytesOut(k)
    BY <1>1, <1>6, <2>2, OwnQuiet, NetStill
  <2>. QED
    BY <2>1, <2>2
<1>7. ASSUME NEW k \in Node, Bus(k), ~Receive(n)
      PROVE  Result
  <2>1. CASE BusGrant(k)
    BY <1>2, <1>7, <2>1, NetGrant
  <2>2. CASE BusRelease(k)
    BY <1>2, <1>7, <2>2, NetRelease DEF Live
  <2>3. CASE BusRefuse(k)
    <3>1. inbox' = inbox /\ bus_payload' = bus_payload
      BY <2>3 DEF BusRefuse, BusVarsFrom
    <3>. QED
      BY <1>1, <1>4, <1>7, <3>1, NetStill
  <2>. QED
    BY <1>7, <2>1, <2>2, <2>3 DEF Bus
<1>8. CASE BusPublish
  <2>1. NetKept(n)
    BY <1>1, <1>8, NetPublish
  <2>. QED
    BY <1>2, <1>3, <1>4, <2>1
<1>9. CASE UNCHANGED vars
  <2>1. NetKept(n)
    BY <1>1, <1>9, NetStill DEF vars
  <2>. QED
    BY <1>3, <1>4, <2>1
<1>. QED
  BY <1>3, <1>4, <1>5, <1>6, <1>7, <1>8, <1>9, Steps DEF Step

-----------------------------------------------------------------------------
(* One token.                                                              *)

\* What a node's step does to its signals
LEMMA SignalSteps ==
    ASSUME Known, [Next]_vars, NEW n \in Node
    PROVE  \/ bus_in'[n] = bus_in[n]
           \/ bus_in'[n] = Append(bus_in[n], ActiveBy(n)) /\ RequestLine(n)
           \/ /\ bus_in'[n] = Append(bus_in[n], InactiveBy(n))
              /\ Acknowledge(n) \/ SentToAll(n) \/ AckTimedOut(n)
           \/ Bus(n)
<1>. USE DEF InvType, TypeOK, NetType
<1>0. InvType
  BY DEF Known
<1>1. CASE \E k \in Node : k # n /\ Step(k)
  BY <1>0, <1>1, OthersSame DEF Same
<1>2. CASE BusPublish \/ UNCHANGED vars
  BY <1>2, BusSame DEF Same
<1>3. CASE Receive(n) \/ Update(n) \/ \E d \in Targets : Ping(n, d)
  BY <1>3 DEF Receive, RecvGrant, RecvForeignActive, RecvActiveIgnored, RecvInactive,
      RecvFrame, Update, Ping
<1>4. CASE RequestLine(n) \/ Acknowledge(n) \/ SentToAll(n) \/ AckTimedOut(n)
  BY <1>0, <1>4 DEF RequestLine, Acknowledge, SentToAll, AckTimedOut, PublishAccess
<1>5. CASE BytesIn(n) \/ NoUpdate(n) \/ AckSpin(n) \/ DeliverAcked(n)
           \/ DeliverUnacked(n) \/ NothingReceived(n) \/ KeepWaiting(n)
  BY <1>5 DEF BytesIn, NoUpdate, AckSpin, DeliverAcked, DeliverUnacked,
      NothingReceived, KeepWaiting
<1>6. CASE TimeoutSpin(n) \/ NothingSent(n) \/ LineReserved(n) \/ LineBusy(n) \/ BytesOut(n)
           \/ SentToOne(n) \/ BroadcastSpin(n) \/ BroadcastDone(n) \/ Reinit(n)
  BY <1>6 DEF TimeoutSpin, NothingSent, LineReserved, LineBusy, BytesOut, SentToOne,
      BroadcastSpin, BroadcastDone, Reinit
<1>. QED
  BY <1>1, <1>2, <1>3, <1>4, <1>5, <1>6, Steps DEF Step, Main

\* The bus node's own variables
LEMMA BusSteps ==
    ASSUME Known, [Next]_vars
    PROVE  \/ UNCHANGED <<bus_access, bus_payload>>
           \/ BusPublish /\ bus_payload' = <<>> /\ UNCHANGED bus_access
           \/ \E k \in Node : /\ BusGrant(k)
                              /\ bus_payload' = <<ActiveBy(k)>> /\ bus_access' = "ACTIVE"
           \/ \E k \in Node : /\ BusRelease(k)
                              /\ bus_payload' = <<InactiveBy(k)>> /\ bus_access' = "INACTIVE"
<1>1. ASSUME NEW k \in Node, Receive(k)
      PROVE  UNCHANGED <<bus_access, bus_payload>>
  BY <1>1 DEF Receive, RecvGrant, RecvForeignActive, RecvActiveIgnored, RecvInactive, RecvFrame
<1>2. ASSUME NEW k \in Node, Update(k) \/ \E d \in Targets : Ping(k, d)
      PROVE  UNCHANGED <<bus_access, bus_payload>>
  BY <1>2 DEF Update, Ping
<1>3. ASSUME NEW k \in Node, Main(k)
      PROVE  UNCHANGED <<bus_access, bus_payload>>
  BY <1>3 DEF Main, BytesIn, NoUpdate, Acknowledge, AckSpin, DeliverAcked, DeliverUnacked,
      NothingReceived, KeepWaiting, AckTimedOut, TimeoutSpin, NothingSent, RequestLine,
      LineReserved, LineBusy, BytesOut, SentToOne, SentToAll, BroadcastSpin, BroadcastDone, Reinit
<1>4. ASSUME NEW k \in Node, BusGrant(k)
      PROVE  bus_payload' = <<ActiveBy(k)>> /\ bus_access' = "ACTIVE"
  BY <1>4, BusTakes DEF Bus, BusGrant, BusArrives
<1>5. ASSUME NEW k \in Node, BusRelease(k)
      PROVE  bus_payload' = <<InactiveBy(k)>> /\ bus_access' = "INACTIVE"
  BY <1>5, BusTakes DEF Bus, BusRelease, BusArrives
<1>6. ASSUME NEW k \in Node, BusRefuse(k)
      PROVE  UNCHANGED <<bus_access, bus_payload>>
  BY <1>6 DEF BusRefuse
<1>7. CASE BusPublish
  BY <1>7 DEF BusPublish
<1>8. CASE UNCHANGED vars
  BY <1>8 DEF vars
<1>. QED
  BY <1>1, <1>2, <1>3, <1>4, <1>5, <1>6, <1>7, <1>8, Steps DEF Step, Bus

\* The bus node's payload and the requests stay well formed
LEMMA SignalsKept == ASSUME Known, [Next]_vars PROVE Signals'
<1>1. Signals
  BY DEF Known, LineInv
<1>2. \/ bus_payload' = <<>>
      \/ \E n \in Node : bus_payload' = <<ActiveBy(n)>> /\ bus_access' = "ACTIVE"
      \/ \E n \in Node : bus_payload' = <<InactiveBy(n)>> /\ bus_access' = "INACTIVE"
  BY <1>1, BusSteps DEF Signals
<1>3. ASSUME NEW n \in Node, NEW i \in 1..Len(bus_in'[n])
      PROVE  bus_in'[n][i].by = n
  <2>1. bus_in[n] \in Seq(AccessText) /\ ActiveBy(n) \in AccessText /\ InactiveBy(n) \in AccessText
    BY DEF Known, InvType, TypeOK, NetType, AccessText, ActiveBy, InactiveBy
  <2>2. ActiveBy(n).by = n /\ InactiveBy(n).by = n
    BY DEF ActiveBy, InactiveBy
  <2>3. \A j \in 1..Len(bus_in[n]) : bus_in[n][j].by = n
    BY <1>1 DEF Signals
  <2>4. CASE bus_in'[n] = bus_in[n]
    BY <1>3, <2>3, <2>4
  <2>5. ASSUME NEW t \in AccessText, t.by = n, bus_in'[n] = Append(bus_in[n], t)
        PROVE  bus_in'[n][i].by = n
    <3>1. i \in 1..Len(bus_in[n]) \/ (i = Len(bus_in[n]) + 1 /\ bus_in'[n][i] = t)
      BY <1>3, <2>1, <2>5
    <3>2. i \in 1..Len(bus_in[n]) => bus_in'[n][i] = bus_in[n][i]
      BY <2>1, <2>5
    <3>. QED
      BY <2>3, <2>5, <3>1, <3>2
  <2>6. CASE Bus(n)
    <3>1. bus_in[n] # <<>> /\ bus_in'[n] = Tail(bus_in[n])
      BY <2>6, BusTakes
    <3>2. i + 1 \in 1..Len(bus_in[n]) /\ bus_in'[n][i] = bus_in[n][i + 1]
      BY <1>3, <2>1, <3>1
    <3>. QED
      BY <2>3, <3>2
  <2>. QED
    BY <2>1, <2>2, <2>4, <2>5, <2>6, SignalSteps
<1>. QED
  BY <1>2, <1>3 DEF Signals

\* The line at a node
LEMMA LineSteps ==
    ASSUME Known, [Next]_vars, NEW n \in Node
    PROVE  /\ line_is_mine'[n] => line_is_mine[n] \/ RecvGrant(n)
           /\ line_is_mine[n] => line_is_mine'[n] \/ RecvInactive(n)
           /\ RecvInactive(n) => ~line_is_mine'[n] /\ g_access'[n] = "INACTIVE"
           /\ g_access[n] = "ACTIVE" => g_access'[n] = "ACTIVE" \/ RecvInactive(n)
           /\ RecvGrant(n) => line_is_mine'[n] /\ g_access'[n] = "ACTIVE"
           /\ Receive(n) \/ (line_is_mine'[n] = line_is_mine[n] /\ g_access'[n] = g_access[n])
<1>. USE DEF InvType, TypeOK, LineType
<1>0. InvType
  BY DEF Known
<1>1. CASE \E k \in Node : k # n /\ Step(k) /\ ~Receive(n)
  BY <1>0, <1>1, OthersSame DEF Same, Receive
<1>2. CASE (BusPublish \/ UNCHANGED vars) /\ ~Receive(n)
  BY <1>2, BusSame DEF Same, Receive
<1>3. CASE Receive(n)
  BY <1>0, <1>3 DEF Receive, RecvGrant, RecvForeignActive, RecvActiveIgnored, RecvInactive,
      LineFreed, RecvFrame
<1>4. CASE (Update(n) \/ (\E d \in Targets : Ping(n, d)) \/ Bus(n)) /\ ~Receive(n)
  BY <1>4 DEF Update, Ping, Bus, BusGrant, BusRefuse, BusRelease, BusVarsFrom, Receive
<1>5. CASE (BytesIn(n) \/ NoUpdate(n) \/ Acknowledge(n) \/ AckSpin(n) \/ DeliverAcked(n)
            \/ DeliverUnacked(n) \/ NothingReceived(n) \/ KeepWaiting(n) \/ AckTimedOut(n))
           /\ ~Receive(n)
  BY <1>5 DEF BytesIn, NoUpdate, Acknowledge, AckSpin, DeliverAcked, DeliverUnacked,
      NothingReceived, KeepWaiting, AckTimedOut, Receive
<1>6. CASE (TimeoutSpin(n) \/ NothingSent(n) \/ RequestLine(n) \/ LineReserved(n) \/ LineBusy(n)
            \/ BytesOut(n) \/ SentToOne(n) \/ SentToAll(n) \/ BroadcastSpin(n)
            \/ BroadcastDone(n) \/ Reinit(n)) /\ ~Receive(n)
  BY <1>6 DEF TimeoutSpin, NothingSent, RequestLine, LineReserved, LineBusy, BytesOut, SentToOne,
      SentToAll, BroadcastSpin, BroadcastDone, Reinit, Receive
<1>. QED
  BY <1>1, <1>2, <1>3, <1>4, <1>5, <1>6, Steps DEF Step, Main

\* Only a grant makes a token, and only n's steps and a release end one
LEMMA TokenSteps ==
    ASSUME Known, [Next]_vars, NEW n \in Node
    PROVE  /\ Live(n)' => Live(n) \/ BusGrant(n)
           /\ Owns(n)' => (Owns(n) /\ ~RecvGrant(n)) \/ RecvGrant(n)
           /\ Owns(n) => Owns(n)' \/ \E k \in Node : BusRelease(k)
           /\ RecvGrant(n) => Owns(n)'
           /\ Owns(n) => ~RecvInactive(n)
BY NetSteps, LineSteps DEF Live, Owns

\* There is never a second token
LEMMA GrantedKept == ASSUME Known, [Next]_vars PROVE Granted'
<1>1. Granted
  BY DEF Known, LineInv
<1>2. ASSUME NEW n \in Node, Live(n)'
      PROVE  bus_access' = "ACTIVE"
  <2>1. ~\E k \in Node : BusRelease(k)
    BY <1>2, NetRelease
  <2>2. CASE BusGrant(n)
    BY <2>2 DEF BusGrant
  <2>3. CASE Live(n)
    BY <1>1, <2>1, <2>3, BusSteps DEF Granted
  <2>. QED
    BY <1>2, <2>2, <2>3, TokenSteps
<1>3. ASSUME NEW n \in Node, NEW m \in Node, Live(n)', Live(m)'
      PROVE  n = m
  <2>1. CASE BusGrant(n) \/ BusGrant(m)
    BY <1>3, <2>1, NetGrant, TokenSteps
  <2>2. CASE Live(n) /\ Live(m)
    BY <1>1, <2>2 DEF Granted
  <2>. QED
    BY <1>3, <2>1, <2>2, TokenSteps
<1>4. ASSUME NEW n \in Node
      PROVE  OneOffer(n)' /\ (Owns(n)' => ~Offered(n)')
  <2>1. OneOffer(n)' /\ (RecvGrant(n) => ~Offered(n)') /\ (Offered(n)' => Offered(n) \/ BusGrant(n))
    BY NetSteps
  <2>2. Owns(n) => ~Offered(n) /\ ~BusGrant(n)
    BY <1>1, NetGrant DEF Granted, Live
  <2>. QED
    BY <2>1, <2>2, TokenSteps
<1>5. ASSUME NEW n \in Node, line_is_mine'[n]
      PROVE  g_access'[n] = "ACTIVE"
  BY <1>1, <1>5, LineSteps DEF Granted
<1>. QED
  BY <1>2, <1>3, <1>4, <1>5 DEF Granted

-----------------------------------------------------------------------------
(* The transmit buffer, and what is transmitted.                           *)

\* Without commands no main thread restarts
LEMMA QuietKept == ASSUME Known, [Next]_vars PROVE Quiet'
<1>. SUFFICES ASSUME NEW n \in Node
              PROVE  ~reset_flag'[n] /\ pc'[n] # "reset"
  BY DEF Quiet
<1>. USE DEF InvType, TypeOK, LineType, MainType
<1>0. InvType /\ ~reset_flag[n] /\ pc[n] # "reset"
  BY DEF Known, LineInv, Quiet
<1>1. CASE \E k \in Node : k # n /\ Step(k)
  BY <1>0, <1>1, OthersSame DEF Same
<1>2. CASE BusPublish \/ UNCHANGED vars
  BY <1>0, <1>2, BusSame DEF Same
<1>3. CASE Receive(n) \/ Update(n) \/ (\E d \in Targets : Ping(n, d)) \/ Bus(n)
  BY <1>0, <1>3 DEF Receive, RecvGrant, RecvForeignActive, RecvActiveIgnored, RecvInactive,
      RecvFrame, Update, Ping, Bus, BusGrant, BusRefuse, BusRelease, BusVarsFrom
<1>4. CASE BytesIn(n) \/ NoUpdate(n) \/ Acknowledge(n) \/ AckSpin(n) \/ DeliverAcked(n)
  BY <1>0, <1>4 DEF BytesIn, NoUpdate, Acknowledge, AckSpin, DeliverAcked, Deliver, TurnDone, Goto
<1>5. CASE DeliverUnacked(n) \/ NothingReceived(n) \/ KeepWaiting(n) \/ AckTimedOut(n)
           \/ TimeoutSpin(n)
  BY <1>0, <1>5 DEF DeliverUnacked, Deliver, NothingReceived, KeepWaiting, AckTimedOut,
      TimeoutSpin, UpdateDone, TurnDone, Goto
<1>6. CASE NothingSent(n) \/ RequestLine(n) \/ LineReserved(n) \/ LineBusy(n) \/ BytesOut(n)
  BY <1>0, <1>6 DEF NothingSent, RequestLine, LineReserved, LineBusy, BytesOut, UpdateDone,
      TurnDone, Goto
<1>7. CASE SentToOne(n) \/ SentToAll(n) \/ BroadcastSpin(n) \/ BroadcastDone(n)
  BY <1>0, <1>7 DEF SentToOne, SentToAll, BroadcastSpin, BroadcastDone, UpdateDone, TurnDone, Goto
<1>. QED
  BY <1>1, <1>2, <1>3, <1>4, <1>5, <1>6, <1>7, NoCommands, Steps DEF Step, Main

\* While a frame is being sent its buffer is full, and starts at 0
LEMMA FromTheStart ==
    ASSUME Known, NEW n \in Node, pc[n] \in Sending
    PROVE  /\ tx_buf_start[n] = 0 /\ tx_buf_end[n] \in Nat /\ tx_buf_end[n] > 0
           /\ tx_buffer[n] \in Frame /\ tx_buffer[n].src = n
           /\ tx_buffer[n].dst \in Node \cup {Broadcast}
<1>1. /\ tx_buf_start[n] \in Nat /\ tx_buf_end[n] \in Nat
      /\ tx_buffer[n] \in Frame \cup {NoFrame} /\ (tx_buffer[n] = NoFrame => tx_buf_end[n] = 0)
  BY DEF Known, InvType, TypeOK, TxType, Held
<1>2. /\ tx_buf_start[n] = 0 \/ tx_buf_end[n] < tx_buf_start[n]
      /\ tx_buf_start[n] <= tx_buf_end[n] - 1
  BY DEF Known, LineInv, Buffered, BufferedAt, BytesToSend
<1>3. tx_buf_start[n] = 0 /\ tx_buf_end[n] > 0
  BY <1>1, <1>2
<1>4. tx_buffer[n] \in Frame /\ tx_buffer[n] # NoFrame
  BY <1>1, <1>3, MarkersAreNoFrames
<1>5. tx_buffer[n].src = n
  BY <1>4 DEF Known, OnceInv, SentOnce
<1>. QED
  BY <1>1, <1>3, <1>4, <1>5 DEF Frame, Mac

\* A transmission leaves its buffer empty
LEMMA BufferedKept == ASSUME Known, [Next]_vars PROVE Buffered'
<1>. SUFFICES ASSUME NEW n \in Node
              PROVE  BufferedAt(n)'
  BY DEF Buffered
<1>. USE DEF InvType, TypeOK, TxType, MainType
<1>0. InvType /\ BufferedAt(n)
  BY DEF Known, LineInv, Buffered
<1>1. CASE /\ tx_buf_start'[n] = tx_buf_start[n] /\ tx_buf_end'[n] = tx_buf_end[n]
           /\ array_len'[n] = array_len[n]
           /\ pc'[n] = pc[n] \/ pc'[n] \notin Sending
  BY <1>0, <1>1 DEF BufferedAt, Sending, OnLine, BytesToSend
<1>2. CASE \E k \in Node : k # n /\ Step(k)
  BY <1>0, <1>1, <1>2, OthersSame DEF Same
<1>3. CASE BusPublish \/ UNCHANGED vars
  BY <1>1, <1>3, BusSame DEF Same
<1>4. CASE Receive(n) \/ Update(n) \/ Bus(n)
  <2>1. UNCHANGED <<tx_buf_start, tx_buf_end, array_len, pc>>
    BY <1>4 DEF Receive, RecvGrant, RecvForeignActive, RecvActiveIgnored, RecvInactive,
        RecvFrame, Update, Bus, BusGrant, BusRefuse, BusRelease, BusVarsFrom
  <2>. QED
    BY <1>1, <2>1
<1>5. ASSUME NEW d \in Targets, Ping(n, d)
      PROVE  BufferedAt(n)'
  <2>1. tx_buf_start[n] >= tx_buf_end[n]
    BY <1>5, Timing DEF Ping, Known
  <2>2. pc[n] \notin Sending
    BY <1>0, <2>1 DEF BufferedAt, BytesToSend
  <2>3. tx_buf_start'[n] = 0 /\ pc' = pc
    BY <1>0, <1>5 DEF Ping
  <2>. QED
    BY <2>2, <2>3 DEF BufferedAt, OnLine, Sending
<1>6. CASE BytesIn(n) \/ NoUpdate(n) \/ Acknowledge(n) \/ AckSpin(n) \/ DeliverAcked(n)
           \/ DeliverUnacked(n) \/ NothingReceived(n)
  <2>1. /\ UNCHANGED <<tx_buf_start, tx_buf_end, array_len>>
        /\ pc'[n] \notin Sending
    BY <1>0, <1>6 DEF BytesIn, NoUpdate, Acknowledge, AckSpin, DeliverAcked, DeliverUnacked,
        NothingReceived, Deliver, TurnDone, Goto, Sending
  <2>. QED
    BY <1>1, <2>1
<1>7. CASE KeepWaiting(n) \/ AckTimedOut(n) \/ TimeoutSpin(n) \/ NothingSent(n) \/ LineBusy(n)
  <2>1. /\ UNCHANGED <<tx_buf_start, tx_buf_end, array_len>>
        /\ pc'[n] \notin Sending
    BY <1>0, <1>7 DEF KeepWaiting, AckTimedOut, TimeoutSpin, NothingSent, LineBusy, UpdateDone,
        TurnDone, Goto, Sending
  <2>. QED
    BY <1>1, <2>1
<1>8. CASE RequestLine(n) \/ LineReserved(n)
  <2>1. /\ UNCHANGED <<tx_buf_start, tx_buf_end, array_len>>
        /\ pc'[n] \in {"set_access", "bytes_out"} /\ BytesToSend(n)
    BY <1>0, <1>8 DEF RequestLine, LineReserved, Goto, At, BufferedAt, Sending
  <2>. QED
    BY <1>0, <2>1 DEF BufferedAt, OnLine, BytesToSend
<1>9. CASE BytesOut(n)
  <2>1. tx_buf_start[n] = 0 /\ tx_buf_end[n] \in Nat /\ tx_buf_end[n] > 0
    BY <1>9, FromTheStart DEF BytesOut, At, Sending
  <2>2. /\ UNCHANGED <<tx_buf_start, tx_buf_end>>
        /\ array_len'[n] = tx_buf_end[n] - tx_buf_start[n] + 1
    BY <1>0, <1>9 DEF BytesOut
  <2>. QED
    BY <2>1, <2>2 DEF BufferedAt, BytesToSend
<1>10. CASE SentToAll(n) \/ BroadcastSpin(n)
  <2>1. /\ UNCHANGED <<tx_buf_start, tx_buf_end, array_len>>
        /\ OnLine(n) /\ BytesToSend(n)
    BY <1>0, <1>10 DEF SentToAll, BroadcastSpin, At, OnLine, BufferedAt, Sending
  <2>. QED
    BY <1>0, <2>1 DEF BufferedAt, BytesToSend
<1>11. CASE SentToOne(n) \/ BroadcastDone(n)
  <2>1. pc[n] \in Sending /\ OnLine(n)
    BY <1>11 DEF SentToOne, BroadcastDone, At, Sending, OnLine
  <2>2. tx_buf_start[n] = 0 /\ tx_buf_end[n] \in Nat /\ array_len[n] = tx_buf_end[n] + 1
    BY <1>0, <2>1, FromTheStart DEF BufferedAt
  <2>3. /\ tx_buf_start'[n] = tx_buf_start[n] + array_len[n] /\ tx_buf_end' = tx_buf_end
        /\ pc'[n] = IF reset_flag[n] THEN "reset" ELSE "loop"
    BY <1>0, <1>11 DEF SentToOne, BroadcastDone, Advance, UpdateDone, TurnDone, Goto
  <2>4. tx_buf_end'[n] < tx_buf_start'[n]
    BY <2>2, <2>3
  <2>. QED
    BY <2>3, <2>4 DEF BufferedAt, OnLine, Sending
<1>. QED
  BY <1>2, <1>3, <1>4, <1>5, <1>6, <1>7, <1>8, <1>9, <1>10, <1>11, NoCommands, Steps
      DEF Step, Main

\* Where bytes come from
LEMMA BytesSteps ==
    ASSUME Known, [Next]_vars, NEW n \in Node, NEW c \in Chunk
    PROVE  /\ In(inbox[n], Rs485(c))' =>
                 \/ In(inbox[n], Rs485(c))
                 \/ \E k \in Node : BytesOut(k) /\ tx_buffer[k] = c
           /\ payload_in'[n] = c => payload_in[n] = c \/ In(inbox[n], Rs485(c))
           /\ In(rx_buffer[n], c)' =>
                 \/ In(rx_buffer[n], c) /\ (pc'[n] = pc[n] \/ ~(pc[n] \in {"ack_spin", "acked"})
                                              \/ pc'[n] = "acked")
                 \/ BytesIn(n) /\ payload_in[n] = c /\ role[n] = "RX"
<1>. USE DEF InvType, TypeOK, NetType, LineType, IcpType, MainType
<1>0. InvType /\ NoFrame # c
  BY MarkersAreNoFrames, BusAssumption DEF Known, Chunk
<1>1. In(inbox[n], Rs485(c))' =>
         \/ In(inbox[n], Rs485(c))
         \/ \E k \in Node : BytesOut(k) /\ tx_buffer[k] = c
  <2>1. CASE inbox'[n] = inbox[n]
    BY <2>1
  <2>2. ASSUME NEW k \in Node, Receive(k)
        PROVE  In(inbox[n], Rs485(c))' => In(inbox[n], Rs485(c))
    <3>1. inbox'[n] = inbox[n] \/ (inbox[n] # <<>> /\ inbox'[n] = Tail(inbox[n]))
      BY <1>0, <2>2, Receives
    <3>. QED
      BY <1>0, <3>1, TailIn
  <2>3. ASSUME NEW k \in Node, BytesOut(k)
        PROVE  In(inbox[n], Rs485(c))' => In(inbox[n], Rs485(c)) \/ tx_buffer[k] = c
    <3>1. tx_buf_start[k] = 0 /\ tx_buffer[k] \in Chunk
      BY <2>3, FromTheStart DEF BytesOut, At, Sending, Chunk
    <3>2. inbox'[n] = Append(inbox[n], Rs485(tx_buffer[k]))
      BY <1>0, <2>3, <3>1 DEF BytesOut
    <3>3. Rs485(tx_buffer[k]) \in Message /\ (Rs485(tx_buffer[k]) = Rs485(c) => tx_buffer[k] = c)
      BY <3>1 DEF Rs485, Message
    <3>. QED
      BY <1>0, <3>2, <3>3, AppendIn
  <2>4. ASSUME NEW k \in Node, Bus(k)
        PROVE  inbox' = inbox
    BY <2>4, BusTakes
  <2>5. CASE BusPublish
    <3>1. bus_payload \in Seq(AccessText) /\ bus_payload \in Seq(Message)
      BY <1>0 DEF Message
    <3>2. inbox'[n] = inbox[n] \o bus_payload
      BY <2>5 DEF BusPublish
    <3>3. ~In(bus_payload, Rs485(c))
      <4>1. Rs485(c) \notin AccessText
        BY DEF Rs485, AccessText
      <4>2. \A i \in 1..Len(bus_payload) : bus_payload[i] \in AccessText
        BY <3>1
      <4>. QED
        BY <4>1, <4>2 DEF In
    <3>. QED
      BY <1>0, <3>1, <3>2, <3>3, ConcatIn
  <2>6. CASE UNCHANGED vars
    BY <2>6 DEF vars
  <2>. QED
    BY <2>1, <2>2, <2>3, <2>4, <2>5, <2>6, OwnQuiet, Steps DEF Step
<1>2. /\ payload_in'[n] = c => payload_in[n] = c \/ In(inbox[n], Rs485(c))
      /\ In(rx_buffer[n], c)' =>
            \/ In(rx_buffer[n], c) /\ (pc'[n] = pc[n] \/ ~(pc[n] \in {"ack_spin", "acked"})
                                         \/ pc'[n] = "acked")
            \/ BytesIn(n) /\ payload_in[n] = c /\ role[n] = "RX"
  <2>1. CASE \E k \in Node : k # n /\ Step(k)
    BY <1>0, <2>1, OthersSame DEF Same
  <2>2. CASE BusPublish \/ UNCHANGED vars
    BY <2>2, BusSame DEF Same
  <2>3. CASE RecvFrame(n)
    <3>1. /\ inbox[n] # <<>> /\ Head(inbox[n]) \in Message /\ Head(inbox[n]).type = "RS485"
          /\ payload_in'[n] = Head(inbox[n]).chunk /\ UNCHANGED <<rx_buffer, pc>>
      BY <1>0, <2>3 DEF RecvFrame, Arrives
    <3>2. Head(inbox[n]) = Rs485(Head(inbox[n]).chunk)
      BY <3>1 DEF Message, AccessText, Rs485
    <3>3. In(inbox[n], Head(inbox[n]))
      BY <1>0, <3>1, TailIn
    <3>. QED
      BY <3>1, <3>2, <3>3
  <2>4. CASE RecvInactive(n)
    BY <1>0, <2>4 DEF RecvInactive, NotifyAccessInactive, In
  <2>5. CASE RecvGrant(n) \/ RecvForeignActive(n) \/ RecvActiveIgnored(n) \/ Update(n)
             \/ (\E d \in Targets : Ping(n, d)) \/ Bus(n)
    BY <2>5 DEF RecvGrant, RecvForeignActive, RecvActiveIgnored, Update, Ping, Bus, BusGrant,
        BusRefuse, BusRelease, BusVarsFrom
  <2>6. CASE BytesIn(n)
    <3>1. payload_in[n] \in Chunk /\ payload_in'[n] = NoFrame /\ pc[n] = "loop"
      BY <1>0, <2>6 DEF BytesIn, TakeBytes, At
    <3>2. n \notin Listeners /\ ~listen_to_all[n] /\ role[n] # "LISTEN_IN"
      BY DEF Known, OnTime, Addressed, AddressedTo
    <3>3. \/ rx_buffer'[n] \in {<<>>, rx_buffer[n]}
          \/ rx_buffer'[n] = Append(rx_buffer[n], payload_in[n]) /\ role[n] = "RX"
      BY <1>0, <2>6, <3>2 DEF BytesIn, Bystander
    <3>4. CASE rx_buffer'[n] \in {<<>>, rx_buffer[n]}
      BY <1>0, <3>1, <3>4 DEF In
    <3>5. CASE rx_buffer'[n] = Append(rx_buffer[n], payload_in[n]) /\ role[n] = "RX"
      BY <1>0, <2>6, <3>1, <3>5, AppendIn
    <3>. QED
      BY <3>3, <3>4, <3>5
  <2>7. CASE NoUpdate(n) \/ Acknowledge(n) \/ AckSpin(n) \/ NothingReceived(n)
             \/ KeepWaiting(n) \/ AckTimedOut(n) \/ TimeoutSpin(n) \/ NothingSent(n)
    BY <1>0, <2>7 DEF NoUpdate, Acknowledge, AckSpin, NothingReceived, KeepWaiting, AckTimedOut,
        TimeoutSpin, NothingSent, AtUpdate, At, Goto
  <2>8. CASE DeliverAcked(n) \/ DeliverUnacked(n)
    BY <1>0, <2>8 DEF DeliverAcked, DeliverUnacked, Deliver, In
  <2>9. CASE RequestLine(n) \/ LineReserved(n) \/ LineBusy(n) \/ BytesOut(n) \/ SentToOne(n)
             \/ SentToAll(n) \/ BroadcastSpin(n) \/ BroadcastDone(n)
    BY <1>0, <2>9 DEF RequestLine, LineReserved, LineBusy, BytesOut, SentToOne, SentToAll,
        BroadcastSpin, BroadcastDone, At
  <2>. QED
    BY <2>1, <2>2, <2>3, <2>4, <2>5, <2>6, <2>7, <2>8, <2>9, NoCommands, Steps
        DEF Step, Receive, Main
<1>. QED
  BY <1>1, <1>2

\* What is transmitted is a whole frame, never the tail of one
LEMMA NoTailsKept == ASSUME Known, [Next]_vars PROVE NoTails'
<1>. SUFFICES ASSUME NEW n \in Node
              PROVE  /\ ~In(inbox[n], Rs485(Junk))' /\ payload_in'[n] # Junk
                     /\ ~In(rx_buffer[n], Junk)'
  BY DEF NoTails
<1>1. /\ ~In(inbox[n], Rs485(Junk)) /\ payload_in[n] # Junk
      /\ ~In(rx_buffer[n], Junk) /\ Junk \in Chunk
  BY DEF Known, LineInv, NoTails, Chunk
<1>2. ASSUME NEW k \in Node, BytesOut(k)
      PROVE  tx_buffer[k] # Junk
  BY <1>2, FromTheStart, MarkersAreNoFrames DEF BytesOut, At, Sending
<1>. QED
  BY <1>1, <1>2, BytesSteps

-----------------------------------------------------------------------------
(* What the steps of a hold do.                                            *)

\* What a node has received it has received for good
LEMMA ReceivedStays ==
    ASSUME Known, [Next]_vars, NEW f \in Frame, Received(f)
    PROVE  Received(f)'
<1>. USE DEF InvType, TypeOK, MainType, HistoryType
<1>. DEFINE d == f.dst
<1>0. InvType /\ PacketHeld /\ f # NoFrame
  BY MarkersAreNoFrames DEF Known, OnceInv
<1>1. d \in Node /\ host_in[d] \in Seq(Frame) /\ host_in'[d] \in Seq(Frame)
  BY NextKeepsType DEF Received, Known
<1>2. In(host_in[d], f) \/ packet[d] = f
  BY <1>1, CarriesIn DEF Received
<1>3. In(host_in[d], f)' \/ packet'[d] = f
  <2>1. CASE \E k \in Node : k # d /\ Step(k)
    BY <1>0, <1>1, <1>2, <2>1, OthersSame DEF Same
  <2>2. CASE BusPublish \/ UNCHANGED vars
    BY <1>1, <1>2, <2>2, BusSame DEF Same
  <2>3. CASE DeliverAcked(d)
    <3>1. packet[d] \in Frame /\ host_in'[d] = Append(host_in[d], packet[d])
      BY <1>0, <1>1, <2>3 DEF DeliverAcked, Deliver, At, Held
    <3>. QED
      BY <1>1, <1>2, <3>1, AppendIn
  <2>4. CASE DeliverUnacked(d)
    <3>1. Head(rx_buffer[d]) \in Frame /\ host_in'[d] = Append(host_in[d], Head(rx_buffer[d]))
      BY <1>0, <1>1, <2>4 DEF DeliverUnacked, Deliver, ValidPacket, IcpType, Chunk
    <3>2. packet' = packet
      BY <2>4 DEF DeliverUnacked
    <3>. QED
      BY <1>1, <1>2, <3>1, <3>2, AppendIn
  <2>5. CASE Acknowledge(d)
    <3>1. packet[d] = NoFrame /\ host_in' = host_in
      BY <1>0, <1>1, <2>5 DEF Acknowledge, AtUpdate, At, PacketHeld
    <3>. QED
      BY <1>0, <1>2, <3>1
  <2>6. CASE Receive(d) \/ Update(d) \/ (\E t \in Targets : Ping(d, t)) \/ Bus(d)
    BY <1>2, <2>6 DEF Receive, RecvGrant, RecvForeignActive, RecvActiveIgnored, RecvInactive,
        RecvFrame, Update, Ping, Bus, BusGrant, BusRefuse, BusRelease, BusVarsFrom
  <2>7. CASE BytesIn(d) \/ NoUpdate(d) \/ AckSpin(d) \/ NothingReceived(d) \/ KeepWaiting(d)
             \/ AckTimedOut(d) \/ TimeoutSpin(d) \/ NothingSent(d) \/ RequestLine(d)
    BY <1>2, <2>7 DEF BytesIn, NoUpdate, AckSpin, NothingReceived, KeepWaiting, AckTimedOut,
        TimeoutSpin, NothingSent, RequestLine
  <2>8. CASE LineReserved(d) \/ LineBusy(d) \/ BytesOut(d) \/ SentToOne(d) \/ SentToAll(d)
             \/ BroadcastSpin(d) \/ BroadcastDone(d)
    BY <1>2, <2>8 DEF LineReserved, LineBusy, BytesOut, SentToOne, SentToAll, BroadcastSpin,
        BroadcastDone
  <2>. QED
    BY <1>1, <2>1, <2>2, <2>3, <2>4, <2>5, <2>6, <2>7, <2>8, NoCommands, Steps DEF Step, Main
<1>. QED
  BY <1>1, <1>3, CarriesIn DEF Received

\* What lies in the receive buffer begins with a frame to this node, and
\* while it is not acknowledged its sender owns the line and waits
LEMMA Recipient ==
    ASSUME Known, NEW x \in Node, rx_buffer[x] # <<>>
    PROVE  /\ Head(rx_buffer[x]) \in Frame /\ Head(rx_buffer[x]).dst = x
           /\ In(rx_buffer[x], Head(rx_buffer[x])) /\ role[x] = "RX"
           /\ pc[x] \notin {"ack_spin", "acked"} => Outstanding(Head(rx_buffer[x]))
<1>. DEFINE f == Head(rx_buffer[x])
<1>1. rx_buffer[x] \in Seq(Chunk) /\ f \in Chunk
  BY DEF Known, InvType, TypeOK, IcpType
<1>2. In(rx_buffer[x], f)
  BY <1>1, TailIn
<1>3. f \in Frame
  BY <1>1, <1>2 DEF Known, LineInv, NoTails, Chunk
<1>4. f.dst = x
  BY <1>3, MarkersAreNoFrames DEF Known, OnTime, Addressed, AddressedTo, MyFirst
<1>5. role[x] = "RX"
  BY DEF Known, LineInv, Senders, SenderAt
<1>6. pc[x] \notin {"ack_spin", "acked"} => Outstanding(f)
  BY <1>2, <1>3, <1>4 DEF Known, LineInv, Served, Unserved
<1>. QED
  BY <1>2, <1>3, <1>4, <1>5, <1>6

\* The owner of the line is one
LEMMA OneOwner ==
    ASSUME Known, NEW n \in Node, NEW m \in Node, Owns(n), Owns(m)
    PROVE  n = m
BY DEF Known, LineInv, Granted, Live

\* A release is under way: the owner's hold comes to its end
LEMMA OwnerEnds ==
    ASSUME Known, ~NoRelease
    PROVE  /\ \E h \in Node : Owns(h)
           /\ \A n \in Node : Owns(n) => Ending(n)
BY OneOwner DEF Known, LineInv, Releases

\* Before the owner has sent there is none
LEMMA FreshOwner ==
    ASSUME Known, NEW n \in Node, Owns(n), pc[n] \in {"set_access", "bytes_out"}
    PROVE  NoRelease
<1>1. ~Ending(n)
  BY DEF Known, LineInv, Senders, SenderAt, Ending, Awaits
<1>. QED
  BY <1>1, OwnerEnds

\* A frame that is awaited
LEMMA AwaitedFrame ==
    ASSUME Known, NEW h \in Node, Awaits(h)
    PROVE  /\ on_air[h] \in Frame /\ on_air[h].src = h /\ line_is_mine[h] /\ role[h] = "TX"
           /\ pc[h] \in {"puback", "loop", "update", "role"}
           /\ pc[h] = "puback" => on_air[h] = tx_buffer[h] /\ ~waiting_for_ack[h]
<1>1. SenderAt(h)
  BY DEF Known, LineInv, Senders
<1>2. pc[h] = "puback" => tx_buffer[h] \in Frame /\ tx_buffer[h].src = h
  BY FromTheStart DEF Sending
<1>. QED
  BY <1>1, <1>2 DEF SenderAt, Awaits

\* Who publishes a release
LEMMA Broadcasting ==
    ASSUME Known, NEW h \in Node, SentToAll(h)
    PROVE  Owns(h) /\ NoRelease /\ Awaits(h) /\ on_air[h].dst = Broadcast
<1>1. /\ Awaits(h) /\ pc[h] = "puback" /\ line_is_mine[h]
      /\ on_air[h] = tx_buffer[h] /\ on_air[h].dst = Broadcast
  BY AwaitedFrame DEF SentToAll, At, Awaits
<1>2. ~Received(on_air[h])
  BY <1>1, BusAssumption DEF Received
<1>3. Owns(h)
  BY <1>1, <1>2 DEF Known, LineInv, Senders, SenderAt, Owns
<1>4. ~Ending(h)
  BY <1>1, <1>2 DEF Ending
<1>. QED
  BY <1>1, <1>3, <1>4, OwnerEnds

\* No release is on its way, to n or to the bus node
LEMMA NothingReleased ==
    ASSUME Known, NEW n \in Node, ~ReleaseInFlight(n)
    PROVE  NoRelease /\ ~Freed(n)
<1>. USE DEF Known, InvType, TypeOK, NetType
<1>1. NoRelease
  <2>. SUFFICES ASSUME NEW x \in Node, NEW i \in 1..Len(bus_in[x]), ReleaseAt(x, i)
                PROVE  FALSE
    BY DEF NoRelease
  <2>1. bus_in[x][i] \in AccessText /\ bus_in[x][i].by = x /\ bus_in[x] \in Seq(AccessText)
    BY DEF LineInv, Signals
  <2>2. bus_in[x][i] = InactiveBy(x)
    BY <2>1 DEF ReleaseAt, AccessText, InactiveBy
  <2>. QED
    BY <2>1, <2>2, CarriesIn DEF ReleaseInFlight, In
<1>2. ~Freed(n)
  <2>1. ASSUME NEW s \in Seq(Message), NEW i \in 1..Len(s), s[i].type = "INACTIVE"
        PROVE  \E m \in Node : Carries(s, InactiveBy(m))
    <3>1. s[i] \in AccessText
      BY <2>1 DEF Message
    <3>2. s[i].by \in Node /\ s[i] = InactiveBy(s[i].by)
      BY <2>1, <3>1 DEF AccessText, InactiveBy
    <3>. QED
      BY <2>1, <3>2, CarriesIn DEF In
  <2>2. bus_payload \in Seq(Message) /\ inbox[n] \in Seq(Message)
    BY DEF Message
  <2>. QED
    BY <2>1, <2>2 DEF Freed, Frees, ReleaseInFlight
<1>. QED
  BY <1>1, <1>2

\* ... and at a timeout: nothing is on its way then
LEMMA GivingUp ==
    ASSUME Known, NEW h \in Node, AckTimedOut(h)
    PROVE  Owns(h) /\ NoRelease /\ Awaits(h) /\ ~FrameInFlight(on_air[h])
<1>1. waiting_for_ack[h] /\ AckOverdue(h) /\ pc[h] = "role"
  BY DEF AckTimedOut, AckOverdue, At
<1>2. ~FrameInFlight(on_air[h]) /\ ~ReleaseInFlight(h)
  BY <1>1 DEF Known, LineInv, Overdue, OverdueAt
<1>3. line_is_mine[h] /\ Awaits(h)
  BY <1>1, AwaitedFrame DEF Awaits
<1>4. NoRelease /\ ~Freed(h)
  BY <1>2, NothingReleased
<1>. QED
  BY <1>2, <1>3, <1>4 DEF Owns

\* Waiting begins with BytesOut; the owner's ends with SentToAll or timeout
LEMMA AwaitSteps ==
    ASSUME Known, [Next]_vars, NEW h \in Node
    PROVE  /\ Awaits(h)' => (Awaits(h) /\ on_air'[h] = on_air[h]) \/ BytesOut(h)
           /\ Awaits(h) /\ Owns(h) => \/ Awaits(h)' /\ on_air'[h] = on_air[h]
                                      \/ SentToAll(h) \/ AckTimedOut(h)
<1>. USE DEF InvType, TypeOK, IcpType, MainType, HistoryType, Awaits
<1>0. InvType /\ SenderAt(h)
  BY DEF Known, LineInv, Senders
<1>1. CASE \E k \in Node : k # h /\ Step(k)
  BY <1>0, <1>1, OthersSame DEF Same
<1>2. CASE BusPublish \/ UNCHANGED vars
  BY <1>2, BusSame DEF Same
<1>3. CASE RecvInactive(h)
  <2>1. waiting_for_ack'[h] => waiting_for_ack[h]
    BY <1>0, <1>3 DEF RecvInactive, NotifyAccessInactive
  <2>2. UNCHANGED <<pc, on_air>>
    BY <1>3 DEF RecvInactive
  <2>. QED
    BY <1>3, <2>1, <2>2, TokenSteps
<1>4. CASE RecvGrant(h) \/ RecvForeignActive(h) \/ RecvActiveIgnored(h) \/ RecvFrame(h)
           \/ Update(h) \/ (\E d \in Targets : Ping(h, d)) \/ Bus(h)
  BY <1>4 DEF RecvGrant, RecvForeignActive, RecvActiveIgnored, RecvFrame, Update, Ping, Bus,
      BusGrant, BusRefuse, BusRelease, BusVarsFrom
<1>5. CASE BytesIn(h) \/ NoUpdate(h) \/ Acknowledge(h) \/ AckSpin(h) \/ DeliverAcked(h)
           \/ DeliverUnacked(h) \/ NothingReceived(h)
  BY <1>0, <1>5 DEF BytesIn, NoUpdate, Acknowledge, AckSpin, DeliverAcked, DeliverUnacked,
      NothingReceived, Deliver, TurnDone, Goto, AtUpdate, At, SenderAt
<1>6. CASE KeepWaiting(h) \/ AckTimedOut(h) \/ TimeoutSpin(h) \/ NothingSent(h) \/ RequestLine(h)
  BY <1>0, <1>6 DEF KeepWaiting, AckTimedOut, TimeoutSpin, NothingSent, RequestLine, UpdateDone,
      TurnDone, Goto, At, SenderAt
<1>7. CASE LineReserved(h) \/ LineBusy(h) \/ BytesOut(h)
  BY <1>0, <1>7 DEF LineReserved, LineBusy, BytesOut, UpdateDone, TurnDone, Goto, At, SenderAt
<1>8. CASE SentToOne(h) \/ SentToAll(h) \/ BroadcastSpin(h) \/ BroadcastDone(h)
  BY <1>0, <1>8 DEF SentToOne, SentToAll, BroadcastSpin, BroadcastDone, UpdateDone, TurnDone,
      Goto, At, SenderAt
<1>. QED
  BY <1>1, <1>2, <1>3, <1>4, <1>5, <1>6, <1>7, <1>8, NoCommands, Steps DEF Step, Receive, Main

-----------------------------------------------------------------------------
(* Releases.                                                               *)

\* The three steps that publish one
Clears(x) == Acknowledge(x) \/ SentToAll(x) \/ AckTimedOut(x)

\* While one is published no other is under way
LEMMA ClearsOnce ==
    ASSUME Known, NEW x \in Node, Clears(x)
    PROVE  /\ NoRelease
           /\ bus_in' = [bus_in EXCEPT ![x] = Append(bus_in[x], InactiveBy(x))]
<1>1. CASE Acknowledge(x)
  <2>1. rx_buffer[x] # <<>> /\ pc[x] \in {"loop", "update"}
    BY <1>1 DEF Acknowledge, ValidPacket, AtUpdate, At
  <2>2. NoRelease
    BY <2>1, Recipient DEF Outstanding
  <2>. QED
    BY <1>1, <2>2 DEF Acknowledge, PublishAccess
<1>2. CASE SentToAll(x)
  BY <1>2, Broadcasting DEF SentToAll, PublishAccess
<1>3. CASE AckTimedOut(x)
  BY <1>3, GivingUp DEF AckTimedOut, PublishAccess
<1>. QED
  BY <1>1, <1>2, <1>3 DEF Clears

\* All other steps move releases at most one place to the front
LEMMA ReleasesMove ==
    ASSUME Known, [Next]_vars, NEW n \in Node, ~Clears(n)
    PROVE  \E d \in {0, 1} : \A i \in 1..Len(bus_in'[n]) :
              ReleaseAt(n, i)' => i + d \in 1..Len(bus_in[n]) /\ ReleaseAt(n, i + d)
<1>0. bus_in[n] \in Seq(AccessText)
  BY DEF Known, InvType, TypeOK, NetType
<1>1. CASE bus_in'[n] = bus_in[n]
  BY <1>0, <1>1 DEF ReleaseAt
<1>2. CASE bus_in'[n] = Append(bus_in[n], ActiveBy(n))
  <2>1. ActiveBy(n) \in AccessText /\ ActiveBy(n).type # "INACTIVE"
    BY DEF ActiveBy, AccessText
  <2>2. ASSUME NEW i \in 1..Len(bus_in'[n]), ReleaseAt(n, i)'
        PROVE  i + 0 \in 1..Len(bus_in[n]) /\ ReleaseAt(n, i + 0)
    <3>1. i \in 1..Len(bus_in[n]) \/ (i = Len(bus_in[n]) + 1 /\ bus_in'[n][i] = ActiveBy(n))
      BY <1>0, <1>2, <2>1, <2>2
    <3>2. i \in 1..Len(bus_in[n])
      BY <2>1, <2>2, <3>1 DEF ReleaseAt
    <3>3. bus_in'[n][i] = bus_in[n][i]
      BY <1>0, <1>2, <2>1, <3>2
    <3>. QED
      BY <2>2, <3>2, <3>3 DEF ReleaseAt
  <2>. QED
    BY <2>2
<1>3. CASE Bus(n)
  <2>1. bus_in[n] # <<>> /\ bus_in'[n] = Tail(bus_in[n])
    BY <1>3, BusTakes
  <2>2. ASSUME NEW i \in 1..Len(bus_in'[n]), ReleaseAt(n, i)'
        PROVE  i + 1 \in 1..Len(bus_in[n]) /\ ReleaseAt(n, i + 1)
    <3>1. i + 1 \in 1..Len(bus_in[n]) /\ bus_in'[n][i] = bus_in[n][i + 1]
      BY <1>0, <2>1, <2>2
    <3>. QED
      BY <2>2, <3>1 DEF ReleaseAt
  <2>. QED
    BY <2>2
<1>. QED
  BY <1>1, <1>2, <1>3, SignalSteps DEF Clears

\* A release begins with one of the three and ends at the bus node
LEMMA ReleaseSteps ==
    ASSUME Known, [Next]_vars
    PROVE  /\ NoRelease => NoRelease' \/ \E x \in Node : Clears(x)
           /\ \A k \in Node : BusRelease(k) => ~NoRelease /\ NoRelease'
<1>1. NoRelease => NoRelease' \/ \E x \in Node : Clears(x)
  <2>. SUFFICES ASSUME NoRelease, \A x \in Node : ~Clears(x),
                       NEW n \in Node, NEW i \in 1..Len(bus_in'[n]), ReleaseAt(n, i)'
                PROVE  FALSE
    BY DEF NoRelease
  <2>. QED
    BY ReleasesMove DEF NoRelease
<1>2. ASSUME NEW k \in Node, BusRelease(k)
      PROVE  ~NoRelease /\ NoRelease'
  <2>1. /\ 1 \in 1..Len(bus_in[k]) /\ ReleaseAt(k, 1) /\ bus_in'[k] = Tail(bus_in[k])
        /\ bus_in[k] \in Seq(AccessText) /\ bus_in[k] # <<>>
    BY <1>2, BusTakes DEF Bus, BusRelease, BusArrives, ReleaseAt
  <2>2. ~NoRelease
    BY <2>1 DEF NoRelease
  <2>3. ASSUME NEW x \in Node, NEW i \in 1..Len(bus_in[x]), ReleaseAt(x, i)
        PROVE  x = k /\ i = 1
    BY <2>1, <2>3 DEF Known, LineInv, Releases
  <2>4. ASSUME NEW x \in Node, NEW i \in 1..Len(bus_in'[x]), ReleaseAt(x, i)'
        PROVE  FALSE
    <3>1. x = k
      BY <2>2, <2>3, <2>4, ClearsOnce, ReleasesMove
    <3>2. i \in 1..Len(Tail(bus_in[k]))
      BY <2>1, <2>4, <3>1
    <3>3. i + 1 \in 1..Len(bus_in[k]) /\ bus_in'[k][i] = bus_in[k][i + 1] /\ i + 1 # 1
      BY <2>1, <3>2
    <3>. QED
      BY <2>3, <2>4, <3>1, <3>3 DEF ReleaseAt
  <2>. QED
    BY <2>2, <2>4 DEF NoRelease
<1>. QED
  BY <1>1, <1>2

\* The owner keeps the line while no release is under way
LEMMA OwnerStays ==
    ASSUME Known, [Next]_vars, NEW h \in Node, Owns(h), NoRelease
    PROVE  Owns(h)'
BY TokenSteps, ReleaseSteps

\* A main thread that waits for the line to become INACTIVE waits
LEMMA SpinStays ==
    ASSUME Known, [Next]_vars, NEW h \in Node, Owns(h), pc[h] \in {"bcast_spin", "timeout_spin"}
    PROVE  pc'[h] = pc[h]
<1>0. InvType /\ g_access[h] = "ACTIVE"
  BY DEF Known, LineInv, Granted, Owns
<1>1. CASE \E k \in Node : k # h /\ Step(k)
  BY <1>0, <1>1, OthersSame DEF Same
<1>2. CASE BusPublish \/ UNCHANGED vars
  BY <1>2, BusSame DEF Same
<1>3. CASE Receive(h) \/ Update(h) \/ (\E d \in Targets : Ping(h, d)) \/ Bus(h)
  BY <1>3 DEF Receive, RecvGrant, RecvForeignActive, RecvActiveIgnored, RecvInactive, RecvFrame,
      Update, Ping, Bus, BusGrant, BusRefuse, BusRelease, BusVarsFrom
<1>4. ~Main(h)
  BY <1>0 DEF Main, BytesIn, NoUpdate, Acknowledge, AckSpin, DeliverAcked, DeliverUnacked,
      NothingReceived, KeepWaiting, AckTimedOut, TimeoutSpin, NothingSent, RequestLine,
      LineReserved, LineBusy, BytesOut, SentToOne, SentToAll, BroadcastSpin, BroadcastDone,
      Reinit, AtUpdate, At
<1>. QED
  BY <1>1, <1>2, <1>3, <1>4, Steps DEF Step

\* A hold that comes to its end still does so after a step
LEMMA EndingStays ==
    ASSUME Known, [Next]_vars, NEW h \in Node, Owns(h), Ending(h)
    PROVE  Ending(h)'
<1>1. CASE pc[h] \in {"bcast_spin", "timeout_spin"}
  BY <1>1, SpinStays DEF Ending
<1>2. CASE Awaits(h) /\ Received(on_air[h])
  <2>1. CASE SentToAll(h) \/ AckTimedOut(h)
    BY <2>1 DEF SentToAll, AckTimedOut, Goto, Ending, Known, InvType, TypeOK, MainType
  <2>2. CASE Awaits(h)' /\ on_air'[h] = on_air[h]
    <3>1. on_air[h] \in Frame
      BY <1>2, AwaitedFrame
    <3>2. PICK f \in Frame : f = on_air[h]
      BY <3>1
    <3>3. Received(f)'
      BY <1>2, <3>2, ReceivedStays
    <3>4. on_air'[h] = f
      BY <2>2, <3>2
    <3>. QED
      BY <2>2, <3>3, <3>4 DEF Ending
  <2>. QED
    BY <1>2, <2>1, <2>2, AwaitSteps
<1>. QED
  BY <1>1, <1>2 DEF Ending

\* Who acknowledges serves the owner of the line
LEMMA Serving ==
    ASSUME Known, NEW x \in Node, Acknowledge(x)
    PROVE  /\ Head(rx_buffer[x]) \in Frame /\ Head(rx_buffer[x]).dst = x
           /\ In(rx_buffer[x], Head(rx_buffer[x])) /\ role[x] = "RX"
           /\ Outstanding(Head(rx_buffer[x]))
           /\ packet'[x] = Head(rx_buffer[x]) /\ pc'[x] = "ack_spin" /\ on_air' = on_air
<1>1. rx_buffer[x] # <<>> /\ pc[x] \in {"loop", "update"}
  BY DEF Acknowledge, ValidPacket, AtUpdate, At
<1>2. packet'[x] = Head(rx_buffer[x]) /\ pc'[x] = "ack_spin" /\ on_air' = on_air
  BY DEF Acknowledge, Goto, Known, InvType, TypeOK, MainType
<1>. QED
  BY <1>1, <1>2, Recipient

\* No second release, and none without an owner that is done
LEMMA ReleasesKept == ASSUME Known, [Next]_vars PROVE Releases'
<1>1. ASSUME NEW x \in Node, NEW y \in Node,
             NEW i \in 1..Len(bus_in'[x]), NEW j \in 1..Len(bus_in'[y]),
             ReleaseAt(x, i)', ReleaseAt(y, j)'
      PROVE  x = y /\ i = j
  <2>. USE DEF Known, InvType, TypeOK, NetType
  <2>1. ASSUME NEW h \in Node, Clears(h), NEW n \in Node,
               NEW k \in 1..Len(bus_in'[n]), ReleaseAt(n, k)'
        PROVE  n = h /\ k = Len(bus_in[h]) + 1
    <3>1. NoRelease /\ bus_in' = [bus_in EXCEPT ![h] = Append(bus_in[h], InactiveBy(h))]
      BY <2>1, ClearsOnce
    <3>2. n = h
      BY <2>1, <3>1 DEF NoRelease, ReleaseAt
    <3>3. bus_in[h] \in Seq(AccessText) /\ InactiveBy(h) \in AccessText
      BY DEF AccessText, InactiveBy
    <3>4. \A l \in 1..Len(bus_in[h]) : bus_in'[n][l] = bus_in[h][l]
      BY <3>1, <3>2, <3>3
    <3>5. k \notin 1..Len(bus_in[h])
      BY <2>1, <3>1, <3>2, <3>4 DEF NoRelease, ReleaseAt
    <3>6. Len(bus_in'[n]) = Len(bus_in[h]) + 1 /\ Len(bus_in[h]) \in Nat
      BY <3>1, <3>2, <3>3
    <3>. QED
      BY <2>1, <3>2, <3>5, <3>6
  <2>2. CASE \E h \in Node : Clears(h)
    BY <1>1, <2>1, <2>2
  <2>3. CASE \A h \in Node : ~Clears(h)
    <3>1. x = y
      BY <1>1, <2>3, ReleasesMove DEF LineInv, Releases
    <3>2. PICK d \in {0, 1} : \A k \in 1..Len(bus_in'[x]) :
              ReleaseAt(x, k)' => k + d \in 1..Len(bus_in[x]) /\ ReleaseAt(x, k + d)
      BY <2>3, ReleasesMove
    <3>3. i + d = j + d
      BY <1>1, <3>1, <3>2 DEF LineInv, Releases
    <3>. QED
      BY <3>1, <3>3
  <2>. QED
    BY <2>2, <2>3
<1>2. ASSUME ~NoRelease'
      PROVE  \E h \in Node : Owns(h)' /\ Ending(h)'
  <2>1. CASE NoRelease
    <3>1. PICK x \in Node : Clears(x)
      BY <1>2, <2>1, ReleaseSteps
    <3>2. CASE SentToAll(x) \/ AckTimedOut(x)
      <4>1. Owns(x)'
        BY <2>1, <3>2, Broadcasting, GivingUp, OwnerStays
      <4>2. pc'[x] \in {"bcast_spin", "timeout_spin"}
        BY <3>2 DEF SentToAll, AckTimedOut, Goto, Known, InvType, TypeOK, MainType
      <4>. QED
        BY <4>1, <4>2 DEF Ending
    <3>3. CASE Acknowledge(x)
      <4>1. PICK f \in Frame : f = Head(rx_buffer[x])
        BY <3>3, Serving
      <4>2. /\ f.dst = x /\ Owns(f.src) /\ Awaits(f.src) /\ on_air[f.src] = f /\ f.src \in Node
            /\ packet'[x] = f /\ on_air' = on_air
        BY <3>3, <4>1, Serving DEF Outstanding, Frame
      <4>3. Owns(f.src)'
        BY <2>1, <4>2, OwnerStays
      <4>4. on_air'[f.src] = f /\ Received(f)'
        BY <4>2 DEF Received
      <4>5. CASE SentToAll(f.src) \/ AckTimedOut(f.src)
        BY <4>2, <4>3, <4>5 DEF SentToAll, AckTimedOut, Goto, Ending, Known, InvType, TypeOK,
            MainType
      <4>6. CASE Awaits(f.src)'
        BY <4>2, <4>3, <4>4, <4>6 DEF Ending
      <4>. QED
        BY <4>2, <4>5, <4>6, AwaitSteps
    <3>. QED
      BY <3>1, <3>2, <3>3 DEF Clears
  <2>2. CASE ~NoRelease
    <3>1. PICK h \in Node : Owns(h) /\ Ending(h)
      BY <2>2 DEF Known, LineInv, Releases
    <3>2. Owns(h)'
      BY <1>2, <3>1, TokenSteps, ReleaseSteps
    <3>. QED
      BY <3>1, <3>2, EndingStays
  <2>. QED
    BY <2>1, <2>2
<1>. QED
  BY <1>1, <1>2 DEF Releases

\* A frame is on its way or unacknowledged only while its sender waits
LEMMA ServedKept == ASSUME Known, [Next]_vars PROVE Served'
<1>. SUFFICES ASSUME NEW f \in Frame, f.dst \in Node, Unserved(f.dst, f)'
              PROVE  Outstanding(f)'
  BY DEF Served
<1>. DEFINE d == f.dst
            h == f.src
<1>0. h \in Node /\ d \in Node /\ f \in Chunk
  BY DEF Frame, Chunk
<1>1. Unserved(d, f) \/ \E k \in Node : BytesOut(k) /\ tx_buffer[k] = f
  BY <1>0, BytesSteps DEF Unserved
<1>2. CASE \E k \in Node : BytesOut(k) /\ tx_buffer[k] = f
  <2>1. PICK k \in Node : BytesOut(k) /\ tx_buffer[k] = f
    BY <1>2
  <2>2. pc[k] = "bytes_out" /\ h = k /\ tx_buf_start[k] = 0
    BY <2>1, FromTheStart DEF BytesOut, At, Sending
  <2>3. Owns(k) /\ NoRelease
    BY <2>2, FreshOwner DEF Known, LineInv, Senders, SenderAt
  <2>4. pc'[k] = "puback" /\ on_air'[k] = f /\ bus_in' = bus_in
    BY <2>1, <2>2 DEF BytesOut, Goto, Known, InvType, TypeOK, MainType, HistoryType
  <2>5. Owns(k)' /\ NoRelease'
    BY <2>3, <2>4, OwnerStays DEF NoRelease, ReleaseAt
  <2>. QED
    BY <2>2, <2>4, <2>5 DEF Outstanding, Awaits
<1>3. CASE Unserved(d, f)
  <2>1. Owns(h) /\ NoRelease /\ Awaits(h) /\ on_air[h] = f
    BY <1>0, <1>3 DEF Known, LineInv, Served, Outstanding
  <2>2. Owns(h)'
    BY <1>0, <2>1, OwnerStays
  <2>3. ~SentToAll(h)
    BY <1>0, <2>1, Broadcasting, BusAssumption
  <2>4. FrameInFlight(f)
    <3>1. In(inbox[d], Rs485(f)) => Carries(inbox[d], Rs485(f))
      BY <1>0, CarriesIn DEF Known, InvType, TypeOK, NetType
    <3>2. In(rx_buffer[d], f) => Carries(rx_buffer[d], f) /\ role[d] = "RX"
      <4>1. rx_buffer[d] \in Seq(Chunk)
        BY <1>0 DEF Known, InvType, TypeOK, IcpType
      <4>2. In(rx_buffer[d], f) => rx_buffer[d] # <<>>
        BY DEF In
      <4>. QED
        BY <1>0, <4>1, <4>2, CarriesIn, Recipient
    <3>. QED
      BY <1>0, <1>3, <3>1, <3>2 DEF FrameInFlight, Unserved
  <2>5. ~AckTimedOut(h)
    BY <1>0, <2>1, <2>4, GivingUp
  <2>6. Awaits(h)' /\ on_air'[h] = f
    BY <1>0, <2>1, <2>3, <2>5, AwaitSteps
  <2>7. NoRelease'
    <3>. SUFFICES ASSUME NEW x \in Node, Clears(x)
                  PROVE  FALSE
      BY <2>1, ReleaseSteps
    <3>1. ~SentToAll(x) /\ ~AckTimedOut(x)
      BY <1>0, <2>1, <2>3, <2>5, Broadcasting, GivingUp, OneOwner
    <3>2. Acknowledge(x)
      BY <3>1 DEF Clears
    <3>3. PICK g \in Frame : g = Head(rx_buffer[x])
      BY <3>2, Serving
    <3>4. /\ g.dst = x /\ Owns(g.src) /\ on_air[g.src] = g /\ g.src \in Node
          /\ packet'[x] = g /\ pc'[x] = "ack_spin"
      BY <3>2, <3>3, Serving DEF Outstanding, Frame
    <3>5. g = f /\ x = d
      BY <1>0, <2>1, <3>4, OneOwner
    <3>6. OncePlaced(d, f)'
      BY <1>0, NextKeepsOnce DEF Known, OnceInv, Placed
    <3>7. Stored(d, f)'
      BY <3>4, <3>5 DEF Stored
    <3>8. ~Unserved(d, f)'
      BY <3>4, <3>5, <3>6, <3>7 DEF OncePlaced, Unserved, Coming
    <3>. QED
      BY <3>8
  <2>. QED
    BY <2>2, <2>6, <2>7 DEF Outstanding
<1>. QED
  BY <1>1, <1>2, <1>3

-----------------------------------------------------------------------------
(* Senders.                                                                *)

\* What holds of a node before its step
LEMMA SenderFacts ==
    ASSUME Known, NEW n \in Node
    PROVE  /\ ~reset_flag[n] /\ ~listen_to_all[n] /\ role[n] # "LISTEN_IN"
           /\ pc[n] \in {"bytes_out", "puback"} \/ waiting_for_ack[n] => line_is_mine[n]
           /\ line_is_mine[n] => g_access[n] = "ACTIVE"
           /\ LineReserved(n) => Owns(n) /\ NoRelease /\ rx_buffer[n] = <<>>
           /\ \A d \in Targets : Ping(n, d) => pc[n] \notin Sending
<1>1. SenderAt(n) /\ BufferedAt(n)
  BY DEF Known, LineInv, Senders, Buffered
<1>2. ~reset_flag[n] /\ ~listen_to_all[n] /\ role[n] # "LISTEN_IN"
  BY DEF Known, OnTime, Addressed, AddressedTo, LineInv, Quiet
<1>3. /\ pc[n] \in {"bytes_out", "puback"} \/ waiting_for_ack[n] => line_is_mine[n]
      /\ line_is_mine[n] => g_access[n] = "ACTIVE"
  BY <1>1 DEF SenderAt, Owns, Known, LineInv, Granted
<1>4. ASSUME LineReserved(n)
      PROVE  Owns(n) /\ NoRelease /\ rx_buffer[n] = <<>>
  <2>1. Owns(n) /\ NoRelease
    BY <1>1, <1>4, FreshOwner DEF LineReserved, At, AccessGranted, SenderAt
  <2>2. ~Awaits(n)
    BY <1>1, <1>4 DEF LineReserved, At, SenderAt, Awaits
  <2>3. ASSUME rx_buffer[n] # <<>>
        PROVE  FALSE
    <3>1. PICK f \in Frame : f = Head(rx_buffer[n])
      BY <2>3, Recipient
    <3>2. Owns(f.src) /\ Awaits(f.src) /\ f.src \in Node
      BY <1>4, <2>3, <3>1, Recipient DEF LineReserved, At, Outstanding, Frame
    <3>. QED
      BY <2>1, <2>2, <3>2, OneOwner
  <2>. QED
    BY <2>1, <2>3
<1>5. ASSUME NEW d \in Targets, Ping(n, d)
      PROVE  pc[n] \notin Sending
  <2>1. tx_buf_start[n] >= tx_buf_end[n]
    BY <1>5, Timing DEF Ping, Known
  <2>. QED
    BY <1>1, <2>1 DEF BufferedAt, BytesToSend, Known, InvType, TypeOK, TxType
<1>. QED
  BY <1>2, <1>3, <1>4, <1>5

\* How a node comes to send
LEMMA SendingSteps ==
    ASSUME Known, [Next]_vars, NEW n \in Node
    PROVE  /\ pc'[n] = "set_access" => pc[n] = "set_access" \/ RequestLine(n)
           /\ pc'[n] = "bytes_out" => pc[n] = "bytes_out" \/ LineReserved(n)
           /\ pc'[n] = "puback" => pc[n] = "puback" \/ BytesOut(n)
<1>. USE DEF InvType, TypeOK, MainType
<1>0. InvType
  BY DEF Known
<1>1. CASE \E k \in Node : k # n /\ Step(k)
  BY <1>0, <1>1, OthersSame DEF Same
<1>2. CASE BusPublish \/ UNCHANGED vars
  BY <1>2, BusSame DEF Same
<1>3. CASE Receive(n) \/ Update(n) \/ (\E d \in Targets : Ping(n, d)) \/ Bus(n)
  BY <1>3 DEF Receive, RecvGrant, RecvForeignActive, RecvActiveIgnored, RecvInactive, RecvFrame,
      Update, Ping, Bus, BusGrant, BusRefuse, BusRelease, BusVarsFrom
<1>4. CASE BytesIn(n) \/ NoUpdate(n) \/ Acknowledge(n) \/ AckSpin(n) \/ DeliverAcked(n)
           \/ DeliverUnacked(n) \/ NothingReceived(n)
  BY <1>0, <1>4 DEF BytesIn, NoUpdate, Acknowledge, AckSpin, DeliverAcked, DeliverUnacked,
      NothingReceived, Deliver, TurnDone, Goto
<1>5. CASE KeepWaiting(n) \/ AckTimedOut(n) \/ TimeoutSpin(n) \/ NothingSent(n) \/ LineBusy(n)
           \/ RequestLine(n) \/ LineReserved(n)
  BY <1>0, <1>5 DEF KeepWaiting, AckTimedOut, TimeoutSpin, NothingSent, LineBusy, RequestLine,
      LineReserved, UpdateDone, TurnDone, Goto
<1>6. CASE BytesOut(n) \/ SentToOne(n) \/ SentToAll(n) \/ BroadcastSpin(n) \/ BroadcastDone(n)
  BY <1>0, <1>6 DEF BytesOut, SentToOne, SentToAll, BroadcastSpin, BroadcastDone, UpdateDone,
      TurnDone, Goto
<1>. QED
  BY <1>1, <1>2, <1>3, <1>4, <1>5, <1>6, NoCommands, Steps DEF Step, Main

\* Who asks for the line, or sends, still owns it
LEMMA HoldKept ==
    ASSUME Known, [Next]_vars, NEW n \in Node
    PROVE  /\ pc'[n] = "set_access" /\ line_is_mine'[n] => Owns(n)'
           /\ pc'[n] = "bytes_out" => Owns(n)'
           /\ Awaits(n)' /\ Freed(n)' => Received(on_air[n])'
<1>0. SenderAt(n)
  BY DEF Known, LineInv, Senders
<1>1. ASSUME pc'[n] = "set_access", line_is_mine'[n]
      PROVE  Owns(n)'
  <2>1. CASE RecvGrant(n)
    BY <2>1, TokenSteps
  <2>2. CASE line_is_mine[n]
    <3>1. pc[n] = "set_access"
      BY <1>1, <2>2, SenderFacts, SendingSteps DEF RequestLine
    <3>2. Owns(n) /\ NoRelease
      BY <1>0, <2>2, <3>1, FreshOwner DEF SenderAt
    <3>. QED
      BY <3>2, OwnerStays
  <2>. QED
    BY <1>1, <2>1, <2>2, LineSteps
<1>2. ASSUME pc'[n] = "bytes_out"
      PROVE  Owns(n)'
  <2>1. CASE pc[n] = "bytes_out"
    BY <1>0, <2>1, FreshOwner, OwnerStays DEF SenderAt
  <2>2. CASE LineReserved(n)
    BY <2>2, SenderFacts, OwnerStays
  <2>. QED
    BY <1>2, <2>1, <2>2, SendingSteps
<1>3. ASSUME Awaits(n)', Freed(n)'
      PROVE  Received(on_air[n])'
  <2>1. CASE BytesOut(n)
    <3>1. Owns(n) /\ NoRelease
      BY <1>0, <2>1, FreshOwner DEF BytesOut, At, SenderAt
    <3>. QED
      BY <1>3, <3>1, OwnerStays DEF Owns
  <2>2. CASE Awaits(n) /\ on_air'[n] = on_air[n]
    <3>1. PICK f \in Frame : f = on_air[n]
      BY <2>2, AwaitedFrame
    <3>2. line_is_mine[n] /\ pc[n] \notin {"bcast_spin", "timeout_spin"}
      BY <2>2, AwaitedFrame
    <3>3. Received(f)
      <4>1. CASE Freed(n)
        BY <1>0, <2>2, <3>1, <4>1 DEF SenderAt
      <4>2. CASE ~Freed(n)
        <5>1. Owns(n)
          BY <3>2, <4>2 DEF Owns
        <5>2. ~NoRelease
          BY <1>3, <4>2, NetSteps, ReleaseSteps
        <5>3. Ending(n)
          BY <5>1, <5>2, OwnerEnds
        <5>. QED
          BY <3>1, <3>2, <5>3 DEF Ending
      <4>. QED
        BY <4>1, <4>2
    <3>4. Received(f)' /\ on_air'[n] = f
      BY <2>2, <3>1, <3>3, ReceivedStays
    <3>. QED
      BY <3>4
  <2>. QED
    BY <1>3, <2>1, <2>2, AwaitSteps
<1>. QED
  BY <1>1, <1>2, <1>3

\* The rest concerns the node's own variables
LEMMA LocalKept ==
    ASSUME Known, [Next]_vars, NEW n \in Node
    PROVE  /\ pc'[n] \in {"bytes_out", "puback"} => ~waiting_for_ack'[n] /\ role'[n] = "TX"
           /\ pc'[n] = "puback" => line_is_mine'[n] /\ on_air'[n] = tx_buffer'[n]
           /\ pc'[n] \in Sending \ {"set_access"} => rx_buffer'[n] = <<>>
           /\ waiting_for_ack'[n] =>
                 /\ role'[n] = "TX" /\ line_is_mine'[n]
                 /\ pc'[n] \in {"loop", "update", "role"}
                 /\ on_air'[n] \in Frame /\ on_air'[n].dst \in Node /\ on_air'[n].src = n
           /\ rx_buffer'[n] # <<>> => role'[n] = "RX"
<1>. USE DEF InvType, TypeOK, LineType, IcpType, TxType, MainType, HistoryType, Sending
<1>0. InvType /\ SenderAt(n)
  BY DEF Known, LineInv, Senders
<1>f. /\ ~reset_flag[n] /\ ~listen_to_all[n] /\ role[n] # "LISTEN_IN"
      /\ pc[n] \in {"bytes_out", "puback"} \/ waiting_for_ack[n] => line_is_mine[n]
      /\ line_is_mine[n] => g_access[n] = "ACTIVE"
  BY SenderFacts
<1>1. CASE \E k \in Node : k # n /\ Step(k)
  <2>1. Same(n)
    BY <1>0, <1>1, OthersSame
  <2>. QED
    BY <1>0, <2>1 DEF Same, SenderAt
<1>2. CASE BusPublish \/ UNCHANGED vars
  BY <1>0, <1>2, BusSame DEF Same, SenderAt
<1>3. CASE RecvGrant(n) \/ RecvForeignActive(n) \/ RecvActiveIgnored(n) \/ RecvFrame(n)
  BY <1>0, <1>f, <1>3 DEF RecvGrant, RecvForeignActive, RecvActiveIgnored, RecvFrame,
      NotifyAccessActive, SenderAt
<1>4. CASE RecvInactive(n)
  <2>1. pc[n] # "puback" /\ pc[n] # "bytes_out"
    <3>1. ~Owns(n) /\ pc[n] # "puback"
      BY <1>4, TokenSteps, Timing DEF RecvInactive, Known
    <3>. QED
      BY <1>0, <3>1 DEF SenderAt
  <2>2. /\ UNCHANGED <<pc, on_air, tx_buffer>>
        /\ \/ waiting_for_ack[n] /\ role[n] = "TX" /\ ~waiting_for_ack'[n]
              /\ rx_buffer' = rx_buffer
           \/ waiting_for_ack' = waiting_for_ack /\ rx_buffer'[n] = <<>>
              /\ role[n] = "RX"
           \/ /\ role[n] = "NO_ROLE" \/ (role[n] = "TX" /\ ~waiting_for_ack[n])
              /\ UNCHANGED <<role, waiting_for_ack, rx_buffer>>
    BY <1>0, <1>f, <1>4 DEF RecvInactive, NotifyAccessInactive
  <2>. QED
    BY <1>0, <2>1, <2>2 DEF SenderAt
<1>5. CASE Update(n) \/ Bus(n)
  BY <1>0, <1>5 DEF Update, Bus, BusGrant, BusRefuse, BusRelease, BusVarsFrom, SenderAt
<1>6. ASSUME NEW d \in Targets, Ping(n, d)
      PROVE  /\ UNCHANGED <<pc, waiting_for_ack, role, rx_buffer, line_is_mine, on_air>>
             /\ pc[n] # "puback"
  BY <1>6, SenderFacts DEF Ping
<1>7. CASE BytesIn(n)
  <2>1. /\ pc'[n] = "update" /\ pc[n] = "loop"
        /\ UNCHANGED <<waiting_for_ack, line_is_mine, on_air>>
        /\ role[n] # "RX" => role'[n] = role[n] /\ rx_buffer'[n] = rx_buffer[n]
        /\ role[n] = "RX" => rx_buffer'[n] = <<>> \/ role'[n] = "RX"
    BY <1>0, <1>f, <1>7 DEF BytesIn, At, Goto, Bystander
  <2>. QED
    BY <1>0, <2>1 DEF SenderAt
<1>8. CASE NoUpdate(n) \/ Acknowledge(n) \/ AckSpin(n) \/ NothingReceived(n)
  BY <1>0, <1>f, <1>8 DEF NoUpdate, Acknowledge, AckSpin, NothingReceived, TurnDone, Goto,
      AtUpdate, At, SenderAt
<1>9. CASE DeliverAcked(n) \/ DeliverUnacked(n)
  BY <1>0, <1>f, <1>9, SMTT(30) DEF DeliverAcked, DeliverUnacked, Deliver, Goto, AtUpdate, At,
      SenderAt
<1>10. CASE KeepWaiting(n) \/ AckTimedOut(n) \/ TimeoutSpin(n)
  BY <1>0, <1>f, <1>10 DEF KeepWaiting, AckTimedOut, AckOverdue, TimeoutSpin, UpdateDone,
      TurnDone, Goto, At, SenderAt
<1>11. CASE NothingSent(n) \/ RequestLine(n) \/ LineBusy(n)
  BY <1>0, <1>f, <1>11 DEF NothingSent, RequestLine, LineBusy, UpdateDone, TurnDone, Goto, At,
      SenderAt
<1>12. CASE LineReserved(n)
  <2>1. rx_buffer[n] = <<>> /\ ~waiting_for_ack[n] /\ pc[n] = "set_access"
    BY <1>0, <1>12, SenderFacts DEF LineReserved, At, SenderAt
  <2>. QED
    BY <1>0, <1>12, <2>1 DEF LineReserved, Goto
<1>13. CASE BytesOut(n)
  <2>1. tx_buf_start[n] = 0 /\ pc[n] = "bytes_out"
    BY <1>13, FromTheStart DEF BytesOut, At
  <2>2. on_air'[n] = tx_buffer'[n] /\ pc'[n] = "puback"
    BY <1>0, <1>13, <2>1 DEF BytesOut, Goto
  <2>. QED
    BY <1>0, <1>f, <1>13, <2>1, <2>2 DEF BytesOut, SenderAt
<1>14. CASE SentToOne(n)
  <2>1. /\ pc[n] = "puback" /\ tx_buffer[n] \in Frame /\ tx_buffer[n].src = n
        /\ tx_buffer[n].dst \in Node
    BY <1>14, FromTheStart DEF SentToOne, At
  <2>2. /\ pc'[n] = "loop"
        /\ UNCHANGED <<role, line_is_mine, on_air, rx_buffer>>
    BY <1>0, <1>f, <1>14 DEF SentToOne, UpdateDone, TurnDone, Goto
  <2>. QED
    BY <1>0, <2>1, <2>2 DEF SenderAt
<1>15. CASE SentToAll(n) \/ BroadcastSpin(n)
  BY <1>0, <1>15 DEF SentToAll, BroadcastSpin, Goto, At, SenderAt
<1>16. CASE BroadcastDone(n)
  <2>1. rx_buffer[n] = <<>> /\ ~waiting_for_ack[n]
    BY <1>0, <1>16 DEF BroadcastDone, At, SenderAt
  <2>2. UNCHANGED <<waiting_for_ack, rx_buffer>> /\ pc'[n] = "loop"
    BY <1>0, <1>f, <1>16 DEF BroadcastDone, UpdateDone, TurnDone, Goto
  <2>. QED
    BY <2>1, <2>2
<1>17. CASE \E d \in Targets : Ping(n, d)
  BY <1>0, <1>6, <1>17 DEF SenderAt
<1>. QED
  BY <1>1, <1>2, <1>3, <1>4, <1>5, <1>7, <1>8, <1>9, <1>10, <1>11, <1>12, <1>13, <1>14, <1>15,
     <1>16, <1>17, NoCommands, Steps DEF Step, Receive, Main

\* Whoever sends or waits owns the line, until it was served
LEMMA SendersKept == ASSUME Known, [Next]_vars PROVE Senders'
BY HoldKept, LocalKept DEF Senders, SenderAt

-----------------------------------------------------------------------------
(* Acknowledgement timeouts.                                               *)

\* update_now is set while icp_update runs
LEMMA UpdateSteps ==
    ASSUME Known, [Next]_vars, NEW n \in Node
    PROVE  /\ pc'[n] \notin {"loop", "update"} => update_now'[n]
           /\ waiting_for_ack'[n] /\ update_now'[n] =>
                 /\ waiting_for_ack[n] /\ ack_timeout_cnt'[n] = ack_timeout_cnt[n]
                 /\ update_now[n] \/ Update(n)
                 /\ ~SentToAll(n) /\ ~AckTimedOut(n)
<1>. USE DEF InvType, TypeOK, LineType, IcpType, MainType
<1>0. /\ InvType /\ ~reset_flag[n] /\ pc[n] # "reset"
      /\ pc[n] \notin {"loop", "update"} => update_now[n]
      /\ waiting_for_ack[n] => pc[n] \in {"loop", "update", "role"}
  BY DEF Known, LineInv, Overdue, OverdueAt, Quiet, Senders, SenderAt
<1>1. /\ SentToAll(n) => pc'[n] = "bcast_spin" /\ waiting_for_ack' = waiting_for_ack
                         /\ pc[n] = "puback"
      /\ AckTimedOut(n) => ~waiting_for_ack'[n]
  BY <1>0 DEF SentToAll, AckTimedOut, Goto, At
<1>2. CASE \E k \in Node : k # n /\ Step(k)
  <2>1. Same(n)
    BY <1>0, <1>2, OthersSame
  <2>. QED
    BY <1>0, <1>1, <2>1 DEF Same
<1>3. CASE BusPublish \/ UNCHANGED vars
  <2>1. Same(n)
    BY <1>3, BusSame
  <2>. QED
    BY <1>0, <1>1, <2>1 DEF Same
<1>4. CASE Receive(n) \/ (\E d \in Targets : Ping(n, d)) \/ Bus(n)
  <2>1. UNCHANGED <<pc, update_now, ack_timeout_cnt>> /\ (waiting_for_ack'[n] => waiting_for_ack[n])
    BY <1>0, <1>4 DEF Receive, RecvGrant, RecvForeignActive, NotifyAccessActive,
        RecvActiveIgnored, RecvInactive, NotifyAccessInactive, RecvFrame, Ping, Bus, BusGrant,
        BusRefuse, BusRelease, BusVarsFrom
  <2>. QED
    BY <1>0, <1>1, <2>1
<1>5. CASE Update(n)
  <2>1. UNCHANGED <<pc, waiting_for_ack, ack_timeout_cnt>> /\ update_now'[n]
    BY <1>0, <1>5 DEF Update
  <2>. QED
    BY <1>0, <1>1, <1>5, <2>1
<1>6. CASE BytesIn(n) \/ NoUpdate(n) \/ Acknowledge(n) \/ AckSpin(n) \/ DeliverAcked(n)
           \/ DeliverUnacked(n) \/ NothingReceived(n)
  <2>1. /\ UNCHANGED <<waiting_for_ack, update_now, ack_timeout_cnt>>
        /\ pc'[n] \in {"loop", "update"} \/ update_now[n]
    BY <1>0, <1>6 DEF BytesIn, NoUpdate, Acknowledge, AckSpin, DeliverAcked, DeliverUnacked,
        NothingReceived, Deliver, TurnDone, Goto, At
  <2>. QED
    BY <1>0, <1>1, <2>1
<1>7. CASE KeepWaiting(n) \/ TimeoutSpin(n) \/ NothingSent(n) \/ LineBusy(n) \/ SentToOne(n)
           \/ BroadcastDone(n)
  <2>1. pc'[n] = "loop" /\ ~update_now'[n]
    BY <1>0, <1>7 DEF KeepWaiting, TimeoutSpin, NothingSent, LineBusy, SentToOne, BroadcastDone,
        UpdateDone, TurnDone, Goto
  <2>. QED
    BY <2>1
<1>8. CASE AckTimedOut(n)
  BY <1>0, <1>1, <1>8 DEF AckTimedOut, At
<1>9. CASE RequestLine(n) \/ LineReserved(n) \/ BytesOut(n) \/ SentToAll(n) \/ BroadcastSpin(n)
  <2>1. /\ UNCHANGED <<waiting_for_ack, update_now, ack_timeout_cnt>> /\ update_now[n]
    BY <1>0, <1>9 DEF RequestLine, LineReserved, BytesOut, SentToAll, BroadcastSpin, At
  <2>. QED
    BY <1>0, <1>1, <2>1
<1>. QED
  BY <1>2, <1>3, <1>4, <1>5, <1>6, <1>7, <1>8, <1>9, NoCommands, Steps DEF Step, Main

\* An acknowledgement is given up only when none is on its way
LEMMA OverdueKept == ASSUME Known, [Next]_vars PROVE Overdue'
<1>. SUFFICES ASSUME NEW n \in Node
              PROVE  OverdueAt(n)'
  BY DEF Overdue
<1>1. ASSUME waiting_for_ack'[n], update_now'[n], AckOverdue(n)'
      PROVE  ~FrameInFlight(on_air[n])' /\ ~ReleaseInFlight(n)'
  <2>1. /\ waiting_for_ack[n] /\ ack_timeout_cnt'[n] = ack_timeout_cnt[n]
        /\ update_now[n] \/ Update(n)
        /\ ~SentToAll(n) /\ ~AckTimedOut(n)
    BY <1>1, UpdateSteps
  <2>2. AckOverdue(n) /\ ack_timeout_cnt[n] = AckTimeout
    BY <1>1, <2>1, BusAssumption DEF AckOverdue, Known, InvType, TypeOK, IcpType
  <2>3. ~FrameInFlight(on_air[n]) /\ ~ReleaseInFlight(n)
    BY <2>1, <2>2, Timing DEF Update, Known, LineInv, Overdue, OverdueAt
  <2>4. NoRelease /\ Owns(n)
    BY <2>1, <2>3, NothingReleased, SenderFacts DEF Owns
  <2>5. PICK f \in Frame : f = on_air[n] /\ f.src = n
    BY <2>1, AwaitedFrame DEF Awaits
  <2>6. ~BytesOut(n) /\ on_air'[n] = f
    <3>1. ~BytesOut(n)
      BY <2>1, AwaitedFrame DEF Awaits, BytesOut, At
    <3>. QED
      BY <1>1, <2>5, <3>1, AwaitSteps DEF Awaits
  <2>7. \A m \in Node : /\ ~In(inbox[m], Rs485(f)) /\ payload_in[m] # f
                        /\ ~In(rx_buffer[m], f)
    <3>. SUFFICES ASSUME NEW m \in Node
                  PROVE  /\ ~In(inbox[m], Rs485(f)) /\ payload_in[m] # f
                         /\ ~In(rx_buffer[m], f)
      OBVIOUS
    <3>1. rx_buffer[m] \in Seq(Chunk) /\ inbox[m] \in Seq(Message)
      BY DEF Known, InvType, TypeOK, IcpType, NetType
    <3>2. In(rx_buffer[m], f) => rx_buffer[m] # <<>>
      BY DEF In
    <3>3. In(rx_buffer[m], f) => role[m] = "RX"
      BY <3>2, Recipient
    <3>. QED
      BY <2>3, <2>5, <3>1, <3>3, CarriesIn DEF FrameInFlight
  <2>8. ~FrameInFlight(f)'
    <3>1. f \in Chunk
      BY DEF Chunk
    <3>2. \A k \in Node : ~(BytesOut(k) /\ tx_buffer[k] = f)
      BY <2>5, <2>6, FromTheStart DEF BytesOut, At, Sending
    <3>3. ASSUME NEW m \in Node
          PROVE  /\ ~In(inbox[m], Rs485(f))' /\ payload_in'[m] # f
                 /\ ~In(rx_buffer[m], f)'
      BY <2>7, <3>1, <3>2, BytesSteps
    <3>4. ASSUME NEW m \in Node
          PROVE  rx_buffer'[m] \in Seq(Chunk) /\ inbox'[m] \in Seq(Message)
      BY NextKeepsType DEF Known, InvType, TypeOK, IcpType, NetType
    <3>. QED
      BY <3>3, <3>4, CarriesIn DEF FrameInFlight
  <2>9. \A x \in Node : ~Clears(x)
    <3>. SUFFICES ASSUME NEW x \in Node, Clears(x)
                  PROVE  FALSE
      OBVIOUS
    <3>1. CASE Acknowledge(x)
      <4>1. PICK g \in Frame : g = Head(rx_buffer[x])
        BY <3>1, Serving
      <4>2. In(rx_buffer[x], g) /\ Owns(g.src) /\ on_air[g.src] = g /\ g.src \in Node
        BY <3>1, <4>1, Serving DEF Outstanding, Frame
      <4>. QED
        BY <2>4, <2>5, <2>7, <4>2, OneOwner
    <3>2. CASE SentToAll(x) \/ AckTimedOut(x)
      BY <2>1, <2>4, <3>2, Broadcasting, GivingUp, OneOwner
    <3>. QED
      BY <3>1, <3>2 DEF Clears
  <2>10. NoRelease' /\ ~Freed(n)'
    BY <2>4, <2>9, OwnerStays, ReleaseSteps DEF Owns
  <2>11. ~ReleaseInFlight(n)'
    <3>1. /\ bus_payload' \in Seq(AccessText) /\ inbox'[n] \in Seq(Message)
          /\ \A m \in Node : bus_in'[m] \in Seq(AccessText)
      BY NextKeepsType DEF Known, InvType, TypeOK, NetType
    <3>2. \A m \in Node : InactiveBy(m).type = "INACTIVE"
      BY DEF InactiveBy
    <3>3. ASSUME NEW m \in Node
          PROVE  /\ ~In(bus_in[m], InactiveBy(m))' /\ ~In(bus_payload, InactiveBy(m))'
                 /\ ~In(inbox[n], InactiveBy(m))'
      BY <2>10, <3>2 DEF NoRelease, ReleaseAt, Freed, Frees, In
    <3>. QED
      BY <3>1, <3>3, CarriesIn DEF ReleaseInFlight
  <2>. QED
    BY <2>5, <2>6, <2>8, <2>11 DEF FrameInFlight
<1>. QED
  BY <1>1, UpdateSteps DEF OverdueAt

-----------------------------------------------------------------------------
\* The inductive invariant: at the start
LEMMA InitLine == Init => LineInv
<1>. SUFFICES ASSUME Init PROVE LineInv
  OBVIOUS
<1>1. ASSUME NEW n \in Node, NEW e
      PROVE  /\ inbox[n] = <<>> /\ bus_in[n] = <<>> /\ rx_buffer[n] = <<>> /\ bus_payload = <<>>
             /\ ~In(inbox[n], e) /\ ~In(rx_buffer[n], e) /\ ~Freed(n) /\ ~Offered(n)
             /\ ~Owns(n) /\ ~Live(n) /\ OneOffer(n)
  <2>1. inbox[n] = <<>> /\ bus_in[n] = <<>> /\ rx_buffer[n] = <<>> /\ bus_payload = <<>>
    BY DEF Init
  <2>2. \A x : ~In(<<>>, x) /\ ~Frees(<<>>, 1) /\ Len(<<>>) = 0
    BY One
  <2>3. /\ ~In(inbox[n], e) /\ ~In(rx_buffer[n], e) /\ ~Freed(n) /\ ~Offered(n)
    BY <2>1, <2>2 DEF Freed, Offered, Offers
  <2>4. ~Owns(n) /\ ~Live(n)
    BY <2>3 DEF Init, Owns, Live
  <2>5. OneOffer(n)
    BY <2>1, <2>2 DEF OneOffer, LastOffer, OnceIn, Offers
  <2>. QED
    BY <2>1, <2>3, <2>4, <2>5
<1>2. Signals /\ Granted /\ Quiet /\ Releases
  <2>1. bus_payload = <<>> /\ \A n \in Node : bus_in[n] = <<>>
    BY DEF Init
  <2>2. Signals /\ Releases
    BY <2>1 DEF Signals, Releases, NoRelease
  <2>3. Granted /\ Quiet
    BY <1>1 DEF Init, Granted, Quiet
  <2>. QED
    BY <2>2, <2>3
<1>3. Buffered
  BY DEF Init, Buffered, BufferedAt, Sending, OnLine
<1>4. NoTails
  BY <1>1, MarkersAreNoFrames, BusAssumption DEF Init, NoTails
<1>5. Senders
  BY DEF Init, Senders, SenderAt, Awaits, Sending
<1>6. Served
  <2>1. ASSUME NEW f \in Frame, f.dst \in Node
        PROVE  ~Unserved(f.dst, f)
    BY <1>1, <2>1, MarkersAreNoFrames DEF Init, Unserved
  <2>. QED
    BY <2>1 DEF Served
<1>7. Overdue
  BY DEF Init, Overdue, OverdueAt
<1>. QED
  BY <1>2, <1>3, <1>4, <1>5, <1>6, <1>7 DEF LineInv

\* ... and across every step
LEMMA NextKeepsLine ==
    OnTime => (InvType /\ OnceInv /\ Addressed /\ LineInv /\ [Next]_vars => LineInv')
<1>. SUFFICES ASSUME Known, [Next]_vars PROVE LineInv'
  BY DEF Known
<1>. QED
  BY SignalsKept, GrantedKept, QuietKept, BufferedKept, NoTailsKept, ReleasesKept, SendersKept,
     ServedKept, OverdueKept DEF LineInv

\* ... hence in every reachable state
LEMMA LineCorrect == ASSUME OnTime PROVE Spec => []LineInv
<1>1. InvType /\ OnceInv /\ Addressed /\ LineInv /\ [Next]_vars => LineInv'
  BY NextKeepsLine
<1>. QED
  BY <1>1, InitLine, InvTypeCorrect, OnceCorrect, AddressedCorrect, PTL DEF Spec

\* Two nodes are never both about to output bytes: IcpBus's OneTransmitter
THEOREM OneTransmitterCorrect == ASSUME OnTime PROVE Spec => []OneTransmitter
<1>1. LineInv => OneTransmitter
  BY DEF LineInv, Senders, SenderAt, Granted, Live, OneTransmitter, At
<1>. QED
  BY <1>1, LineCorrect, PTL

\* A receiver with a complete frame serves a sender that holds the line and
\* waits: IcpBus's ReceiverServesHolder
THEOREM ServesHolderCorrect == ASSUME OnTime PROVE Spec => []ReceiverServesHolder
<1>1. InvType /\ OnceInv /\ Addressed /\ LineInv => ReceiverServesHolder
  <2>. SUFFICES ASSUME Known, NEW n \in Node, ValidPacket(n), pc[n] \in Turn
                PROVE  /\ role[Head(rx_buffer[n]).src] = "TX"
                       /\ line_is_mine[Head(rx_buffer[n]).src]
    BY DEF Known, ReceiverServesHolder
  <2>1. rx_buffer[n] # <<>> /\ pc[n] \notin {"ack_spin", "acked"}
    BY DEF ValidPacket, Turn
  <2>2. PICK f \in Frame : f = Head(rx_buffer[n])
    BY <2>1, Recipient
  <2>3. f.src \in Node /\ Awaits(f.src)
    BY <2>1, <2>2, Recipient DEF Outstanding, Frame
  <2>. QED
    BY <2>2, <2>3, AwaitedFrame
<1>. QED
  BY <1>1, LineCorrect, InvTypeCorrect, OnceCorrect, AddressedCorrect, PTL

-----------------------------------------------------------------------------
(* Acknowledgements.                                                       *)

AckInv == acked \subseteq Frame /\ AckMeansDelivered

\* Every acknowledged frame stays received, and a new one was received
LEMMA NextKeepsAcks == ASSUME Known, AckInv, [Next]_vars PROVE AckInv'
<1>. SUFFICES ASSUME NEW f \in acked'
              PROVE  f \in Frame /\ Received(f)'
  BY DEF AckInv, AckMeansDelivered
<1>1. CASE f \in acked
  <2>1. f \in Frame /\ Received(f)
    BY <1>1, MarkersAreNoFrames DEF AckInv, AckMeansDelivered
  <2>. QED
    BY <2>1, ReceivedStays
<1>2. CASE f \notin acked
  <2>1. PICK n \in Node : RecvInactive(n) /\ waiting_for_ack[n] /\ f = on_air[n]
    <3>1. ASSUME NEW k \in Node, Receive(k), ~RecvInactive(k)
          PROVE  acked' = acked
      BY <3>1 DEF Receive, RecvGrant, RecvForeignActive, RecvActiveIgnored, RecvFrame
    <3>2. ASSUME NEW k \in Node, Update(k) \/ (\E d \in Targets : Ping(k, d)) \/ Bus(k)
          PROVE  acked' = acked
      BY <3>2 DEF Update, Ping, Bus, BusGrant, BusRefuse, BusRelease, BusVarsFrom
    <3>3. ASSUME NEW k \in Node, Main(k)
          PROVE  acked' = acked
      BY <3>3 DEF Main, BytesIn, NoUpdate, Acknowledge, AckSpin, DeliverAcked, DeliverUnacked,
          NothingReceived, KeepWaiting, AckTimedOut, TimeoutSpin, NothingSent, RequestLine,
          LineReserved, LineBusy, BytesOut, SentToOne, SentToAll, BroadcastSpin, BroadcastDone,
          Reinit
    <3>4. BusPublish \/ UNCHANGED vars => acked' = acked
      BY DEF BusPublish, vars
    <3>5. PICK n \in Node : RecvInactive(n)
      BY <1>2, <3>1, <3>2, <3>3, <3>4, Steps DEF Step
    <3>6. waiting_for_ack[n] /\ f = on_air[n]
      BY <1>2, <3>5 DEF RecvInactive, NotifyAccessInactive
    <3>. QED
      BY <3>5, <3>6
  <2>2. Awaits(n) /\ Freed(n) /\ f \in Frame
    BY <2>1, AwaitedFrame, NetSteps DEF Awaits
  <2>3. Received(f)
    BY <2>1, <2>2 DEF Known, LineInv, Senders, SenderAt
  <2>. QED
    BY <2>2, <2>3, ReceivedStays
<1>. QED
  BY <1>1, <1>2

\* What is acknowledged was received: IcpBus's AckMeansDelivered
THEOREM AcksMeanDelivered == ASSUME OnTime PROVE Spec => []AckMeansDelivered
<1>1. Init => AckInv
  BY DEF Init, AckInv, AckMeansDelivered
<1>2. InvType /\ OnceInv /\ Addressed /\ LineInv /\ AckInv /\ [Next]_vars => AckInv'
  BY NextKeepsAcks DEF Known
<1>3. AckInv => AckMeansDelivered
  BY DEF AckInv
<1>. QED
  BY <1>1, <1>2, <1>3, LineCorrect, InvTypeCorrect, OnceCorrect, AddressedCorrect, PTL DEF Spec


-----------------------------------------------------------------------------
(* Requests.  Where the main thread does not give up a request that is     *)
(* still on its way (grant), a grant finds it at set_access.               *)

Asked(n) == In(bus_in[n], ActiveBy(n))
Requested(n) == Asked(n) \/ Offered(n)

RequestAt(n) ==
    /\ Requested(n) => pc[n] = "set_access" /\ ~line_is_mine[n]
    /\ Asked(n) => ~Offered(n)
    /\ OnceIn(bus_in[n], ActiveBy(n))
    /\ pc[n] \in {"acked", "cleared"} => ~line_is_mine[n]
    /\ line_is_mine[n] =>
          \/ role[n] = "TX"
          \/ pc[n] \in {"set_access", "bytes_out", "puback"} \cup Clearing
Requests == \A n \in Node : RequestAt(n)

\* A request is made at set_access, one at a time, and granted once
LEMMA AskedSteps ==
    ASSUME Known, [Next]_vars, NEW n \in Node, RequestAt(n)
    PROVE  /\ Asked(n)' => Asked(n) \/ RequestLine(n)
           /\ OnceIn(bus_in[n], ActiveBy(n))'
           /\ BusGrant(n) => Asked(n) /\ ~Asked(n)'
           /\ RequestLine(n) => ~Offered(n)'
<1>. USE DEF Asked
<1>. DEFINE Kept == /\ Asked(n)' => Asked(n) \/ RequestLine(n)
                    /\ OnceIn(bus_in[n], ActiveBy(n))'
<1>0. /\ bus_in[n] \in Seq(AccessText) /\ OnceIn(bus_in[n], ActiveBy(n))
      /\ ActiveBy(n) \in AccessText /\ InactiveBy(n) \in AccessText /\ InactiveBy(n) # ActiveBy(n)
  BY DEF RequestAt, Known, InvType, TypeOK, NetType, AccessText, ActiveBy, InactiveBy
<1>1. ASSUME bus_in'[n] = bus_in[n]
      PROVE  Kept
  BY <1>0, <1>1
<1>2. ASSUME bus_in'[n] = Append(bus_in[n], ActiveBy(n)), RequestLine(n)
      PROVE  Kept
  <2>1. ~Asked(n)
    BY <1>2 DEF RequestLine, At, RequestAt, Requested
  <2>. QED
    BY <1>0, <1>2, <2>1, AppendIn
<1>3. ASSUME bus_in'[n] = Append(bus_in[n], InactiveBy(n))
      PROVE  Kept
  BY <1>0, <1>3, AppendIn
<1>4. ASSUME Bus(n)
      PROVE  Kept
  <2>1. bus_in[n] # <<>> /\ bus_in'[n] = Tail(bus_in[n])
    BY <1>4, BusTakes
  <2>. QED
    BY <1>0, <2>1, TailIn
<1>5. Kept
  BY <1>1, <1>2, <1>3, <1>4, SignalSteps
<1>6. ASSUME BusGrant(n)
      PROVE  Asked(n) /\ ~Asked(n)'
  <2>1. /\ bus_in[n] # <<>> /\ bus_in'[n] = Tail(bus_in[n]) /\ Head(bus_in[n]) = ActiveBy(n)
    BY <1>6, BusTakes DEF Bus, BusGrant, BusArrives
  <2>. QED
    BY <1>0, <2>1, TailIn
<1>7. ASSUME RequestLine(n)
      PROVE  ~Offered(n)'
  <2>1. inbox' = inbox /\ bus_payload' = bus_payload
    BY <1>7 DEF RequestLine
  <2>2. ~Offered(n)
    BY <1>7 DEF RequestLine, At, RequestAt, Requested
  <2>. QED
    BY <2>1, <2>2 DEF Offered
<1>. QED
  BY <1>5, <1>6, <1>7

\* A request keeps its main thread at set_access, the line its holder busy
LEMMA HoldSteps ==
    ASSUME Known, "grant" \notin Early, [Next]_vars, NEW n \in Node, RequestAt(n)
    PROVE  /\ pc[n] = "set_access" /\ ~line_is_mine[n] /\ Requested(n) => pc'[n] = "set_access"
           /\ RequestLine(n) => pc'[n] = "set_access" /\ ~line_is_mine'[n]
           /\ pc'[n] \in {"acked", "cleared"} /\ pc[n] \notin {"acked", "cleared"} =>
                 ~line_is_mine[n]
           /\ line_is_mine[n] /\ line_is_mine'[n] =>
                 \/ role'[n] = "TX"
                 \/ pc'[n] \in {"set_access", "bytes_out", "puback"} \cup Clearing
<1>. USE DEF InvType, TypeOK, IcpType, MainType, Clearing
<1>0. /\ InvType /\ SenderAt(n) /\ ~reset_flag[n]
      /\ line_is_mine[n] => g_access[n] = "ACTIVE"
      /\ pc[n] \in {"bytes_out", "puback"} => role[n] = "TX"
      /\ pc[n] \in {"acked", "cleared"} => ~line_is_mine[n]
      /\ line_is_mine[n] =>
            \/ role[n] = "TX"
            \/ pc[n] \in {"set_access", "bytes_out", "puback"} \cup Clearing
  BY SenderFacts DEF Known, LineInv, Senders, SenderAt, RequestAt
<1>1. CASE (\E k \in Node : k # n /\ Step(k)) \/ BusPublish \/ UNCHANGED vars
  <2>1. Same(n)
    BY <1>0, <1>1, OthersSame, BusSame
  <2>2. ~RequestLine(n)
    <3>1. ASSUME RequestLine(n)
          PROVE  pc[n] # "set_access" /\ pc'[n] = "set_access"
      BY <1>0, <3>1 DEF RequestLine, At, Goto
    <3>. QED
      BY <2>1, <3>1 DEF Same
  <2>. QED
    BY <1>0, <2>1, <2>2 DEF Same
<1>2. CASE RequestLine(n)
  BY <1>0, <1>2 DEF RequestLine, At, Goto
<1>3. CASE /\ pc'[n] = pc[n] /\ ~RequestLine(n)
           /\ line_is_mine[n] /\ line_is_mine'[n] => role'[n] = role[n]
  BY <1>0, <1>3
<1>4. CASE /\ ~RequestLine(n)
           /\ Receive(n) \/ Update(n) \/ (\E d \in Targets : Ping(n, d)) \/ Bus(n)
  <2>1. pc' = pc
    BY <1>4 DEF Receive, RecvGrant, RecvForeignActive, RecvActiveIgnored, RecvInactive, RecvFrame,
        Update, Ping, Bus, BusGrant, BusRefuse, BusRelease, BusVarsFrom
  <2>2. line_is_mine[n] /\ line_is_mine'[n] => role'[n] = role[n]
    <3>1. RecvInactive(n) => ~line_is_mine'[n]
      BY LineSteps
    <3>2. RecvForeignActive(n) => ~line_is_mine[n]
      BY DEF RecvForeignActive
    <3>. QED
      BY <1>4, <3>1, <3>2 DEF Receive, RecvGrant, RecvActiveIgnored, RecvFrame,
          Update, Ping, Bus, BusGrant, BusRefuse, BusRelease, BusVarsFrom
  <2>. QED
    BY <1>3, <1>4, <2>1, <2>2
<1>5. CASE BytesIn(n)
  <2>1. /\ pc'[n] = "update" /\ pc[n] = "loop" /\ role[n] = "TX" => role'[n] = "TX"
        /\ pc'[n] = "update" /\ pc[n] = "loop"
    BY <1>0, <1>5 DEF BytesIn, At, Goto
  <2>. QED
    BY <1>0, <1>2, <2>1
<1>6. CASE NoUpdate(n) \/ Acknowledge(n) \/ NothingReceived(n) \/ KeepWaiting(n)
  <2>1. /\ pc[n] \in {"loop", "update", "role"} /\ UNCHANGED <<role, line_is_mine>>
        /\ pc'[n] \notin {"acked", "cleared"} /\ pc'[n] # "set_access"
    BY <1>0, <1>6 DEF NoUpdate, Acknowledge, NothingReceived, KeepWaiting, AtUpdate, At, Goto,
        TurnDone, UpdateDone
  <2>. QED
    BY <1>0, <1>2, <2>1
<1>7. CASE DeliverUnacked(n)
  <2>1. /\ pc[n] \in {"loop", "update"} /\ pc'[n] = "role"
        /\ role[n] = "TX" => role'[n] = "TX"
    BY <1>0, <1>7 DEF DeliverUnacked, Deliver, AtUpdate, At, Goto
  <2>. QED
    BY <1>0, <1>2, <2>1
<1>8. CASE AckSpin(n) \/ BroadcastSpin(n) \/ AckTimedOut(n) \/ SentToAll(n)
  BY <1>0, <1>2, <1>8 DEF AckSpin, BroadcastSpin, AckTimedOut, SentToAll, At, Goto
<1>9. CASE DeliverAcked(n) \/ TimeoutSpin(n) \/ NothingSent(n) \/ BroadcastDone(n)
  <2>1. /\ pc[n] \in {"acked", "cleared", "timeout_spin", "role"}
        /\ line_is_mine[n] => pc[n] = "role" /\ role[n] = "NO_ROLE"
        /\ pc'[n] \in {"role", "loop"}
    BY <1>0, <1>9 DEF DeliverAcked, Deliver, TimeoutSpin, NothingSent, BroadcastDone, At, Goto,
        TurnDone, UpdateDone
  <2>. QED
    BY <1>0, <1>2, <2>1
<1>10. CASE LineReserved(n) \/ BytesOut(n)
  BY <1>0, <1>2, <1>10 DEF LineReserved, BytesOut, AccessGranted, At, Goto
<1>11. CASE SentToOne(n)
  BY <1>0, <1>2, <1>11 DEF SentToOne, At, UpdateDone, TurnDone, Goto
<1>12. CASE LineBusy(n)
  <2>1. ~line_is_mine[n] /\ pc[n] = "set_access" /\ pc'[n] = "loop" /\ Timely(n, "grant")
    BY <1>0, <1>12 DEF LineBusy, AccessGranted, At, UpdateDone, TurnDone, Goto
  <2>2. ~RequestInFlight(n)
    BY <2>1 DEF Timely
  <2>3. /\ bus_in[n] \in Seq(AccessText) /\ bus_payload \in Seq(AccessText)
        /\ inbox[n] \in Seq(Message)
    BY <1>0 DEF NetType
  <2>4. ~Requested(n)
    BY <2>2, <2>3, CarriesIn DEF RequestInFlight, Requested, Asked, Offered, Offers
  <2>. QED
    BY <1>2, <2>1, <2>4
<1>. QED
  BY <1>1, <1>2, <1>4, <1>5, <1>6, <1>7, <1>8, <1>9, <1>10, <1>11, <1>12, NoCommands, Steps
      DEF Step, Main

\* No request outlives its wait, and no holder forgets its line
LEMMA NextKeepsRequests ==
    ASSUME Known, "grant" \notin Early, Requests, [Next]_vars
    PROVE  Requests'
<1>. SUFFICES ASSUME NEW n \in Node
              PROVE  RequestAt(n)'
  BY DEF Requests
<1>0. RequestAt(n)
  BY DEF Requests
<1>1. Requested(n)' => Requested(n) \/ RequestLine(n)
  BY <1>0, AskedSteps, NetSteps DEF Requested
<1>2. ASSUME Requested(n)'
      PROVE  pc'[n] = "set_access" /\ ~line_is_mine'[n]
  <2>1. CASE RequestLine(n)
    BY <1>0, <2>1, HoldSteps
  <2>2. CASE Requested(n)
    <3>1. pc'[n] = "set_access" /\ ~line_is_mine[n]
      BY <1>0, <2>2, HoldSteps DEF RequestAt
    <3>2. ~RecvGrant(n)
      <4>. SUFFICES ASSUME RecvGrant(n) PROVE FALSE
        OBVIOUS
      <4>1. Offered(n) /\ ~Offered(n)' /\ bus_in' = bus_in
        BY NetSteps DEF RecvGrant
      <4>. QED
        BY <1>0, <1>2, <4>1 DEF RequestAt, Requested, Asked
    <3>. QED
      BY <3>1, <3>2, LineSteps
  <2>. QED
    BY <1>1, <1>2, <2>1, <2>2
<1>3. Asked(n)' => ~Offered(n)'
  BY <1>0, AskedSteps, NetSteps DEF RequestAt
<1>4. pc'[n] \in {"acked", "cleared"} => ~line_is_mine'[n]
  <2>1. RecvGrant(n) => pc[n] = "set_access" /\ pc' = pc
    BY <1>0, NetSteps DEF RecvGrant, RequestAt, Requested
  <2>. QED
    BY <1>0, <2>1, HoldSteps, LineSteps DEF RequestAt
<1>5. line_is_mine'[n] =>
          \/ role'[n] = "TX"
          \/ pc'[n] \in {"set_access", "bytes_out", "puback"} \cup Clearing
  <2>1. RecvGrant(n) => pc'[n] = "set_access"
    BY <1>0, NetSteps DEF RecvGrant, RequestAt, Requested
  <2>. QED
    BY <1>0, <2>1, HoldSteps, LineSteps
<1>. QED
  BY <1>0, <1>2, <1>3, <1>4, <1>5, AskedSteps DEF RequestAt

\* No node holds the line and has gone on to other things: IcpBus's NoIdleHold
THEOREM NoIdleHoldCorrect == ASSUME OnTime, "grant" \notin Early PROVE Spec => []NoIdleHold
<1>1. Init => Requests
  <2>. SUFFICES ASSUME Init, NEW n \in Node
                PROVE  RequestAt(n)
    BY DEF Requests
  <2>1. bus_in[n] = <<>> /\ inbox[n] = <<>> /\ bus_payload = <<>>
    BY DEF Init
  <2>2. ~Asked(n) /\ ~Offered(n) /\ OnceIn(bus_in[n], ActiveBy(n))
    <3>1. ~In(<<>>, ActiveBy(n)) /\ OnceIn(<<>>, ActiveBy(n))
      BY One DEF OnceIn, In
    <3>. QED
      BY <2>1, <3>1 DEF Asked, Offered, Offers
  <2>. QED
    BY <2>2 DEF Init, RequestAt, Requested
<1>2. InvType /\ OnceInv /\ Addressed /\ LineInv /\ Requests /\ [Next]_vars => Requests'
  BY NextKeepsRequests DEF Known
<1>3. Requests => NoIdleHold
  BY DEF Requests, RequestAt, NoIdleHold
<1>. QED
  BY <1>1, <1>2, <1>3, LineCorrect, InvTypeCorrect, OnceCorrect, AddressedCorrect, PTL DEF Spec
-----------------------------------------------------------------------------
(***************************************************************************)
(* No frame is discarded by the node it is addressed to: FrameIsHeard, for *)
(* any set of nodes and any length of frames and timeouts.                 *)
(*                                                                         *)
(* The receiver takes the bytes on its role, which is set by the ACTIVE    *)
(* that came before them.  So the proof is about the order of a node's     *)
(* messages: ACTIVE and INACTIVE alternate, a frame follows at once on the *)
(* ACTIVE of its sender, and no INACTIVE follows on the frame until it is  *)
(* acknowledged.  It adds two timing assumptions to the four of OnTime:    *)
(* the main thread sees bytes before the next ones or the next             *)
(* transmission come (poll), and the line to be INACTIVE before it is      *)
(* ACTIVE again (pulse).                                                   *)
(***************************************************************************)

Polled == Known /\ "poll" \notin Early /\ "pulse" \notin Early

\* Where a main thread comes back to its loop, and to its bytes, by itself
Listening == Turn \cup {"set_access"}
Hears(n) == role[n] = "RX" /\ pc[n] \in Listening
Ready(n) == Hears(n) /\ payload_in[n] = NoFrame

\* What n knows when it has received the messages before the i-th: that the
\* line is free, that h has the line
FreeAt(n, i) == IF i = 1 THEN g_access[n] = "INACTIVE"
                         ELSE inbox[n][i - 1].type = "INACTIVE"
HeldAt(n, i, h) == IF i = 1 THEN Ready(n) ELSE inbox[n][i - 1] = ActiveBy(h)
Past(n) == Len(inbox[n]) + 1

\* ACTIVE is only published to nodes that know, or are told, that the line is free
Alternate ==
    \A n \in Node : \A i \in 1..Len(inbox[n]) :
        inbox[n][i].type = "ACTIVE" => FreeAt(n, i)

Idle == \/ bus_payload = <<>> /\ bus_access = "INACTIVE"
        \/ \E n \in Node : bus_payload = <<ActiveBy(n)>>
IdleKnown == Idle => \A n \in Node : FreeAt(n, Past(n))

\* A node that was granted the line and has not used it yet is announced
Pending(h) == \/ Offers(inbox[h], h)
              \/ Owns(h) /\ pc[h] \in {"set_access", "bytes_out"}
Announced ==
    \A h, n \in Node : Pending(h) /\ n # h => HeldAt(n, Past(n), h)

\* A frame finds its destination listening, and nothing comes between
FrameAt(f, n) ==
    /\ \A i \in 1..Len(inbox[n]) : inbox[n][i] = Rs485(f) =>
           HeldAt(n, i, f.src) /\ ~Frees(inbox[n], i)
    /\ payload_in[n] = f => Hears(n) /\ ~Frees(inbox[n], 1)
Ahead == \A f \in Frame : f.dst \in Node /\ f.dst # f.src => FrameAt(f, f.dst)

HeardInv == Alternate /\ IdleKnown /\ Announced /\ Ahead

-----------------------------------------------------------------------------
(* The messages under way to a node.                                       *)

\* The two timing assumptions
LEMMA PollTiming ==
    ASSUME Polled, NEW n \in Node
    PROVE  /\ Timely(n, "poll") => (pc[n] \in Listening => payload_in[n] = NoFrame)
           /\ Timely(n, "pulse") => (pc[n] \in Clearing => g_access[n] = "ACTIVE")
BY DEF Polled, Timely, Listening

\* A message is appended to s
Grows(s, t, x) ==
    /\ Len(t) = Len(s) + 1 /\ t[Len(s) + 1] = x
    /\ \A i \in 1..Len(s) : t[i] = s[i]
    /\ \A i \in 1..Len(s) + 1 : Frees(t, i) <=> Frees(s, i) \/ x.type = "INACTIVE"

\* The first message of s is taken
Shrinks(s, t) ==
    /\ Len(s) = Len(t) + 1 /\ s[1] = Head(s)
    /\ \A i \in 1..Len(t) : t[i] = s[i + 1] /\ (Frees(t, i) <=> Frees(s, i + 1))
    /\ Frees(t, 1) => Frees(s, 1)
    /\ Head(s).type = "INACTIVE" => Frees(s, 1)

\* Append and Tail as such
LEMMA Appends ==
    ASSUME NEW S, NEW s \in Seq(S), NEW x \in S
    PROVE  Grows(s, Append(s, x), x)
BY AppendFrees DEF Grows
LEMMA Tails ==
    ASSUME NEW S, NEW s \in Seq(S), s # <<>>
    PROVE  Shrinks(s, Tail(s))
<1>1. /\ Len(s) \in Nat /\ Len(s) >= 1 /\ Len(s) = Len(Tail(s)) + 1 /\ s[1] = Head(s)
      /\ \A i \in 1..Len(Tail(s)) : Tail(s)[i] = s[i + 1]
  OBVIOUS
<1>2. /\ \A i \in 1..Len(s) : Frees(Tail(s), i) <=> Frees(s, i + 1)
      /\ Frees(s, 1) <=> Head(s).type = "INACTIVE" \/ Frees(s, 2)
  BY TailFrees
<1>3. \A i \in 1..Len(Tail(s)) : i \in 1..Len(s)
  BY <1>1
<1>4. Frees(Tail(s), 1) => Frees(s, 1)
  BY <1>1, <1>2
<1>. QED
  BY <1>1, <1>2, <1>3, <1>4 DEF Shrinks

\* What a step does to the inbox of n
Takes(n)    == Receive(n) /\ inbox[n] # <<>> /\ Shrinks(inbox[n], inbox'[n])
Told(n, t)  == BusPublish /\ bus_payload = <<t>> /\ t \in AccessText
               /\ bus_payload' = <<>> /\ Grows(inbox[n], inbox'[n], t)
Sent(n, k)  == BytesOut(k) /\ Grows(inbox[n], inbox'[n], Rs485(tx_buffer[k]))
LEMMA InboxSteps ==
    ASSUME Known, [Next]_vars, NEW n \in Node
    PROVE  \/ inbox'[n] = inbox[n] /\ ~Receive(n)
           \/ Takes(n)
           \/ ~Receive(n) /\ \E t : Told(n, t)
           \/ ~Receive(n) /\ \E k \in Node : Sent(n, k)
<1>0. InvType /\ Signals /\ inbox[n] \in Seq(Message)
  BY DEF Known, LineInv, InvType, TypeOK, NetType
<1>1. Receive(n) => Takes(n)
  BY <1>0, Receives, Tails DEF Takes
<1>2. ASSUME NEW k \in Node, Receive(k), k # n
      PROVE  inbox'[n] = inbox[n]
  BY <1>0, <1>2, Receives
<1>3. ASSUME NEW k \in Node, Update(k) \/ (\E d \in Targets : Ping(k, d)) \/ Main(k),
             ~BytesOut(k)
      PROVE  inbox'[n] = inbox[n]
  BY <1>3, OwnQuiet
<1>4. ASSUME NEW k \in Node, Bus(k)
      PROVE  inbox'[n] = inbox[n]
  BY <1>4, BusTakes
<1>5. ASSUME NEW k \in Node, BytesOut(k)
      PROVE  Sent(n, k)
  <2>1. tx_buf_start[k] = 0 /\ tx_buffer[k] \in Frame
    BY <1>5, FromTheStart DEF BytesOut, At, Sending
  <2>2. inbox'[n] = Append(inbox[n], Rs485(tx_buffer[k])) /\ Rs485(tx_buffer[k]) \in Message
    BY <1>0, <1>5, <2>1 DEF BytesOut, Rs485, Message, Chunk
  <2>. QED
    BY <1>0, <1>5, <2>2, Appends DEF Sent
<1>6. CASE BusPublish
  <2>1. PICK t \in AccessText : bus_payload = <<t>>
    <3>1. \A k \in Node : ActiveBy(k) \in AccessText /\ InactiveBy(k) \in AccessText
      BY DEF AccessText, ActiveBy, InactiveBy
    <3>. QED
      BY <1>0, <1>6, <3>1 DEF Signals, BusPublish
  <2>2. inbox'[n] = Append(inbox[n], t) /\ bus_payload' = <<>> /\ t \in Message
    BY <1>0, <1>6, <2>1, AppendIsConcat DEF BusPublish, Message
  <2>3. Told(n, t)
    BY <1>0, <1>6, <2>1, <2>2, Appends DEF Told
  <2>. QED
    BY <1>1, <2>3
<1>7. CASE UNCHANGED vars
  BY <1>1, <1>7 DEF vars
<1>. QED
  BY <1>1, <1>2, <1>3, <1>4, <1>5, <1>6, <1>7, Steps DEF Step, Receive


\* What n knows of a free line it keeps, and moves up with its messages
LEMMA FreeSteps ==
    ASSUME Known, [Next]_vars, NEW n \in Node, NEW i \in 1..Past(n), FreeAt(n, i)
    PROVE  /\ ~Receive(n) => FreeAt(n, i)'
           /\ Takes(n) /\ i > 1 => FreeAt(n, i - 1)'
<1>1. inbox[n] \in Seq(Message) /\ Len(inbox[n]) \in Nat /\ i \in Nat
  BY DEF Known, InvType, TypeOK, NetType, Past
<1>2. i > 1 => i - 1 \in 1..Len(inbox[n])
  BY <1>1 DEF Past
<1>3. ASSUME ~Receive(n)
      PROVE  FreeAt(n, i)'
  <2>1. g_access'[n] = g_access[n]
    BY <1>3, LineSteps
  <2>2. i > 1 => inbox'[n][i - 1] = inbox[n][i - 1]
    BY <1>2, <1>3, InboxSteps DEF Takes, Told, Sent, Grows
  <2>. QED
    BY <1>1, <2>1, <2>2 DEF FreeAt
<1>4. ASSUME Takes(n), i > 1
      PROVE  FreeAt(n, i - 1)'
  <2>1. CASE i = 2
    <3>1. Head(inbox[n]).type = "INACTIVE"
      BY <1>4, <2>1 DEF Takes, Shrinks, FreeAt
    <3>2. RecvInactive(n)
      BY <1>4, <3>1, Receives DEF Takes, Known
    <3>3. g_access'[n] = "INACTIVE"
      BY <3>2, LineSteps
    <3>. QED
      BY <2>1, <3>3 DEF FreeAt
  <2>2. CASE i # 2
    <3>1. i - 1 # 1 /\ i - 2 \in 1..Len(inbox'[n]) /\ (i - 2) + 1 = i - 1 /\ (i - 1) - 1 = i - 2
      <4>1. Len(inbox[n]) = Len(inbox'[n]) + 1
        BY <1>4 DEF Takes, Shrinks
      <4>2. inbox'[n] \in Seq(Message)
        BY NextKeepsType DEF Known, InvType, TypeOK, NetType
      <4>. QED
        BY <1>1, <1>2, <1>4, <2>2, <4>1, <4>2
    <3>2. inbox'[n][i - 2] = inbox[n][i - 1]
      BY <1>4, <3>1 DEF Takes, Shrinks
    <3>. QED
      BY <1>1, <1>4, <3>1, <3>2 DEF FreeAt
  <2>. QED
    BY <2>1, <2>2
<1>. QED
  BY <1>3, <1>4

\* A node that hears another's transmission goes on hearing, unless it is
\* told that the transmission ends, takes the bytes, or acknowledges them
LEMMA HearingStays ==
    ASSUME Polled, [Next]_vars, NEW n \in Node, NEW h \in Node, h # n, Live(h), Hears(n),
           ~RecvInactive(n), ~Acknowledge(n), ~BytesIn(n)
    PROVE  Hears(n)' /\ (payload_in'[n] = payload_in[n] \/ RecvFrame(n))
<1>. USE DEF InvType, TypeOK, MainType, IcpType, LineType, Hears, Listening, Turn
<1>0. /\ Known /\ InvType /\ SenderAt(n) /\ ~reset_flag[n] /\ role[n] = "RX"
      /\ pc[n] \in {"loop", "update", "role", "set_access"}
  BY DEF Polled, Known, LineInv, Quiet, Senders
<1>1. CASE \E k \in Node : k # n /\ Step(k)
  <2>1. Same(n)
    BY <1>0, <1>1, OthersSame
  <2>. QED
    BY <2>1 DEF Same
<1>2. CASE BusPublish \/ UNCHANGED vars
  <2>1. Same(n)
    BY <1>2, BusSame
  <2>. QED
    BY <2>1 DEF Same
<1>3. CASE RecvGrant(n) \/ RecvForeignActive(n) \/ RecvActiveIgnored(n) \/ RecvFrame(n)
  BY <1>0, <1>3 DEF RecvGrant, RecvForeignActive, RecvActiveIgnored, RecvFrame,
      NotifyAccessActive
<1>4. CASE Update(n) \/ (\E d \in Targets : Ping(n, d)) \/ Bus(n)
  BY <1>4 DEF Update, Ping, Bus, BusGrant, BusRefuse, BusRelease, BusVarsFrom
<1>5. CASE NoUpdate(n) \/ NothingReceived(n) \/ KeepWaiting(n) \/ LineBusy(n)
  BY <1>0, <1>5 DEF NoUpdate, NothingReceived, KeepWaiting, LineBusy, UpdateDone, TurnDone, Goto
<1>6. CASE AckSpin(n) \/ DeliverAcked(n) \/ DeliverUnacked(n)
  BY <1>0, <1>6 DEF AckSpin, DeliverAcked, DeliverUnacked, At
<1>7. CASE AckTimedOut(n) \/ TimeoutSpin(n) \/ NothingSent(n) \/ RequestLine(n)
  BY <1>0, <1>7 DEF AckTimedOut, TimeoutSpin, NothingSent, RequestLine, At, AckOverdue, SenderAt
<1>8. CASE LineReserved(n)
  <2>1. Live(n) /\ Granted
    BY <1>0, <1>8, SenderFacts DEF Live, Known, LineInv
  <2>. QED
    BY <2>1 DEF Granted
<1>9. CASE BytesOut(n) \/ SentToOne(n) \/ SentToAll(n) \/ BroadcastSpin(n) \/ BroadcastDone(n)
  BY <1>0, <1>9 DEF BytesOut, SentToOne, SentToAll, BroadcastSpin, BroadcastDone, At
<1>. QED
  BY <1>0, <1>1, <1>2, <1>3, <1>4, <1>5, <1>6, <1>7, <1>8, <1>9, NoCommands, Steps
      DEF Step, Receive, Main

\* The announcement of another's transmission finds n at its loop, its line
\* free and its bytes taken, and makes it listen
LEMMA AnnouncementHeard ==
    ASSUME Polled, Alternate, NEW n \in Node, NEW h \in Node, h # n,
           Takes(n), Head(inbox[n]) = ActiveBy(h)
    PROVE  Ready(n)'
<1>. USE DEF InvType, TypeOK, MainType, IcpType, LineType
<1>0. Known /\ InvType /\ SenderAt(n) /\ Quiet
  BY DEF Polled, Known, LineInv, Senders
<1>1. Head(inbox[n]).type = "ACTIVE" /\ Head(inbox[n]).by = h /\ inbox[n][1] = ActiveBy(h)
  BY DEF ActiveBy, Takes, Shrinks
<1>2. g_access[n] = "INACTIVE" /\ ~line_is_mine[n]
  <2>1. 1 \in 1..Len(inbox[n])
    BY <1>0 DEF Takes, NetType
  <2>2. FreeAt(n, 1)
    BY <1>1, <2>1 DEF Alternate
  <2>. QED
    BY <1>0, <2>2, SenderFacts DEF FreeAt
<1>3. RecvForeignActive(n)
  BY <1>1, <1>2 DEF Takes, Receive, RecvGrant, RecvActiveIgnored, RecvInactive, RecvFrame, Arrives
<1>4. pc[n] \in Listening
  <2>1. pc[n] \notin {"bytes_out", "puback"}
    BY <1>0, <1>2, SenderFacts
  <2>2. pc[n] \notin Clearing
    BY <1>2, <1>3, PollTiming DEF RecvForeignActive
  <2>. QED
    BY <1>0, <2>1, <2>2 DEF Listening, Turn, Clearing, Points
<1>5. payload_in[n] = NoFrame
  BY <1>3, <1>4, PollTiming DEF RecvForeignActive
<1>6. role'[n] = "RX" /\ pc' = pc /\ payload_in' = payload_in
  BY <1>0, <1>3 DEF RecvForeignActive, NotifyAccessActive
<1>. QED
  BY <1>4, <1>5, <1>6 DEF Ready, Hears

\* What n knows of another's line it keeps, and moves up with its messages
LEMMA HeldSteps ==
    ASSUME Polled, Alternate, [Next]_vars, NEW n \in Node, NEW h \in Node, h # n, Live(h),
           NEW i \in 1..Past(n), HeldAt(n, i, h), ~Acknowledge(n)
    PROVE  /\ ~Receive(n) => HeldAt(n, i, h)'
           /\ Takes(n) /\ i > 1 => HeldAt(n, i - 1, h)'
<1>0. Known
  BY DEF Polled
<1>1. inbox[n] \in Seq(Message) /\ Len(inbox[n]) \in Nat /\ i \in Nat
  BY <1>0 DEF Known, InvType, TypeOK, NetType, Past
<1>2. i > 1 => i - 1 \in 1..Len(inbox[n])
  BY <1>1 DEF Past
<1>3. ASSUME ~Receive(n)
      PROVE  HeldAt(n, i, h)'
  <2>1. i = 1 => Ready(n)'
    <3>. SUFFICES ASSUME i = 1 PROVE Ready(n)'
      OBVIOUS
    <3>1. Ready(n) /\ ~RecvInactive(n) /\ ~RecvFrame(n) /\ ~BytesIn(n)
      BY <1>3 DEF HeldAt, Receive, Ready, BytesIn
    <3>. QED
      BY <3>1, HearingStays DEF Ready
  <2>2. i > 1 => inbox'[n][i - 1] = inbox[n][i - 1]
    BY <1>0, <1>2, <1>3, InboxSteps DEF Takes, Told, Sent, Grows
  <2>. QED
    BY <1>1, <2>1, <2>2 DEF HeldAt
<1>4. ASSUME Takes(n), i > 1
      PROVE  HeldAt(n, i - 1, h)'
  <2>1. CASE i = 2
    <3>1. Head(inbox[n]) = ActiveBy(h)
      BY <1>4, <2>1 DEF Takes, Shrinks, HeldAt
    <3>. QED
      BY <1>4, <2>1, <3>1, AnnouncementHeard DEF HeldAt
  <2>2. CASE i # 2
    <3>1. i - 1 # 1 /\ i - 2 \in 1..Len(inbox'[n]) /\ (i - 2) + 1 = i - 1 /\ (i - 1) - 1 = i - 2
      <4>1. Len(inbox[n]) = Len(inbox'[n]) + 1
        BY <1>4 DEF Takes, Shrinks
      <4>2. inbox'[n] \in Seq(Message)
        BY <1>0, NextKeepsType DEF Known, InvType, TypeOK, NetType
      <4>. QED
        BY <1>1, <1>2, <1>4, <2>2, <4>1, <4>2
    <3>2. inbox'[n][i - 2] = inbox[n][i - 1]
      BY <1>4, <3>1 DEF Takes, Shrinks
    <3>. QED
      BY <1>1, <1>4, <3>1, <3>2 DEF HeldAt
  <2>. QED
    BY <2>1, <2>2
<1>. QED
  BY <1>3, <1>4

-----------------------------------------------------------------------------
(* The order of a node's messages.                                         *)

\* Who is granted the line is the only one
LEMMA OneLive ==
    ASSUME Known, NEW h \in Node, Live(h)
    PROVE  /\ bus_access = "ACTIVE"
           /\ \A m \in Node : Live(m) => m = h
           /\ Owns(h) => ~Offered(h) /\ ~Freed(h)
           /\ Offers(inbox[h], h) => ~Frees(bus_payload, 1) /\ ~Offers(bus_payload, h)
BY DEF Known, LineInv, Granted, OneOffer, Owns

\* Nobody outputs bytes while the bus is idle, or another was granted the line
LEMMA SenderOwns ==
    ASSUME Known, NEW k \in Node, BytesOut(k)
    PROVE  /\ Owns(k) /\ Live(k) /\ pc[k] = "bytes_out" /\ ~Idle
           /\ tx_buffer[k] \in Frame /\ tx_buffer[k].src = k
           /\ pc'[k] = "puback" /\ UNCHANGED <<line_is_mine, bus_payload, bus_access>>
           /\ \A n \in Node \ {k} : pc'[n] = pc[n]
           /\ UNCHANGED <<role, payload_in>>
<1>1. pc[k] = "bytes_out" /\ Owns(k) /\ Live(k)
  BY DEF BytesOut, At, Known, LineInv, Senders, SenderAt, Live
<1>2. ~Idle
  <2>1. bus_access = "ACTIVE" /\ ~Offered(k) /\ \A m \in Node : Live(m) => m = k
    BY <1>1, OneLive
  <2>2. ASSUME NEW m \in Node, bus_payload = <<ActiveBy(m)>>
        PROVE  FALSE
    <3>1. Offers(bus_payload, m)
      BY <2>2, One DEF Offers
    <3>. QED
      BY <2>1, <3>1 DEF Offered, Live
  <2>. QED
    BY <2>1, <2>2 DEF Idle
<1>3. tx_buffer[k] \in Frame /\ tx_buffer[k].src = k
  BY <1>1, FromTheStart DEF Sending
<1>4. /\ pc'[k] = "puback" /\ UNCHANGED <<line_is_mine, bus_payload, bus_access>>
      /\ \A n \in Node \ {k} : pc'[n] = pc[n]
      /\ UNCHANGED <<role, payload_in>>
  BY DEF BytesOut, Goto, Known, InvType, TypeOK, MainType
<1>. QED
  BY <1>1, <1>2, <1>3, <1>4

\* ACTIVE and INACTIVE go on alternating
LEMMA AlternateKept == ASSUME Known, Alternate, IdleKnown, [Next]_vars PROVE Alternate'
<1>. SUFFICES ASSUME NEW n \in Node, NEW i \in 1..Len(inbox'[n]), inbox'[n][i].type = "ACTIVE"
              PROVE  FreeAt(n, i)'
  BY DEF Alternate
<1>1. inbox[n] \in Seq(Message) /\ Len(inbox[n]) \in Nat /\ Past(n) = Len(inbox[n]) + 1
  BY DEF Known, InvType, TypeOK, NetType, Past
<1>2. CASE i \in 1..Len(inbox[n]) /\ inbox'[n][i] = inbox[n][i] /\ ~Receive(n)
  <2>1. FreeAt(n, i) /\ i \in 1..Past(n)
    BY <1>1, <1>2 DEF Alternate
  <2>. QED
    BY <1>2, <2>1, FreeSteps
<1>3. CASE Takes(n)
  <2>1. /\ i + 1 \in 1..Len(inbox[n]) /\ inbox[n][i + 1].type = "ACTIVE"
        /\ i + 1 > 1 /\ (i + 1) - 1 = i
    BY <1>1, <1>3 DEF Takes, Shrinks
  <2>2. FreeAt(n, i + 1) /\ i + 1 \in 1..Past(n)
    BY <1>1, <2>1 DEF Alternate
  <2>3. FreeAt(n, (i + 1) - 1)'
    BY <1>3, <2>1, <2>2, FreeSteps
  <2>. QED
    BY <2>1, <2>3
<1>4. ASSUME ~Receive(n), NEW t, Told(n, t), i = Len(inbox[n]) + 1
      PROVE  FreeAt(n, i)'
  <2>1. t.type = "ACTIVE" /\ bus_payload = <<t>>
    BY <1>4 DEF Told, Grows
  <2>2. PICK k \in Node : t = ActiveBy(k)
    BY <1>4, <2>1 DEF Told, AccessText, ActiveBy
  <2>3. FreeAt(n, Past(n)) /\ Past(n) \in 1..Past(n)
    BY <1>1, <2>1, <2>2 DEF IdleKnown, Idle
  <2>. QED
    BY <1>1, <1>4, <2>3, FreeSteps
<1>5. ASSUME NEW k \in Node, Sent(n, k), i = Len(inbox[n]) + 1
      PROVE  FALSE
  BY <1>5 DEF Sent, Grows, Rs485
<1>6. \/ i \in 1..Len(inbox[n]) /\ inbox'[n][i] = inbox[n][i]
      \/ Takes(n) \/ i = Len(inbox[n]) + 1
  <2>1. ASSUME NEW x, Grows(inbox[n], inbox'[n], x)
        PROVE  (i \in 1..Len(inbox[n]) /\ inbox'[n][i] = inbox[n][i]) \/ i = Len(inbox[n]) + 1
    BY <1>1, <2>1 DEF Grows
  <2>. QED
    BY <2>1, InboxSteps DEF Told, Sent
<1>7. i = Len(inbox[n]) + 1 => ~(inbox'[n] = inbox[n])
  BY <1>1
<1>. QED
  BY <1>2, <1>3, <1>4, <1>5, <1>6, <1>7, InboxSteps

\* A bus that is free has told so everybody
LEMMA IdleKept == ASSUME Known, IdleKnown, [Next]_vars PROVE IdleKnown'
<1>. SUFFICES ASSUME Idle', NEW n \in Node
              PROVE  FreeAt(n, Past(n))'
  BY DEF IdleKnown
<1>1. inbox[n] \in Seq(Message) /\ Len(inbox[n]) \in Nat /\ Past(n) = Len(inbox[n]) + 1
      /\ Past(n)' = Len(inbox'[n]) + 1
  BY DEF Known, InvType, TypeOK, NetType, Past
<1>2. ASSUME Idle, ~BusPublish
      PROVE  FreeAt(n, Past(n))'
  <2>1. FreeAt(n, Past(n)) /\ Past(n) \in 1..Past(n)
    BY <1>1, <1>2 DEF IdleKnown
  <2>2. \A k \in Node : ~BytesOut(k)
    BY <1>2, SenderOwns
  <2>3. CASE inbox'[n] = inbox[n] /\ ~Receive(n)
    <3>1. FreeAt(n, Past(n))' <=> FreeAt(n, Len(inbox[n]) + 1)'
      BY <1>1, <2>3 DEF FreeAt
    <3>. QED
      BY <1>1, <2>1, <2>3, <3>1, FreeSteps
  <2>4. CASE Takes(n)
    <3>1. Past(n) > 1 /\ Past(n) - 1 = Len(inbox'[n]) + 1
      <4>1. Len(inbox[n]) = Len(inbox'[n]) + 1
        BY <2>4 DEF Takes, Shrinks
      <4>2. Len(inbox[n]) >= 1
        BY <1>1, <2>4 DEF Takes
      <4>. QED
        BY <1>1, <4>1, <4>2
    <3>. DEFINE i == Past(n)
    <3>2. i \in 1..Past(n) /\ FreeAt(n, i) /\ i > 1 /\ i - 1 = Len(inbox'[n]) + 1
      BY <2>1, <3>1
    <3>. HIDE DEF i
    <3>. QED
      BY <1>1, <2>4, <3>2, FreeSteps DEF FreeAt
  <2>. QED
    BY <1>2, <2>2, <2>3, <2>4, InboxSteps DEF Told, Sent
<1>3. CASE BusPublish
  <2>1. bus_payload' = <<>> /\ bus_access' = "INACTIVE" /\ bus_access' = bus_access
    BY <1>3, One DEF Idle, BusPublish
  <2>2. PICK k \in Node : bus_payload = <<InactiveBy(k)>>
    BY <1>3, <2>1 DEF BusPublish, Known, LineInv, Signals
  <2>3. inbox'[n] = Append(inbox[n], InactiveBy(k))
    BY <1>1, <1>3, <2>2, AppendIsConcat DEF BusPublish, Message, AccessText, InactiveBy
  <2>4. Past(n)' # 1 /\ inbox'[n][Past(n)' - 1] = InactiveBy(k)
    BY <1>1, <2>3
  <2>. QED
    BY <2>4 DEF FreeAt, InactiveBy
<1>4. Idle \/ BusPublish
  <2>1. CASE UNCHANGED <<bus_access, bus_payload>>
    BY <2>1 DEF Idle
  <2>2. ASSUME NEW k \in Node, BusGrant(k)
        PROVE  Idle
    <3>1. bus_payload = <<>> /\ bus_access # "ACTIVE"
      BY <2>2, BusTakes DEF Bus, BusGrant
    <3>. QED
      BY <3>1 DEF Idle, Known, InvType, TypeOK, NetType
  <2>3. ASSUME NEW k \in Node, bus_payload' = <<InactiveBy(k)>>
        PROVE  FALSE
    <3>1. \A m \in Node : <<InactiveBy(k)>> # <<ActiveBy(m)>> /\ <<InactiveBy(k)>> # <<>>
      <4>1. \A m \in Node : InactiveBy(k) # ActiveBy(m)
        BY DEF InactiveBy, ActiveBy
      <4>. QED
        BY <4>1
    <3>. QED
      BY <2>3, <3>1 DEF Idle
  <2>. QED
    BY <2>1, <2>2, <2>3, BusSteps
<1>. QED
  BY <1>2, <1>3, <1>4

\* A node becomes pending when its grant is published, and by nothing else
LEMMA PendingSteps ==
    ASSUME Known, [Next]_vars, NEW h \in Node, Pending(h)'
    PROVE  \/ Pending(h) /\ Live(h) /\ ~BytesOut(h)
           \/ BusPublish /\ bus_payload = <<ActiveBy(h)>>
<1>1. InvType /\ inbox[h] \in Seq(Message) /\ ActiveBy(h).type # "RS485"
  BY DEF Known, InvType, TypeOK, NetType, ActiveBy
<1>2. ASSUME Offers(inbox[h], h)'
      PROVE  Offers(inbox[h], h) \/ (BusPublish /\ bus_payload = <<ActiveBy(h)>>)
  <2>1. PICK i \in 1..Len(inbox'[h]) : inbox'[h][i] = ActiveBy(h)
    BY <1>2 DEF Offers, In
  <2>2. CASE inbox'[h] = inbox[h]
    BY <1>2, <2>2 DEF Offers
  <2>3. CASE Takes(h)
    <3>1. i + 1 \in 1..Len(inbox[h]) /\ inbox[h][i + 1] = ActiveBy(h)
      BY <1>1, <2>1, <2>3 DEF Takes, Shrinks
    <3>. QED
      BY <3>1 DEF Offers, In
  <2>4. ASSUME NEW x, Grows(inbox[h], inbox'[h], x)
        PROVE  Offers(inbox[h], h) \/ x = ActiveBy(h)
    <3>1. i \in 1..Len(inbox[h]) \/ i = Len(inbox[h]) + 1
      BY <1>1, <2>1, <2>4 DEF Grows
    <3>. QED
      BY <2>1, <2>4, <3>1 DEF Grows, Offers, In
  <2>5. \A k : Rs485(tx_buffer[k]) # ActiveBy(h)
    BY DEF Rs485, ActiveBy
  <2>. QED
    BY <2>2, <2>3, <2>4, <2>5, InboxSteps DEF Told, Sent
<1>3. ASSUME Owns(h)', pc'[h] \in {"set_access", "bytes_out"}
      PROVE  Pending(h)
  <2>1. CASE RecvGrant(h)
    <3>1. Receive(h)
      BY <2>1 DEF Receive
    <3>2. inbox[h] # <<>> /\ Head(inbox[h]) = ActiveBy(h)
      BY <1>1, <2>1, <3>1, Receives
    <3>. QED
      BY <1>1, <3>2, TailIn DEF Pending, Offers
  <2>2. CASE Owns(h)
    <3>1. ~RequestLine(h)
      BY <2>2, SenderFacts DEF RequestLine, Owns
    <3>2. pc[h] \in {"set_access", "bytes_out"}
      BY <1>3, <3>1, SendingSteps DEF LineReserved, At
    <3>. QED
      BY <2>2, <3>2 DEF Pending
  <2>. QED
    BY <1>3, <2>1, <2>2, TokenSteps
<1>4. ASSUME BytesOut(h)
      PROVE  Offers(inbox[h], h)' => BusPublish /\ bus_payload = <<ActiveBy(h)>>
  <2>1. Owns(h) /\ ~Offers(inbox[h], h)
    BY <1>4, SenderOwns, OneLive DEF Offered
  <2>. QED
    BY <1>2, <2>1
<1>5. BytesOut(h) => pc'[h] \notin {"set_access", "bytes_out"}
  BY SenderOwns
<1>6. Pending(h) => Live(h)
  BY DEF Pending, Live, Offered
<1>. QED
  BY <1>2, <1>3, <1>4, <1>5, <1>6 DEF Pending

\* While a node is pending nobody has anything to acknowledge
LEMMA PendingFirst ==
    ASSUME Known, NEW h \in Node, Pending(h), NEW n \in Node
    PROVE  ~Acknowledge(n)
<1>. SUFFICES ASSUME Acknowledge(n) PROVE FALSE
  OBVIOUS
<1>1. PICK g \in Frame : g = Head(rx_buffer[n]) /\ Outstanding(g)
  BY Serving
<1>2. g.src \in Node /\ Owns(g.src) /\ Awaits(g.src)
  BY <1>1 DEF Outstanding, Frame
<1>3. Live(h) /\ Live(g.src)
  BY <1>2 DEF Pending, Live, Offered
<1>4. g.src = h /\ ~Offered(h)
  BY <1>2, <1>3, OneLive
<1>5. pc[h] \notin {"set_access", "bytes_out"}
  BY <1>2, <1>4, AwaitedFrame
<1>. QED
  BY <1>4, <1>5 DEF Pending, Offered

\* ... nor while a frame to n has not come to the receive buffer
LEMMA FrameFirst ==
    ASSUME Known, NEW f \in Frame, NEW n \in Node, f.dst = n,
           In(inbox[n], Rs485(f)) \/ payload_in[n] = f
    PROVE  ~Acknowledge(n) /\ Owns(f.src) /\ Live(f.src) /\ f.src \in Node
<1>1. f.src \in Node /\ Outstanding(f)
  BY DEF Known, LineInv, Served, Unserved, Frame
<1>2. ASSUME Acknowledge(n)
      PROVE  FALSE
  <2>1. PICK g \in Frame : g = Head(rx_buffer[n]) /\ Outstanding(g)
    BY <1>2, Serving
  <2>2. g = f
    <3>1. g.src \in Node /\ Owns(g.src) /\ on_air[g.src] = g
      BY <2>1 DEF Outstanding, Frame
    <3>. QED
      BY <1>1, <3>1, OneOwner DEF Outstanding
  <2>3. In(rx_buffer[n], f)
    BY <1>2, <2>1, <2>2, Recipient DEF Acknowledge, ValidPacket
  <2>. QED
    BY <2>3 DEF Known, OnceInv, Placed, OncePlaced, Coming, Stored
<1>. QED
  BY <1>1, <1>2 DEF Outstanding, Live

\* What is told to n while h has the line neither ends nor repeats a grant
LEMMA ToldNothing ==
    ASSUME Known, NEW h \in Node, Live(h), NEW n \in Node, NEW t, Told(n, t)
    PROVE  /\ t.type = "INACTIVE" => ~Owns(h) /\ ~Offers(inbox[h], h)
           /\ t.type = "ACTIVE" => t = ActiveBy(h) /\ ~Owns(h) /\ ~Offers(inbox[h], h)
<1>1. bus_payload = <<t>> /\ t \in AccessText
  BY DEF Told
<1>2. t.type = "INACTIVE" => Freed(h) /\ Frees(bus_payload, 1)
  BY <1>1, One DEF Freed
<1>3. ASSUME t.type = "ACTIVE"
      PROVE  t = ActiveBy(h) /\ Offered(h) /\ Offers(bus_payload, h)
  <2>1. PICK m \in Node : t = ActiveBy(m)
    BY <1>1, <1>3 DEF AccessText, ActiveBy
  <2>2. Offers(bus_payload, m) /\ Live(m)
    BY <1>1, <2>1, One DEF Offers, Offered, Live
  <2>3. m = h
    BY <2>2, OneLive
  <2>. QED
    BY <2>1, <2>2, <2>3 DEF Offered
<1>. QED
  BY <1>2, <1>3, OneLive

\* A grant reaches everybody before the bytes do
LEMMA AnnouncedKept ==
    ASSUME Polled, Alternate, Announced, [Next]_vars
    PROVE  Announced'
<1>. SUFFICES ASSUME NEW h \in Node, NEW n \in Node, Pending(h)', n # h
              PROVE  HeldAt(n, Past(n), h)'
  BY DEF Announced
<1>0. Known
  BY DEF Polled
<1>1. /\ inbox[n] \in Seq(Message) /\ Len(inbox[n]) \in Nat /\ Past(n) = Len(inbox[n]) + 1
      /\ Past(n)' = Len(inbox'[n]) + 1 /\ Past(n) \in 1..Past(n)
  BY <1>0 DEF Known, InvType, TypeOK, NetType, Past
<1>2. CASE BusPublish /\ bus_payload = <<ActiveBy(h)>>
  <2>1. inbox'[n] = Append(inbox[n], ActiveBy(h))
    BY <1>1, <1>2, AppendIsConcat DEF BusPublish, Message, AccessText, ActiveBy
  <2>2. Past(n)' # 1 /\ inbox'[n][Past(n)' - 1] = ActiveBy(h)
    BY <1>1, <2>1
  <2>. QED
    BY <2>2 DEF HeldAt
<1>3. CASE Pending(h) /\ Live(h) /\ ~BytesOut(h)
  <2>1. HeldAt(n, Past(n), h) /\ ~Acknowledge(n)
    BY <1>0, <1>3, PendingFirst DEF Announced
  <2>2. CASE inbox'[n] = inbox[n] /\ ~Receive(n)
    <3>1. HeldAt(n, Past(n), h)' <=> HeldAt(n, Len(inbox[n]) + 1, h)'
      BY <1>1, <2>2 DEF HeldAt
    <3>. QED
      BY <1>1, <1>3, <2>1, <2>2, <3>1, HeldSteps
  <2>3. CASE Takes(n)
    <3>. DEFINE i == Past(n)
    <3>1. i \in 1..Past(n) /\ HeldAt(n, i, h) /\ i > 1 /\ i - 1 = Len(inbox'[n]) + 1
      <4>1. Len(inbox[n]) = Len(inbox'[n]) + 1
        BY <2>3 DEF Takes, Shrinks
      <4>2. Len(inbox[n]) >= 1
        BY <1>1, <2>3 DEF Takes
      <4>. QED
        BY <1>1, <2>1, <4>1, <4>2
    <3>. HIDE DEF i
    <3>. QED
      BY <1>1, <1>3, <2>1, <2>3, <3>1, HeldSteps DEF HeldAt
  <2>4. ASSUME NEW t, Told(n, t)
        PROVE  FALSE
    <3>1. ~Owns(h) /\ ~Offers(inbox[h], h)
      <4>1. t.type = "ACTIVE" \/ t.type = "INACTIVE"
        BY <2>4 DEF Told, AccessText
      <4>. QED
        BY <1>0, <1>3, <2>4, <4>1, ToldNothing
    <3>. QED
      BY <1>3, <3>1 DEF Pending
  <2>5. ASSUME NEW k \in Node, Sent(n, k)
        PROVE  FALSE
    BY <1>0, <1>3, <2>5, SenderOwns, OneLive DEF Sent
  <2>. QED
    BY <1>0, <2>2, <2>3, <2>4, <2>5, InboxSteps
<1>. QED
  BY <1>0, <1>2, <1>3, PendingSteps

\* A frame keeps its place behind its announcement and before the release
LEMMA InboxAhead ==
    ASSUME Polled, HeardInv, [Next]_vars, NEW f \in Frame, NEW n \in Node, f.dst = n, f.src # n,
           NEW i \in 1..Len(inbox'[n]), inbox'[n][i] = Rs485(f)
    PROVE  HeldAt(n, i, f.src)' /\ ~Frees(inbox'[n], i)
<1>0. /\ Known /\ FrameAt(f, n) /\ Alternate /\ f.src \in Node
      /\ inbox[n] \in Seq(Message) /\ Len(inbox[n]) \in Nat /\ Past(n) = Len(inbox[n]) + 1
  <2>1. FrameAt(f, n) /\ f.src \in Node
    BY DEF HeardInv, Ahead, Frame
  <2>. QED
    BY <2>1 DEF Polled, HeardInv, Known, InvType, TypeOK, NetType, Past
<1>. DEFINE Old(j) == j \in 1..Len(inbox[n]) /\ inbox[n][j] = Rs485(f)
<1>1. ASSUME NEW j, Old(j)
      PROVE  /\ HeldAt(n, j, f.src) /\ ~Frees(inbox[n], j) /\ j \in 1..Past(n)
             /\ ~Acknowledge(n) /\ Owns(f.src) /\ Live(f.src)
  <2>1. In(inbox[n], Rs485(f)) /\ j \in 1..Past(n)
    BY <1>0, <1>1 DEF In
  <2>. QED
    BY <1>0, <1>1, <2>1, FrameFirst DEF FrameAt
<1>2. CASE inbox'[n] = inbox[n] /\ ~Receive(n)
  <2>1. Old(i)
    BY <1>2
  <2>. QED
    BY <1>0, <1>1, <1>2, <2>1, HeldSteps
<1>3. CASE Takes(n)
  <2>. DEFINE j == i + 1
  <2>1. Old(j) /\ j > 1 /\ j - 1 = i /\ (Frees(inbox'[n], i) <=> Frees(inbox[n], j))
    BY <1>0, <1>3 DEF Takes, Shrinks
  <2>. HIDE DEF j
  <2>2. HeldAt(n, j - 1, f.src)'
    BY <1>0, <1>1, <1>3, <2>1, HeldSteps
  <2>. QED
    BY <1>1, <2>1, <2>2
<1>4. ASSUME NEW x, Grows(inbox[n], inbox'[n], x)
      PROVE  (Old(i) \/ (i = Len(inbox[n]) + 1 /\ x = Rs485(f)))
             /\ (Frees(inbox'[n], i) <=> Frees(inbox[n], i) \/ x.type = "INACTIVE")
  <2>1. i \in 1..Len(inbox[n]) \/ i = Len(inbox[n]) + 1
    BY <1>0, <1>4 DEF Grows
  <2>. QED
    BY <1>0, <1>4, <2>1 DEF Grows
<1>5. ASSUME ~Receive(n), NEW t, Told(n, t)
      PROVE  HeldAt(n, i, f.src)' /\ ~Frees(inbox'[n], i)
  <2>1. Old(i)
    BY <1>4, <1>5 DEF Told, AccessText, Rs485
  <2>2. t.type # "INACTIVE"
    BY <1>0, <1>1, <1>5, <2>1, ToldNothing
  <2>. QED
    BY <1>0, <1>1, <1>4, <1>5, <2>1, <2>2, HeldSteps DEF Told
<1>6. ASSUME ~Receive(n), NEW k \in Node, Sent(n, k)
      PROVE  HeldAt(n, i, f.src)' /\ ~Frees(inbox'[n], i)
  <2>1. Rs485(tx_buffer[k]).type # "INACTIVE"
    BY DEF Rs485
  <2>2. CASE Old(i)
    BY <1>0, <1>1, <1>4, <1>6, <2>1, <2>2, HeldSteps DEF Sent
  <2>3. CASE i = Len(inbox[n]) + 1 /\ Rs485(tx_buffer[k]) = Rs485(f)
    <3>1. tx_buffer[k] = f
      BY <2>3 DEF Rs485
    <3>2. f.src = k /\ k # n /\ Live(k) /\ Pending(k)
      BY <1>0, <1>6, <3>1, SenderOwns DEF Sent, Pending
    <3>3. HeldAt(n, Past(n), k) /\ ~Acknowledge(n)
      BY <1>0, <3>2, PendingFirst DEF HeardInv, Announced
    <3>4. Past(n) \in 1..Past(n) /\ i = Past(n)
      BY <1>0, <2>3
    <3>5. HeldAt(n, i, f.src)'
      BY <1>0, <1>6, <3>2, <3>3, <3>4, HeldSteps
    <3>6. ~Frees(inbox[n], i)
      BY <1>0, <2>3 DEF Frees
    <3>. QED
      BY <1>4, <1>6, <2>1, <3>5, <3>6 DEF Sent
  <2>. QED
    BY <1>4, <1>6, <2>2, <2>3 DEF Sent
<1>. QED
  BY <1>0, <1>2, <1>3, <1>5, <1>6, InboxSteps

\* ... and in payload_in its role
LEMMA PayloadAhead ==
    ASSUME Polled, HeardInv, [Next]_vars, NEW f \in Frame, NEW n \in Node, f.dst = n, f.src # n,
           payload_in'[n] = f
    PROVE  Hears(n)' /\ ~Frees(inbox'[n], 1)
<1>0. /\ Known /\ InvType /\ FrameAt(f, n) /\ f.src \in Node /\ f \in Chunk /\ f # NoFrame
      /\ inbox[n] \in Seq(Message) /\ Len(inbox[n]) \in Nat
  <2>1. FrameAt(f, n) /\ f.src \in Node
    BY DEF HeardInv, Ahead, Frame
  <2>. QED
    BY <2>1, MarkersAreNoFrames DEF Polled, Known, InvType, TypeOK, NetType, Chunk
<1>1. CASE RecvFrame(n)
  <2>1. Receive(n) /\ Takes(n) /\ Head(inbox[n]).type = "RS485" /\ UNCHANGED <<role, pc>>
        /\ Head(inbox[n]).chunk = f
    <3>1. Receive(n)
      BY <1>1 DEF Receive
    <3>2. Takes(n)
      BY <1>0, <3>1, InboxSteps DEF Takes
    <3>. QED
      BY <1>0, <1>1, <3>1, <3>2 DEF RecvFrame, Arrives, InvType, TypeOK, LineType
  <2>2. inbox[n][1] = Rs485(f) /\ 1 \in 1..Len(inbox[n])
    <3>1. Head(inbox[n]) \in Message /\ Head(inbox[n]) = inbox[n][1] /\ 1 \in 1..Len(inbox[n])
      BY <1>0, <2>1 DEF Takes
    <3>. QED
      BY <2>1, <3>1 DEF Message, AccessText, Rs485
  <2>3. Ready(n) /\ ~Frees(inbox[n], 1)
    BY <1>0, <2>2 DEF FrameAt, HeldAt
  <2>. QED
    BY <2>1, <2>3 DEF Ready, Hears, Takes, Shrinks
<1>2. ASSUME payload_in[n] = f, ~RecvFrame(n)
      PROVE  Hears(n)' /\ ~Frees(inbox'[n], 1)
  <2>1. /\ Hears(n) /\ ~Frees(inbox[n], 1)
        /\ ~Acknowledge(n) /\ Owns(f.src) /\ Live(f.src)
    BY <1>0, <1>2, FrameFirst DEF FrameAt
  <2>2. ~RecvInactive(n)
    <3>1. RecvInactive(n) => Takes(n) /\ Head(inbox[n]).type = "INACTIVE"
      BY <1>0, InboxSteps DEF Receive, RecvInactive, Arrives
    <3>. QED
      BY <2>1, <3>1 DEF Takes, Shrinks
  <2>3. ~BytesIn(n)
    BY <1>0 DEF BytesIn, TakeBytes, InvType, TypeOK, LineType
  <2>4. Hears(n)'
    BY <1>0, <2>1, <2>2, <2>3, HearingStays
  <2>5. ~Frees(inbox'[n], 1)
    <3>1. ASSUME NEW x, Grows(inbox[n], inbox'[n], x), x.type # "INACTIVE"
          PROVE  ~Frees(inbox'[n], 1)
      <4>1. 1 \in 1..Len(inbox[n]) + 1
        BY <1>0
      <4>. QED
        BY <2>1, <3>1, <4>1 DEF Grows
    <3>2. \A t : Told(n, t) => t.type # "INACTIVE"
      BY <1>0, <2>1, ToldNothing
    <3>3. \A k : Rs485(tx_buffer[k]).type # "INACTIVE"
      BY DEF Rs485
    <3>. QED
      BY <1>0, <2>1, <3>1, <3>2, <3>3, InboxSteps DEF Takes, Shrinks, Told, Sent
  <2>. QED
    BY <2>4, <2>5
<1>3. payload_in'[n] = f => payload_in[n] = f \/ RecvFrame(n)
  <2>. USE DEF InvType, TypeOK, LineType
  <2>1. CASE \E k \in Node : k # n /\ Step(k)
    BY <1>0, <2>1, OthersSame DEF Same
  <2>2. CASE BusPublish \/ UNCHANGED vars
    BY <2>2, BusSame DEF Same
  <2>3. CASE Receive(n) \/ Update(n) \/ (\E d \in Targets : Ping(n, d)) \/ Bus(n)
    BY <2>3 DEF Receive, RecvGrant, RecvForeignActive, RecvActiveIgnored, RecvInactive, Update,
        Ping, Bus, BusGrant, BusRefuse, BusRelease, BusVarsFrom
  <2>4. CASE BytesIn(n)
    BY <1>0, <2>4 DEF BytesIn, TakeBytes
  <2>5. CASE NoUpdate(n) \/ Acknowledge(n) \/ AckSpin(n) \/ DeliverAcked(n) \/ DeliverUnacked(n)
             \/ NothingReceived(n) \/ KeepWaiting(n) \/ AckTimedOut(n) \/ TimeoutSpin(n)
    BY <2>5 DEF NoUpdate, Acknowledge, AckSpin, DeliverAcked, DeliverUnacked, NothingReceived,
        KeepWaiting, AckTimedOut, TimeoutSpin
  <2>6. CASE NothingSent(n) \/ RequestLine(n) \/ LineReserved(n) \/ LineBusy(n) \/ BytesOut(n)
             \/ SentToOne(n) \/ SentToAll(n) \/ BroadcastSpin(n) \/ BroadcastDone(n)
    BY <2>6 DEF NothingSent, RequestLine, LineReserved, LineBusy, BytesOut, SentToOne, SentToAll,
        BroadcastSpin, BroadcastDone
  <2>. QED
    BY <1>0, <2>1, <2>2, <2>3, <2>4, <2>5, <2>6, NoCommands, Steps DEF Step, Main
<1>. QED
  BY <1>1, <1>2, <1>3

\* The inductive invariant: at the start
LEMMA InitHeard == Init => HeardInv
<1>. SUFFICES ASSUME Init PROVE HeardInv
  OBVIOUS
<1>1. \A n \in Node : inbox[n] = <<>> /\ Len(inbox[n]) = 0 /\ Past(n) = 1 /\ FreeAt(n, 1)
  BY DEF Init, Past, FreeAt
<1>2. ASSUME NEW n \in Node
      PROVE  ~Pending(n)
  <2>1. ~Offers(inbox[n], n) /\ ~Owns(n)
    BY <1>1, One DEF Init, Offers, Owns
  <2>. QED
    BY <2>1 DEF Pending
<1>3. Alternate /\ IdleKnown /\ Announced
  BY <1>1, <1>2 DEF Alternate, IdleKnown, Announced
<1>4. Ahead
  <2>1. \A f \in Frame, n \in Node : payload_in[n] # f
    BY MarkersAreNoFrames DEF Init
  <2>. QED
    BY <1>1, <2>1 DEF Ahead, FrameAt
<1>. QED
  BY <1>3, <1>4 DEF HeardInv

\* ... and across every step
LEMMA NextKeepsHeard == ASSUME Polled, HeardInv, [Next]_vars PROVE HeardInv'
<1>1. Alternate' /\ IdleKnown' /\ Announced'
  BY AlternateKept, IdleKept, AnnouncedKept DEF HeardInv, Polled
<1>2. ASSUME NEW f \in Frame, f.dst \in Node, f.dst # f.src
      PROVE  FrameAt(f, f.dst)'
  BY <1>2, InboxAhead, PayloadAhead DEF FrameAt
<1>. QED
  BY <1>1, <1>2 DEF HeardInv, Ahead

\* icp_bytes_in never discards a frame addressed to this node by another:
\* IcpBus's FrameIsHeard
THEOREM FrameIsHeardCorrect ==
    ASSUME OnTime, "poll" \notin Early, "pulse" \notin Early
    PROVE  Spec => FrameIsHeard
<1>1. InvType /\ OnceInv /\ Addressed /\ LineInv /\ HeardInv /\ [Next]_vars => HeardInv'
  BY NextKeepsHeard DEF Polled, Known
<1>. DEFINE Kept == \A n \in Node :
          /\ BytesIn(n) /\ payload_in[n] # Junk
          /\ payload_in[n].dst = n /\ payload_in[n].src # n
          => rx_buffer'[n] # rx_buffer[n]
<1>2. InvType /\ HeardInv => Kept
  <2>. SUFFICES ASSUME InvType, HeardInv, NEW n \in Node, BytesIn(n), payload_in[n] # Junk,
                       payload_in[n].dst = n, payload_in[n].src # n
                PROVE  rx_buffer'[n] # rx_buffer[n]
    OBVIOUS
  <2>. DEFINE c == payload_in[n]
  <2>1. c \in Frame /\ rx_buffer[n] \in Seq(Chunk) /\ c \in Chunk
    BY DEF BytesIn, InvType, TypeOK, LineType, IcpType, Chunk
  <2>2. role[n] = "RX"
    BY <2>1 DEF HeardInv, Ahead, FrameAt, Hears
  <2>3. rx_buffer'[n] = Append(rx_buffer[n], c)
    BY <2>1, <2>2 DEF BytesIn, FirstByteIsMine, InvType, TypeOK, IcpType
  <2>4. Len(Append(rx_buffer[n], c)) = Len(rx_buffer[n]) + 1 /\ Len(rx_buffer[n]) \in Nat
    BY <2>1
  <2>. QED
    BY <2>3, <2>4
<1>3. [][Kept]_vars => FrameIsHeard
  BY PTL DEF FrameIsHeard
<1>4. Spec => [][Kept]_vars
  <2>. HIDE DEF Kept
  <2>. QED
    BY <1>1, <1>2, InitHeard, LineCorrect, InvTypeCorrect, OnceCorrect, AddressedCorrect, PTL
       DEF Spec
<1>. QED
  BY <1>3, <1>4
=============================================================================

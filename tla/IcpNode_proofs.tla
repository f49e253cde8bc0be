---------------------------- MODULE IcpNode_proofs ----------------------------
(***************************************************************************)
(* Proofs about IcpNode, for any traffic, frame and buffer lengths.        *)
(***************************************************************************)
EXTENDS IcpNode, SequenceTheorems, TLAPS

-----------------------------------------------------------------------------
(***************************************************************************)
(* The types.  What was heard and what was pinged are kept apart: only the *)
(* first is ever in payload_in and rx_buffer, only the second in           *)
(* tx_buffer.                                                              *)
(***************************************************************************)
BytesOf(S) == {FF} \cup {Byte(f, i) : f \in S, i \in 1..FrameBytes}
Listens == {t.listens : t \in Traffic} \cup {FALSE}

GType ==
    g \in [access : {"ACTIVE", "INACTIVE"}, mine : BOOLEAN,
           payload_in : [1..FrameBytes -> BytesOf(Heard)], bytes_in : BOOLEAN,
           update_now : BOOLEAN, reset_flag : BOOLEAN, sent : BOOLEAN]

ConfType ==
    conf \in [role : {"NO_ROLE", "TX", "RX", "LISTEN_IN"},
              destination_received : BOOLEAN, waiting_for_ack : BOOLEAN,
              listen_to_all : Listens,
              rx_buffer : [1..BufferLen -> BytesOf(Heard)], rx_buf_pos : 0..BufferLen - 1,
              tx_buffer : [1..BufferLen -> BytesOf(Pinged)],
              tx_buf_start : 0..FrameBytes, tx_buf_end : 0..FrameBytes - 1,
              ack_count : 0..AckLimit]

MainPoint ==
    {"loop", "call", "mark", "address", "foreign", "drop", "room", "store", "sum",
     "advance", "updating", "header", "length", "undefined", "data", "checksum",
     "reread", "receiving", "mine", "idle", "taken", "clear", "spin", "role", "tx", "waiting",
     "line", "ask", "poll", "result", "grant", "out", "publish", "confirm", "finished",
     "unsend", "advanceTx", "expired", "updated", "resetting"}
ReceivePoint ==
    {"idle", "granting", "active", "begun", "inactive", "acknowledged", "cancelled",
     "freeing", "bytes", "ping"}

MainType ==
    main \in [at : MainPoint, back : {"loop", "idle", "unsend", "updated"},
              n : 0..FrameBytes, pos : 0..BufferLen - 1,
              packet : Seq(BytesOf(Heard) \cup BytesOf(Pinged))]

ReceiveType ==
    /\ receive \in [at : ReceivePoint, frame : Heard \cup Pinged \cup {NoFrame}, n : 0..FrameBytes]
    /\ receive.at = "bytes" => receive.frame \in Heard
    /\ receive.at = "ping" => receive.frame \in Pinged

BusType ==
    bus \in [line : {"free", "node", "other"}, texts : Seq({"ACTIVE", "INACTIVE"}),
             unconfirmed : Int, orders : Nat, traffic : Traffic]

SeenType == seen \in [fresh : BOOLEAN, overlooked : BOOLEAN, pinged : BOOLEAN]

(***************************************************************************)
(* What the main thread knows where.  Storing: a position that it adds to  *)
(* was read, or was 0 because of a flush.  Published, Unsent: what it is   *)
(* about to publish lies inside the buffer.                                *)
(***************************************************************************)
Storing ==
    /\ At("store") => main.n < FrameBytes
    /\ main.at \in {"store", "sum"} =>
          conf.rx_buf_pos \in {main.pos, 0} /\ main.pos + FrameBytes < BufferLen

Publishing == main.at \in {"publish", "confirm", "finished", "unsend", "advanceTx"}
              \/ (main.at \in {"clear", "spin"} /\ main.back = "unsend")
Asked == main.at \in {"line", "ask", "poll", "result", "grant", "out"}

Transmitting ==
    /\ Asked => conf.tx_buf_start <= conf.tx_buf_end + 1
    /\ Publishing => conf.tx_buf_start \in {main.pos, 0} /\ main.pos + main.n <= FrameBytes
    /\ receive.at = "ping" => conf.tx_buf_end = 0

TypeInv == GType /\ ConfType /\ MainType /\ ReceiveType /\ BusType /\ SeenType
           /\ Storing /\ Transmitting

-----------------------------------------------------------------------------
(***************************************************************************)
(* Receiving.  What has been copied out of rx_buffer is what is there, or  *)
(* rx_buffer was flushed since, which the checksum finds out.  Behind it   *)
(* header and data are those of a frame, whatever happens to rx_buffer;    *)
(* the field checksum, read after the check, is the frame's, or what the   *)
(* flush of rx_buffer left.                                                *)
(***************************************************************************)
Copied(k) ==
    /\ main.packet \in [1..k -> BytesOf(Heard)] /\ main.packet[1].at = 1
    /\ conf.rx_buffer = Flushed \/ \A i \in 1..k : main.packet[i] = conf.rx_buffer[i]

Summed(f) ==
    /\ main.packet = [i \in 1..FrameBytes - 1 |-> Byte(f, i)]
    /\ conf.rx_buffer = Flushed \/ conf.rx_buffer[FrameBytes] = Byte(f, FrameBytes)

Whole(f) == main.packet = FrameOf(f) \/ (main.packet = Unsummed(f) /\ conf.rx_buffer = Flushed)

Checked == main.at \in {"receiving", "mine", "idle", "taken"}
           \/ (main.at \in {"clear", "spin"} /\ main.back = "idle")

Copying ==
    /\ At("data") => Copied(1)
    /\ At("checksum") => Copied(FrameBytes - 1)
    /\ At("reread") => \E f \in Heard : Summed(f)
    /\ Checked => \E f \in Heard : Whole(f)

(***************************************************************************)
(* Sending.  As long as no ping comes at the wrong time, the bytes between *)
(* tx_buf_start and tx_buf_end are one whole frame from the first byte on, *)
(* and a ping that is filling tx_buffer shows nothing of it.               *)
(***************************************************************************)
Loaded == /\ conf.tx_buf_start = 0 /\ conf.tx_buf_end = FrameBytes - 1
          /\ \E f \in Pinged : \A i \in 1..FrameBytes : conf.tx_buffer[i] = Byte(f, i)

Filling == /\ ~Sending /\ conf.tx_buf_start = 0
           /\ \A i \in 1..receive.n : conf.tx_buffer[i] = Byte(receive.frame, i)

Transmission ==
    /\ receive.at = "ping" => Filling
    /\ receive.at # "ping" /\ conf.tx_buf_start < conf.tx_buf_end => Loaded
    /\ Asked => conf.tx_buf_start < conf.tx_buf_end
    /\ Publishing => main.pos = 0 /\ main.n = FrameBytes
    /\ At("publish") => conf.tx_buf_start < conf.tx_buf_end
    /\ At("confirm") => \E f \in Pinged : main.packet = FrameOf(f)

Inv == TypeInv /\ Copying /\ BytesAreTaken /\ (seen.pinged \/ Transmission)

-----------------------------------------------------------------------------
\* What a flush leaves, and empty slots, are bytes of either kind
LEMMA ByteTypes ==
    /\ FF \in BytesOf(Heard) /\ FF \in BytesOf(Pinged)
    /\ Flushed \in [1..BufferLen -> BytesOf(Heard)]
    /\ Flushed \in [1..BufferLen -> BytesOf(Pinged)]
    /\ Empty \in [1..FrameBytes -> BytesOf(Heard)]
BY DEF BytesOf, Flushed, Empty

\* What is assumed of the lengths
LEMMA Lengths == FrameBytes \in Nat /\ FrameBytes >= 2 /\ BufferLen \in Nat
                 /\ BufferLen > FrameBytes /\ AckLimit \in Nat
BY NodeAssumption

\* A part of the state that a step leaves alone keeps its type
LEMMA Kept ==
    /\ GType /\ g' = g => GType'
    /\ ConfType /\ conf' = conf => ConfType'
    /\ MainType /\ main' = main => MainType'
    /\ ReceiveType /\ receive' = receive => ReceiveType'
    /\ BusType /\ bus' = bus => BusType'
    /\ SeenType /\ seen' = seen => SeenType'
    /\ Storing /\ UNCHANGED <<main, conf>> => Storing'
    /\ Transmitting /\ UNCHANGED <<main, conf, receive>> => Transmitting'
<1>1. GType /\ g' = g => GType'
  BY DEF GType
<1>2. ConfType /\ conf' = conf => ConfType'
  BY DEF ConfType
<1>3. MainType /\ main' = main => MainType'
  BY DEF MainType
<1>4. ReceiveType /\ receive' = receive => ReceiveType'
  BY DEF ReceiveType
<1>5. BusType /\ bus' = bus => BusType'
  BY DEF BusType
<1>6. SeenType /\ seen' = seen => SeenType'
  BY DEF SeenType
<1>7. Storing /\ UNCHANGED <<main, conf>> => Storing'
  BY DEF Storing, At
<1>8. Transmitting /\ UNCHANGED <<main, conf, receive>> => Transmitting'
  BY DEF Transmitting, Asked, Publishing
<1>. QED
  BY <1>1, <1>2, <1>3, <1>4, <1>5, <1>6, <1>7, <1>8

\* The types hold at the start
LEMMA InitTyped == NodeInit => TypeInv
<1>. SUFFICES ASSUME NodeInit PROVE TypeInv
  OBVIOUS
<1>1. bus.traffic.listens \in Listens
  BY DEF NodeInit, Listens
<1>2. BusType
  <2>1. <<>> \in Seq({"ACTIVE", "INACTIVE"})
    OBVIOUS
  <2>2. ASSUME NEW t \in Traffic
        PROVE  [line |-> "free", texts |-> <<>>, unconfirmed |-> 0, orders |-> 0, traffic |-> t]
               \in [line : {"free", "node", "other"}, texts : Seq({"ACTIVE", "INACTIVE"}),
                    unconfirmed : Int, orders : Nat, traffic : Traffic]
    BY <2>1
  <2>. QED
    BY <2>2 DEF NodeInit, BusType
<1>3. GType
  BY ByteTypes DEF NodeInit, GType
<1>4. ReceiveType /\ SeenType
  BY Lengths DEF NodeInit, ReceiveType, ReceivePoint, SeenType
<1>5. ConfType
  BY <1>1, ByteTypes, Lengths DEF NodeInit, ConfType
<1>6. MainType
  <2>1. <<>> \in Seq(BytesOf(Heard) \cup BytesOf(Pinged))
    OBVIOUS
  <2>. QED
    BY <2>1, Lengths DEF NodeInit, MainType, MainPoint
<1>7. Storing /\ Transmitting
  BY Lengths DEF NodeInit, Storing, Transmitting, At, Publishing, Asked
<1>. QED
  BY <1>2, <1>3, <1>4, <1>5, <1>6, <1>7 DEF TypeInv

\* The steps of the main thread that take bytes in keep the types
LEMMA BytesInTyped ==
    ASSUME TypeInv,
           \/ TakeBytes \/ CallBytesIn \/ MarkReceived \/ ReadAddress
           \/ ForeignFrame \/ DropFrame \/ Room \/ StoreByte \/ ReadPosition
           \/ WritePosition
    PROVE  TypeInv'
<1>1. CASE TakeBytes
  <2>1. GType'
    BY <1>1, ByteTypes, Lengths DEF TypeInv, GType, TakeBytes, Goto
  <2>2. MainType'
    BY <1>1, ByteTypes, Lengths DEF TypeInv, MainType, MainPoint, TakeBytes, Goto
  <2>3. Storing'
    BY <1>1, Lengths DEF TypeInv, MainType, ConfType, Storing, At, TakeBytes, Goto
  <2>4. Transmitting'
    BY <1>1, Lengths DEF TypeInv, MainType, ConfType, ReceiveType, Transmitting,
        Asked, Publishing, At, TakeBytes, Goto
  <2>. QED
    BY <1>1, <2>1, <2>2, <2>3, <2>4, Kept DEF TypeInv, TakeBytes
<1>2. CASE CallBytesIn
  <2>1. MainType'
    BY <1>2, ByteTypes, Lengths DEF TypeInv, MainType, MainPoint, CallBytesIn, Test,
        Goto
  <2>2. SeenType'
    BY <1>2, ByteTypes, Lengths DEF TypeInv, SeenType, CallBytesIn, Test, Goto
  <2>3. Storing'
    BY <1>2, Lengths DEF TypeInv, MainType, ConfType, Storing, At, CallBytesIn, Test,
        Goto
  <2>4. Transmitting'
    BY <1>2, Lengths DEF TypeInv, MainType, ConfType, ReceiveType, Transmitting,
        Asked, Publishing, At, CallBytesIn, Test, Goto
  <2>. QED
    BY <1>2, <2>1, <2>2, <2>3, <2>4, Kept DEF TypeInv, CallBytesIn, Test
<1>3. CASE MarkReceived
  <2>1. ConfType'
    BY <1>3, ByteTypes, Lengths DEF TypeInv, ConfType, MarkReceived, Goto, ConfOnly
  <2>2. MainType'
    BY <1>3, ByteTypes, Lengths DEF TypeInv, MainType, MainPoint, MarkReceived, Goto,
        ConfOnly
  <2>3. Storing'
    BY <1>3, Lengths DEF TypeInv, MainType, ConfType, Storing, At, MarkReceived, Goto,
        ConfOnly
  <2>4. Transmitting'
    BY <1>3, Lengths DEF TypeInv, MainType, ConfType, ReceiveType, Transmitting,
        Asked, Publishing, At, MarkReceived, Goto, ConfOnly
  <2>. QED
    BY <1>3, <2>1, <2>2, <2>3, <2>4, Kept DEF TypeInv, MarkReceived, ConfOnly
<1>4. CASE ReadAddress
  <2>1. MainType'
    BY <1>4, ByteTypes, Lengths DEF TypeInv, MainType, MainPoint, ReadAddress, Test,
        Goto, MainOnly
  <2>2. Storing'
    BY <1>4, Lengths DEF TypeInv, MainType, ConfType, Storing, At, ReadAddress, Test,
        Goto, MainOnly
  <2>3. Transmitting'
    BY <1>4, Lengths DEF TypeInv, MainType, ConfType, ReceiveType, Transmitting,
        Asked, Publishing, At, ReadAddress, Test, Goto, MainOnly
  <2>. QED
    BY <1>4, <2>1, <2>2, <2>3, Kept DEF TypeInv, ReadAddress, Test, MainOnly
<1>5. CASE ForeignFrame
  <2>1. ConfType'
    BY <1>5, ByteTypes, Lengths DEF TypeInv, ConfType, ForeignFrame, Goto, ConfOnly
  <2>2. MainType'
    BY <1>5, ByteTypes, Lengths DEF TypeInv, MainType, MainPoint, ForeignFrame, Goto,
        ConfOnly
  <2>3. Storing'
    BY <1>5, Lengths DEF TypeInv, MainType, ConfType, Storing, At, ForeignFrame, Goto,
        ConfOnly
  <2>4. Transmitting'
    BY <1>5, Lengths DEF TypeInv, MainType, ConfType, ReceiveType, Transmitting,
        Asked, Publishing, At, ForeignFrame, Goto, ConfOnly
  <2>. QED
    BY <1>5, <2>1, <2>2, <2>3, <2>4, Kept DEF TypeInv, ForeignFrame, ConfOnly
<1>6. CASE DropFrame
  <2>1. ConfType'
    <3>1. conf' = [conf EXCEPT !.rx_buffer = Flushed, !.rx_buf_pos = 0]
      BY <1>6 DEF DropFrame, Flush
    <3>2. 0 \in 0..BufferLen - 1
      BY Lengths
    <3>. QED
      BY <3>1, <3>2, ByteTypes DEF TypeInv, ConfType
  <2>2. MainType'
    BY <1>6, ByteTypes, Lengths DEF TypeInv, MainType, MainPoint, DropFrame, Goto,
        Flush, ConfOnly
  <2>3. Storing'
    BY <1>6, Lengths DEF TypeInv, MainType, ConfType, Storing, At, DropFrame, Goto,
        Flush, ConfOnly
  <2>4. Transmitting'
    BY <1>6, Lengths DEF TypeInv, MainType, ConfType, ReceiveType, Transmitting,
        Asked, Publishing, At, DropFrame, Goto, Flush, ConfOnly
  <2>. QED
    BY <1>6, <2>1, <2>2, <2>3, <2>4, Kept DEF TypeInv, DropFrame, ConfOnly
<1>7. CASE Room
  <2>1. MainType'
    <3>1. conf.rx_buf_pos \in 0..BufferLen - 1 /\ 0 \in 0..FrameBytes
      BY Lengths DEF TypeInv, ConfType
    <3>. QED
      BY <1>7, <3>1 DEF TypeInv, MainType, MainPoint, Room
  <2>2. Storing'
    BY <1>7, Lengths DEF TypeInv, MainType, ConfType, Storing, At, Room, MainOnly
  <2>3. Transmitting'
    BY <1>7, Lengths DEF TypeInv, MainType, ConfType, ReceiveType, Transmitting,
        Asked, Publishing, At, Room, MainOnly
  <2>. QED
    BY <1>7, <2>1, <2>2, <2>3, Kept DEF TypeInv, Room, MainOnly
<1>8. CASE StoreByte
  <2>1. ConfType'
    <3>1. main.n + 1 \in 1..FrameBytes /\ main.pos + main.n + 1 \in 1..BufferLen
      BY <1>8, Lengths DEF TypeInv, MainType, Storing, StoreByte, At
    <3>2. g.payload_in[main.n + 1] \in BytesOf(Heard)
      BY <3>1 DEF TypeInv, GType
    <3>3. conf' = [conf EXCEPT !.rx_buffer = [conf.rx_buffer EXCEPT
                      ![main.pos + main.n + 1] = g.payload_in[main.n + 1]]]
      BY <1>8 DEF StoreByte
    <3>4. [conf.rx_buffer EXCEPT ![main.pos + main.n + 1] = g.payload_in[main.n + 1]]
             \in [1..BufferLen -> BytesOf(Heard)]
      BY <3>1, <3>2 DEF TypeInv, ConfType
    <3>. QED
      BY <3>3, <3>4 DEF TypeInv, ConfType
  <2>2. MainType'
    <3>1. main.n + 1 \in 0..FrameBytes
      BY <1>8, Lengths DEF TypeInv, MainType, Storing, StoreByte, At
    <3>. QED
      BY <1>8, <3>1 DEF TypeInv, MainType, MainPoint, StoreByte, At
  <2>3. Storing'
    BY <1>8, Lengths DEF TypeInv, MainType, ConfType, Storing, At, StoreByte, ConfOnly
  <2>4. Transmitting'
    BY <1>8, Lengths DEF TypeInv, MainType, ConfType, ReceiveType, Transmitting,
        Asked, Publishing, At, StoreByte, ConfOnly
  <2>. QED
    BY <1>8, <2>1, <2>2, <2>3, <2>4, Kept DEF TypeInv, StoreByte, ConfOnly
<1>9. CASE ReadPosition
  <2>1. MainType'
    <3>1. conf.rx_buf_pos + FrameBytes \in 0..BufferLen - 1 /\ 0 \in 0..FrameBytes
      BY <1>9, Lengths DEF TypeInv, MainType, ConfType, Storing, ReadPosition, At
    <3>. QED
      BY <1>9, <3>1 DEF TypeInv, MainType, MainPoint, ReadPosition
  <2>2. Storing'
    BY <1>9, Lengths DEF TypeInv, MainType, ConfType, Storing, At, ReadPosition,
        MainOnly
  <2>3. Transmitting'
    BY <1>9, Lengths DEF TypeInv, MainType, ConfType, ReceiveType, Transmitting,
        Asked, Publishing, At, ReadPosition, MainOnly
  <2>. QED
    BY <1>9, <2>1, <2>2, <2>3, Kept DEF TypeInv, ReadPosition, MainOnly
<1>10. CASE WritePosition
  <2>1. ConfType'
    <3>1. main.pos \in 0..BufferLen - 1
      BY DEF TypeInv, MainType
    <3>. QED
      BY <1>10, <3>1 DEF TypeInv, ConfType, WritePosition
  <2>2. MainType'
    <3>1. 0 \in 0..BufferLen - 1
      BY Lengths
    <3>. QED
      BY <1>10, <3>1 DEF TypeInv, MainType, MainPoint, WritePosition
  <2>3. Storing'
    BY <1>10, Lengths DEF TypeInv, MainType, ConfType, Storing, At, WritePosition,
        ConfOnly
  <2>4. Transmitting'
    BY <1>10, Lengths DEF TypeInv, MainType, ConfType, ReceiveType, Transmitting,
        Asked, Publishing, At, WritePosition, ConfOnly
  <2>. QED
    BY <1>10, <2>1, <2>2, <2>3, <2>4, Kept DEF TypeInv, WritePosition, ConfOnly
<1>. QED
  BY <1>1, <1>2, <1>3, <1>4, <1>5, <1>6, <1>7, <1>8, <1>9, <1>10

\* ... those that look at the receive buffer
LEMMA PacketsTyped ==
    ASSUME TypeInv,
           \/ StartUpdate \/ CheckHeader \/ ReadLength \/ CopyData
           \/ CheckSum \/ ReadChecksum \/ Receiving \/ Addressed \/ EndReception
           \/ GivePacket
    PROVE  TypeInv'
<1>1. CASE StartUpdate
  <2>1. MainType'
    BY <1>1, ByteTypes, Lengths DEF TypeInv, MainType, MainPoint, StartUpdate, Test,
        Goto, MainOnly
  <2>2. Storing'
    BY <1>1, Lengths DEF TypeInv, MainType, ConfType, Storing, At, StartUpdate, Test,
        Goto, MainOnly
  <2>3. Transmitting'
    BY <1>1, Lengths DEF TypeInv, MainType, ConfType, ReceiveType, Transmitting,
        Asked, Publishing, At, StartUpdate, Test, Goto, MainOnly
  <2>. QED
    BY <1>1, <2>1, <2>2, <2>3, Kept DEF TypeInv, StartUpdate, Test, MainOnly
<1>2. CASE CheckHeader
  <2>1. MainType'
    BY <1>2, ByteTypes, Lengths DEF TypeInv, MainType, MainPoint, CheckHeader, Test,
        Goto, MainOnly
  <2>2. Storing'
    BY <1>2, Lengths DEF TypeInv, MainType, ConfType, Storing, At, CheckHeader, Test,
        Goto, MainOnly
  <2>3. Transmitting'
    BY <1>2, Lengths DEF TypeInv, MainType, ConfType, ReceiveType, Transmitting,
        Asked, Publishing, At, CheckHeader, Test, Goto, MainOnly
  <2>. QED
    BY <1>2, <2>1, <2>2, <2>3, Kept DEF TypeInv, CheckHeader, Test, MainOnly
<1>3. CASE ReadLength
  <2>1. MainType'
    <3>1. conf.rx_buffer[1] \in BytesOf(Heard)
      BY Lengths DEF TypeInv, ConfType
    <3>2. <<conf.rx_buffer[1]>> \in Seq(BytesOf(Heard) \cup BytesOf(Pinged))
      BY <3>1
    <3>. QED
      BY <1>3, <3>2 DEF TypeInv, MainType, MainPoint, ReadLength
  <2>2. Storing'
    BY <1>3, Lengths DEF TypeInv, MainType, ConfType, Storing, At, ReadLength, MainOnly
  <2>3. Transmitting'
    BY <1>3, Lengths DEF TypeInv, MainType, ConfType, ReceiveType, Transmitting,
        Asked, Publishing, At, ReadLength, MainOnly
  <2>. QED
    BY <1>3, <2>1, <2>2, <2>3, Kept DEF TypeInv, ReadLength, MainOnly
<1>4. CASE CopyData
  <2>1. MainType'
    <3>1. \A i \in 2..FrameBytes - 1 : conf.rx_buffer[i] \in BytesOf(Heard) \cup BytesOf(Pinged)
      BY Lengths DEF TypeInv, ConfType
    <3>2. SubSeq(conf.rx_buffer, 2, FrameBytes - 1) \in Seq(BytesOf(Heard) \cup BytesOf(Pinged))
      BY <3>1, Lengths, SubSeqProperties
    <3>3. main.packet \o SubSeq(conf.rx_buffer, 2, FrameBytes - 1) \in Seq(BytesOf(Heard) \cup BytesOf(Pinged))
      BY <3>2 DEF TypeInv, MainType
    <3>. QED
      BY <1>4, <3>3 DEF TypeInv, MainType, MainPoint, CopyData
  <2>2. Storing'
    BY <1>4, Lengths DEF TypeInv, MainType, ConfType, Storing, At, CopyData, MainOnly
  <2>3. Transmitting'
    BY <1>4, Lengths DEF TypeInv, MainType, ConfType, ReceiveType, Transmitting,
        Asked, Publishing, At, CopyData, MainOnly
  <2>. QED
    BY <1>4, <2>1, <2>2, <2>3, Kept DEF TypeInv, CopyData, MainOnly
<1>5. CASE CheckSum
  <2>1. MainType'
    <3>1. <<>> \in Seq(BytesOf(Heard) \cup BytesOf(Pinged))
      OBVIOUS
    <3>. QED
      BY <1>5, <3>1 DEF TypeInv, MainType, MainPoint, CheckSum
  <2>2. Storing'
    BY <1>5, Lengths DEF TypeInv, MainType, ConfType, Storing, At, CheckSum, MainOnly
  <2>3. Transmitting'
    BY <1>5, Lengths DEF TypeInv, MainType, ConfType, ReceiveType, Transmitting,
        Asked, Publishing, At, CheckSum, MainOnly
  <2>. QED
    BY <1>5, <2>1, <2>2, <2>3, Kept DEF TypeInv, CheckSum, MainOnly
<1>6. CASE Receiving
  <2>1. MainType'
    BY <1>6, ByteTypes, Lengths DEF TypeInv, MainType, MainPoint, Receiving, Test,
        Goto, MainOnly
  <2>2. Storing'
    BY <1>6, Lengths DEF TypeInv, MainType, ConfType, Storing, At, Receiving, Test,
        Goto, MainOnly
  <2>3. Transmitting'
    BY <1>6, Lengths DEF TypeInv, MainType, ConfType, ReceiveType, Transmitting,
        Asked, Publishing, At, Receiving, Test, Goto, MainOnly
  <2>. QED
    BY <1>6, <2>1, <2>2, <2>3, Kept DEF TypeInv, Receiving, Test, MainOnly
<1>7. CASE Addressed
  <2>1. MainType'
    BY <1>7, ByteTypes, Lengths DEF TypeInv, MainType, MainPoint, Addressed, MainOnly
  <2>2. Storing'
    BY <1>7, Lengths DEF TypeInv, MainType, ConfType, Storing, At, Addressed, MainOnly
  <2>3. Transmitting'
    BY <1>7, Lengths DEF TypeInv, MainType, ConfType, ReceiveType, Transmitting,
        Asked, Publishing, At, Addressed, MainOnly
  <2>. QED
    BY <1>7, <2>1, <2>2, <2>3, Kept DEF TypeInv, Addressed, MainOnly
<1>8. CASE EndReception
  <2>1. ConfType'
    BY <1>8, ByteTypes, Lengths DEF TypeInv, ConfType, EndReception, Goto, ConfOnly
  <2>2. MainType'
    BY <1>8, ByteTypes, Lengths DEF TypeInv, MainType, MainPoint, EndReception, Goto,
        ConfOnly
  <2>3. Storing'
    BY <1>8, Lengths DEF TypeInv, MainType, ConfType, Storing, At, EndReception, Goto,
        ConfOnly
  <2>4. Transmitting'
    BY <1>8, Lengths DEF TypeInv, MainType, ConfType, ReceiveType, Transmitting,
        Asked, Publishing, At, EndReception, Goto, ConfOnly
  <2>. QED
    BY <1>8, <2>1, <2>2, <2>3, <2>4, Kept DEF TypeInv, EndReception, ConfOnly
<1>9. CASE GivePacket
  <2>1. ConfType'
    <3>1. conf' = [conf EXCEPT !.rx_buffer = Flushed, !.rx_buf_pos = 0]
      BY <1>9 DEF GivePacket, Flush
    <3>2. 0 \in 0..BufferLen - 1
      BY Lengths
    <3>. QED
      BY <3>1, <3>2, ByteTypes DEF TypeInv, ConfType
  <2>2. MainType'
    <3>1. <<>> \in Seq(BytesOf(Heard) \cup BytesOf(Pinged))
      OBVIOUS
    <3>. QED
      BY <1>9, <3>1 DEF TypeInv, MainType, MainPoint, GivePacket
  <2>3. Storing'
    BY <1>9, Lengths DEF TypeInv, MainType, ConfType, Storing, At, GivePacket, Flush,
        ConfOnly
  <2>4. Transmitting'
    BY <1>9, Lengths DEF TypeInv, MainType, ConfType, ReceiveType, Transmitting,
        Asked, Publishing, At, GivePacket, Flush, ConfOnly
  <2>. QED
    BY <1>9, <2>1, <2>2, <2>3, <2>4, Kept DEF TypeInv, GivePacket, ConfOnly
<1>10. CASE ReadChecksum
  <2>1. MainType'
    <3>1. conf.rx_buffer[FrameBytes] \in BytesOf(Heard)
      BY Lengths DEF TypeInv, ConfType
    <3>2. Append(main.packet, conf.rx_buffer[FrameBytes]) \in Seq(BytesOf(Heard) \cup BytesOf(Pinged))
      BY <3>1, AppendProperties DEF TypeInv, MainType
    <3>. QED
      BY <1>10, <3>2 DEF TypeInv, MainType, MainPoint, ReadChecksum
  <2>2. Storing'
    BY <1>10, Lengths DEF TypeInv, MainType, ConfType, Storing, At, ReadChecksum, MainOnly
  <2>3. Transmitting'
    BY <1>10, Lengths DEF TypeInv, MainType, ConfType, ReceiveType, Transmitting,
        Asked, Publishing, At, ReadChecksum, MainOnly
  <2>. QED
    BY <1>10, <2>1, <2>2, <2>3, Kept DEF TypeInv, ReadChecksum, MainOnly
<1>. QED
  BY <1>1, <1>2, <1>3, <1>4, <1>5, <1>6, <1>7, <1>8, <1>9, <1>10

\* ... those that ask for the line and get it
LEMMA AccessTyped ==
    ASSUME TypeInv,
           \/ ClearAccess \/ Spin \/ RoleTest \/ AnyToSend \/ LineTest \/ Ask
           \/ PollEnds \/ PollTimesOut \/ GrantTest \/ BecomeSender
           \/ BytesOut
    PROVE  TypeInv'
<1>1. CASE ClearAccess
  <2>1. GType'
    BY <1>1, ByteTypes, Lengths DEF TypeInv, GType, ClearAccess, Goto, Publishes
  <2>2. MainType'
    BY <1>1, ByteTypes, Lengths DEF TypeInv, MainType, MainPoint, ClearAccess, Goto,
        Publishes
  <2>3. BusType'
    <3>1. bus.texts \o <<"INACTIVE">> \in Seq({"ACTIVE", "INACTIVE"})
      BY DEF TypeInv, BusType
    <3>2. bus' = [bus EXCEPT !.texts = bus.texts \o <<"INACTIVE">>, !.unconfirmed = bus.unconfirmed + 1]
      BY <1>1 DEF ClearAccess, Publishes
    <3>3. bus.unconfirmed + 1 \in Int
      BY DEF TypeInv, BusType
    <3>4. \E t \in Seq({"ACTIVE", "INACTIVE"}), k \in Int :
             bus' = [bus EXCEPT !.texts = t, !.unconfirmed = k]
      BY <3>1, <3>2, <3>3
    <3>. QED
      BY <3>4 DEF TypeInv, BusType
  <2>4. Storing'
    BY <1>1, Lengths DEF TypeInv, MainType, ConfType, Storing, At, ClearAccess, Goto,
        Publishes
  <2>5. Transmitting'
    BY <1>1, Lengths DEF TypeInv, MainType, ConfType, ReceiveType, Transmitting,
        Asked, Publishing, At, ClearAccess, Goto, Publishes
  <2>. QED
    BY <1>1, <2>1, <2>2, <2>3, <2>4, <2>5, Kept DEF TypeInv, ClearAccess, Publishes
<1>2. CASE Spin
  <2>1. MainType'
    BY <1>2, ByteTypes, Lengths DEF TypeInv, MainType, MainPoint, Spin, MainOnly
  <2>2. Storing'
    BY <1>2, Lengths DEF TypeInv, MainType, ConfType, Storing, At, Spin, MainOnly
  <2>3. Transmitting'
    BY <1>2, Lengths DEF TypeInv, MainType, ConfType, ReceiveType, Transmitting,
        Asked, Publishing, At, Spin, MainOnly
  <2>. QED
    BY <1>2, <2>1, <2>2, <2>3, Kept DEF TypeInv, Spin, MainOnly
<1>3. CASE RoleTest
  <2>1. MainType'
    BY <1>3, ByteTypes, Lengths DEF TypeInv, MainType, MainPoint, RoleTest, Test,
        Goto, MainOnly
  <2>2. Storing'
    BY <1>3, Lengths DEF TypeInv, MainType, ConfType, Storing, At, RoleTest, Test,
        Goto, MainOnly
  <2>3. Transmitting'
    BY <1>3, Lengths DEF TypeInv, MainType, ConfType, ReceiveType, Transmitting,
        Asked, Publishing, At, RoleTest, Test, Goto, MainOnly
  <2>. QED
    BY <1>3, <2>1, <2>2, <2>3, Kept DEF TypeInv, RoleTest, Test, MainOnly
<1>4. CASE AnyToSend
  <2>1. MainType'
    BY <1>4, ByteTypes, Lengths DEF TypeInv, MainType, MainPoint, AnyToSend, Test,
        Goto, MainOnly
  <2>2. Storing'
    BY <1>4, Lengths DEF TypeInv, MainType, ConfType, Storing, At, AnyToSend, Test,
        Goto, MainOnly
  <2>3. Transmitting'
    BY <1>4, Lengths DEF TypeInv, MainType, ConfType, ReceiveType, Transmitting,
        Asked, Publishing, At, AnyToSend, Test, Goto, MainOnly
  <2>. QED
    BY <1>4, <2>1, <2>2, <2>3, Kept DEF TypeInv, AnyToSend, Test, MainOnly
<1>5. CASE LineTest
  <2>1. MainType'
    BY <1>5, ByteTypes, Lengths DEF TypeInv, MainType, MainPoint, LineTest, Test,
        Goto, MainOnly
  <2>2. Storing'
    BY <1>5, Lengths DEF TypeInv, MainType, ConfType, Storing, At, LineTest, Test,
        Goto, MainOnly
  <2>3. Transmitting'
    BY <1>5, Lengths DEF TypeInv, MainType, ConfType, ReceiveType, Transmitting,
        Asked, Publishing, At, LineTest, Test, Goto, MainOnly
  <2>. QED
    BY <1>5, <2>1, <2>2, <2>3, Kept DEF TypeInv, LineTest, Test, MainOnly
<1>6. CASE Ask
  <2>1. GType'
    BY <1>6, ByteTypes, Lengths DEF TypeInv, GType, Ask, Goto, Publishes
  <2>2. MainType'
    BY <1>6, ByteTypes, Lengths DEF TypeInv, MainType, MainPoint, Ask, Goto, Publishes
  <2>3. BusType'
    <3>1. bus.texts \o <<"ACTIVE">> \in Seq({"ACTIVE", "INACTIVE"})
      BY DEF TypeInv, BusType
    <3>2. bus' = [bus EXCEPT !.texts = bus.texts \o <<"ACTIVE">>, !.unconfirmed = bus.unconfirmed + 1]
      BY <1>6 DEF Ask, Publishes
    <3>3. bus.unconfirmed + 1 \in Int
      BY DEF TypeInv, BusType
    <3>4. \E t \in Seq({"ACTIVE", "INACTIVE"}), k \in Int :
             bus' = [bus EXCEPT !.texts = t, !.unconfirmed = k]
      BY <3>1, <3>2, <3>3
    <3>. QED
      BY <3>4 DEF TypeInv, BusType
  <2>4. Storing'
    BY <1>6, Lengths DEF TypeInv, MainType, ConfType, Storing, At, Ask, Goto, Publishes
  <2>5. Transmitting'
    BY <1>6, Lengths DEF TypeInv, MainType, ConfType, ReceiveType, Transmitting,
        Asked, Publishing, At, Ask, Goto, Publishes
  <2>. QED
    BY <1>6, <2>1, <2>2, <2>3, <2>4, <2>5, Kept DEF TypeInv, Ask, Publishes
<1>7. CASE PollEnds
  <2>1. MainType'
    BY <1>7, ByteTypes, Lengths DEF TypeInv, MainType, MainPoint, PollEnds, Goto,
        MainOnly
  <2>2. Storing'
    BY <1>7, Lengths DEF TypeInv, MainType, ConfType, Storing, At, PollEnds, Goto,
        MainOnly
  <2>3. Transmitting'
    BY <1>7, Lengths DEF TypeInv, MainType, ConfType, ReceiveType, Transmitting,
        Asked, Publishing, At, PollEnds, Goto, MainOnly
  <2>. QED
    BY <1>7, <2>1, <2>2, <2>3, Kept DEF TypeInv, PollEnds, MainOnly
<1>8. CASE PollTimesOut
  <2>1. MainType'
    BY <1>8, ByteTypes, Lengths DEF TypeInv, MainType, MainPoint, PollTimesOut, Goto,
        MainOnly
  <2>2. Storing'
    BY <1>8, Lengths DEF TypeInv, MainType, ConfType, Storing, At, PollTimesOut, Goto,
        MainOnly
  <2>3. Transmitting'
    BY <1>8, Lengths DEF TypeInv, MainType, ConfType, ReceiveType, Transmitting,
        Asked, Publishing, At, PollTimesOut, Goto, MainOnly
  <2>. QED
    BY <1>8, <2>1, <2>2, <2>3, Kept DEF TypeInv, PollTimesOut, MainOnly
<1>9. CASE GrantTest
  <2>1. MainType'
    BY <1>9, ByteTypes, Lengths DEF TypeInv, MainType, MainPoint, GrantTest, Test, Goto
  <2>2. SeenType'
    BY <1>9, ByteTypes, Lengths DEF TypeInv, SeenType, GrantTest, Test, Goto
  <2>3. Storing'
    BY <1>9, Lengths DEF TypeInv, MainType, ConfType, Storing, At, GrantTest, Test, Goto
  <2>4. Transmitting'
    BY <1>9, Lengths DEF TypeInv, MainType, ConfType, ReceiveType, Transmitting,
        Asked, Publishing, At, GrantTest, Test, Goto
  <2>. QED
    BY <1>9, <2>1, <2>2, <2>3, <2>4, Kept DEF TypeInv, GrantTest, Test
<1>10. CASE BecomeSender
  <2>1. ConfType'
    BY <1>10, ByteTypes, Lengths DEF TypeInv, ConfType, BecomeSender, Goto, ConfOnly
  <2>2. MainType'
    BY <1>10, ByteTypes, Lengths DEF TypeInv, MainType, MainPoint, BecomeSender, Goto,
        ConfOnly
  <2>3. Storing'
    BY <1>10, Lengths DEF TypeInv, MainType, ConfType, Storing, At, BecomeSender,
        Goto, ConfOnly
  <2>4. Transmitting'
    BY <1>10, Lengths DEF TypeInv, MainType, ConfType, ReceiveType, Transmitting,
        Asked, Publishing, At, BecomeSender, Goto, ConfOnly
  <2>. QED
    BY <1>10, <2>1, <2>2, <2>3, <2>4, Kept DEF TypeInv, BecomeSender, ConfOnly
<1>11. CASE BytesOut
  <2>1. MainType'
    <3>1. /\ conf.tx_buf_end - conf.tx_buf_start + 1 \in 0..FrameBytes
          /\ conf.tx_buf_start \in 0..BufferLen - 1
      BY <1>11, Lengths DEF TypeInv, ConfType, Transmitting, Asked, BytesOut, At
    <3>. QED
      BY <1>11, <3>1 DEF TypeInv, MainType, MainPoint, BytesOut
  <2>2. Storing'
    BY <1>11, Lengths DEF TypeInv, MainType, ConfType, Storing, At, BytesOut, MainOnly
  <2>3. Transmitting'
    BY <1>11, Lengths DEF TypeInv, MainType, ConfType, ReceiveType, Transmitting,
        Asked, Publishing, At, BytesOut, MainOnly
  <2>. QED
    BY <1>11, <2>1, <2>2, <2>3, Kept DEF TypeInv, BytesOut, MainOnly
<1>. QED
  BY <1>1, <1>2, <1>3, <1>4, <1>5, <1>6, <1>7, <1>8, <1>9, <1>10, <1>11

\* ... and those that send, wait and start anew
LEMMA SendingTyped ==
    ASSUME TypeInv,
           \/ PublishBytes \/ Confirmed \/ BytesOutFinished \/ EndBroadcast
           \/ AdvanceTx \/ CountUpdate \/ Expire \/ EndUpdate \/ ResetTest
    PROVE  TypeInv'
<1>1. CASE PublishBytes
  <2>1. GType'
    BY <1>1, ByteTypes, Lengths DEF TypeInv, GType, PublishBytes, Publishes
  <2>2. MainType'
    <3>1. /\ main.pos \in Nat /\ main.n \in Nat
          /\ \A i \in main.pos + 1..main.pos + main.n : i \in 1..BufferLen
      BY <1>1, Lengths DEF TypeInv, MainType, Transmitting, Publishing, PublishBytes, At
    <3>2. \A i \in main.pos + 1..main.pos + main.n : conf.tx_buffer[i] \in BytesOf(Heard) \cup BytesOf(Pinged)
      BY <3>1 DEF TypeInv, ConfType
    <3>3. SubSeq(conf.tx_buffer, main.pos + 1, main.pos + main.n) \in Seq(BytesOf(Heard) \cup BytesOf(Pinged))
      BY <3>1, <3>2, SubSeqProperties
    <3>. QED
      BY <1>1, <3>3 DEF TypeInv, MainType, MainPoint, PublishBytes
  <2>3. BusType'
    <3>1. bus.texts \o <<>> \in Seq({"ACTIVE", "INACTIVE"})
      BY DEF TypeInv, BusType
    <3>2. bus' = [bus EXCEPT !.texts = bus.texts \o <<>>, !.unconfirmed = bus.unconfirmed + 1]
      BY <1>1 DEF PublishBytes, Publishes
    <3>3. bus.unconfirmed + 1 \in Int
      BY DEF TypeInv, BusType
    <3>4. \E t \in Seq({"ACTIVE", "INACTIVE"}), k \in Int :
             bus' = [bus EXCEPT !.texts = t, !.unconfirmed = k]
      BY <3>1, <3>2, <3>3
    <3>. QED
      BY <3>4 DEF TypeInv, BusType
  <2>4. Storing'
    BY <1>1, Lengths DEF TypeInv, MainType, ConfType, Storing, At, PublishBytes,
        Publishes
  <2>5. Transmitting'
    BY <1>1, Lengths DEF TypeInv, MainType, ConfType, ReceiveType, Transmitting,
        Asked, Publishing, At, PublishBytes, Publishes
  <2>. QED
    BY <1>1, <2>1, <2>2, <2>3, <2>4, <2>5, Kept DEF TypeInv, PublishBytes, Publishes
<1>2. CASE Confirmed
  <2>1. MainType'
    BY <1>2, ByteTypes, Lengths DEF TypeInv, MainType, MainPoint, Confirmed, Goto,
        MainOnly
  <2>2. Storing'
    BY <1>2, Lengths DEF TypeInv, MainType, ConfType, Storing, At, Confirmed, Goto,
        MainOnly
  <2>3. Transmitting'
    BY <1>2, Lengths DEF TypeInv, MainType, ConfType, ReceiveType, Transmitting,
        Asked, Publishing, At, Confirmed, Goto, MainOnly
  <2>. QED
    BY <1>2, <2>1, <2>2, <2>3, Kept DEF TypeInv, Confirmed, MainOnly
<1>3. CASE BytesOutFinished
  <2>1. ConfType'
    <3>1. \/ /\ main' = [main EXCEPT !.packet = <<>>, !.at = "clear", !.back = "unsend"]
             /\ conf' = conf
          \/ /\ main' = [main EXCEPT !.packet = <<>>, !.at = "advanceTx"]
             /\ conf' = [conf EXCEPT !.waiting_for_ack = TRUE]
      BY <1>3 DEF BytesOutFinished
    <3>. QED
      BY <3>1 DEF TypeInv, ConfType
  <2>2. MainType'
    <3>1. \/ /\ main' = [main EXCEPT !.packet = <<>>, !.at = "clear", !.back = "unsend"]
             /\ conf' = conf
          \/ /\ main' = [main EXCEPT !.packet = <<>>, !.at = "advanceTx"]
             /\ conf' = [conf EXCEPT !.waiting_for_ack = TRUE]
      BY <1>3 DEF BytesOutFinished
    <3>2. <<>> \in Seq(BytesOf(Heard) \cup BytesOf(Pinged))
      OBVIOUS
    <3>. QED
      BY <3>1, <3>2 DEF TypeInv, MainType, MainPoint
  <2>3. Storing'
    BY <1>3, Lengths DEF TypeInv, MainType, ConfType, Storing, At, BytesOutFinished,
        ConfOnly
  <2>4. Transmitting'
    <3>1. \/ /\ main' = [main EXCEPT !.packet = <<>>, !.at = "clear", !.back = "unsend"]
             /\ conf' = conf
          \/ /\ main' = [main EXCEPT !.packet = <<>>, !.at = "advanceTx"]
             /\ conf' = [conf EXCEPT !.waiting_for_ack = TRUE]
      BY <1>3 DEF BytesOutFinished
    <3>2. /\ ~Asked' /\ main'.pos = main.pos /\ main'.n = main.n
          /\ conf'.tx_buf_start = conf.tx_buf_start /\ conf'.tx_buf_end = conf.tx_buf_end
      BY <3>1 DEF TypeInv, MainType, ConfType, Asked
    <3>3. Publishing /\ receive' = receive
      BY <1>3 DEF BytesOutFinished, At, Publishing, ConfOnly
    <3>. QED
      BY <3>2, <3>3 DEF TypeInv, Transmitting
  <2>. QED
    BY <1>3, <2>1, <2>2, <2>3, <2>4, Kept DEF TypeInv, BytesOutFinished, ConfOnly
<1>4. CASE EndBroadcast
  <2>1. ConfType'
    BY <1>4, ByteTypes, Lengths DEF TypeInv, ConfType, EndBroadcast, Goto, ConfOnly
  <2>2. MainType'
    BY <1>4, ByteTypes, Lengths DEF TypeInv, MainType, MainPoint, EndBroadcast, Goto,
        ConfOnly
  <2>3. Storing'
    BY <1>4, Lengths DEF TypeInv, MainType, ConfType, Storing, At, EndBroadcast, Goto,
        ConfOnly
  <2>4. Transmitting'
    BY <1>4, Lengths DEF TypeInv, MainType, ConfType, ReceiveType, Transmitting,
        Asked, Publishing, At, EndBroadcast, Goto, ConfOnly
  <2>. QED
    BY <1>4, <2>1, <2>2, <2>3, <2>4, Kept DEF TypeInv, EndBroadcast, ConfOnly
<1>5. CASE AdvanceTx
  <2>1. ConfType'
    <3>1. main.pos + main.n \in 0..FrameBytes /\ conf.tx_buf_start + main.n \in 0..FrameBytes
      BY <1>5, Lengths DEF TypeInv, MainType, ConfType, Transmitting, Publishing,
          AdvanceTx, At
    <3>2. \E k \in 0..FrameBytes : conf' = [conf EXCEPT !.tx_buf_start = k]
      BY <1>5, <3>1 DEF AdvanceTx
    <3>. QED
      BY <3>2 DEF TypeInv, ConfType
  <2>2. MainType'
    <3>1. 0 \in 0..BufferLen - 1 /\ 0 \in 0..FrameBytes
      BY Lengths
    <3>. QED
      BY <1>5, <3>1 DEF TypeInv, MainType, MainPoint, AdvanceTx
  <2>3. Storing'
    BY <1>5, Lengths DEF TypeInv, MainType, ConfType, Storing, At, AdvanceTx, ConfOnly
  <2>4. Transmitting'
    BY <1>5, Lengths DEF TypeInv, MainType, ConfType, ReceiveType, Transmitting,
        Asked, Publishing, At, AdvanceTx, ConfOnly
  <2>. QED
    BY <1>5, <2>1, <2>2, <2>3, <2>4, Kept DEF TypeInv, AdvanceTx, ConfOnly
<1>6. CASE CountUpdate
  <2>1. ConfType'
    <3>1. 0 \in 0..AckLimit /\ (~(AckLimit <= conf.ack_count) => conf.ack_count + 1 \in 0..AckLimit)
      BY Lengths DEF TypeInv, ConfType
    <3>2. CASE UNCHANGED conf
      BY <3>2, Kept DEF TypeInv
    <3>3. CASE \E k \in 0..AckLimit : conf' = [conf EXCEPT !.ack_count = k]
      BY <3>3 DEF TypeInv, ConfType
    <3>. QED
      BY <1>6, <3>1, <3>2, <3>3 DEF CountUpdate
  <2>2. MainType'
    BY <1>6, ByteTypes, Lengths, SMTT(20) DEF TypeInv, MainType, MainPoint,
        CountUpdate, Goto, ConfOnly
  <2>3. Storing'
    BY <1>6, Lengths DEF TypeInv, MainType, ConfType, Storing, At, CountUpdate, Goto,
        ConfOnly
  <2>4. Transmitting'
    BY <1>6, Lengths, SMTT(20) DEF TypeInv, MainType, ConfType, ReceiveType,
        Transmitting, Asked, Publishing, At, CountUpdate, Goto, ConfOnly
  <2>. QED
    BY <1>6, <2>1, <2>2, <2>3, <2>4, Kept DEF TypeInv, CountUpdate, ConfOnly
<1>7. CASE Expire
  <2>1. ConfType'
    BY <1>7, ByteTypes, Lengths DEF TypeInv, ConfType, Expire, ConfOnly
  <2>2. MainType'
    BY <1>7, ByteTypes, Lengths DEF TypeInv, MainType, MainPoint, Expire, ConfOnly
  <2>3. Storing'
    BY <1>7, Lengths DEF TypeInv, MainType, ConfType, Storing, At, Expire, ConfOnly
  <2>4. Transmitting'
    BY <1>7, Lengths DEF TypeInv, MainType, ConfType, ReceiveType, Transmitting,
        Asked, Publishing, At, Expire, ConfOnly
  <2>. QED
    BY <1>7, <2>1, <2>2, <2>3, <2>4, Kept DEF TypeInv, Expire, ConfOnly
<1>8. CASE EndUpdate
  <2>1. GType'
    BY <1>8, ByteTypes, Lengths DEF TypeInv, GType, EndUpdate, Goto
  <2>2. MainType'
    BY <1>8, ByteTypes, Lengths DEF TypeInv, MainType, MainPoint, EndUpdate, Goto
  <2>3. Storing'
    BY <1>8, Lengths DEF TypeInv, MainType, ConfType, Storing, At, EndUpdate, Goto
  <2>4. Transmitting'
    BY <1>8, Lengths DEF TypeInv, MainType, ConfType, ReceiveType, Transmitting,
        Asked, Publishing, At, EndUpdate, Goto
  <2>. QED
    BY <1>8, <2>1, <2>2, <2>3, <2>4, Kept DEF TypeInv, EndUpdate
<1>9. CASE ResetTest
  <2>1. GType'
    BY <1>9, ByteTypes, Lengths DEF TypeInv, GType, ResetTest, Test, Goto, Flush
  <2>2. ConfType'
    <3>1. CASE UNCHANGED conf
      BY <3>1, Kept DEF TypeInv
    <3>2. CASE ~UNCHANGED conf
      <4>1. conf' = [conf EXCEPT !.rx_buffer = Flushed, !.rx_buf_pos = 0,
                        !.role = "NO_ROLE", !.destination_received = FALSE,
                        !.waiting_for_ack = FALSE, !.listen_to_all = FALSE,
                        !.tx_buffer = Flushed, !.tx_buf_start = 0, !.tx_buf_end = 0]
        BY <1>9, <3>2 DEF ResetTest, Flush
      <4>2. /\ 0 \in 0..BufferLen - 1 /\ 0 \in 0..FrameBytes /\ 0 \in 0..FrameBytes - 1
            /\ FALSE \in Listens
        BY Lengths DEF Listens
      <4>. QED
        BY <4>1, <4>2, ByteTypes DEF TypeInv, ConfType
    <3>. QED
      BY <3>1, <3>2
  <2>3. MainType'
    BY <1>9, ByteTypes, Lengths DEF TypeInv, MainType, MainPoint, ResetTest, Test,
        Goto, Flush
  <2>4. SeenType'
    BY <1>9, ByteTypes, Lengths DEF TypeInv, SeenType, ResetTest, Test, Goto, Flush
  <2>5. Storing'
    BY <1>9, Lengths DEF TypeInv, MainType, ConfType, Storing, At, ResetTest, Test,
        Goto, Flush
  <2>6. Transmitting'
    BY <1>9, Lengths DEF TypeInv, MainType, ConfType, ReceiveType, Transmitting,
        Asked, Publishing, At, ResetTest, Test, Goto, Flush
  <2>. QED
    BY <1>9, <2>1, <2>2, <2>3, <2>4, <2>5, <2>6, Kept DEF TypeInv, ResetTest, Test
<1>. QED
  BY <1>1, <1>2, <1>3, <1>4, <1>5, <1>6, <1>7, <1>8, <1>9

\* The steps of the receive thread and of the library keep the types
LEMMA MessagesTyped ==
    ASSUME TypeInv,
           \/ Granted \/ GrantNoticed \/ OtherActive \/ NotifyActive
           \/ ForgetDestination \/ Released \/ OtherInactive
           \/ NotifyInactive \/ AckReceived \/ FlushCancelled \/ LineFree
           \/ WritePayload \/ FlagBytes \/ WriteTx \/ EndTx \/ UpdateCommand
           \/ StopUpdateCommand \/ ResetCommand \/ OnSend
    PROVE  TypeInv'
<1>1. CASE Granted
  <2>1. GType'
    BY <1>1, ByteTypes, Lengths DEF TypeInv, GType, Granted, Handling, HeadIs, Turn
  <2>2. ReceiveType'
    BY <1>1, ByteTypes, Lengths DEF TypeInv, ReceiveType, ReceivePoint, Granted,
        Handling, HeadIs, Turn
  <2>3. BusType'
    <3>1. Tail(bus.texts) \in Seq({"ACTIVE", "INACTIVE"})
      BY <1>1 DEF TypeInv, BusType, Granted, HeadIs
    <3>2. \E l \in {"free", "node", "other"} :
             bus' = [bus EXCEPT !.texts = Tail(bus.texts), !.line = l]
      BY <1>1 DEF TypeInv, BusType, Granted, HeadIs
    <3>. QED
      BY <3>1, <3>2 DEF TypeInv, BusType
  <2>4. Transmitting'
    BY <1>1, Lengths DEF TypeInv, MainType, ConfType, ReceiveType, Transmitting,
        Asked, Publishing, At, Granted, Handling, HeadIs, Turn
  <2>. QED
    BY <1>1, <2>1, <2>2, <2>3, <2>4, Kept DEF TypeInv, Granted
<1>2. CASE GrantNoticed
  <2>1. GType'
    BY <1>2, ByteTypes, Lengths DEF TypeInv, GType, GrantNoticed, Handling, Turn,
        ReceiveOnly
  <2>2. ReceiveType'
    BY <1>2, ByteTypes, Lengths DEF TypeInv, ReceiveType, ReceivePoint, GrantNoticed,
        Handling, Turn, ReceiveOnly
  <2>3. Transmitting'
    BY <1>2, Lengths DEF TypeInv, MainType, ConfType, ReceiveType, Transmitting,
        Asked, Publishing, At, GrantNoticed, Handling, Turn, ReceiveOnly
  <2>. QED
    BY <1>2, <2>1, <2>2, <2>3, Kept DEF TypeInv, GrantNoticed, ReceiveOnly
<1>3. CASE OtherActive
  <2>1. GType'
    BY <1>3, ByteTypes, Lengths DEF TypeInv, GType, OtherActive, Handling, Turn
  <2>2. ReceiveType'
    BY <1>3, ByteTypes, Lengths DEF TypeInv, ReceiveType, ReceivePoint, OtherActive,
        Handling, Turn
  <2>3. BusType'
    BY <1>3, ByteTypes, Lengths DEF TypeInv, BusType, OtherActive, Handling, Turn
  <2>4. Transmitting'
    BY <1>3, Lengths DEF TypeInv, MainType, ConfType, ReceiveType, Transmitting,
        Asked, Publishing, At, OtherActive, Handling, Turn
  <2>. QED
    BY <1>3, <2>1, <2>2, <2>3, <2>4, Kept DEF TypeInv, OtherActive
<1>4. CASE NotifyActive
  <2>1. ConfType'
    BY <1>4, ByteTypes, Lengths DEF TypeInv, ConfType, NotifyActive, Handling, Turn,
        ReceiveOnly
  <2>2. ReceiveType'
    BY <1>4, ByteTypes, Lengths DEF TypeInv, ReceiveType, ReceivePoint, NotifyActive,
        Handling, Turn, ReceiveOnly
  <2>3. Storing'
    BY <1>4, Lengths DEF TypeInv, MainType, ConfType, Storing, At, NotifyActive,
        Handling, Turn, ReceiveOnly
  <2>4. Transmitting'
    BY <1>4, Lengths DEF TypeInv, MainType, ConfType, ReceiveType, Transmitting,
        Asked, Publishing, At, NotifyActive, Handling, Turn, ReceiveOnly
  <2>. QED
    BY <1>4, <2>1, <2>2, <2>3, <2>4, Kept DEF TypeInv, NotifyActive, ReceiveOnly
<1>5. CASE ForgetDestination
  <2>1. ConfType'
    BY <1>5, ByteTypes, Lengths DEF TypeInv, ConfType, ForgetDestination, Handling,
        Turn, ReceiveOnly
  <2>2. ReceiveType'
    BY <1>5, ByteTypes, Lengths DEF TypeInv, ReceiveType, ReceivePoint,
        ForgetDestination, Handling, Turn, ReceiveOnly
  <2>3. Storing'
    BY <1>5, Lengths DEF TypeInv, MainType, ConfType, Storing, At, ForgetDestination,
        Handling, Turn, ReceiveOnly
  <2>4. Transmitting'
    BY <1>5, Lengths DEF TypeInv, MainType, ConfType, ReceiveType, Transmitting,
        Asked, Publishing, At, ForgetDestination, Handling, Turn, ReceiveOnly
  <2>. QED
    BY <1>5, <2>1, <2>2, <2>3, <2>4, Kept DEF TypeInv, ForgetDestination, ReceiveOnly
<1>6. CASE Released
  <2>1. GType'
    BY <1>6, ByteTypes, Lengths DEF TypeInv, GType, Released, HeadIs, Inactive,
        Handling, Turn
  <2>2. ReceiveType'
    BY <1>6, ByteTypes, Lengths DEF TypeInv, ReceiveType, ReceivePoint, Released,
        HeadIs, Inactive, Handling, Turn
  <2>3. BusType'
    <3>1. Tail(bus.texts) \in Seq({"ACTIVE", "INACTIVE"})
      BY <1>6 DEF TypeInv, BusType, Released, HeadIs
    <3>2. \E l \in {"free", "node", "other"} :
             bus' = [bus EXCEPT !.texts = Tail(bus.texts), !.line = l]
      BY <1>6 DEF TypeInv, BusType, Released, HeadIs, Inactive
    <3>. QED
      BY <3>1, <3>2 DEF TypeInv, BusType
  <2>4. Transmitting'
    BY <1>6, Lengths DEF TypeInv, MainType, ConfType, ReceiveType, Transmitting,
        Asked, Publishing, At, Released, HeadIs, Inactive, Handling, Turn
  <2>. QED
    BY <1>6, <2>1, <2>2, <2>3, <2>4, Kept DEF TypeInv, Released, Inactive
<1>7. CASE OtherInactive
  <2>1. GType'
    BY <1>7, ByteTypes, Lengths DEF TypeInv, GType, OtherInactive, Inactive, Handling,
        Turn
  <2>2. ReceiveType'
    BY <1>7, ByteTypes, Lengths DEF TypeInv, ReceiveType, ReceivePoint, OtherInactive,
        Inactive, Handling, Turn
  <2>3. BusType'
    BY <1>7, ByteTypes, Lengths DEF TypeInv, BusType, OtherInactive, Inactive,
        Handling, Turn
  <2>4. Transmitting'
    BY <1>7, Lengths DEF TypeInv, MainType, ConfType, ReceiveType, Transmitting,
        Asked, Publishing, At, OtherInactive, Inactive, Handling, Turn
  <2>. QED
    BY <1>7, <2>1, <2>2, <2>3, <2>4, Kept DEF TypeInv, OtherInactive, Inactive
<1>8. CASE NotifyInactive
  <2>1. ConfType'
    BY <1>8, ByteTypes, Lengths DEF TypeInv, ConfType, NotifyInactive, Handling, Turn,
        ReceiveOnly
  <2>2. ReceiveType'
    BY <1>8, ByteTypes, Lengths DEF TypeInv, ReceiveType, ReceivePoint,
        NotifyInactive, Handling, Turn, ReceiveOnly
  <2>3. Storing'
    BY <1>8, Lengths DEF TypeInv, MainType, ConfType, Storing, At, NotifyInactive,
        Handling, Turn, ReceiveOnly
  <2>4. Transmitting'
    BY <1>8, Lengths DEF TypeInv, MainType, ConfType, ReceiveType, Transmitting,
        Asked, Publishing, At, NotifyInactive, Handling, Turn, ReceiveOnly
  <2>. QED
    BY <1>8, <2>1, <2>2, <2>3, <2>4, Kept DEF TypeInv, NotifyInactive, ReceiveOnly
<1>9. CASE AckReceived
  <2>1. ConfType'
    BY <1>9, ByteTypes, Lengths DEF TypeInv, ConfType, AckReceived, Handling, Turn,
        ReceiveOnly
  <2>2. ReceiveType'
    BY <1>9, ByteTypes, Lengths DEF TypeInv, ReceiveType, ReceivePoint, AckReceived,
        Handling, Turn, ReceiveOnly
  <2>3. Storing'
    BY <1>9, Lengths DEF TypeInv, MainType, ConfType, Storing, At, AckReceived,
        Handling, Turn, ReceiveOnly
  <2>4. Transmitting'
    BY <1>9, Lengths DEF TypeInv, MainType, ConfType, ReceiveType, Transmitting,
        Asked, Publishing, At, AckReceived, Handling, Turn, ReceiveOnly
  <2>. QED
    BY <1>9, <2>1, <2>2, <2>3, <2>4, Kept DEF TypeInv, AckReceived, ReceiveOnly
<1>10. CASE FlushCancelled
  <2>1. ConfType'
    <3>1. conf' = [conf EXCEPT !.rx_buffer = Flushed, !.rx_buf_pos = 0]
      BY <1>10 DEF FlushCancelled, Flush
    <3>2. 0 \in 0..BufferLen - 1
      BY Lengths
    <3>. QED
      BY <3>1, <3>2, ByteTypes DEF TypeInv, ConfType
  <2>2. ReceiveType'
    BY <1>10, ByteTypes, Lengths DEF TypeInv, ReceiveType, ReceivePoint,
        FlushCancelled, Handling, Turn, Flush, ReceiveOnly
  <2>3. Storing'
    BY <1>10, Lengths DEF TypeInv, MainType, ConfType, Storing, At, FlushCancelled,
        Handling, Turn, Flush, ReceiveOnly
  <2>4. Transmitting'
    BY <1>10, Lengths DEF TypeInv, MainType, ConfType, ReceiveType, Transmitting,
        Asked, Publishing, At, FlushCancelled, Handling, Turn, Flush, ReceiveOnly
  <2>. QED
    BY <1>10, <2>1, <2>2, <2>3, <2>4, Kept DEF TypeInv, FlushCancelled, ReceiveOnly
<1>11. CASE LineFree
  <2>1. GType'
    BY <1>11, ByteTypes, Lengths DEF TypeInv, GType, LineFree, Handling, Turn,
        ReceiveOnly
  <2>2. ReceiveType'
    BY <1>11, ByteTypes, Lengths DEF TypeInv, ReceiveType, ReceivePoint, LineFree,
        Handling, Turn, ReceiveOnly
  <2>3. Transmitting'
    BY <1>11, Lengths DEF TypeInv, MainType, ConfType, ReceiveType, Transmitting,
        Asked, Publishing, At, LineFree, Handling, Turn, ReceiveOnly
  <2>. QED
    BY <1>11, <2>1, <2>2, <2>3, Kept DEF TypeInv, LineFree, ReceiveOnly
<1>12. CASE WritePayload
  <2>1. GType'
    <3>1. receive.n + 1 \in 1..FrameBytes /\ receive.frame \in Heard
      BY <1>12, Lengths DEF TypeInv, ReceiveType, WritePayload, Handling
    <3>2. Byte(receive.frame, receive.n + 1) \in BytesOf(Heard)
      BY <3>1 DEF BytesOf
    <3>3. g' = [g EXCEPT !.payload_in = [g.payload_in EXCEPT
                   ![receive.n + 1] = Byte(receive.frame, receive.n + 1)]]
      BY <1>12 DEF WritePayload
    <3>4. [g.payload_in EXCEPT ![receive.n + 1] = Byte(receive.frame, receive.n + 1)]
             \in [1..FrameBytes -> BytesOf(Heard)]
      BY <3>2 DEF TypeInv, GType
    <3>. QED
      BY <3>3, <3>4 DEF TypeInv, GType
  <2>2. ReceiveType'
    <3>1. receive.n + 1 \in 0..FrameBytes
      BY <1>12, Lengths DEF TypeInv, ReceiveType, WritePayload
    <3>. QED
      BY <1>12, <3>1 DEF TypeInv, ReceiveType, WritePayload
  <2>3. Transmitting'
    BY <1>12, Lengths DEF TypeInv, MainType, ConfType, ReceiveType, Transmitting,
        Asked, Publishing, At, WritePayload, Handling, ReceiveOnly
  <2>. QED
    BY <1>12, <2>1, <2>2, <2>3, Kept DEF TypeInv, WritePayload, ReceiveOnly
<1>13. CASE FlagBytes
  <2>1. GType'
    BY <1>13, ByteTypes, Lengths DEF TypeInv, GType, FlagBytes, Handling, ReceiveOnly
  <2>2. ReceiveType'
    BY <1>13, ByteTypes, Lengths DEF TypeInv, ReceiveType, ReceivePoint, FlagBytes,
        Handling, ReceiveOnly
  <2>3. SeenType'
    BY <1>13, ByteTypes, Lengths DEF TypeInv, SeenType, FlagBytes, Handling, ReceiveOnly
  <2>4. Transmitting'
    BY <1>13, Lengths DEF TypeInv, MainType, ConfType, ReceiveType, Transmitting,
        Asked, Publishing, At, FlagBytes, Handling, ReceiveOnly
  <2>. QED
    BY <1>13, <2>1, <2>2, <2>3, <2>4, Kept DEF TypeInv, FlagBytes, ReceiveOnly
<1>14. CASE WriteTx
  <2>1. ConfType'
    <3>1. receive.n + 1 \in 1..BufferLen /\ receive.n + 1 \in 1..FrameBytes /\ receive.frame \in Pinged
      BY <1>14, Lengths DEF TypeInv, ReceiveType, WriteTx, Handling
    <3>2. Byte(receive.frame, receive.n + 1) \in BytesOf(Pinged)
      BY <3>1 DEF BytesOf
    <3>3. conf' = [conf EXCEPT !.tx_buffer = [conf.tx_buffer EXCEPT
                      ![receive.n + 1] = Byte(receive.frame, receive.n + 1)]]
      BY <1>14 DEF WriteTx
    <3>4. [conf.tx_buffer EXCEPT ![receive.n + 1] = Byte(receive.frame, receive.n + 1)]
             \in [1..BufferLen -> BytesOf(Pinged)]
      BY <3>2 DEF TypeInv, ConfType
    <3>. QED
      BY <3>3, <3>4 DEF TypeInv, ConfType
  <2>2. ReceiveType'
    <3>1. receive.n + 1 \in 0..FrameBytes
      BY <1>14, Lengths DEF TypeInv, ReceiveType, WriteTx
    <3>. QED
      BY <1>14, <3>1 DEF TypeInv, ReceiveType, WriteTx
  <2>3. SeenType'
    BY <1>14, ByteTypes, Lengths DEF TypeInv, SeenType, WriteTx, Handling, Pings,
        ReceiveOnly
  <2>4. Storing'
    BY <1>14, Lengths DEF TypeInv, MainType, ConfType, Storing, At, WriteTx, Handling,
        Pings, ReceiveOnly
  <2>5. Transmitting'
    BY <1>14, Lengths DEF TypeInv, MainType, ConfType, ReceiveType, Transmitting,
        Asked, Publishing, At, WriteTx, Handling, Pings, ReceiveOnly
  <2>. QED
    BY <1>14, <2>1, <2>2, <2>3, <2>4, <2>5, Kept DEF TypeInv, WriteTx, ReceiveOnly
<1>15. CASE EndTx
  <2>1. ConfType'
    <3>1. conf.tx_buf_end + FrameBytes - 1 \in 0..FrameBytes - 1
      BY <1>15, Lengths DEF TypeInv, ConfType, Transmitting, EndTx, Handling
    <3>2. conf' = [conf EXCEPT !.tx_buf_end = conf.tx_buf_end + FrameBytes - 1]
      BY <1>15 DEF EndTx
    <3>. QED
      BY <3>1, <3>2 DEF TypeInv, ConfType
  <2>2. ReceiveType'
    BY <1>15, ByteTypes, Lengths DEF TypeInv, ReceiveType, ReceivePoint, EndTx,
        Handling, Pings, ReceiveOnly
  <2>3. SeenType'
    BY <1>15, ByteTypes, Lengths DEF TypeInv, SeenType, EndTx, Handling, Pings,
        ReceiveOnly
  <2>4. Storing'
    BY <1>15, Lengths DEF TypeInv, MainType, ConfType, Storing, At, EndTx, Handling,
        Pings, ReceiveOnly
  <2>5. Transmitting'
    BY <1>15, Lengths DEF TypeInv, MainType, ConfType, ReceiveType, Transmitting,
        Asked, Publishing, At, EndTx, Handling, Pings, ReceiveOnly
  <2>. QED
    BY <1>15, <2>1, <2>2, <2>3, <2>4, <2>5, Kept DEF TypeInv, EndTx, ReceiveOnly
<1>16. CASE UpdateCommand
  <2>1. GType'
    BY <1>16, ByteTypes, Lengths DEF TypeInv, GType, UpdateCommand, Handling,
        ReceiveOnly
  <2>. QED
    BY <1>16, <2>1, Kept DEF TypeInv, UpdateCommand, ReceiveOnly
<1>17. CASE StopUpdateCommand
  <2>1. GType'
    BY <1>17, ByteTypes, Lengths DEF TypeInv, GType, StopUpdateCommand, Ordered,
        Handling
  <2>2. BusType'
    <3>1. bus' = [bus EXCEPT !.orders = bus.orders + 1]
      BY <1>17 DEF StopUpdateCommand, Ordered
    <3>. QED
      BY <3>1 DEF TypeInv, BusType
  <2>. QED
    BY <1>17, <2>1, <2>2, Kept DEF TypeInv, StopUpdateCommand, Ordered
<1>18. CASE ResetCommand
  <2>1. GType'
    BY <1>18, ByteTypes, Lengths DEF TypeInv, GType, ResetCommand, Ordered, Handling
  <2>2. BusType'
    <3>1. bus' = [bus EXCEPT !.orders = bus.orders + 1]
      BY <1>18 DEF ResetCommand, Ordered
    <3>. QED
      BY <3>1 DEF TypeInv, BusType
  <2>3. SeenType'
    BY <1>18, ByteTypes, Lengths DEF TypeInv, SeenType, ResetCommand, Ordered, Handling
  <2>. QED
    BY <1>18, <2>1, <2>2, <2>3, Kept DEF TypeInv, ResetCommand, Ordered
<1>19. CASE OnSend
  <2>1. GType'
    BY <1>19, ByteTypes, Lengths DEF TypeInv, GType, OnSend
  <2>2. BusType'
    <3>1. bus' = [bus EXCEPT !.unconfirmed = bus.unconfirmed - 1]
      BY <1>19 DEF OnSend
    <3>. QED
      BY <3>1 DEF TypeInv, BusType
  <2>. QED
    BY <1>19, <2>1, <2>2, Kept DEF TypeInv, OnSend
<1>. QED
  BY <1>1, <1>2, <1>3, <1>4, <1>5, <1>6, <1>7, <1>8, <1>9, <1>10, <1>11, <1>12, <1>13,
      <1>14, <1>15, <1>16, <1>17, <1>18, <1>19

\* ... and those that bring a frame, from RS485 or of a ping command
LEMMA FramesTyped ==
    ASSUME TypeInv,
           \/ \E f \in bus.traffic.heard : BytesArrive(f)
           \/ \E f \in bus.traffic.pinged : Ping(f)
    PROVE  TypeInv'
<1>1. bus.traffic \in Traffic
  BY DEF TypeInv, BusType
<1>2. ASSUME NEW f \in bus.traffic.heard, BytesArrive(f) PROVE TypeInv'
  <2>1. f \in Heard
    BY <1>1, <1>2 DEF Heard
  <2>2. ReceiveType'
    BY <1>2, <2>1, Lengths DEF BytesArrive, ReceiveType, ReceivePoint
  <2>3. SeenType'
    BY <1>2 DEF BytesArrive, TypeInv, SeenType
  <2>4. Transmitting'
    BY <1>2 DEF BytesArrive, ReceiveOnly, TypeInv, Transmitting, Asked, Publishing
  <2>. QED
    BY <1>2, <2>2, <2>3, <2>4, Kept DEF BytesArrive, ReceiveOnly, TypeInv
<1>3. ASSUME NEW f \in bus.traffic.pinged, Ping(f) PROVE TypeInv'
  <2>1. f \in Pinged
    BY <1>1, <1>3 DEF Pinged
  <2>2. ReceiveType'
    BY <1>3, <2>1, Lengths DEF Ping, ReceiveType, ReceivePoint
  <2>3. SeenType'
    BY <1>3 DEF Ping, Pings, Sending, TypeInv, SeenType
  <2>4. ConfType'
    <3>1. 0 \in 0..FrameBytes /\ 0 \in 0..FrameBytes - 1
      BY Lengths
    <3>. QED
      BY <1>3, <3>1 DEF Ping, TypeInv, ConfType
  <2>5. conf'.tx_buf_start = 0 /\ conf'.tx_buf_end = 0 /\ conf'.rx_buf_pos = conf.rx_buf_pos
    BY <1>3 DEF Ping, TypeInv, ConfType
  <2>6. Transmitting'
    BY <1>3, <2>5 DEF Ping, ReceiveOnly, TypeInv, Transmitting, Asked, Publishing
  <2>7. Storing'
    BY <1>3, <2>5 DEF Ping, ReceiveOnly, TypeInv, Storing, At
  <2>. QED
    BY <1>3, <2>2, <2>3, <2>4, <2>6, <2>7, Kept DEF Ping, ReceiveOnly, TypeInv
<1>. QED
  BY <1>2, <1>3

\* ... and so does the rest of the invariant
LEMMA InitControl == NodeInit => Copying /\ BytesAreTaken /\ Transmission
BY Lengths DEF NodeInit, Copying, At, Checked, BytesAreTaken, Transmission, Asked,
    Publishing

\* Where the main thread is after the steps that have nothing to do with a copy
Watched == {"data", "checksum", "reread", "receiving", "mine", "idle", "taken", "clear", "spin"}

\* After these steps no copy is being made or looked at
LEMMA StepsElsewhere ==
    ASSUME TypeInv,
           \/ TakeBytes \/ CallBytesIn \/ MarkReceived \/ ReadAddress \/ ForeignFrame
           \/ DropFrame \/ Room \/ StoreByte \/ ReadPosition \/ WritePosition
           \/ StartUpdate \/ CheckHeader \/ GivePacket \/ RoleTest \/ AnyToSend
           \/ LineTest \/ Ask \/ PollEnds \/ PollTimesOut \/ GrantTest \/ BecomeSender
           \/ BytesOut \/ PublishBytes \/ Confirmed \/ EndBroadcast \/ AdvanceTx
           \/ CountUpdate \/ EndUpdate \/ ResetTest
    PROVE  main'.at \notin Watched
<1>. USE DEF TypeInv, MainType, Watched, At, Goto, Test
<1>1. CASE TakeBytes \/ CallBytesIn \/ MarkReceived \/ ReadAddress \/ ForeignFrame \/ DropFrame
  BY <1>1 DEF TakeBytes, CallBytesIn, MarkReceived, ReadAddress, ForeignFrame, DropFrame
<1>2. CASE Room \/ StoreByte \/ ReadPosition \/ WritePosition \/ StartUpdate \/ CheckHeader
  BY <1>2 DEF Room, StoreByte, ReadPosition, WritePosition, StartUpdate, CheckHeader
<1>3. CASE GivePacket \/ RoleTest \/ AnyToSend \/ LineTest \/ Ask \/ PollEnds \/ PollTimesOut
  BY <1>3 DEF GivePacket, RoleTest, AnyToSend, LineTest, Ask, PollEnds, PollTimesOut
<1>4. CASE GrantTest \/ BecomeSender \/ BytesOut \/ PublishBytes \/ Confirmed \/ EndBroadcast
  BY <1>4 DEF GrantTest, BecomeSender, BytesOut, PublishBytes, Confirmed, EndBroadcast
<1>5. CASE AdvanceTx \/ CountUpdate \/ EndUpdate \/ ResetTest
  BY <1>5 DEF AdvanceTx, CountUpdate, EndUpdate, ResetTest
<1>. QED
  BY <1>1, <1>2, <1>3, <1>4, <1>5

\* The main thread copies what is in rx_buffer, and checks what it copied
LEMMA MainKeepsCopying ==
    ASSUME TypeInv,
           \/ Copying, Main
    PROVE  Copying'
<1>1. CASE main'.at \notin Watched
  BY <1>1 DEF Watched, Copying, Checked, At
<1>2. CASE ReadLength
  <2>1. main'.at = "data" => main'.packet = <<conf.rx_buffer[1]>> /\ conf.rx_buffer[1].at = 1
    BY <1>2 DEF ReadLength, TypeInv, MainType
  <2>2. conf.rx_buffer[1] \in BytesOf(Heard)
    BY Lengths DEF TypeInv, ConfType
  <2>3. main'.at = "data" => Copied(1)'
    BY <1>2, <2>1, <2>2 DEF Copied, ReadLength, MainOnly
  <2>4. main'.at \in {"data", "undefined"}
    BY <1>2 DEF ReadLength, TypeInv, MainType
  <2>. QED
    BY <2>3, <2>4 DEF Copying, Checked, At
<1>3. CASE CopyData
  <2>1. Copied(1) /\ main' = [main EXCEPT !.at = "checksum",
                                     !.packet = main.packet \o SubSeq(conf.rx_buffer, 2, FrameBytes - 1)]
    BY <1>3 DEF CopyData, Copying, At
  <2>2. \A i \in 2..FrameBytes - 1 : conf.rx_buffer[i] \in BytesOf(Heard)
    BY Lengths DEF TypeInv, ConfType
  <2>3. main.packet \in [1..1 -> BytesOf(Heard)] /\ main.packet[1].at = 1
    BY <2>1 DEF Copied
  <2>4. main'.packet = main.packet \o SubSeq(conf.rx_buffer, 2, FrameBytes - 1)
    BY <2>1 DEF TypeInv, MainType
  <2>5. /\ main'.packet \in [1..FrameBytes - 1 -> BytesOf(Heard)]
        /\ main'.packet[1] = main.packet[1]
        /\ \A i \in 2..FrameBytes - 1 : main'.packet[i] = conf.rx_buffer[i]
    <3>. DEFINE s == main.packet
                t == SubSeq(conf.rx_buffer, 2, FrameBytes - 1)
    <3>1. s \in Seq(BytesOf(Heard)) /\ Len(s) = 1
      <4>1. s \in Seq(BytesOf(Heard))
        BY <2>3, SeqDef
      <4>2. DOMAIN s = 1..Len(s) /\ DOMAIN s = 1..1 /\ Len(s) \in Nat
        BY <2>3, <4>1, LenProperties
      <4>3. \A k \in Nat : 1..k = 1..1 => k = 1
        OBVIOUS
      <4>. QED
        BY <4>1, <4>2, <4>3
    <3>2. /\ t \in Seq(BytesOf(Heard)) /\ Len(t) = FrameBytes - 2
          /\ \A i \in 1..FrameBytes - 2 : t[i] = conf.rx_buffer[i + 1]
      <4>1. 2 \in Int /\ FrameBytes - 1 \in Int /\ FrameBytes \in Int /\ 2 <= FrameBytes
        BY Lengths
      <4>2. /\ t \in Seq(BytesOf(Heard))
            /\ Len(t) = IF 2 <= FrameBytes - 1 THEN FrameBytes - 1 - 2 + 1 ELSE 0
            /\ \A i \in 1..FrameBytes - 1 - 2 + 1 : t[i] = conf.rx_buffer[2 + i - 1]
        BY <2>2, <4>1, SubSeqProperties
      <4>. QED
        BY <4>1, <4>2
    <3>3. main'.packet = s \o t
      BY <2>4
    <3>. HIDE DEF s, t
    <3>4. /\ s \o t \in Seq(BytesOf(Heard)) /\ Len(s \o t) = FrameBytes - 1
          /\ \A i \in 1..FrameBytes - 1 : (s \o t)[i] = IF i <= 1 THEN s[i] ELSE t[i - 1]
      <4>1. /\ s \o t \in Seq(BytesOf(Heard)) /\ Len(s \o t) = Len(s) + Len(t)
            /\ \A i \in 1..Len(s) + Len(t) :
                  (s \o t)[i] = IF i <= Len(s) THEN s[i] ELSE t[i - Len(s)]
        BY <3>1, <3>2, ConcatProperties, ZenonT(30)
      <4>2. Len(s) + Len(t) = FrameBytes - 1
        BY <3>1, <3>2, Lengths
      <4>. QED
        BY <3>1, <4>1, <4>2
    <3>5. s \o t \in [1..FrameBytes - 1 -> BytesOf(Heard)]
      BY <3>4, LenProperties
    <3>6. (s \o t)[1] = s[1] /\ \A i \in 2..FrameBytes - 1 : (s \o t)[i] = conf.rx_buffer[i]
      <4>1. 1 \in 1..FrameBytes - 1
        BY Lengths
      <4>2. ASSUME NEW i \in 2..FrameBytes - 1 PROVE (s \o t)[i] = conf.rx_buffer[i]
        <5>1. i \in 1..FrameBytes - 1 /\ ~(i <= 1) /\ i - 1 \in 1..FrameBytes - 2 /\ (i - 1) + 1 = i
          BY Lengths
        <5>. QED
          BY <3>2, <3>4, <5>1
      <4>. QED
        BY <3>4, <4>1, <4>2
    <3>. QED
      BY <3>3, <3>5, <3>6 DEF s
  <2>6. conf' = conf
    BY <1>3 DEF CopyData, MainOnly
  <2>7. Copied(FrameBytes - 1)'
    <3>1. CASE conf.rx_buffer = Flushed
      BY <3>1, <2>3, <2>5, <2>6 DEF Copied, Flushed
    <3>2. CASE conf.rx_buffer # Flushed
      <4>1. main'.packet[1] = conf'.rx_buffer[1]
        <5>1. main.packet[1] = conf.rx_buffer[1]
          BY <3>2, <2>1 DEF Copied
        <5>. QED
          BY <5>1, <2>5, <2>6
      <4>2. \A i \in 1..FrameBytes - 1 : main'.packet[i] = conf'.rx_buffer[i]
        <5>1. \A i \in 1..FrameBytes - 1 : i = 1 \/ i \in 2..FrameBytes - 1
          BY Lengths
        <5>. QED
          BY <4>1, <5>1, <2>5, <2>6
      <4>. QED
        BY <4>2, <2>3, <2>5 DEF Copied
    <3>. QED
      BY <3>1, <3>2
  <2>8. main'.at = "checksum"
    BY <2>1 DEF TypeInv, MainType
  <2>. QED
    BY <2>7, <2>8 DEF Copying, Checked, At
<1>4. CASE CheckSum
  <2>1. CASE main'.at = "role"
    BY <2>1 DEF Copying, Checked, At
  <2>2. CASE main'.at # "role"
    <3>2. PICK f : f = main.packet[1].frame
      OBVIOUS
    <3>1. Copied(FrameBytes - 1)
      BY <1>4 DEF CheckSum, Copying, At
    <3>3. /\ \A i \in 1..FrameBytes : conf.rx_buffer[i] = Byte(f, i)
          /\ main' = [main EXCEPT !.at = "reread"]
      BY <1>4, <2>2, <3>2 DEF CheckSum, TypeInv, MainType
    <3>4. conf.rx_buffer[1].at = 1 /\ conf.rx_buffer[1].frame = f
      <4>1. conf.rx_buffer[1] = Byte(f, 1)
        BY <3>3, Lengths
      <4>. QED
        BY <4>1 DEF Byte
    <3>5. conf.rx_buffer # Flushed
      BY <3>4, Lengths DEF Flushed, FF, Byte
    <3>6. \A i \in 1..FrameBytes - 1 : main.packet[i] = Byte(f, i)
      BY <3>1, <3>3, <3>5, Lengths DEF Copied
    <3>7. main.packet = [i \in 1..FrameBytes - 1 |-> Byte(f, i)]
      BY <3>1, <3>6 DEF Copied
    <3>8. f \in Heard
      <4>1. conf.rx_buffer[1] \in BytesOf(Heard) /\ conf.rx_buffer[1] # FF
        BY <3>4, Lengths DEF TypeInv, ConfType, FF, Byte
      <4>. QED
        BY <3>4, <4>1 DEF BytesOf, Byte
    <3>9. main'.at = "reread" /\ main'.packet = main.packet
      BY <3>3 DEF TypeInv, MainType
    <3>10. conf'.rx_buffer[FrameBytes] = Byte(f, FrameBytes)
      BY <1>4, <3>3, Lengths DEF CheckSum, MainOnly
    <3>11. Summed(f)'
      BY <3>7, <3>9, <3>10 DEF Summed
    <3>. QED
      BY <3>8, <3>9, <3>11 DEF Copying, Checked, At
  <2>. QED
    BY <2>1, <2>2
<1>7. CASE ReadChecksum
  <2>. DEFINE last == conf.rx_buffer[FrameBytes]
  <2>1. /\ main' = [main EXCEPT !.at = "receiving", !.packet = Append(main.packet, last)]
        /\ conf' = conf
    BY <1>7 DEF ReadChecksum, MainOnly
  <2>2. PICK f \in Heard : Summed(f)
    BY <1>7 DEF ReadChecksum, Copying, At
  <2>3. last \in BytesOf(Heard) /\ (last = Byte(f, FrameBytes) \/ (last = FF /\ conf.rx_buffer = Flushed))
    BY <2>2, Lengths DEF Summed, Flushed, TypeInv, ConfType
  <2>. HIDE DEF last
  <2>4. /\ main.packet \in Seq(BytesOf(Heard)) /\ Len(main.packet) = FrameBytes - 1
        /\ \A i \in 1..FrameBytes - 1 : main.packet[i] = Byte(f, i)
    <3>1. /\ main.packet \in [1..FrameBytes - 1 -> BytesOf(Heard)]
          /\ \A i \in 1..FrameBytes - 1 : main.packet[i] = Byte(f, i)
      BY <2>2, Lengths DEF Summed, BytesOf
    <3>2. main.packet \in Seq(BytesOf(Heard))
      BY <3>1, Lengths, SeqDef
    <3>3. DOMAIN main.packet = 1..Len(main.packet) /\ Len(main.packet) \in Nat
          /\ DOMAIN main.packet = 1..FrameBytes - 1
      BY <3>1, <3>2, LenProperties
    <3>4. \A k \in Nat : 1..k = 1..FrameBytes - 1 => k = FrameBytes - 1
      BY Lengths
    <3>. QED
      BY <3>1, <3>2, <3>3, <3>4
  <2>5. /\ Append(main.packet, last) \in [1..FrameBytes -> BytesOf(Heard)]
        /\ Append(main.packet, last)[FrameBytes] = last
        /\ \A i \in 1..FrameBytes - 1 : Append(main.packet, last)[i] = Byte(f, i)
    <3>. DEFINE s == main.packet
                t == Append(s, last)
    <3>. HIDE DEF s
    <3>1. s \in Seq(BytesOf(Heard)) /\ Len(s) = FrameBytes - 1 /\ last \in BytesOf(Heard)
      BY <2>3, <2>4 DEF s
    <3>2. /\ t \in Seq(BytesOf(Heard)) /\ Len(t) = Len(s) + 1
          /\ \A i \in 1..Len(s) : t[i] = s[i]
          /\ t[Len(s) + 1] = last
      BY <3>1, AppendProperties
    <3>. HIDE DEF t
    <3>3. Len(s) + 1 = FrameBytes
      BY <3>1, Lengths
    <3>4. t \in [1..FrameBytes -> BytesOf(Heard)]
      BY <3>2, <3>3, LenProperties
    <3>5. t[FrameBytes] = last /\ \A i \in 1..FrameBytes - 1 : t[i] = s[i]
      BY <3>1, <3>2, <3>3
    <3>. QED
      BY <2>4, <3>4, <3>5 DEF s, t
  <2>6. main'.at = "receiving" /\ main'.packet = Append(main.packet, last)
    BY <2>1 DEF TypeInv, MainType
  <2>7. \A i \in 1..FrameBytes : i # FrameBytes => i \in 1..FrameBytes - 1
    BY Lengths
  <2>8. Whole(f)'
    <3>1. CASE last = Byte(f, FrameBytes)
      <4>1. \A i \in 1..FrameBytes : main'.packet[i] = Byte(f, i)
        BY <2>5, <2>6, <2>7, <3>1
      <4>. QED
        BY <2>5, <2>6, <4>1 DEF Whole, FrameOf
    <3>2. CASE last = FF /\ conf.rx_buffer = Flushed
      <4>1. \A i \in 1..FrameBytes : main'.packet[i] = IF i = FrameBytes THEN FF ELSE Byte(f, i)
        BY <2>5, <2>6, <2>7, <3>2
      <4>2. main'.packet = [i \in 1..FrameBytes |-> IF i = FrameBytes THEN FF ELSE Byte(f, i)]
        BY <2>5, <2>6, <4>1
      <4>. QED
        BY <2>1, <3>2, <4>2 DEF Whole, Unsummed, FrameOf
    <3>. QED
      BY <2>3, <3>1, <3>2
  <2>. QED
    BY <2>6, <2>8 DEF Copying, Checked, At
<1>5. CASE Receiving \/ Addressed \/ EndReception \/ ClearAccess \/ Spin
  <2>1. main'.packet = main.packet /\ main'.at \notin {"data", "checksum", "reread"}
    BY <1>5 DEF Receiving, Addressed, EndReception, ClearAccess, Spin, Test, Goto,
        TypeInv, MainType
  <2>2. Checked' => Checked
    BY <1>5 DEF Receiving, Addressed, EndReception, ClearAccess, Spin, Test, Goto, At,
        TypeInv, MainType, Checked
  <2>3. conf'.rx_buffer = conf.rx_buffer
    BY <1>5 DEF Receiving, Addressed, EndReception, ClearAccess, Spin, Test, Publishes,
        MainOnly, TypeInv, ConfType
  <2>. QED
    BY <2>1, <2>2, <2>3 DEF Copying, Whole, At
<1>6. CASE BytesOutFinished \/ Expire
  BY <1>6 DEF BytesOutFinished, Expire, TypeInv, MainType, Copying, Checked, At
<1>. QED
  BY <1>1, <1>2, <1>3, <1>4, <1>5, <1>6, <1>7, StepsElsewhere DEF Main

\* Meanwhile rx_buffer can only be flushed
LEMMA ReceiveKeepsCopying ==
    ASSUME TypeInv, Copying, Handler \/ Arrival \/ OnSend PROVE Copying'
<1>1. CASE UNCHANGED main /\ (conf'.rx_buffer = conf.rx_buffer \/ conf'.rx_buffer = Flushed)
  BY <1>1 DEF Copying, Copied, Summed, Whole, Checked, At
<1>2. CASE Handler
  BY <1>1, <1>2 DEF Handler, GrantNoticed, NotifyActive, ForgetDestination,
      NotifyInactive,
      AckReceived, FlushCancelled, LineFree, WritePayload, FlagBytes, WriteTx, EndTx,
      ReceiveOnly, Flush, TypeInv, ConfType
<1>3. CASE Arrival \/ OnSend
  BY <1>1, <1>3 DEF Arrival, Granted, OtherActive, Released, OtherInactive, Inactive,
      UpdateCommand, StopUpdateCommand, ResetCommand, Ordered, BytesArrive, Ping, OnSend,
      ReceiveOnly, TypeInv, ConfType
<1>. QED
  BY <1>2, <1>3

\* The main thread clears bytes_in only when it goes on to call icp_bytes_in
LEMMA MainKeepsFlag ==
    ASSUME TypeInv,
           \/ BytesAreTaken, Main
    PROVE  BytesAreTaken'
<1>1. CASE TakeBytes
  BY <1>1 DEF TypeInv, GType, MainType, BytesAreTaken, TakeBytes, Goto, At
<1>2. CASE CallBytesIn
  BY <1>2 DEF TypeInv, SeenType, BytesAreTaken, CallBytesIn
<1>3. CASE ~At("call") /\ g'.bytes_in = g.bytes_in /\ seen'.fresh = seen.fresh
  BY <1>3 DEF BytesAreTaken
<1>4. CASE MarkReceived \/ ReadAddress \/ ForeignFrame \/ DropFrame \/ Room \/ StoreByte
           \/ ReadPosition \/ WritePosition \/ StartUpdate \/ CheckHeader \/ ReadLength
           \/ CopyData \/ CheckSum \/ ReadChecksum \/ Receiving \/ Addressed
           \/ EndReception \/ GivePacket
  BY <1>3, <1>4 DEF MarkReceived, ReadAddress, ForeignFrame, DropFrame, Room, StoreByte,
      ReadPosition, WritePosition, StartUpdate, CheckHeader, ReadLength, CopyData,
      CheckSum, ReadChecksum, Receiving, Addressed, EndReception, GivePacket, Test, At,
      MainOnly, ConfOnly
<1>5. CASE ClearAccess \/ Spin \/ RoleTest \/ AnyToSend \/ LineTest \/ Ask \/ PollEnds
           \/ PollTimesOut \/ GrantTest \/ BecomeSender \/ BytesOut
  BY <1>3, <1>5 DEF ClearAccess, Spin, RoleTest, AnyToSend, LineTest, Ask, PollEnds,
      PollTimesOut, GrantTest, BecomeSender, BytesOut, Publishes, Test, At, MainOnly,
      ConfOnly, TypeInv, GType, SeenType
<1>6. CASE PublishBytes \/ Confirmed \/ BytesOutFinished \/ EndBroadcast \/ AdvanceTx
           \/ CountUpdate \/ Expire \/ EndUpdate \/ ResetTest
  BY <1>3, <1>6 DEF PublishBytes, Confirmed, BytesOutFinished, EndBroadcast, AdvanceTx,
      CountUpdate, Expire, EndUpdate, ResetTest, Publishes, Test, At, MainOnly, ConfOnly,
      TypeInv, GType, SeenType
<1>. QED
  BY <1>1, <1>2, <1>4, <1>5, <1>6 DEF Main

\* The receive thread clears it only for a reset, and sets it with a message
LEMMA ReceiveKeepsFlag ==
    ASSUME TypeInv, BytesAreTaken, Handler \/ Arrival \/ OnSend PROVE BytesAreTaken'
<1>1. CASE UNCHANGED main /\ g'.bytes_in = g.bytes_in /\ seen'.fresh = seen.fresh
  BY <1>1 DEF BytesAreTaken, At
<1>2. CASE ~seen'.fresh \/ g'.bytes_in
  BY <1>2 DEF BytesAreTaken
<1>3. CASE Handler
  BY <1>1, <1>2, <1>3 DEF Handler, GrantNoticed, NotifyActive, ForgetDestination,
      NotifyInactive, AckReceived, FlushCancelled, LineFree, WritePayload, FlagBytes,
      WriteTx, EndTx, Pings, ReceiveOnly, TypeInv, GType, SeenType
<1>4. CASE Arrival \/ OnSend
  BY <1>1, <1>2, <1>4 DEF Arrival, Granted, OtherActive, Released, OtherInactive,
      Inactive,
      UpdateCommand, StopUpdateCommand, ResetCommand, Ordered, BytesArrive, Ping, Pings,
      OnSend, ReceiveOnly, TypeInv, GType, SeenType
<1>. QED
  BY <1>3, <1>4

\* Sending, which a ping looks at, is asking for the line or publishing
LEMMA SendingIs == TypeInv => (Sending <=> Asked \/ Publishing)
BY DEF TypeInv, MainType, Sending, Asked, Publishing

\* Nobody writes to the transmit buffer
SameBuffer == /\ conf'.tx_buf_start = conf.tx_buf_start /\ conf'.tx_buf_end = conf.tx_buf_end
              /\ conf'.tx_buffer = conf.tx_buffer

\* A frame in tx_buffer stays there as long as nobody writes to it
LEMMA LoadedKept == SameBuffer /\ Loaded => Loaded'
BY DEF SameBuffer, Loaded

\* ... and so does the part of one that a ping has written
LEMMA FillingKept ==
    ASSUME TypeInv, SameBuffer, receive' = receive, Filling, ~Asked', ~Publishing', MainType'
    PROVE  Filling'
BY DEF SameBuffer, Filling, Sending, Asked, Publishing, MainType

\* A step of the main thread that ends outside a transmission
LEMMA StaysOut ==
    ASSUME TypeInv, Transmission, MainType', SameBuffer, receive' = receive,
           ~Asked', ~Publishing'
    PROVE  Transmission'
<1>1. receive'.at = "ping" => Filling'
  BY FillingKept DEF Transmission
<1>2. receive'.at # "ping" /\ conf'.tx_buf_start < conf'.tx_buf_end => Loaded'
  BY LoadedKept DEF Transmission, SameBuffer
<1>3. ~At("publish")' /\ ~At("confirm")'
  BY DEF At, Publishing
<1>. QED
  BY <1>1, <1>2, <1>3 DEF Transmission

\* A step of the main thread from one point of a transmission to another
LEMMA GoesOn ==
    ASSUME TypeInv, Transmission, SameBuffer, receive' = receive, receive.at # "ping",
           Asked' => conf.tx_buf_start < conf.tx_buf_end,
           Publishing' => main'.pos = 0 /\ main'.n = FrameBytes,
           At("publish")' => conf.tx_buf_start < conf.tx_buf_end,
           At("confirm")' => \E f \in Pinged : main'.packet = FrameOf(f)
    PROVE  Transmission'
BY LoadedKept DEF Transmission, SameBuffer

\* The steps that end outside a transmission
LEMMA OutsideSteps ==
    ASSUME TypeInv,
           \/ TakeBytes \/ CallBytesIn \/ MarkReceived \/ ReadAddress \/ ForeignFrame
           \/ DropFrame \/ Room \/ StoreByte \/ ReadPosition \/ WritePosition
           \/ StartUpdate \/ CheckHeader \/ ReadLength \/ CopyData \/ CheckSum
           \/ ReadChecksum \/ Receiving \/ Addressed \/ EndReception \/ GivePacket
           \/ RoleTest \/ CountUpdate \/ Expire \/ EndUpdate
    PROVE  SameBuffer /\ receive' = receive /\ ~Asked' /\ ~Publishing'
<1>. USE DEF Goto, Test, MainOnly, ConfOnly
<1>1. CASE TakeBytes \/ CallBytesIn \/ MarkReceived \/ ReadAddress \/ ForeignFrame \/ DropFrame
  <2>. USE <1>1 DEF TakeBytes, CallBytesIn, MarkReceived, ReadAddress, ForeignFrame, DropFrame
  <2>1. SameBuffer /\ receive' = receive
    BY DEF SameBuffer, TypeInv, ConfType, Flush
  <2>2. ~Asked' /\ ~Publishing'
    BY DEF TypeInv, MainType, Asked, Publishing, At
  <2>. QED
    BY <2>1, <2>2
<1>2. CASE Room \/ StoreByte \/ ReadPosition \/ WritePosition \/ StartUpdate \/ CheckHeader
  <2>. USE <1>2 DEF Room, StoreByte, ReadPosition, WritePosition, StartUpdate, CheckHeader
  <2>1. SameBuffer /\ receive' = receive
    BY DEF SameBuffer, TypeInv, ConfType, Flush
  <2>2. ~Asked' /\ ~Publishing'
    BY DEF TypeInv, MainType, Asked, Publishing, At
  <2>. QED
    BY <2>1, <2>2
<1>3. CASE ReadLength \/ CopyData \/ CheckSum \/ ReadChecksum \/ Receiving \/ Addressed
  <2>. USE <1>3 DEF ReadLength, CopyData, CheckSum, ReadChecksum, Receiving, Addressed
  <2>1. SameBuffer /\ receive' = receive
    BY DEF SameBuffer, TypeInv, ConfType, Flush
  <2>2. ~Asked' /\ ~Publishing'
    BY DEF TypeInv, MainType, Asked, Publishing, At
  <2>. QED
    BY <2>1, <2>2
<1>4. CASE EndReception \/ GivePacket \/ RoleTest \/ CountUpdate
  <2>. USE <1>4 DEF EndReception, GivePacket, RoleTest, CountUpdate
  <2>1. SameBuffer /\ receive' = receive
    BY DEF SameBuffer, TypeInv, ConfType, Flush
  <2>2. ~Asked' /\ ~Publishing'
    BY DEF TypeInv, MainType, Asked, Publishing, At
  <2>. QED
    BY <2>1, <2>2
<1>5. CASE Expire \/ EndUpdate
  <2>. USE <1>5 DEF Expire, EndUpdate
  <2>1. SameBuffer /\ receive' = receive
    BY DEF SameBuffer, TypeInv, ConfType, Flush
  <2>2. ~Asked' /\ ~Publishing'
    BY DEF TypeInv, MainType, Asked, Publishing, At
  <2>. QED
    BY <2>1, <2>2
<1>. QED
  BY <1>1, <1>2, <1>3, <1>4, <1>5

\* A transmission hands over the frame that a ping has left, whole
LEMMA MainKeepsTransmission ==
    ASSUME TypeInv, MainType', Main, seen.pinged \/ Transmission
    PROVE  seen'.pinged \/ Transmission'
<1>1. CASE seen.pinged
  <2>1. seen' = seen \/ CallBytesIn \/ GrantTest \/ ResetTest
    BY DEF Main, TakeBytes, MarkReceived, ReadAddress, ForeignFrame, DropFrame, Room,
        StoreByte, ReadPosition, WritePosition, StartUpdate, CheckHeader, ReadLength,
        CopyData, CheckSum, ReadChecksum, Receiving, Addressed, EndReception, GivePacket, ClearAccess,
        Spin, RoleTest, AnyToSend, LineTest, Ask, PollEnds, PollTimesOut, BecomeSender,
        BytesOut, PublishBytes, Confirmed, BytesOutFinished, EndBroadcast, AdvanceTx,
        CountUpdate, Expire, EndUpdate, Publishes, MainOnly, ConfOnly
  <2>. QED
    BY <1>1, <2>1 DEF CallBytesIn, GrantTest, ResetTest, TypeInv, SeenType
<1>2. CASE Transmission
  <2>. USE <1>2
  <2>1. CASE \/ TakeBytes \/ CallBytesIn \/ MarkReceived \/ ReadAddress \/ ForeignFrame
             \/ DropFrame \/ Room \/ StoreByte \/ ReadPosition \/ WritePosition
             \/ StartUpdate \/ CheckHeader \/ ReadLength \/ CopyData \/ CheckSum
             \/ ReadChecksum \/ Receiving \/ Addressed \/ EndReception \/ GivePacket
             \/ RoleTest \/ CountUpdate \/ Expire \/ EndUpdate
    BY <2>1, OutsideSteps, StaysOut
  <2>2. CASE ClearAccess \/ Spin
    <3>1. SameBuffer /\ receive' = receive
      BY <2>2 DEF SameBuffer, ClearAccess, Spin, Publishes, MainOnly
    <3>2. CASE main.back = "unsend"
      <4>1. /\ Publishing /\ main'.pos = main.pos /\ main'.n = main.n
            /\ ~Asked' /\ ~At("publish")' /\ ~At("confirm")'
        BY <2>2, <3>2 DEF ClearAccess, Spin, Goto, At, Publishing, Asked, TypeInv,
            MainType
      <4>2. receive.at # "ping"
        BY <4>1, SendingIs DEF Transmission, Filling
      <4>. QED
        BY <3>1, <4>1, <4>2, GoesOn DEF Transmission
    <3>3. CASE main.back # "unsend"
      <4>1. ~Asked' /\ ~Publishing'
        BY <2>2, <3>3 DEF ClearAccess, Spin, Goto, At, Publishing, Asked, TypeInv,
            MainType
      <4>. QED
        BY <3>1, <4>1, StaysOut
    <3>. QED
      BY <3>2, <3>3
  <2>3. CASE AnyToSend
    <3>1. SameBuffer /\ receive' = receive /\ ~Publishing'
      BY <2>3 DEF SameBuffer, AnyToSend, Test, Goto, At, MainOnly, Publishing,
          TypeInv, MainType
    <3>2. CASE ~Asked'
      BY <3>1, <3>2, StaysOut
    <3>3. CASE Asked'
      <4>1. conf.tx_buf_start < conf.tx_buf_end
        BY <2>3, <3>3 DEF AnyToSend, Test, Goto, At, Asked, TypeInv, MainType, ConfType
      <4>2. receive.at # "ping"
        BY <4>1 DEF TypeInv, ConfType, Transmitting
      <4>3. ~At("publish")' /\ ~At("confirm")'
        BY <3>1 DEF At, Publishing
      <4>. QED
        BY <3>1, <4>1, <4>2, <4>3, GoesOn
    <3>. QED
      BY <3>2, <3>3
  <2>4. CASE LineTest \/ Ask \/ PollEnds \/ PollTimesOut \/ GrantTest \/ BecomeSender
    <3>1. /\ SameBuffer /\ receive' = receive /\ Asked
          /\ ~Publishing' /\ ~At("publish")' /\ ~At("confirm")'
      BY <2>4 DEF SameBuffer, LineTest, Ask, PollEnds, PollTimesOut, GrantTest,
          BecomeSender,
          Test, Goto, At, MainOnly, ConfOnly, Publishes, Asked, Publishing, TypeInv, MainType, ConfType
    <3>2. receive.at # "ping" /\ conf.tx_buf_start < conf.tx_buf_end
      BY <3>1, SendingIs DEF Transmission, Filling
    <3>. QED
      BY <3>1, <3>2, GoesOn
  <2>5. CASE BytesOut
    <3>1. Asked /\ SameBuffer /\ receive' = receive /\ ~Asked' /\ ~At("confirm")'
      BY <2>5 DEF SameBuffer, BytesOut, MainOnly, At, Asked, TypeInv, MainType
    <3>2. receive.at # "ping" /\ conf.tx_buf_start < conf.tx_buf_end
      BY <3>1, SendingIs DEF Transmission, Filling
    <3>3. conf.tx_buf_start = 0 /\ conf.tx_buf_end = FrameBytes - 1
      BY <3>2 DEF Transmission, Loaded
    <3>4. main'.pos = 0 /\ main'.n = FrameBytes
      BY <2>5, <3>3, Lengths DEF BytesOut, TypeInv, MainType
    <3>. QED
      BY <3>1, <3>2, <3>4, GoesOn
  <2>6. CASE PublishBytes
    <3>1. /\ Publishing /\ At("publish") /\ SameBuffer /\ receive' = receive
          /\ ~Asked' /\ ~At("publish")' /\ main'.pos = main.pos /\ main'.n = main.n
      BY <2>6 DEF SameBuffer, PublishBytes, Publishes, At, Asked, Publishing, TypeInv,
          MainType
    <3>2. /\ receive.at # "ping" /\ conf.tx_buf_start < conf.tx_buf_end
          /\ main.pos = 0 /\ main.n = FrameBytes
      BY <3>1, SendingIs DEF Transmission, Filling
    <3>3. PICK f \in Pinged : \A i \in 1..FrameBytes : conf.tx_buffer[i] = Byte(f, i)
      BY <3>2 DEF Transmission, Loaded
    <3>4. main'.packet = SubSeq(conf.tx_buffer, 1, FrameBytes)
      BY <2>6, <3>2, Lengths DEF PublishBytes, TypeInv, MainType
    <3>5. main'.packet = FrameOf(f)
      <4>1. \A i \in 1..FrameBytes : conf.tx_buffer[i] \in BytesOf(Pinged)
        BY Lengths DEF TypeInv, ConfType
      <4>2. 1 \in Int /\ FrameBytes \in Int /\ 1 <= FrameBytes
        BY Lengths
      <4>3. /\ main'.packet \in Seq(BytesOf(Pinged))
            /\ Len(main'.packet) = IF 1 <= FrameBytes THEN FrameBytes - 1 + 1 ELSE 0
            /\ \A i \in 1..FrameBytes - 1 + 1 : main'.packet[i] = conf.tx_buffer[1 + i - 1]
        BY <3>4, <4>1, <4>2, SubSeqProperties
      <4>4. /\ main'.packet \in [1..Len(main'.packet) -> BytesOf(Pinged)]
            /\ Len(main'.packet) = FrameBytes
        BY <4>2, <4>3, LenProperties
      <4>5. \A i \in 1..FrameBytes : main'.packet[i] = Byte(f, i)
        BY <3>3, <4>2, <4>3
      <4>. QED
        BY <4>4, <4>5 DEF FrameOf
    <3>. QED
      BY <3>1, <3>2, <3>5, GoesOn
  <2>7. CASE Confirmed \/ BytesOutFinished \/ EndBroadcast
    <3>. USE <2>7 DEF Confirmed, BytesOutFinished, EndBroadcast, Goto, At, MainOnly, ConfOnly
    <3>1. /\ Publishing /\ ~Asked' /\ ~At("publish")' /\ ~At("confirm")'
          /\ main'.pos = main.pos /\ main'.n = main.n
      BY DEF Asked, Publishing, TypeInv, MainType
    <3>2. SameBuffer /\ receive' = receive
      BY DEF SameBuffer, TypeInv, ConfType
    <3>3. receive.at # "ping" /\ main.pos = 0 /\ main.n = FrameBytes
      BY <3>1, SendingIs DEF Transmission, Filling
    <3>. QED
      BY <3>1, <3>2, <3>3, GoesOn
  <2>8. CASE AdvanceTx
    <3>1. Publishing /\ receive' = receive /\ ~Asked' /\ ~Publishing'
      BY <2>8 DEF AdvanceTx, ConfOnly, At, Asked, Publishing, TypeInv, MainType
    <3>2. receive.at # "ping" /\ main.pos = 0 /\ main.n = FrameBytes
      BY <3>1, SendingIs DEF Transmission, Filling
    <3>3. conf'.tx_buf_start >= FrameBytes /\ conf'.tx_buf_end = conf.tx_buf_end
      <4>1. PICK start \in {main.pos, conf.tx_buf_start} :
                conf' = [conf EXCEPT !.tx_buf_start = start + main.n]
        BY <2>8 DEF AdvanceTx
      <4>2. conf'.tx_buf_start = start + FrameBytes /\ conf'.tx_buf_end = conf.tx_buf_end
        BY <3>2, <4>1 DEF TypeInv, ConfType
      <4>3. start \in Nat
        BY <3>2, Lengths DEF TypeInv, ConfType
      <4>. QED
        BY <4>2, <4>3, Lengths
    <3>4. ~(conf'.tx_buf_start < conf'.tx_buf_end)
      <4>1. conf.tx_buf_end \in 0..FrameBytes - 1
        BY DEF TypeInv, ConfType
      <4>2. conf'.tx_buf_start \in Int
        BY <2>8, <3>2, Lengths DEF AdvanceTx, TypeInv, ConfType
      <4>. QED
        BY <3>3, <4>1, <4>2, Lengths
    <3>5. ~At("publish")' /\ ~At("confirm")'
      BY <3>1 DEF At, Publishing
    <3>. QED
      BY <3>1, <3>2, <3>4, <3>5 DEF Transmission
  <2>9. CASE ResetTest
    <3>1. receive' = receive /\ ~Asked' /\ ~Publishing'
      BY <2>9 DEF ResetTest, Test, Goto, At, Asked, Publishing, TypeInv, MainType
    <3>2. CASE conf' = conf
      BY <3>1, <3>2, StaysOut DEF SameBuffer
    <3>3. CASE conf' # conf /\ receive.at = "ping"
      BY <2>9, <3>3 DEF ResetTest, TypeInv, SeenType
    <3>4. CASE conf' # conf /\ receive.at # "ping"
      <4>1. conf'.tx_buf_start = 0 /\ conf'.tx_buf_end = 0
        BY <2>9, <3>4 DEF ResetTest, Flush, TypeInv, ConfType
      <4>2. ~At("publish")' /\ ~At("confirm")'
        BY <3>1 DEF At, Publishing
      <4>. QED
        BY <3>1, <3>4, <4>1, <4>2 DEF Transmission
    <3>. QED
      BY <3>2, <3>3, <3>4
  <2>. QED
    BY <2>1, <2>2, <2>3, <2>4, <2>5, <2>6, <2>7, <2>8, <2>9 DEF Main
<1>. QED
  BY <1>1, <1>2

\* A ping that comes at another time leaves one frame
LEMMA ReceiveKeepsTransmission ==
    ASSUME TypeInv, Handler \/ Arrival \/ OnSend, seen.pinged \/ Transmission
    PROVE  seen'.pinged \/ Transmission'
<1>1. CASE /\ UNCHANGED main /\ SameBuffer /\ seen'.pinged = seen.pinged
           /\ receive.at # "ping" /\ receive'.at # "ping"
  <2>1. Transmission => Transmission'
    BY <1>1, LoadedKept DEF Transmission, SameBuffer, Asked, Publishing, At
  <2>. QED
    BY <1>1, <2>1
<1>2. CASE GrantNoticed \/ NotifyActive \/ ForgetDestination \/ NotifyInactive \/ AckReceived
           \/ FlushCancelled \/ LineFree \/ WritePayload \/ FlagBytes
  <2>. USE <1>2 DEF GrantNoticed, NotifyActive, ForgetDestination, NotifyInactive,
         AckReceived, FlushCancelled, LineFree, WritePayload, FlagBytes, ReceiveOnly
  <2>1. UNCHANGED main /\ seen'.pinged = seen.pinged
    BY DEF TypeInv, SeenType
  <2>2. SameBuffer
    BY DEF SameBuffer, Flush, TypeInv, ConfType
  <2>3. receive.at # "ping" /\ receive'.at # "ping"
    BY DEF Handling, Turn, TypeInv, ReceiveType
  <2>. QED
    BY <1>1, <2>1, <2>2, <2>3
<1>3. CASE \/ Granted \/ OtherActive \/ Released \/ OtherInactive \/ UpdateCommand
           \/ StopUpdateCommand \/ ResetCommand
           \/ \E f \in bus.traffic.heard : BytesArrive(f)
  <2>. USE <1>3 DEF Granted, OtherActive, Released, OtherInactive, Inactive, UpdateCommand,
         StopUpdateCommand, ResetCommand, Ordered, BytesArrive, ReceiveOnly
  <2>1. UNCHANGED main /\ seen'.pinged = seen.pinged
    BY DEF TypeInv, SeenType
  <2>2. SameBuffer
    BY DEF SameBuffer
  <2>3. receive.at # "ping" /\ receive'.at # "ping"
    BY DEF Handling, Turn, TypeInv, ReceiveType
  <2>. QED
    BY <1>1, <2>1, <2>2, <2>3
<1>4. CASE OnSend
  <2>1. CASE seen.pinged
    BY <1>4, <2>1 DEF OnSend
  <2>2. CASE Transmission
    BY <1>4, <2>2 DEF OnSend, Transmission, Filling, Loaded, Sending, Asked,
        Publishing, At
  <2>. QED
    BY <2>1, <2>2
<1>5. ASSUME NEW f \in bus.traffic.pinged, Ping(f) PROVE seen'.pinged \/ Transmission'
  <2>1. CASE Sending
    BY <1>5, <2>1 DEF Ping, Pings, TypeInv, SeenType
  <2>2. CASE ~Sending
    <3>1. ~Asked' /\ ~Publishing' /\ ~Sending' /\ ~At("publish")' /\ ~At("confirm")'
      BY <1>5, <2>2, SendingIs DEF Ping, ReceiveOnly, Asked, Publishing, Sending, At
    <3>2. receive'.at = "ping" /\ receive'.n = 0 /\ conf'.tx_buf_start = 0
      BY <1>5 DEF Ping, TypeInv, ConfType
    <3>. QED
      BY <3>1, <3>2 DEF Transmission, Filling
  <2>. QED
    BY <2>1, <2>2
<1>6. CASE WriteTx
  <2>1. CASE seen.pinged \/ Sending
    BY <1>6, <2>1 DEF WriteTx, Pings, TypeInv, SeenType
  <2>2. CASE ~seen.pinged /\ ~Sending
    <3>1. ~Asked' /\ ~Publishing' /\ ~Sending' /\ ~At("publish")' /\ ~At("confirm")'
      BY <1>6, <2>2, SendingIs DEF WriteTx, ReceiveOnly, Asked, Publishing, Sending, At
    <3>2. /\ receive'.at = "ping" /\ receive'.frame = receive.frame
          /\ receive'.n = receive.n + 1 /\ receive.n \in Nat /\ receive.n + 1 \in 1..BufferLen
      BY <1>6, Lengths DEF WriteTx, Handling, TypeInv, ReceiveType
    <3>3. /\ conf'.tx_buf_start = conf.tx_buf_start
          /\ conf'.tx_buffer = [conf.tx_buffer EXCEPT
                ![receive.n + 1] = Byte(receive.frame, receive.n + 1)]
      BY <1>6 DEF WriteTx, TypeInv, ConfType
    <3>4. Filling
      BY <1>6, <2>2 DEF WriteTx, Handling, Transmission
    <3>5. \A i \in 1..receive.n + 1 : conf'.tx_buffer[i] = Byte(receive.frame, i)
      <4>1. conf.tx_buffer \in [1..BufferLen -> BytesOf(Pinged)]
        BY DEF TypeInv, ConfType
      <4>2. ASSUME NEW i \in 1..receive.n + 1 PROVE conf'.tx_buffer[i] = Byte(receive.frame, i)
        <5>1. i \in 1..BufferLen
          BY <3>2, Lengths
        <5>2. CASE i = receive.n + 1
          BY <3>2, <3>3, <4>1, <5>1, <5>2
        <5>3. CASE i # receive.n + 1
          <6>1. i \in 1..receive.n
            BY <3>2, <5>3
          <6>2. conf'.tx_buffer[i] = conf.tx_buffer[i]
            BY <3>3, <4>1, <5>1, <5>3
          <6>. QED
            BY <3>4, <6>1, <6>2 DEF Filling
        <5>. QED
          BY <5>2, <5>3
      <4>. QED
        BY <4>2
    <3>6. Filling'
      BY <3>1, <3>2, <3>3, <3>4, <3>5 DEF Filling
    <3>. QED
      BY <3>1, <3>2, <3>6 DEF Transmission
  <2>. QED
    BY <2>1, <2>2
<1>7. CASE EndTx
  <2>1. CASE seen.pinged \/ Sending
    BY <1>7, <2>1 DEF EndTx, Pings, TypeInv, SeenType
  <2>2. CASE ~seen.pinged /\ ~Sending
    <3>1. ~Asked' /\ ~Publishing' /\ ~At("publish")' /\ ~At("confirm")'
      BY <1>7, <2>2, SendingIs DEF EndTx, ReceiveOnly, Asked, Publishing, At
    <3>2. Filling /\ receive.n = FrameBytes /\ receive.frame \in Pinged
      BY <1>7, <2>2 DEF EndTx, Handling, Transmission, TypeInv, ReceiveType
    <3>3. /\ conf'.tx_buf_start = 0 /\ conf'.tx_buffer = conf.tx_buffer
          /\ conf'.tx_buf_end = FrameBytes - 1
      <4>1. conf' = [conf EXCEPT !.tx_buf_end = conf.tx_buf_end + FrameBytes - 1]
        BY <1>7 DEF EndTx
      <4>2. conf.tx_buf_end = 0 /\ conf.tx_buf_start = 0
        BY <1>7, <3>2 DEF EndTx, Handling, TypeInv, Transmitting, Filling
      <4>. QED
        BY <4>1, <4>2, Lengths DEF TypeInv, ConfType
    <3>4. Loaded'
      BY <3>2, <3>3 DEF Loaded, Filling
    <3>5. receive'.at # "ping"
      BY <1>7 DEF EndTx
    <3>. QED
      BY <3>1, <3>4, <3>5 DEF Transmission
  <2>. QED
    BY <2>1, <2>2
<1>. QED
  BY <1>2, <1>3, <1>4, <1>5, <1>6, <1>7 DEF Handler, Arrival

\* Inv holds in every state that the node can be in
LEMMA NodeInvariance == NodeSpec => []Inv
<1>1. NodeInit => Inv
  BY InitTyped, InitControl DEF Inv
<1>2. Inv /\ [NodeNext]_nodeVars => Inv'
  <2>. SUFFICES ASSUME Inv, [NodeNext]_nodeVars PROVE Inv'
    OBVIOUS
  <2>. USE DEF Inv
  <2>1. CASE Main
    <3>1. TypeInv'
      BY <2>1, BytesInTyped, PacketsTyped, AccessTyped, SendingTyped DEF Main
    <3>2. MainType'
      BY <3>1 DEF TypeInv
    <3>. QED
      BY <2>1, <3>1, <3>2, MainKeepsCopying, MainKeepsFlag, MainKeepsTransmission
  <2>2. CASE Handler \/ Arrival \/ OnSend
    <3>1. TypeInv'
      BY <2>2, MessagesTyped, FramesTyped DEF Handler, Arrival
    <3>. QED
      BY <2>2, <3>1, ReceiveKeepsCopying, ReceiveKeepsFlag, ReceiveKeepsTransmission
  <2>3. CASE UNCHANGED nodeVars
    <3>1. TypeInv'
      BY <2>3, Kept DEF nodeVars, TypeInv
    <3>2. Copying' /\ BytesAreTaken'
      BY <2>3 DEF nodeVars, Copying, Copied, Summed, Whole, Checked, BytesAreTaken, At
    <3>3. Transmission => Transmission'
      BY <2>3 DEF nodeVars, Transmission, Filling, Loaded, Sending, Asked, Publishing,
          At
    <3>. QED
      BY <2>3, <3>1, <3>2, <3>3 DEF nodeVars
  <2>. QED
    BY <2>1, <2>2, <2>3 DEF NodeNext
<1>. QED
  BY <1>1, <1>2, PTL DEF NodeSpec

\* Whatever one thread overwrites while the other reads it, the positions stay
\* inside their buffers, the host is given the header and data of a frame that
\* somebody sent, with its checksum or, if rx_buffer was flushed before icp.c read
\* the checksum again, a flushed one, and no message's flag is lost: for any
\* traffic and any lengths.
THEOREM Receptions == NodeSpec => []ReceivedWhole
<1>1. Inv => ReceivedWhole
  <2>. SUFFICES ASSUME Inv PROVE ReceivedWhole
    OBVIOUS
  <2>1. BytesOf(Heard) \subseteq Bytes
    BY DEF BytesOf, Bytes
  <2>2. NodeTypeOK
    BY <2>1 DEF Inv, TypeInv, ConfType, BusType, NodeTypeOK
  <2>3. PacketsAreFrames
    BY DEF Inv, Copying, Whole, Checked, At, PacketsAreFrames
  <2>. QED
    BY <2>2, <2>3 DEF Inv, ReceivedWhole
<1>. QED
  BY <1>1, NodeInvariance, PTL

\* What the node publishes is one whole frame of the tester's, unless a ping
\* came while the main thread was sending or starting anew, and none since.
THEOREM Transmissions == NodeSpec => []SentWhole
<1>1. Inv => SentWhole
  BY DEF Inv, Transmission, SentWhole
<1>. QED
  BY <1>1, NodeInvariance, PTL
==============================================================================

---------------------------- MODULE PacketReader ----------------------------
(***************************************************************************)
(* How packets are read from several sockets that never block:             *)
(* MQTTPacket_Factory, Socket_getch, Socket_getdata and the input queues   *)
(* of SocketBuffer.c.  A packet that has not arrived whole is put aside    *)
(* with what was read of it, and is read again from its first byte later.  *)
(*                                                                         *)
(* A read is done with mqttasync_mutex held.  Each action is one call of   *)
(* Socket_getch or Socket_getdata; bytes arrive between them.              *)
(***************************************************************************)
EXTENDS MqttPacket, FiniteSets, TLC

CONSTANTS Sockets,          \* numbers of sockets, positive
          Packets,          \* what a server sends: the bytes, and what they mean
          MaxPackets,       \* bound: packets in sent
          MaxConnections    \* bound: connections made

ASSUME ReaderAssumption == Sockets \subseteq Nat \ {0} /\ MaxPackets \in Nat

VARIABLES open,             \* sockets with a connection
          input,            \* what the server sent and was not read
          available,        \* how many bytes of it have arrived
          ended,            \* whether the server has closed the connection
          sent, handed,     \* meanings: of what was sent, of what was handed on
          queues,           \* SocketBuffer.c: the queues of sockets
          def_queue,        \* the default queue
          reading,          \* the call of MQTTPacket_Factory
          connections

readerVars == <<open, input, available, ended, sent, handed, queues, def_queue, reading, connections>>

\* index, headerlen and fixed_header are those of the C structure, buf holds datalen bytes
NewQueue == [socket |-> 0, index |-> 0, headerlen |-> 0, fixed_header |-> <<>>, buf |-> <<>>]
NotReading == [sock |-> 0, bytes |-> <<>>]

ReaderInit ==
    /\ open = {} /\ connections = 0
    /\ input = [s \in Sockets |-> <<>>] /\ available = [s \in Sockets |-> 0]
    /\ ended = [s \in Sockets |-> FALSE]
    /\ sent = [s \in Sockets |-> <<>>] /\ handed = [s \in Sockets |-> <<>>]
    /\ queues = [s \in {} |-> NewQueue] /\ def_queue = NewQueue
    /\ reading = NotReading

-----------------------------------------------------------------------------
(* The server and the network.                                             *)

Open(s) ==
    /\ s \notin open /\ connections < MaxConnections /\ reading = NotReading
    /\ open' = open \cup {s} /\ connections' = connections + 1
    /\ input' = [input EXCEPT ![s] = <<>>] /\ available' = [available EXCEPT ![s] = 0]
    /\ ended' = [ended EXCEPT ![s] = FALSE]
    /\ sent' = [sent EXCEPT ![s] = <<>>] /\ handed' = [handed EXCEPT ![s] = <<>>]
    /\ UNCHANGED <<queues, def_queue, reading>>

ServerSends(s, p) ==
    /\ s \in open /\ ~ended[s]
    /\ FoldFunction(LAMBDA packs, n : Len(packs) + n, 0, sent) < MaxPackets
    /\ input' = [input EXCEPT ![s] = @ \o p.bytes]
    /\ sent' = [sent EXCEPT ![s] = Append(@, p.means)]
    /\ UNCHANGED <<open, available, ended, handed, queues, def_queue, reading, connections>>

Arrive(s) ==
    /\ s \in open /\ available[s] < Len(input[s])
    /\ available' = [available EXCEPT ![s] = @ + 1]
    /\ UNCHANGED <<open, input, ended, sent, handed, queues, def_queue, reading, connections>>

\* The connection ends, wherever in a packet it is
ServerEnds(s) ==
    /\ s \in open /\ ~ended[s]
    /\ ended' = [ended EXCEPT ![s] = TRUE]
    /\ input' = [input EXCEPT ![s] = SubSeq(@, 1, available[s])]
    /\ UNCHANGED <<open, available, sent, handed, queues, def_queue, reading, connections>>

-----------------------------------------------------------------------------
(* SocketBuffer.c.  The queue of socket s is its own, or the default one.  *)

Queue(s) == IF s \in DOMAIN queues THEN queues[s] ELSE def_queue
WithoutQueue(s) == [x \in DOMAIN queues \ {s} |-> queues[x]]

\* SocketBuffer_interrupted with the data read so far
SocketBuffer_interrupted(s, data) ==
    /\ queues' = (s :> [Queue(s) EXCEPT !.index = 0, !.buf = data]) @@ queues
    /\ def_queue' = IF s \in DOMAIN queues THEN def_queue ELSE NewQueue

\* SocketBuffer_complete: what was the queue of s is the default one
SocketBuffer_complete(s) ==
    /\ queues' = WithoutQueue(s)
    /\ def_queue' = NewQueue

\* Fault: a queue outlives its connection
CleanupDefaultOnly(s) ==
    /\ def_queue' = IF def_queue.socket = s THEN NewQueue ELSE def_queue
    /\ UNCHANGED queues

SocketBuffer_cleanup(s) ==
    /\ queues' = WithoutQueue(s)
    /\ def_queue' = IF def_queue.socket = s THEN NewQueue ELSE def_queue

\* Fault: the character is not said to be in the header
QueueCharUncounted(s, c) ==
    LET q == IF s \in DOMAIN queues THEN queues[s]
             ELSE IF def_queue.socket = 0 THEN [def_queue EXCEPT !.socket = s, !.index = 0]
             ELSE def_queue
        added == [q EXCEPT !.fixed_header = Append(SubSeq(@, 1, q.index), c), !.index = @ + 1]
    IN IF s \in DOMAIN queues
       THEN queues' = [queues EXCEPT ![s] = added] /\ UNCHANGED def_queue
       ELSE def_queue' = added /\ UNCHANGED queues

\* SocketBuffer_queueChar.  A default queue that is another socket's, or a
\* header that is full, is logged as fatal and the character is dropped.
QueueError(s) == \/ s \notin DOMAIN queues /\ def_queue.socket \notin {0, s}
                 \/ Queue(s).index > MAX_NO_OF_REMAINING_LENGTH_BYTES
SocketBuffer_queueChar(s, c) ==
    LET q == IF s \in DOMAIN queues THEN queues[s]
             ELSE IF def_queue.socket = 0 THEN [def_queue EXCEPT !.socket = s, !.index = 0]
             ELSE def_queue
        added == [q EXCEPT !.fixed_header = Append(SubSeq(@, 1, q.index), c),
                           !.index = @ + 1, !.headerlen = q.index + 1]
    IN IF QueueError(s) THEN UNCHANGED <<queues, def_queue>>
       ELSE IF s \in DOMAIN queues
       THEN queues' = [queues EXCEPT ![s] = added] /\ UNCHANGED def_queue
       ELSE def_queue' = added /\ UNCHANGED queues

Received(s, n) == /\ input' = [input EXCEPT ![s] = SubSeq(@, n + 1, Len(@))]
                  /\ available' = [available EXCEPT ![s] = @ - n]

-----------------------------------------------------------------------------
(* MQTTPacket_Factory.                                                     *)

\* select says that there is something to read, or the end
Factory(s) ==
    /\ reading = NotReading /\ s \in open
    /\ available[s] > 0 \/ ended[s]
    /\ reading' = [sock |-> s, bytes |-> <<>>]
    /\ UNCHANGED <<open, input, available, ended, sent, handed, queues, def_queue, connections>>

\* The header and the remaining length have been read
HeaderRead == Len(reading.bytes) > 1 /\ LastDigit(reading.bytes[Len(reading.bytes)])

\* A read fails: the caller closes the session, and Socket_close the socket
ReadFails(s) ==
    /\ SocketBuffer_cleanup(s)
    /\ open' = open \ {s}
    /\ reading' = NotReading
    /\ UNCHANGED <<input, available, ended, sent, handed, connections>>

Interrupted(s, data) ==
    /\ SocketBuffer_interrupted(s, data)
    /\ reading' = NotReading
    /\ UNCHANGED <<open, input, available, ended, sent, handed, connections>>

\* Socket_getch, from the queue: SocketBuffer_getQueuedChar
GetQueuedChar(s) ==
    /\ s \in DOMAIN queues /\ queues[s].index < queues[s].headerlen
    /\ reading' = [reading EXCEPT !.bytes = Append(@, queues[s].fixed_header[queues[s].index + 1])]
    /\ queues' = [queues EXCEPT ![s].index = @ + 1]
    /\ UNCHANGED <<open, input, available, ended, sent, handed, def_queue, connections>>

HeaderIsFull(s) == /\ s \in DOMAIN queues
                   /\ queues[s].index > MAX_NO_OF_REMAINING_LENGTH_BYTES

\* Socket_getch, from the socket
ReceiveChar(s) ==
    /\ ~(s \in DOMAIN queues /\ queues[s].index < queues[s].headerlen)
    /\ IF HeaderIsFull(s) THEN ReadFails(s)
       ELSE IF available[s] > 0
       THEN /\ reading' = [reading EXCEPT !.bytes = Append(@, Head(input[s]))]
            /\ Received(s, 1)
            /\ SocketBuffer_queueChar(s, Head(input[s]))
            /\ UNCHANGED <<open, ended, sent, handed, connections>>
       ELSE IF ended[s] THEN ReadFails(s)
       ELSE Interrupted(s, <<>>)

\* One more byte of header or remaining length
Getch(s) ==
    /\ reading.sock = s /\ ~HeaderRead
    /\ IF Len(reading.bytes) > MAX_NO_OF_REMAINING_LENGTH_BYTES
       THEN ReadFails(s)
       ELSE GetQueuedChar(s) \/ ReceiveChar(s)

\* Fault: a packet without data is taken for none
HandOnData(s, data) ==
    LET pack == new_packets(reading.bytes[1], data)
    IN /\ handed' = [handed EXCEPT ![s] =
                        IF pack \in {Bad, NoPacket} \/ data = <<>> THEN @ ELSE Append(@, pack)]
       /\ SocketBuffer_complete(s)
       /\ reading' = NotReading

\* The packet is whole: it is read, and handed to the caller if it is known
HandOn(s, data) ==
    LET pack == new_packets(reading.bytes[1], data)
    IN /\ handed' = [handed EXCEPT ![s] = IF pack \in {Bad, NoPacket} THEN @ ELSE Append(@, pack)]
       /\ SocketBuffer_complete(s)
       /\ reading' = NotReading

\* SocketBuffer_getQueuedData: what was read of the data earlier
Had(s) == IF s \in DOMAIN queues THEN queues[s].buf ELSE <<>>

\* Socket_getdata, and what MQTTPacket_Factory does with the data
Getdata(s) ==
    /\ reading.sock = s /\ HeaderRead
    /\ LET bytes == MQTTPacket_decode(Tail(reading.bytes))
           missing == bytes - Len(Had(s))
           n == IF missing <= available[s] THEN missing ELSE available[s]
           data == Had(s) \o SubSeq(input[s], 1, n)
       IN IF bytes = 0
          THEN /\ HandOn(s, <<>>)
               /\ UNCHANGED <<open, input, available, ended, sent, connections>>
          ELSE IF n = 0 /\ ended[s] THEN ReadFails(s)
          ELSE IF n = missing
          THEN /\ HandOn(s, data)
               /\ Received(s, n)
               /\ UNCHANGED <<open, ended, sent, connections>>
          ELSE /\ SocketBuffer_interrupted(s, data)
               /\ Received(s, n)
               /\ reading' = NotReading
               /\ UNCHANGED <<open, ended, sent, handed, connections>>

ReadOn(s) == Getch(s) \/ Getdata(s)

ReaderNext ==
    \E s \in Sockets : \/ Open(s) \/ Arrive(s) \/ ServerEnds(s)
                       \/ \E p \in Packets : ServerSends(s, p)
                       \/ Factory(s) \/ ReadOn(s)

\* What was sent arrives; every socket that is ready is served; a read goes on
ReaderSpec ==
    /\ ReaderInit /\ [][ReaderNext]_readerVars
    /\ \A s \in Sockets : /\ WF_readerVars(Arrive(s))
                          /\ SF_readerVars(Factory(s)) /\ WF_readerVars(ReadOn(s))

-----------------------------------------------------------------------------
\* The types; the default queue is no socket's between two reads, which is what
\* lets the next read use it
ReaderTypeOK ==
    /\ open \subseteq Sockets /\ DOMAIN queues \subseteq open
    /\ \A s \in DOMAIN queues : queues[s].socket = s
    /\ \A s \in Sockets : available[s] \in 0..Len(input[s])
    /\ def_queue.socket \in {0, reading.sock}
    /\ reading = NotReading => def_queue = NewQueue

(***************************************************************************)
(* However the bytes of packets arrive and however reads of several        *)
(* sockets interleave, what is handed on is what was sent, in order.       *)
(***************************************************************************)
PacketsIntact == \A s \in open : IsPrefix(handed[s], sent[s])

(***************************************************************************)
(* No byte is lost or kept twice: between two reads, the queue of a socket *)
(* holds what was read of the packet that has not been handed on.          *)
(***************************************************************************)
BytesRead(s) == IF s \in DOMAIN queues
                THEN SubSeq(queues[s].fixed_header, 1, queues[s].headerlen) \o queues[s].buf
                ELSE <<>>
Rest(s) == Joined([i \in 1..Len(sent[s]) - Len(handed[s]) |->
                      (CHOOSE p \in Packets : p.means = sent[s][Len(handed[s]) + i]).bytes])
NoByteLost ==
    reading = NotReading =>
        \A s \in open : LET kept == BytesRead(s) \o input[s]
                        IN IF ended[s] THEN IsPrefix(kept, Rest(s)) ELSE kept = Rest(s)

\* Every packet a server sends is handed on, unless the connection ends.
PacketsArrive ==
    \A s \in Sockets : s \in open /\ sent[s] # handed[s]
                           ~> (s \in open => ended[s] \/ sent[s] = handed[s])

\* What is handed on of each socket is what was sent, and what was read of an
\* unfinished packet is kept with its own socket.
ReadsAreWhole ==
    /\ ReaderTypeOK /\ PacketsIntact /\ NoByteLost
=============================================================================

------------------------------ MODULE SocketIO ------------------------------
(***************************************************************************)
(* Waiting for sockets and writing to them: Socket.c, and the output       *)
(* queues of SocketBuffer.c.                                               *)
(*                                                                         *)
(* Two threads.  The receive thread calls Socket_getReadySocket, without a *)
(* mutex, and then serves the socket it got, with mqttasync_mutex.  The    *)
(* send thread opens, writes and closes, with that mutex; it does so also  *)
(* between the steps of Socket_getReadySocket.  That function looks at     *)
(* s.cur_clientsds, uses it and moves it on one after another: a close in  *)
(* between may leave it NULL where it is used, or on an element that was   *)
(* freed.  What happens then is undefined in C, and the run ends there.    *)
(* A close in the middle of Socket_continueWrites, whose list elements it  *)
(* frees as well, is left out.                                             *)
(***************************************************************************)
EXTENDS Integers, Sequences, SequencesExt, FiniteSets, FiniteSetsExt

CONSTANTS FD,               \* descriptors, positive
          Buffer,           \* the lengths of a packet's buffers
          MaxWrites,        \* bound: packets written
          MaxOpens          \* bound: connections made

ASSUME SocketAssumption == FD \subseteq Nat \ {0} /\ Buffer \in Seq(Nat)

VARIABLES clientsds, cur_clientsds, connect_pending, maxfdp1,     \* Sockets s
          write_pending, wp_current, pending_wset,
          rset, pwset, wset,          \* what the selects said
          writes,                     \* SocketBuffer.c: the packets partly written
          conn,                       \* the connection each descriptor is of, or 0
          at, curpending,             \* where the receive thread is
          step,                       \* and within an iteration over the sockets
          closing,                    \* the socket the send thread is closing
          connecting,                 \* sockets whose client has connect_state 1
          overtaken,                  \* a close and an iteration have met
          wire,                       \* the bytes written on each connection
          accepted,                   \* the packets each connection was given
          complete,                   \* the packets said to be written
          next_packet, opens,
          orphaned,                   \* a socket was closed with a write pending
          failed                      \* the connections on which a write failed

lists == <<clientsds, cur_clientsds, connect_pending, maxfdp1>>
pending == <<write_pending, wp_current, pending_wset, writes>>
selected == <<rset, pwset, wset>>
ghosts == <<wire, accepted, complete, next_packet, opens, orphaned, failed>>
socketVars == <<lists, pending, selected, conn, at, curpending, step,
                closing, connecting, overtaken, ghosts>>

total == FoldSeq(+, 0, Buffer)
noPendingWrites(s) == ~Contains(write_pending, s)
NoSocket == 0

\* The element after s in a list, or none
After(list, s) == LET i == CHOOSE i \in DOMAIN list : list[i] = s
                  IN IF i = Len(list) THEN NoSocket ELSE list[i + 1]
FirstOf(list) == IF list = <<>> THEN NoSocket ELSE Head(list)
Minus(list, s) == SelectSeq(list, LAMBDA x : x # s)

SocketInit ==
    /\ clientsds = <<>> /\ cur_clientsds = NoSocket /\ connect_pending = {} /\ maxfdp1 = 0
    /\ write_pending = <<>> /\ wp_current = NoSocket /\ pending_wset = {} /\ writes = <<>>
    /\ rset = {} /\ pwset = {} /\ wset = {}
    /\ conn = [s \in FD |-> 0]
    /\ at = "idle" /\ curpending = NoSocket /\ step = "test"
    /\ closing = NoSocket /\ connecting = {} /\ overtaken = FALSE
    /\ wire = <<>> /\ accepted = <<>> /\ complete = {}
    /\ next_packet = 1 /\ opens = 0 /\ orphaned = FALSE /\ failed = {}

-----------------------------------------------------------------------------
(* Opening and closing.                                                    *)

\* The kernel gives the lowest free descriptor
Open == {s \in FD : conn[s] # 0}
LowestFree == Min(FD \ Open)

\* Socket_new, Socket_addSocket, and Socket_addPendingWrite if the connect is
\* in progress
Socket_new ==
    /\ opens < MaxOpens /\ Open # FD
    /\ \E s \in {LowestFree}, inProgress \in BOOLEAN :
           /\ conn' = [conn EXCEPT ![s] = opens + 1]
           /\ clientsds' = Append(clientsds, s)
           /\ maxfdp1' = IF s + 1 > maxfdp1 THEN s + 1 ELSE maxfdp1
           /\ connect_pending' = IF inProgress THEN connect_pending \cup {s} ELSE connect_pending
           /\ pending_wset' = IF inProgress THEN pending_wset \cup {s} ELSE pending_wset
           /\ connecting' = IF inProgress THEN connecting \cup {s} ELSE connecting
    /\ opens' = opens + 1
    /\ wire' = Append(wire, <<>>) /\ accepted' = Append(accepted, <<>>)
    /\ UNCHANGED <<cur_clientsds, write_pending, wp_current, writes, selected,
                   complete, next_packet, orphaned, failed>>

\* Fault: the iterator stays on the socket that is closed
IteratorStays(s) == cur_clientsds

\* The iterator leaves the socket that is closed
IteratorLeaves(s) == IF cur_clientsds = s THEN After(clientsds, s) ELSE cur_clientsds

\* Fault: the highest descriptor, not one more
MaxOnly(list) == Max(ToSet(list) \cup {0})

Highest(list) == Max(ToSet(list) \cup {0}) + 1

\* Socket_close, up to SocketBuffer_cleanup.  What is left to write stays in writes.
Forget(s) ==
    /\ conn[s] # 0
    /\ conn' = [conn EXCEPT ![s] = 0] /\ connecting' = connecting \ {s}
    /\ pending_wset' = pending_wset \ {s}
    /\ cur_clientsds' = IteratorLeaves(s)
    /\ connect_pending' = connect_pending \ {s}
    /\ write_pending' = Minus(write_pending, s)
    /\ wp_current' = IF wp_current = s THEN After(write_pending, s) ELSE wp_current
    /\ orphaned' = (orphaned \/ ~noPendingWrites(s))
    /\ UNCHANGED <<writes, wire, accepted, complete, next_packet, opens, failed>>

\* The rest of it: the element is removed and freed
Unlist(s) ==
    /\ clientsds' = Minus(clientsds, s)
    /\ maxfdp1' = IF s + 1 >= maxfdp1 THEN Highest(clientsds') ELSE maxfdp1

-----------------------------------------------------------------------------
(* Writing.                                                                *)

\* Bytes i..j of packet p, in the order of its buffers
BytesOf(p, i, j) == [k \in 1..j - i + 1 |-> <<p, i + k - 1>>]

Written(c, bytes) == wire' = [wire EXCEPT ![c] = @ \o bytes]

\* Socket_clearPendingWrite
Cleared(s) == pending_wset \ {s}

\* Socket_putdatas, called when watched is pending_wset.  All is written, or some,
\* or the kernel has no room, or the connection is broken.  The packet is refused
\* if a write is pending.
Socket_putdatas(s, watched) ==
    /\ next_packet <= MaxWrites /\ next_packet' = next_packet + 1
    /\ UNCHANGED <<conn, lists, opens, orphaned>>
    /\ wp_current' = IF noPendingWrites(s) THEN wp_current ELSE s
    /\ \/ /\ noPendingWrites(s) /\ conn[s] \notin failed
          /\ \E n \in 0..total :
                 /\ Written(conn[s], BytesOf(next_packet, 1, n))
                 /\ IF n = total
                    THEN /\ complete' = complete \cup {next_packet}
                         /\ pending_wset' = watched
                         /\ UNCHANGED <<write_pending, writes>>
                    ELSE /\ writes' = Append(writes, [socket |-> s, packet |-> next_packet,
                                                      bytes |-> n])
                         /\ write_pending' = Append(write_pending, s)
                         /\ pending_wset' = watched \cup {s}
                         /\ UNCHANGED complete
          /\ accepted' = [accepted EXCEPT ![conn[s]] = Append(@, next_packet)]
          /\ UNCHANGED failed
       \/ /\ failed' = IF noPendingWrites(s) THEN failed \cup {conn[s]} ELSE failed
          /\ pending_wset' = watched
          /\ UNCHANGED <<write_pending, writes, wire, accepted, complete>>

\* The first packet partly written that is kept for socket s: SocketBuffer_getWrite
PendingWrite(s) == CHOOSE i \in DOMAIN writes :
                       /\ writes[i].socket = s
                       /\ \A j \in 1..i - 1 : writes[j].socket # s

\* Where buffer i of the packet ends
BufferEnd(i) == FoldSeq(+, 0, SubSeq(Buffer, 1, i))

\* Fault: a buffer that was written exactly is left out with the one after it
UpToShort(bytes) == IF \E i \in DOMAIN Buffer : bytes = BufferEnd(i - 1) /\ i > 1
                    THEN bytes ELSE total

\* How far the buffers go that Socket_continueWrite gives the kernel: if a buffer
\* was written in part, only its rest
UpTo(bytes) ==
    LET part == {i \in DOMAIN Buffer : bytes > BufferEnd(i - 1) /\ bytes < BufferEnd(i)}
    IN IF part = {} THEN total ELSE BufferEnd(Min(part))

\* Fault: the packet is complete when the kernel took what it was given
TookWhatWasGiven(bytes, n) == bytes + n = UpTo(bytes)

AllWritten(bytes, n) == bytes + n = total

-----------------------------------------------------------------------------
(* The receive thread: Socket_getReadySocket.                              *)

\* isReady, for a socket of the last select
Connected(s) == s \in connect_pending /\ s \in wset
isReady(s) == Connected(s) \/ (s \in rset /\ s \in wset /\ noPendingWrites(s))

\* Whether a close and an iteration are going on at once, until both are over
Overlap(both) ==
    overtaken' = /\ overtaken \/ both
                 /\ at' = "undefined" \/ step' # "test" \/ closing' # NoSocket
Meets == closing' = closing /\ Overlap(closing # NoSocket)
Receives == Meets /\ UNCHANGED <<conn, connecting, ghosts>>
Iterates == Receives /\ UNCHANGED <<clientsds, maxfdp1, write_pending, pending_wset, writes>>

\* What the selects said is used no more
ForgetSelects == rset' = {} /\ pwset' = {} /\ wset' = {}

\* while (s.cur_clientsds != NULL): the sockets of the last select, then of this one
Look ==
    /\ at \in {"idle", "scan"} /\ step = "test" /\ cur_clientsds # NoSocket
    /\ step' = "use"
    /\ UNCHANGED <<at, curpending, cur_clientsds, connect_pending, wp_current, selected>>
    /\ Iterates

\* isReady of the socket it is on by now
Use ==
    /\ step = "use" /\ cur_clientsds # NoSocket
    /\ step' = IF isReady(cur_clientsds) THEN "ready" ELSE "next"
    /\ connect_pending' = IF Connected(cur_clientsds)
                          THEN connect_pending \ {cur_clientsds} ELSE connect_pending
    /\ wp_current' = IF noPendingWrites(cur_clientsds) \/ Connected(cur_clientsds)
                     THEN wp_current ELSE cur_clientsds
    /\ UNCHANGED <<at, curpending, cur_clientsds, selected>>
    /\ Iterates

\* A close has made the pointer NULL since it was looked at
UseNull ==
    /\ step = "use" /\ cur_clientsds = NoSocket
    /\ at' = "undefined"
    /\ UNCHANGED <<curpending, step, cur_clientsds, connect_pending, wp_current, selected>>
    /\ Iterates

\* Behind the break the socket is read once more.  After a close that is the
\* next one, ready or not; or there is none: 0 is returned, or select comes next.
Ready ==
    /\ step = "ready"
    /\ IF cur_clientsds = NoSocket
       THEN at' = "idle" /\ step' = "test" /\ ForgetSelects /\ UNCHANGED curpending
       ELSE at' = "serve" /\ curpending' = cur_clientsds /\ step' = "next" /\ UNCHANGED selected
    /\ UNCHANGED <<cur_clientsds, connect_pending, wp_current>>
    /\ Iterates

\* ListNextElement; where a close has left no element, it is the first again
Advance ==
    /\ step = "next"
    /\ step' = "test"
    /\ cur_clientsds' = IF cur_clientsds = NoSocket THEN FirstOf(clientsds)
                        ELSE After(clientsds, cur_clientsds)
    /\ IF cur_clientsds' = NoSocket THEN ForgetSelects ELSE UNCHANGED selected
    /\ UNCHANGED <<at, curpending, connect_pending, wp_current>>
    /\ Iterates

\* No socket is left: nothing is ready
ScanEnds == /\ at = "scan" /\ step = "test" /\ cur_clientsds = NoSocket
            /\ at' = "idle"
            /\ ForgetSelects
            /\ UNCHANGED <<lists, pending, curpending, step>> /\ Receives

\* The first select, for reading and for pending writes
Select(readable, writable) ==
    /\ at = "idle" /\ step = "test" /\ cur_clientsds = NoSocket /\ clientsds # <<>>
    /\ rset' = readable /\ pwset' = writable
    /\ at' = "writes" /\ curpending' = FirstOf(write_pending)
    /\ UNCHANGED <<wset, lists, pending, step>> /\ Receives

\* Socket_continueWrites passes a socket that is not writable
PassWrite ==
    /\ at = "writes" /\ curpending # NoSocket /\ curpending \notin pwset
    /\ curpending' = After(write_pending, curpending)
    /\ UNCHANGED <<at, lists, pending, selected, step>> /\ Receives

\* Socket_continueWrite: some bytes are written, perhaps all that were left
Continue(s) ==
    /\ at = "writes" /\ curpending = s /\ s \in pwset /\ conn[s] \notin failed
    /\ LET i == PendingWrite(s)
           w == writes[i]
       IN \E n \in 0..UpTo(w.bytes) - w.bytes :
              /\ Written(conn[s], BytesOf(w.packet, w.bytes + 1, w.bytes + n))
              /\ writes' = [writes EXCEPT ![i].bytes = @ + n]
              /\ IF AllWritten(w.bytes, n)
                 THEN at' = "written" /\ UNCHANGED curpending
                 ELSE at' = at /\ curpending' = After(write_pending, s)
    /\ UNCHANGED <<conn, connecting, lists, step, write_pending, wp_current,
                   pending_wset, selected, accepted,
                   complete, next_packet, opens, orphaned, failed>>
    /\ Meets

\* The same if the connection is broken: the result, -1, is taken for success
ContinueFails(s) ==
    /\ at = "writes" /\ curpending = s /\ s \in pwset
    /\ failed' = failed \cup {conn[s]}
    /\ at' = "written"
    /\ UNCHANGED <<conn, connecting, lists, step, pending, selected, curpending, wire,
                   accepted, complete, next_packet, opens, orphaned>>
    /\ Meets

\* Fault: the packet stays where pending writes are kept
KeptInWrites(s) == writes

\* SocketBuffer_writeComplete
RemovedFromWrites(s) == RemoveAt(writes, PendingWrite(s))

\* The rest of the iteration of Socket_continueWrites.  The next socket is the
\* list's current one, which is not always the one after s.
WriteDone(s) ==
    /\ at = "written" /\ curpending = s
    /\ complete' = complete \cup {writes[PendingWrite(s)].packet}
    /\ writes' = RemovedFromWrites(s)
    /\ pending_wset' = pending_wset \ {s}
    /\ write_pending' = Minus(write_pending, s)
    /\ wp_current' = IF wp_current = s THEN After(write_pending, s) ELSE wp_current
    /\ curpending' = wp_current'
    /\ at' = "writes"
    /\ UNCHANGED <<lists, step, selected, conn, connecting, wire, accepted,
                   next_packet, opens, orphaned, failed>>
    /\ Meets

\* The second select, for writing, after which the sockets are gone through
SelectWrite(writable) ==
    /\ at = "writes" /\ curpending = NoSocket
    /\ wset' = writable
    /\ cur_clientsds' = FirstOf(clientsds)
    /\ at' = "scan"
    /\ pwset' = {}
    /\ UNCHANGED <<rset, clientsds, connect_pending, maxfdp1, pending, curpending, step>>
    /\ Receives

\* MQTTAsync_cycle, with the mutex: a packet is read from the socket and perhaps
\* answered, or the connect has completed and CONNECT is sent; an error closes it
Serve(s) ==
    /\ at = "serve" /\ step = "test" /\ curpending = s /\ closing = NoSocket
    /\ at' = "idle" /\ curpending' = NoSocket
    /\ UNCHANGED <<step, selected>> /\ Meets
    /\ \/ s \notin connecting /\ UNCHANGED <<lists, pending, conn, connecting, ghosts>>
       \/ Forget(s) /\ Unlist(s)
       \/ /\ conn[s] # 0 /\ s \notin connecting /\ UNCHANGED connecting
          /\ Socket_putdatas(s, pending_wset)
       \/ /\ s \in connecting /\ connecting' = connecting \ {s}
          /\ Socket_putdatas(s, Cleared(s))

ReceiveStep ==
    /\ at # "undefined"
    /\ \/ Look \/ Use \/ UseNull \/ Ready \/ Advance
       \/ ScanEnds \/ PassWrite
       \/ \E r \in SUBSET Open, w \in SUBSET pending_wset : Select(r, w)
       \/ \E w \in SUBSET Open : SelectWrite(w)
       \/ \E s \in FD : Continue(s) \/ ContinueFails(s) \/ WriteDone(s) \/ Serve(s)

-----------------------------------------------------------------------------
(* The send thread.                                                        *)

Sends == at # "undefined" /\ UNCHANGED <<selected, curpending, step>>

SendOpens == /\ Sends /\ closing = NoSocket /\ Socket_new
             /\ UNCHANGED <<at, closing, overtaken>>

\* MQTTAsync_processCommand takes a command only of a client that is connected,
\* and only if no write is pending
SendWrites(s) == /\ Sends /\ closing = NoSocket
                 /\ conn[s] # 0 /\ noPendingWrites(s) /\ s \notin connecting
                 /\ Socket_putdatas(s, pending_wset)
                 /\ UNCHANGED <<at, closing, connecting, overtaken>>

\* What the receive thread may have read when the close comes, and use after it:
\* the element it is on, and the one it is about to go on to
Held == (IF step \in {"use", "ready", "next"} THEN {cur_clientsds} ELSE {})
        \cup (IF step = "next" /\ cur_clientsds # NoSocket
              THEN {After(clientsds, cur_clientsds)} ELSE {})
SendCloses(s) == /\ Sends /\ at \notin {"writes", "written"} /\ closing = NoSocket
                 /\ Forget(s)
                 /\ closing' = s
                 /\ \/ at' = at
                    \/ s \in Held /\ at' = "undefined"
                 /\ UNCHANGED <<clientsds, maxfdp1>> /\ Overlap(step # "test")

\* The element is freed, whoever points to it
SendCloseEnds == /\ Sends /\ closing # NoSocket
                 /\ Unlist(closing)
                 /\ at' = IF closing = cur_clientsds THEN "undefined" ELSE at
                 /\ closing' = NoSocket /\ Overlap(step # "test")
                 /\ UNCHANGED <<cur_clientsds, connect_pending, pending, conn, connecting,
                                ghosts>>

SocketNext == \/ ReceiveStep \/ SendOpens \/ SendCloseEnds
              \/ \E s \in FD : SendWrites(s) \/ SendCloses(s)

(***************************************************************************)
(* Both threads go on with what they have begun.  A socket that waits for  *)
(* it becomes writable at some time, and then takes at least one byte.     *)
(***************************************************************************)
SelectFinds(s) == \E r \in SUBSET Open, w \in SUBSET pending_wset :
                      s \in w /\ Select(r, w)
Progress(s) == Continue(s) /\ writes' # writes

SocketSpec ==
    /\ SocketInit /\ [][SocketNext]_socketVars
    /\ WF_socketVars(ReceiveStep) /\ WF_socketVars(SendCloseEnds)
    /\ \A s \in FD : /\ SF_socketVars(SelectFinds(s))
                     /\ SF_socketVars(Progress(s))

-----------------------------------------------------------------------------
\* The types; what is listed has a connection, or is being closed; a write is
\* pending exactly where one is kept, unless one is orphaned
SocketTypeOK ==
    /\ ToSet(clientsds) = Open \cup ({closing} \ {NoSocket})
    /\ connect_pending \subseteq ToSet(clientsds)
    /\ ToSet(write_pending) \subseteq ToSet(clientsds)
    /\ \A w \in Range(writes) : w.bytes \in 0..total
    /\ ~orphaned => Len(writes) = Len(write_pending)

(***************************************************************************)
(* Every byte stream is what was accepted for it: packets whole and in     *)
(* order, none mixed with another, and all of it if no write is pending -  *)
(* until a socket is closed with a write pending.                          *)
(***************************************************************************)
Whole(p) == BytesOf(p, 1, total)
Stream(c) == FlattenSeq([i \in DOMAIN accepted[c] |-> Whole(accepted[c][i])])
IsWhole(c) ==
    /\ IsPrefix(wire[c], Stream(c))
    /\ (c \notin failed /\ \E s \in FD : conn[s] = c /\ noPendingWrites(s))
           => wire[c] = Stream(c)
StreamsAreWhole == ~orphaned => \A c \in DOMAIN wire : IsWhole(c)

\* The same for every run: SocketBuffer_cleanup says that it cleans up any
\* buffers of the socket.
StreamsStayWhole == \A c \in DOMAIN wire : IsWhole(c)

\* A packet is said to be written only when the kernel has all of it, unless
\* the connection is broken.
CompleteIsWritten ==
    ~orphaned =>
        \A p \in complete : \E c \in DOMAIN wire :
            c \in failed \/ \E k \in 0..Len(wire[c]) - total :
                                SubSeq(wire[c], k + 1, k + total) = Whole(p)

(***************************************************************************)
(* select watches what it must: no descriptor is beyond the limit, and     *)
(* every pending write and every pending connect is waited for.  The       *)
(* iterator is on a socket of the list and never used when it is not,      *)
(* although sockets are closed between the iterations and the calls of     *)
(* Socket_getReadySocket; only a close that comes while an iteration is    *)
(* going on breaks that.                                                   *)
(***************************************************************************)
WatchesAll ==
    /\ \A s \in ToSet(clientsds) : s < maxfdp1
    /\ ToSet(write_pending) \cup connecting \subseteq pending_wset
    /\ at = "undefined" => overtaken
    /\ at # "undefined" => cur_clientsds \in ToSet(clientsds) \cup {NoSocket}

\* Every pending write ends, or its socket is closed, where the code is defined.
PendingWritesEnd ==
    \A s \in FD : ~noPendingWrites(s) ~> (noPendingWrites(s) \/ at = "undefined")

(***************************************************************************)
(* A socket is served only if nothing is waiting to be written to it, so   *)
(* that the answer can be sent: "Don't accept work from a client unless it *)
(* is accepting work back".                                                *)
(***************************************************************************)
ServedIsWritable == \A s \in FD : at = "serve" /\ curpending = s => noPendingWrites(s)

\* However writes are cut short and sockets closed meanwhile, what the kernel
\* gets of each packet is whole and in order, and select waits for the rest.
WritesAreSound ==
    /\ SocketTypeOK /\ StreamsAreWhole /\ CompleteIsWritten /\ WatchesAll
=============================================================================

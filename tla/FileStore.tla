------------------------------ MODULE FileStore -----------------------------
(***************************************************************************)
(* The default persistent store, MQTTPersistenceDefault.c: a directory     *)
(* with a file for each record, and MQTTPersistence_restore, which reads   *)
(* it when the program starts.  The process may end at any byte of a put,  *)
(* and the disk may be full.                                               *)
(***************************************************************************)
EXTENDS MqttRecord, FiniteSets

CONSTANTS Stored,       \* what is put: the key, the record and what it means
          MaxPuts,      \* bound: puts
          MaxFaults     \* bound: ends of the process, and times the disk is full

ASSUME FileStoreAssumption == MaxPuts \in Nat /\ MaxFaults \in Nat

Key == {r.key : r \in Stored}
IsPacket(key) == key[1] \in {"s-", "sc-", "r-"}

\* What is put is bytes; the record of a packet is one that can be read
ASSUME StoredAssumption ==
    \A r \in Stored :
        /\ r.bytes \in Seq(Nat)
        /\ IsPacket(r.key) => /\ MQTTPersistence_restorePacket(r.bytes) = r.means
                             /\ r.means # NoPacket

VARIABLES
    files,      \* what the files have in them, by key
    call,       \* the put in progress: its record, and how much of it is written
    puts, faults,
    \* history: what a caller was told is stored, the keys for which this is
    \* wrong because the disk was full, and those of puts the process ended in
    kept, cut, interrupted

fileVars == <<files, call, puts, faults, kept, cut, interrupted>>

NoCall == [in |-> FALSE]
Fault == faults < MaxFaults /\ faults' = faults + 1
But(records, keys) == [k \in DOMAIN records \ keys |-> records[k]]
With(records, key, record) ==
    [k \in DOMAIN records \cup {key} |-> IF k = key THEN record ELSE records[k]]

FileInit == /\ files = <<>> /\ call = NoCall /\ puts = 0 /\ faults = 0
            /\ kept = <<>> /\ cut = {} /\ interrupted = {}

-----------------------------------------------------------------------------
(* pstput.                                                                 *)

\* Fault: what is in the file stays before what is written
OpensToAppend(key) == IF key \in DOMAIN files THEN files ELSE With(files, key, <<>>)

\* fopen "wb": the file is empty, whatever it had in it
Opened(key) == With(files, key, <<>>)

PutOpens(r) ==
    /\ ~call.in /\ puts < MaxPuts
    /\ files' = Opened(r.key)
    /\ call' = [in |-> TRUE, of |-> r]
    /\ kept' = But(kept, {r.key})
    /\ cut' = cut \ {r.key} /\ interrupted' = interrupted \ {r.key}
    /\ puts' = puts + 1 /\ UNCHANGED faults

\* fwrite: another byte reaches the file
PutWrites ==
    /\ call.in /\ Len(files[call.of.key]) < Len(call.of.bytes)
    /\ files' = [files EXCEPT ![call.of.key] = Append(@, call.of.bytes[Len(@) + 1])]
    /\ UNCHANGED <<call, puts, faults, kept, cut, interrupted>>

PutReturns(whole) ==
    /\ call.in
    /\ call' = NoCall
    /\ kept' = With(kept, call.of.key, call.of)
    /\ cut' = IF whole THEN cut ELSE cut \cup {call.of.key}
    /\ UNCHANGED <<files, puts, interrupted>>

PutEnds == /\ call.in /\ files[call.of.key] = call.of.bytes
           /\ PutReturns(TRUE) /\ UNCHANGED faults

\* The disk is full, which fclose finds out: what it returns is not looked at
PutCut == /\ call.in /\ files[call.of.key] # call.of.bytes
          /\ PutReturns(FALSE) /\ Fault

\* Fault: what was written is left there
LeftThere == files

\* fwrite finds it out: the record is removed, and the caller told so
Withdrawn == But(files, {call.of.key})

PutFails ==
    /\ call.in /\ files[call.of.key] # call.of.bytes
    /\ files' = Withdrawn
    /\ call' = NoCall
    /\ Fault /\ UNCHANGED <<puts, kept, cut, interrupted>>

-----------------------------------------------------------------------------
pstremove(key) ==
    /\ ~call.in /\ key \in DOMAIN files
    /\ files' = But(files, {key}) /\ kept' = But(kept, {key}) /\ cut' = cut \ {key}
    /\ UNCHANGED <<call, puts, faults, interrupted>>

Restored(key) == MQTTPersistence_restorePacket(files[key])

(***************************************************************************)
(* The process ends and is started again: MQTTPersistence_restore reads    *)
(* the packets, in the order in which the directory lists them, and        *)
(* removes what is no packet and every PUBREL for which pstcontainskey     *)
(* finds no PUBLISH; earlier are the bad records that come before these.   *)
(***************************************************************************)
Restart ==
    LET packets == {k \in DOMAIN files : IsPacket(k)}
        bad == {k \in packets : Restored(k) = NoPacket}
    IN \E earlier \in SUBSET bad :
           LET orphans == {k \in packets \ bad : k[1] = "sc-" /\
                               <<"s-", k[2]>> \notin DOMAIN files \ earlier}
           IN /\ files' = But(files, bad \cup orphans)
              /\ kept' = But(kept, (bad \cap cut) \cup orphans) /\ cut' = cut \ bad
              /\ interrupted' = IF call.in THEN interrupted \cup {call.of.key} ELSE interrupted
              /\ call' = NoCall
              /\ Fault /\ UNCHANGED puts

FileNext == \/ \E r \in Stored : PutOpens(r)
            \/ PutWrites \/ PutEnds \/ PutCut \/ PutFails \/ Restart
            \/ \E k \in Key : pstremove(k)

FileSpec == FileInit /\ [][FileNext]_fileVars

-----------------------------------------------------------------------------
\* A file is the beginning of a record that was put under its key
FileTypeOK ==
    /\ DOMAIN files \subseteq Key
    /\ \A k \in DOMAIN files : \E r \in Stored : r.key = k /\ IsPrefix(files[k], r.bytes)
    /\ call.in => call.of.key \in DOMAIN files

(***************************************************************************)
(* Whenever the process ends, no part of a record is taken for a packet: a *)
(* packet that is restored is one that was put.                            *)
(***************************************************************************)
RestoredIsWhole ==
    \A k \in DOMAIN files : IsPacket(k) /\ Restored(k) # NoPacket =>
        \E r \in Stored : r.key = k /\ files[k] = r.bytes /\ Restored(k) = r.means

(***************************************************************************)
(* A record whose put returned success is there whole until it is removed, *)
(* replaced, or without the PUBLISH it belongs to; and nothing is there    *)
(* but such records and those of a put that the process ended in.  That a  *)
(* full disk is met by fclose alone is left out.                           *)
(***************************************************************************)
KeptIsFound ==
    /\ \A k \in DOMAIN kept \ cut : k \in DOMAIN files /\ files[k] = kept[k].bytes
    /\ DOMAIN files \subseteq DOMAIN kept \cup interrupted
                              \cup (IF call.in THEN {call.of.key} ELSE {})

\* Whenever the process ends, a packet that is restored is one that was put,
\* and one whose put succeeded is found.
FilesAreWhole ==
    /\ FileTypeOK /\ RestoredIsWhole /\ KeptIsFound
=============================================================================

------------------------- MODULE FileStore_proofs ---------------------------
(***************************************************************************)
(* The proof that the files of the store are whole: whenever the process   *)
(* ends, a packet that is restored is one that was put, and one whose put  *)
(* succeeded is found.                                                     *)
(***************************************************************************)
EXTENDS FileStore, FiniteSetTheorems, SequenceTheorems, TLAPS

-----------------------------------------------------------------------------
(* A record that is cut is no packet.                                      *)

\* A set of numbers has a least one
LEMMA Least ==
    ASSUME NEW S \in SUBSET Nat, S # {}
    PROVE  \E m \in S : \A k \in S : m <= k
<1>. DEFINE Upto == {0..k : k \in S}
<1>1. \A k \in S : 0..k \in FiniteSubsetsOf(Nat)
  BY FS_Interval DEF FiniteSubsetsOf
<1>2. Upto \subseteq FiniteSubsetsOf(Nat) /\ Upto # {}
  BY <1>1
<1>. HIDE DEF Upto
<1>3. PICK x \in Upto : \A y \in Upto : <<y, x>> \notin StrictSubsetOrdering(Nat)
  BY <1>2, FS_StrictSubsetOrderingWellFounded, WFMin
<1>4. PICK m \in S : x = 0..m
  BY <1>3 DEF Upto
<1>5. ASSUME NEW k \in S, k < m
      PROVE  FALSE
  <2>1. 0..k \in Upto
    BY DEF Upto
  <2>2. 0..k \in SUBSET Nat /\ 0..m \in SUBSET Nat /\ 0..k \subseteq 0..m /\ m \in 0..m /\ m \notin 0..k
    BY <1>5
  <2>3. <<0..k, 0..m>> \in StrictSubsetOrdering(Nat)
    BY <2>2 DEF StrictSubsetOrdering
  <2>. QED
    BY <2>1, <2>3, <1>3, <1>4
<1>. QED
  BY <1>5

LEMMA PrefixIs ==
    ASSUME NEW s \in Seq(Nat), NEW t \in Seq(Nat)
    PROVE  IsPrefix(s, t) <=> Len(s) <= Len(t) /\ \A i \in 1..Len(s) : s[i] = t[i]
<1>1. /\ SubSeq(s, 1, Len(s)) = s
  OBVIOUS
<1>2. ASSUME Len(s) <= Len(t)
      PROVE  /\ SubSeq(t, 1, Len(s)) \in Seq(Nat) /\ Len(SubSeq(t, 1, Len(s))) = Len(s)
             /\ \A i \in 1..Len(s) : SubSeq(t, 1, Len(s))[i] = t[i]
  BY <1>2
<1>3. ASSUME Len(s) <= Len(t)
      PROVE  s = SubSeq(t, 1, Len(s)) <=> \A i \in 1..Len(s) : s[i] = t[i]
  <2>. DEFINE u == SubSeq(t, 1, Len(s))
  <2>1. u \in Seq(Nat) /\ Len(u) = Len(s) /\ \A i \in 1..Len(s) : u[i] = t[i]
    BY <1>2, <1>3
  <2>. HIDE DEF u
  <2>2. (\A i \in 1..Len(s) : s[i] = u[i]) => s = u
    BY <2>1, SeqEqual
  <2>. QED
    BY <2>1, <2>2 DEF u
<1>. QED
  BY <1>1, <1>3 DEF IsPrefix

\* Where the remaining length of a record ends, 1 if it does not
LastOf(record) == 1 + SelectInSeq(Tail(record), LastDigit)

\* The position of the last digit is the first of a byte that may be one
LEMMA LastOfIs ==
    ASSUME NEW s \in Seq(Nat), Len(s) >= 2, LastOf(s) # 1
    PROVE  /\ LastOf(s) \in 2..Len(s) /\ LastDigit(s[LastOf(s)])
           /\ \A i \in 2..Len(s) : LastDigit(s[i]) => LastOf(s) <= i
<1>. DEFINE t == Tail(s)
            I == {i \in 1..Len(t) : LastDigit(t[i])}
<1>1. t \in Seq(Nat) /\ Len(t) = Len(s) - 1 /\ \A i \in 1..Len(t) : t[i] = s[i + 1]
  OBVIOUS
<1>2. LastOf(s) = 1 + (IF I # {} THEN Min(I) ELSE 0)
  BY DEF LastOf, SelectInSeq
<1>3. I # {} /\ I \in SUBSET Nat
  BY <1>1, <1>2
<1>4. Min(I) \in I /\ \A k \in I : Min(I) <= k
  <2>. HIDE DEF I
  <2>1. \E m \in I : \A k \in I : m <= k
    BY <1>3, Least
  <2>. QED
    BY <2>1 DEF Min
<1>5. LastOf(s) = 1 + Min(I)
  BY <1>2, <1>3
<1>6. Min(I) \in 1..Len(t) /\ LastDigit(t[Min(I)])
  BY <1>4
<1>. DEFINE m == Min(I)
<1>. HIDE DEF m
<1>7. ASSUME NEW i \in 2..Len(s), LastDigit(s[i])
      PROVE  LastOf(s) <= i
  <2>1. i - 1 \in 1..Len(t) /\ t[i - 1] = s[i]
    BY <1>1
  <2>2. i - 1 \in I
    BY <2>1, <1>7
  <2>3. m <= i - 1 /\ m \in 1..Len(t)
    BY <2>2, <1>4, <1>6 DEF m
  <2>4. LastOf(s) = 1 + m
    BY <1>5 DEF m
  <2>. QED
    BY <2>3, <2>4, <1>1
<1>8. LastOf(s) = 1 + m /\ m \in 1..Len(t) /\ LastDigit(t[m])
  BY <1>5, <1>6 DEF m
<1>. HIDE DEF I, t
<1>9. LastOf(s) \in 2..Len(s) /\ s[LastOf(s)] = t[m]
  BY <1>1, <1>8
<1>10. LastDigit(s[LastOf(s)])
  BY <1>8, <1>9, Zenon
<1>. QED
  BY <1>7, <1>9, <1>10, Zenon

\* The beginning of a record that can be read cannot: its remaining length, if
\* it has one, is that of the record
LEMMA CutIsNoPacket ==
    ASSUME NEW p \in Seq(Nat), NEW r \in Seq(Nat), IsPrefix(p, r), p # r,
           MQTTPersistence_restorePacket(r) # NoPacket
    PROVE  MQTTPersistence_restorePacket(p) = NoPacket
<1>1. /\ Len(r) >= 2 /\ LastOf(r) # 1
      /\ LastOf(r) + MQTTPacket_decode(SubSeq(r, 2, LastOf(r))) = Len(r)
  BY DEF MQTTPersistence_restorePacket, LastOf
<1>2. SUFFICES ASSUME /\ Len(p) >= 2 /\ LastOf(p) # 1
                      /\ LastOf(p) + MQTTPacket_decode(SubSeq(p, 2, LastOf(p))) = Len(p)
               PROVE  FALSE
  BY DEF MQTTPersistence_restorePacket, LastOf
<1>3. Len(p) <= Len(r) /\ \A i \in 1..Len(p) : p[i] = r[i]
  BY PrefixIs, Zenon
<1>4. LastOf(p) = LastOf(r) /\ LastOf(p) \in 2..Len(p)
  <2>1. /\ LastOf(p) \in 2..Len(p) /\ LastDigit(p[LastOf(p)])
        /\ \A i \in 2..Len(p) : LastDigit(p[i]) => LastOf(p) <= i
    BY <1>2, LastOfIs
  <2>2. /\ LastOf(r) \in 2..Len(r) /\ LastDigit(r[LastOf(r)])
        /\ \A i \in 2..Len(r) : LastDigit(r[i]) => LastOf(r) <= i
    BY <1>1, LastOfIs
  <2>3. LastOf(r) <= LastOf(p)
    BY <2>1, <2>2, <1>3
  <2>4. LastOf(r) \in 2..Len(p) /\ LastDigit(p[LastOf(r)])
    <3>1. LastOf(r) \in 2..Len(p)
      BY <2>1, <2>2, <2>3
    <3>2. p[LastOf(r)] = r[LastOf(r)]
      BY <3>1, <1>3
    <3>. QED
      BY <3>1, <3>2, <2>2
  <2>. QED
    <3>1. LastOf(p) <= LastOf(r)
      BY <2>1, <2>4
    <3>. QED
      BY <2>1, <2>3, <2>4, <3>1
<1>5. SubSeq(p, 2, LastOf(p)) = SubSeq(r, 2, LastOf(r))
  <2>. DEFINE n == LastOf(p)
  <2>1. n \in 2..Len(p) /\ n = LastOf(r)
    BY <1>4
  <2>. HIDE DEF n
  <2>2. SubSeq(p, 2, n) = SubSeq(r, 2, n)
    <3>1. n \in 2..Len(p) /\ n \in 2..Len(r)
      BY <2>1, <1>3
    <3>2. /\ SubSeq(p, 2, n) \in Seq(Nat) /\ Len(SubSeq(p, 2, n)) = n - 1
          /\ \A i \in 1..n - 1 : SubSeq(p, 2, n)[i] = p[i + 1]
      BY <3>1
    <3>3. /\ SubSeq(r, 2, n) \in Seq(Nat) /\ Len(SubSeq(r, 2, n)) = n - 1
          /\ \A i \in 1..n - 1 : SubSeq(r, 2, n)[i] = r[i + 1]
      BY <3>1
    <3>4. \A i \in 1..n - 1 : SubSeq(p, 2, n)[i] = SubSeq(r, 2, n)[i]
      <4>1. \A i \in 1..n - 1 : p[i + 1] = r[i + 1]
        BY <3>1, <1>3
      <4>. QED
        BY <3>2, <3>3, <4>1, Zenon
    <3>. QED
      BY <3>2, <3>3, <3>4, SeqEqual, Zenon
  <2>3. n = LastOf(p) /\ n = LastOf(r)
    BY <2>1 DEF n
  <2>. QED
    BY <2>2, <2>3, Zenon
<1>6. Len(p) = Len(r)
  BY <1>1, <1>2, <1>4, <1>5
<1>7. p = r
  BY <1>3, <1>6, SeqEqual, Zenon
<1>. QED
  BY <1>7

-----------------------------------------------------------------------------
(* What every step keeps.                                                  *)

\* Each file is the beginning of a record put under its key, and that of the put
\* in progress of its own; what is kept is under its key, and not being put
FileInv ==
    /\ files \in [DOMAIN files -> Seq(Nat)]
    /\ kept \in [DOMAIN kept -> Stored]
    /\ \A k \in DOMAIN kept : kept[k].key = k
    /\ \A k \in DOMAIN files : \E r \in Stored : r.key = k /\ IsPrefix(files[k], r.bytes)
    /\ call = NoCall \/ \E r \in Stored : call = [in |-> TRUE, of |-> r]
    /\ call.in => /\ call.of.key \in DOMAIN files /\ call.of.key \notin DOMAIN kept
                  /\ IsPrefix(files[call.of.key], call.of.bytes)
    /\ KeptIsFound

LEMMA WholeOrNoPacket ==
    ASSUME FileInv, NEW k \in DOMAIN files, IsPacket(k), Restored(k) # NoPacket
    PROVE  \E r \in Stored : r.key = k /\ files[k] = r.bytes /\ Restored(k) = r.means
<1>1. PICK r \in Stored : r.key = k /\ IsPrefix(files[k], r.bytes)
  BY DEF FileInv
<1>2. /\ r.bytes \in Seq(Nat) /\ files[k] \in Seq(Nat)
      /\ MQTTPersistence_restorePacket(r.bytes) = r.means /\ r.means # NoPacket
  BY <1>1, StoredAssumption DEF FileInv
<1>3. files[k] = r.bytes
  BY <1>1, <1>2, CutIsNoPacket DEF Restored
<1>. QED
  BY <1>1, <1>2, <1>3 DEF Restored

LEMMA FileInvGives == FileInv => FilesAreWhole
<1>1. FileInv => FileTypeOK
  <2>1. FileInv => DOMAIN files \subseteq Key
    BY DEF FileInv, Key
  <2>. QED
    BY <2>1 DEF FileInv, FileTypeOK
<1>2. FileInv => RestoredIsWhole
  BY WholeOrNoPacket DEF RestoredIsWhole
<1>. QED
  BY <1>1, <1>2 DEF FileInv, FilesAreWhole

LEMMA FilesInit == FileInit => FileInv
  BY DEF FileInit, FileInv, NoCall, KeptIsFound

LEMMA FilesOpens ==
    ASSUME FileInv, NEW r \in Stored, PutOpens(r)
    PROVE  FileInv'
<1>1. /\ ~call.in /\ files' = With(files, r.key, <<>>) /\ call' = [in |-> TRUE, of |-> r]
      /\ kept' = But(kept, {r.key}) /\ cut' = cut \ {r.key} /\ interrupted' = interrupted \ {r.key}
  BY DEF PutOpens, Opened
<1>2. DOMAIN files' = DOMAIN files \cup {r.key} /\ files'[r.key] = <<>>
      /\ \A k \in DOMAIN files \ {r.key} : files'[k] = files[k]
  BY <1>1 DEF With
<1>3. files' \in [DOMAIN files' -> Seq(Nat)]
  <2>1. files' = [k \in DOMAIN files' |-> files'[k]]
    BY <1>1 DEF With
  <2>2. \A k \in DOMAIN files : files[k] \in Seq(Nat)
    BY DEF FileInv
  <2>3. <<>> \in Seq(Nat)
    OBVIOUS
  <2>4. \A k \in DOMAIN files' : files'[k] \in Seq(Nat)
    BY <1>2, <2>2, <2>3
  <2>. QED
    BY <2>1, <2>4
<1>4. DOMAIN kept' = DOMAIN kept \ {r.key} /\ \A k \in DOMAIN kept' : kept'[k] = kept[k]
  BY <1>1 DEF But
<1>5. kept' \in [DOMAIN kept' -> Stored]
  BY <1>1, <1>4 DEF But, FileInv
<1>6. r.bytes \in Seq(Nat) /\ <<>> \in Seq(Nat) /\ IsPrefix(<<>>, r.bytes)
  <2>1. r.bytes \in Seq(Nat) /\ <<>> \in Seq(Nat) /\ Len(<<>>) = 0
    BY StoredAssumption
  <2>2. Len(<<>>) <= Len(r.bytes) /\ \A i \in 1..Len(<<>>) : <<>>[i] = r.bytes[i]
    BY <2>1
  <2>3. IsPrefix(<<>>, r.bytes)
    BY <2>1, <2>2, PrefixIs
  <2>. QED
    BY <2>1, <2>3
<1>7. \A k \in DOMAIN files' : \E q \in Stored : q.key = k /\ IsPrefix(files'[k], q.bytes)
  BY <1>2, <1>6 DEF FileInv
<1>8. KeptIsFound'
  <2>1. ASSUME NEW k \in DOMAIN kept' \ cut'
        PROVE  k \in DOMAIN files' /\ files'[k] = kept'[k].bytes
    <3>1. k \in DOMAIN kept \ cut /\ k # r.key
      BY <1>1, <1>4
    <3>2. k \in DOMAIN files /\ files[k] = kept[k].bytes
      BY <3>1 DEF FileInv, KeptIsFound
    <3>. QED
      BY <3>1, <3>2, <1>2, <1>4
  <2>2. DOMAIN files' \subseteq DOMAIN kept' \cup interrupted' \cup {call'.of.key}
    BY <1>1, <1>2, <1>4 DEF FileInv, KeptIsFound
  <2>. QED
    BY <1>1, <2>1, <2>2 DEF KeptIsFound
<1>9. \A k \in DOMAIN kept' : kept'[k].key = k
  BY <1>4 DEF FileInv
<1>10. call'.in => /\ call'.of.key \in DOMAIN files' /\ call'.of.key \notin DOMAIN kept'
                   /\ IsPrefix(files'[call'.of.key], call'.of.bytes)
  BY <1>1, <1>2, <1>4, <1>6
<1>. QED
  BY <1>1, <1>3, <1>5, <1>7, <1>8, <1>9, <1>10 DEF FileInv

LEMMA FilesWrites ==
    ASSUME FileInv, PutWrites
    PROVE  FileInv'
<1>. DEFINE k0 == call.of.key
            b == call.of.bytes
            s == files[k0]
<1>1. /\ call.in /\ Len(s) < Len(b) /\ files' = [files EXCEPT ![k0] = Append(s, b[Len(s) + 1])]
      /\ UNCHANGED <<call, kept, cut, interrupted>>
  BY DEF PutWrites
<1>2. PICK r \in Stored : call = [in |-> TRUE, of |-> r]
  BY <1>1 DEF FileInv, NoCall
<1>3. k0 = r.key /\ b = r.bytes /\ b \in Seq(Nat) /\ k0 \in DOMAIN files /\ s \in Seq(Nat)
      /\ IsPrefix(s, b) /\ k0 \notin DOMAIN kept
  BY <1>1, <1>2, StoredAssumption DEF FileInv
<1>4. DOMAIN files' = DOMAIN files /\ files'[k0] = Append(s, b[Len(s) + 1])
      /\ \A k \in DOMAIN files \ {k0} : files'[k] = files[k]
  BY <1>1, <1>3
<1>5. Append(s, b[Len(s) + 1]) \in Seq(Nat) /\ IsPrefix(Append(s, b[Len(s) + 1]), b)
  <2>. HIDE DEF s, b
  <2>1. b[Len(s) + 1] \in Nat
    BY <1>1, <1>3
  <2>. DEFINE t == Append(s, b[Len(s) + 1])
  <2>2. t \in Seq(Nat) /\ Len(t) = Len(s) + 1 /\ t[Len(s) + 1] = b[Len(s) + 1]
        /\ \A i \in 1..Len(s) : t[i] = s[i]
    BY <2>1, <1>3
  <2>3. Len(s) <= Len(b) /\ \A i \in 1..Len(s) : s[i] = b[i]
    BY <1>3, PrefixIs
  <2>. HIDE DEF t
  <2>4. Len(t) <= Len(b) /\ \A i \in 1..Len(t) : t[i] = b[i]
    <3>1. Len(s) \in Nat /\ Len(b) \in Nat /\ Len(s) < Len(b) /\ Len(t) = Len(s) + 1
      BY <2>2, <1>1, <1>3 DEF s, b
    <3>2. \A i \in 1..Len(t) : i \in 1..Len(s) \/ i = Len(s) + 1
      BY <3>1
    <3>. QED
      BY <3>1, <3>2, <2>2, <2>3
  <2>5. IsPrefix(t, b)
    BY <2>2, <2>4, <1>3, PrefixIs
  <2>. QED
    BY <2>2, <2>5 DEF t
<1>. HIDE DEF k0, b, s
<1>6. files' \in [DOMAIN files' -> Seq(Nat)]
  <2>1. files \in [DOMAIN files -> Seq(Nat)]
    BY DEF FileInv
  <2>. QED
    BY <1>1, <1>4, <1>5, <2>1
<1>7. \A k \in DOMAIN files' : \E q \in Stored : q.key = k /\ IsPrefix(files'[k], q.bytes)
  <2>1. \A k \in DOMAIN files : \E q \in Stored : q.key = k /\ IsPrefix(files[k], q.bytes)
    BY DEF FileInv
  <2>2. IsPrefix(files'[k0], r.bytes) /\ r.key = k0
    BY <1>3, <1>4, <1>5
  <2>. QED
    BY <2>1, <2>2, <1>4
<1>8. KeptIsFound'
  BY <1>1, <1>3, <1>4 DEF FileInv, KeptIsFound
<1>9. call'.in => /\ call'.of.key \in DOMAIN files' /\ call'.of.key \notin DOMAIN kept'
                  /\ IsPrefix(files'[call'.of.key], call'.of.bytes)
  BY <1>1, <1>3, <1>4, <1>5 DEF k0, b
<1>. QED
  BY <1>1, <1>6, <1>7, <1>8, <1>9 DEF FileInv

LEMMA FilesReturns ==
    ASSUME FileInv, PutEnds \/ PutCut
    PROVE  FileInv'
<1>1. /\ call.in /\ call' = NoCall /\ kept' = With(kept, call.of.key, call.of)
      /\ UNCHANGED <<files, interrupted>>
      /\ cut' = cut \/ cut' = cut \cup {call.of.key}
      /\ files[call.of.key] = call.of.bytes \/ cut' = cut \cup {call.of.key}
  BY DEF PutEnds, PutCut, PutReturns
<1>2. PICK r \in Stored : call = [in |-> TRUE, of |-> r]
  BY <1>1 DEF FileInv, NoCall
<1>3. DOMAIN kept' = DOMAIN kept \cup {r.key} /\ kept'[r.key] = r
      /\ \A k \in DOMAIN kept \ {r.key} : kept'[k] = kept[k]
  BY <1>1, <1>2 DEF With
<1>4. kept' \in [DOMAIN kept' -> Stored]
  <2>1. kept' = [k \in DOMAIN kept' |-> kept'[k]]
    BY <1>1 DEF With
  <2>2. \A k \in DOMAIN kept' : kept'[k] \in Stored
    BY <1>3 DEF FileInv
  <2>. QED
    BY <2>1, <2>2
<1>5. \A k \in DOMAIN kept' : kept'[k].key = k
  BY <1>3 DEF FileInv
<1>6. KeptIsFound'
  <2>1. \A k \in DOMAIN kept' \ cut' : k \in DOMAIN files' /\ files'[k] = kept'[k].bytes
    BY <1>1, <1>2, <1>3 DEF FileInv, KeptIsFound
  <2>2. DOMAIN files' \subseteq DOMAIN kept' \cup interrupted'
    BY <1>1, <1>2, <1>3 DEF FileInv, KeptIsFound
  <2>. QED
    BY <2>1, <2>2, <1>1 DEF KeptIsFound, NoCall
<1>7. ~call'.in
  BY <1>1 DEF NoCall
<1>. QED
  BY <1>1, <1>4, <1>5, <1>6, <1>7 DEF FileInv

LEMMA FilesFails ==
    ASSUME FileInv, PutFails
    PROVE  FileInv'
<1>1. /\ call.in /\ files' = But(files, {call.of.key}) /\ call' = NoCall
      /\ UNCHANGED <<kept, cut, interrupted>>
  BY DEF PutFails, Withdrawn
<1>2. DOMAIN files' = DOMAIN files \ {call.of.key} /\ \A k \in DOMAIN files' : files'[k] = files[k]
  BY <1>1 DEF But
<1>3. files' \in [DOMAIN files' -> Seq(Nat)]
  BY <1>1, <1>2 DEF But, FileInv
<1>4. KeptIsFound'
  <2>1. \A k \in DOMAIN kept' \ cut' : k \in DOMAIN files' /\ files'[k] = kept'[k].bytes
    BY <1>1, <1>2 DEF FileInv, KeptIsFound
  <2>2. DOMAIN files' \subseteq DOMAIN kept' \cup interrupted'
    BY <1>1, <1>2 DEF FileInv, KeptIsFound
  <2>. QED
    BY <2>1, <2>2, <1>1 DEF KeptIsFound, NoCall
<1>5. \A k \in DOMAIN files' : \E q \in Stored : q.key = k /\ IsPrefix(files'[k], q.bytes)
  BY <1>2 DEF FileInv
<1>6. ~call'.in
  BY <1>1 DEF NoCall
<1>. QED
  BY <1>1, <1>3, <1>4, <1>5, <1>6 DEF FileInv

LEMMA FilesRemove ==
    ASSUME FileInv, NEW key \in Key, pstremove(key)
    PROVE  FileInv'
<1>1. /\ ~call.in /\ files' = But(files, {key}) /\ kept' = But(kept, {key}) /\ cut' = cut \ {key}
      /\ UNCHANGED <<call, interrupted>>
  BY DEF pstremove
<1>2. DOMAIN files' = DOMAIN files \ {key} /\ \A k \in DOMAIN files' : files'[k] = files[k]
  BY <1>1 DEF But
<1>3. DOMAIN kept' = DOMAIN kept \ {key} /\ \A k \in DOMAIN kept' : kept'[k] = kept[k]
  BY <1>1 DEF But
<1>4. files' \in [DOMAIN files' -> Seq(Nat)] /\ kept' \in [DOMAIN kept' -> Stored]
  BY <1>1, <1>2, <1>3 DEF But, FileInv
<1>5. KeptIsFound'
  <2>1. ASSUME NEW k \in DOMAIN kept' \ cut'
        PROVE  k \in DOMAIN files' /\ files'[k] = kept'[k].bytes
    <3>1. k \in DOMAIN kept \ cut /\ k # key
      BY <1>1, <1>3
    <3>2. k \in DOMAIN files /\ files[k] = kept[k].bytes
      BY <3>1 DEF FileInv, KeptIsFound
    <3>. QED
      BY <3>1, <3>2, <1>2, <1>3
  <2>2. DOMAIN files' \subseteq DOMAIN kept' \cup interrupted'
    BY <1>1, <1>2, <1>3 DEF FileInv, KeptIsFound
  <2>. QED
    BY <2>1, <2>2, <1>1 DEF KeptIsFound
<1>6. \A k \in DOMAIN files' : \E q \in Stored : q.key = k /\ IsPrefix(files'[k], q.bytes)
  BY <1>2 DEF FileInv
<1>7. \A k \in DOMAIN kept' : kept'[k].key = k
  BY <1>3 DEF FileInv
<1>. QED
  BY <1>1, <1>4, <1>5, <1>6, <1>7 DEF FileInv

\* What is removed is no packet, hence was cut, or is an orphan
LEMMA FilesRestart ==
    ASSUME FileInv, Restart
    PROVE  FileInv'
<1>. DEFINE packets == {k \in DOMAIN files : IsPacket(k)}
            bad == {k \in packets : Restored(k) = NoPacket}
<1>1. PICK earlier \in SUBSET bad, orphans \in SUBSET (packets \ bad) :
          /\ files' = But(files, bad \cup orphans)
          /\ kept' = But(kept, (bad \cap cut) \cup orphans) /\ cut' = cut \ bad
          /\ interrupted' = IF call.in THEN interrupted \cup {call.of.key} ELSE interrupted
          /\ call' = NoCall
  BY DEF Restart
<1>2. DOMAIN files' = DOMAIN files \ (bad \cup orphans)
      /\ \A k \in DOMAIN files' : files'[k] = files[k]
  BY <1>1 DEF But
<1>3. DOMAIN kept' = DOMAIN kept \ ((bad \cap cut) \cup orphans)
      /\ \A k \in DOMAIN kept' : kept'[k] = kept[k]
  BY <1>1 DEF But
<1>4. files' \in [DOMAIN files' -> Seq(Nat)] /\ kept' \in [DOMAIN kept' -> Stored]
  BY <1>1, <1>2, <1>3 DEF But, FileInv
<1>5. \A k \in DOMAIN kept \cap bad : k \in cut
  <2>1. SUFFICES ASSUME NEW k \in DOMAIN kept, k \in bad, k \notin cut
                 PROVE  FALSE
    OBVIOUS
  <2>2. kept[k] \in Stored /\ kept[k].key = k /\ files[k] = kept[k].bytes
    BY <2>1 DEF FileInv, KeptIsFound
  <2>3. IsPacket(k) /\ Restored(k) = NoPacket
    BY <2>1
  <2>. QED
    BY <2>2, <2>3, StoredAssumption DEF Restored
<1>. HIDE DEF bad
<1>6. KeptIsFound'
  <2>1. ASSUME NEW k \in DOMAIN kept' \ cut'
        PROVE  k \in DOMAIN files' /\ files'[k] = kept'[k].bytes
    <3>1. k \in DOMAIN kept \ cut /\ k \notin bad \cup orphans
      BY <1>1, <1>3, <1>5
    <3>2. k \in DOMAIN files /\ files[k] = kept[k].bytes
      BY <3>1 DEF FileInv, KeptIsFound
    <3>. QED
      BY <3>1, <3>2, <1>2, <1>3
  <2>2. DOMAIN files' \subseteq DOMAIN kept' \cup interrupted'
    BY <1>1, <1>2, <1>3 DEF FileInv, KeptIsFound
  <2>. QED
    BY <2>1, <2>2, <1>1 DEF KeptIsFound, NoCall
<1>7. \A k \in DOMAIN files' : \E q \in Stored : q.key = k /\ IsPrefix(files'[k], q.bytes)
  BY <1>2 DEF FileInv
<1>8. \A k \in DOMAIN kept' : kept'[k].key = k
  BY <1>3 DEF FileInv
<1>9. ~call'.in
  BY <1>1 DEF NoCall
<1>. QED
  BY <1>1, <1>4, <1>6, <1>7, <1>8, <1>9 DEF FileInv

(***************************************************************************)
(* Whenever the process ends in a put (pstput, MQTTPersistenceDefault.c),  *)
(* what MQTTPersistence_restore makes a packet of is a whole record that   *)
(* was put, and every record whose put returned success is found whole     *)
(* until it is removed, replaced or cut by a full disk.                    *)
(***************************************************************************)
THEOREM FilesWhole == FileSpec => []FilesAreWhole
<1>1. FileInit => FileInv
  BY FilesInit
<1>2. FileInv /\ [FileNext]_fileVars => FileInv'
  <2>. SUFFICES ASSUME FileInv, [FileNext]_fileVars
                PROVE  FileInv'
    OBVIOUS
  <2>1. ASSUME NEW r \in Stored, PutOpens(r) PROVE FileInv'
    BY <2>1, FilesOpens
  <2>2. CASE PutWrites
    BY <2>2, FilesWrites
  <2>3. CASE PutEnds \/ PutCut
    BY <2>3, FilesReturns
  <2>4. CASE PutFails
    BY <2>4, FilesFails
  <2>5. CASE Restart
    BY <2>5, FilesRestart
  <2>6. ASSUME NEW k \in Key, pstremove(k) PROVE FileInv'
    BY <2>6, FilesRemove
  <2>7. CASE UNCHANGED fileVars
    BY <2>7 DEF fileVars, FileInv, KeptIsFound
  <2>. QED
    BY <2>1, <2>2, <2>3, <2>4, <2>5, <2>6, <2>7 DEF FileNext
<1>3. FileInv => FilesAreWhole
  BY FileInvGives
<1>. QED
  BY <1>1, <1>2, <1>3, PTL DEF FileSpec
=============================================================================

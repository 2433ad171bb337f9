---------------------------- MODULE AuditProofs -----------------------------
(***************************************************************************)
(* The evidence of a till, for any orders, recipients, limits and faults.  *)
(*                                                                         *)
(* The order audit trail (OrderAudit): the types, that the hash chain of   *)
(* what is retained is unbroken, and that no recipient is taken for having *)
(* received what it has not.                                               *)
(*                                                                         *)
(* The Telegram outbox (TelegramOutbox): that what happened while the      *)
(* channel was off is never queued, and that a recipient gets a report     *)
(* twice only when something failed in between, or its row was deleted as  *)
(* old.  What a page of its sweep holds is left open: SetToSortSeq rests   *)
(* on SortSeq, which the provers do not know.  Neither result depends on   *)
(* it, since every row of a page passes the checks of the enqueue.         *)
(***************************************************************************)
EXTENDS OrderAudit, TelegramOutbox, FiniteSums, SequenceTheorems

-----------------------------------------------------------------------------
(* The order audit trail: the inductive invariant.                         *)
(* Its parts speak of any files f, so that they can be carried from one    *)
(* state of the files to the next, through a rotation and a write.         *)

\* The last of some records is the one that is remembered, or it is doubtful.
Known(last, f, S, dbt) ==
  \A p \in S : (\A q \in S : q = p \/ Precedes(q, p)) => At(f, p).id = last \/ At(f, p).id \in dbt

\* The chain.
Chained(f, dbt) ==
  \A p, q \in Records(f) :
    Precedes(p, q) =>
      \/ \E r \in Records(f) : Precedes(p, r) /\ Precedes(r, q)
      \/ At(f, q).prev = At(f, p).id
      \/ At(f, p).id \in dbt

\* The records up to line k of the active file.
Upto(f, k) == {p \in Records(f) : p[1] < f.gen \/ p[2] <= k}

\* An index of this generation remembers what was last where it ends, unless it ends within
\* a line; an older one does not look like one of this generation.
IndexFits(f, x, dbt) ==
  /\ x.gen = f.gen =>
       /\ x.gens = Gens(f) /\ x.bytes <= Bytes(f.active)
       /\ \A k \in 0 .. Len(f.active) :
            Bytes(SubSeq(f.active, 1, k)) = x.bytes => Known(x.mem.last, f, Upto(f, k), dbt)
  /\ x.gen # f.gen => x.bytes = -1 \/ x.gen \in Gens(f)

ChainInv ==
  /\ Chained(files, doubtful)
  /\ up => Known(mem.last, files, Records(files), doubtful)
  /\ IndexFits(files, index, doubtful)

\* The recipient c has the first n lines of file g, but for those in ids.
Credit(f, str, rcv, c, g, n, ids) ==
  <<g, c>> \in str \/ \A p \in Records(f) : p[1] = g /\ p[2] <= n => At(f, p).id \in rcv[c] \union ids

\* A cursor of the active file does not run ahead of it.
Within(f, str, c, n) == <<f.gen, c>> \in str \/ n <= Len(f.active)

MemClaims(f, m, str, rcv) == \A c \in Recipient, g \in All(f) : Credit(f, str, rcv, c, g, Got(m, f, g, c), {})
MemWithin(f, m, str)      == \A c \in Recipient : Within(f, str, c, m.cursor[c])

IndexClaims(f, x, str, rcv) ==
  \A c \in Recipient :
    /\ \A g \in Gens(f) : Credit(f, str, rcv, c, g, Offset(x.mem, g, c), {})
    /\ x.gen = f.gen => Credit(f, str, rcv, c, f.gen, x.mem.cursor[c], {}) /\ Within(f, str, c, x.mem.cursor[c])

FlightClaims(f, fl, str, rcv) ==
  fl # NoFlight =>
    /\ fl.gen <= f.gen /\ (fl.active \/ fl.gen < f.gen)
    /\ Credit(f, str, rcv, fl.chat, fl.gen, fl.end, fl.ids)
    /\ fl.gen = f.gen => Within(f, str, fl.chat, fl.end)

DeliveryInv ==
  /\ MemClaims(files, mem, stray, held)
  /\ up => MemWithin(files, mem, stray)
  /\ IndexClaims(files, index, stray, held)
  /\ FlightClaims(files, flight, stray, held)

AuditInv == AuditTypeOK /\ ChainInv /\ DeliveryInv

-----------------------------------------------------------------------------
(* Lines, places and files. *)

LEMMA LineFacts ==
  /\ Torn \in LineType /\ Junk \in LineType /\ Torn # Junk
  /\ ~ IsRecord(Torn) /\ ~ IsRecord(Junk)
BY DEF Torn, Junk, Line, LineType, IsRecord

LEMMA FileFacts ==
  ASSUME NEW f, FilesOK(f)
  PROVE  /\ f.gen \in Nat /\ f.gen \in All(f) /\ f.gen \notin Gens(f) /\ All(f) \subseteq 1 .. f.gen
         /\ File(f, f.gen) = f.active
         /\ \A g \in Gens(f) : g \in 1 .. f.gen - 1 /\ g \in All(f) /\ File(f, g) = f.archives[g]
         /\ \A g \in All(f) : File(f, g) \in Seq(LineType)
<1>1. f.gen \in Nat \ {0} /\ Gens(f) \subseteq 1 .. f.gen - 1
  BY DEF FilesOK
<1>2. f.archives \in [Gens(f) -> Seq(LineType)] /\ f.active \in Seq(LineType)
  BY DEF FilesOK
<1> QED BY <1>1, <1>2 DEF All, File

LEMMA PlaceFacts ==
  ASSUME NEW f, FilesOK(f)
  PROVE  /\ \A g, i : <<g, i>> \in Places(f) <=> g \in All(f) /\ i \in 1 .. Len(File(f, g))
         /\ \A p \in Places(f) :
              /\ p = <<p[1], p[2]>> /\ p[1] \in All(f) /\ p[2] \in 1 .. Len(File(f, p[1]))
              /\ p[1] \in 1 .. f.gen /\ At(f, p) \in LineType
<1>1. \A g \in All(f) : DOMAIN File(f, g) = 1 .. Len(File(f, g))
  BY FileFacts
<1>2. Places(f) = UNION {{<<g, i>> : i \in 1 .. Len(File(f, g))} : g \in All(f)}
  BY <1>1 DEF Places
<1>3. ASSUME NEW p \in Places(f)
      PROVE  \E g \in All(f) : \E i \in 1 .. Len(File(f, g)) : p = <<g, i>>
  BY <1>2
<1>4. ASSUME NEW g \in All(f), NEW i \in 1 .. Len(File(f, g)) PROVE <<g, i>> \in Places(f)
  BY <1>2
<1>5. ASSUME NEW g \in All(f), NEW i \in 1 .. Len(File(f, g)), NEW p, p = <<g, i>>
      PROVE  /\ p = <<p[1], p[2]>> /\ p[1] \in All(f) /\ p[2] \in 1 .. Len(File(f, p[1]))
             /\ p[1] \in 1 .. f.gen /\ At(f, p) \in LineType
  <2>1. p[1] = g /\ p[2] = i
    BY <1>5
  <2>2. File(f, g) \in Seq(LineType)
    BY FileFacts
  <2>3. File(f, g)[i] \in LineType
    BY <2>2, ElementOfSeq
  <2>4. g \in 1 .. f.gen
    BY FileFacts
  <2> QED BY <2>1, <2>3, <2>4, <1>5 DEF At
<1>6. \A g, i : <<g, i>> \in Places(f) => g \in All(f) /\ i \in 1 .. Len(File(f, g))
  <2> TAKE g, i
  <2> HAVE <<g, i>> \in Places(f)
  <2>1. PICK h \in All(f) : \E j \in 1 .. Len(File(f, h)) : <<g, i>> = <<h, j>>
    BY <1>3
  <2> QED BY <2>1
<1> QED BY <1>3, <1>4, <1>5, <1>6

LEMMA RecordFacts ==
  ASSUME NEW f, FilesOK(f), NEW p \in Records(f)
  PROVE  /\ p = <<p[1], p[2]>> /\ p[1] \in All(f) /\ p[2] \in 1 .. Len(File(f, p[1]))
         /\ p[1] \in Nat /\ p[2] \in Nat /\ p[1] <= f.gen /\ At(f, p).id \in Nat
         /\ p \in Places(f) /\ IsRecord(At(f, p))
<1>1. p \in Places(f) /\ IsRecord(At(f, p))
  BY DEF Records
<1>2. /\ p = <<p[1], p[2]>> /\ p[1] \in All(f) /\ p[2] \in 1 .. Len(File(f, p[1]))
      /\ p[1] \in 1 .. f.gen /\ At(f, p) \in LineType
  BY <1>1, PlaceFacts
<1>3. p[1] \in Nat /\ p[2] \in Nat /\ p[1] <= f.gen
  BY <1>2, FileFacts
<1>4. At(f, p).id \in Nat
  BY <1>2 DEF LineType
<1> QED BY <1>1, <1>2, <1>3, <1>4

LEMMA PrefixFacts ==
  ASSUME NEW s \in Seq(LineType), NEW k \in 0 .. Len(s)
  PROVE  /\ SubSeq(s, 1, k) \in Seq(LineType) /\ Len(SubSeq(s, 1, k)) = k
         /\ \A i \in 1 .. k : SubSeq(s, 1, k)[i] = s[i]
<1>1. k \in Nat /\ Len(s) \in Nat /\ k <= Len(s)
  BY LenProperties
<1>2. \A i \in 1 .. k : s[i] \in LineType
  BY <1>1, ElementOfSeq
<1> HIDE DEF LineType
<1> DEFINE t == SubSeq(s, 1, k)
<1>3. /\ t \in Seq(LineType)
      /\ Len(t) = IF 1 <= k THEN k - 1 + 1 ELSE 0
      /\ \A i \in 1 .. k - 1 + 1 : t[i] = s[1 + i - 1]
  BY <1>1, <1>2, SubSeqProperties
<1> HIDE DEF t
<1>4. t \in Seq(LineType) /\ Len(t) = k /\ \A i \in 1 .. k : t[i] = s[i]
  BY <1>1, <1>3
<1> QED BY <1>4 DEF t

\* Isolating a torn line loses no record and moves none.
LEMMA IsolatedFacts ==
  ASSUME NEW s \in Seq(LineType)
  PROVE  /\ Isolated(s) \in Seq(LineType) /\ Len(Isolated(s)) = Len(s)
         /\ \A i \in 1 .. Len(s) :
              Isolated(s)[i] = IF i = Len(s) /\ s[i] = Torn THEN Junk ELSE s[i]
<1>1. CASE s # <<>> /\ Last(s) = Torn
  <2>1. Len(s) \in Nat /\ Len(s) # 0 /\ Last(s) = s[Len(s)]
    BY <1>1, LenProperties, EmptySeq DEF Last
  <2>2. Front(s) = SubSeq(s, 1, Len(s) - 1)
    BY DEF Front
  <2>3. /\ Front(s) \in Seq(LineType) /\ Len(Front(s)) = Len(s) - 1
        /\ \A i \in 1 .. Len(s) - 1 : Front(s)[i] = s[i]
    <3>1. Len(s) - 1 \in 0 .. Len(s)
      BY <2>1
    <3> QED BY <2>2, <3>1, PrefixFacts
  <2>4. Isolated(s) = Append(Front(s), Junk)
    BY <1>1 DEF Isolated
  <2>5. Isolated(s) \in Seq(LineType) /\ Len(Isolated(s)) = Len(s)
    BY <2>1, <2>3, <2>4, LineFacts, AppendProperties
  <2>6. \A i \in 1 .. Len(s) : Isolated(s)[i] = IF i = Len(s) THEN Junk ELSE s[i]
    BY <2>1, <2>3, <2>4, LineFacts, AppendProperties
  <2> QED BY <2>1, <2>5, <2>6, <1>1
<1>2. CASE ~ (s # <<>> /\ Last(s) = Torn)
  <2>1. Isolated(s) = s
    BY <1>2 DEF Isolated
  <2>2. \A i \in 1 .. Len(s) : ~ (i = Len(s) /\ s[i] = Torn)
    BY <1>2, EmptySeq, LenProperties DEF Last
  <2>3. \A i \in 1 .. Len(s) : s[i] = IF i = Len(s) /\ s[i] = Torn THEN Junk ELSE s[i]
    BY <2>2
  <2> QED BY <2>1, <2>3, Zenon
<1> QED BY <1>1, <1>2

LEMMA IsolatedRecords ==
  ASSUME NEW s \in Seq(LineType), NEW i \in 1 .. Len(s)
  PROVE  /\ IsRecord(Isolated(s)[i]) <=> IsRecord(s[i])
         /\ IsRecord(s[i]) => Isolated(s)[i] = s[i]
BY IsolatedFacts, LineFacts

-----------------------------------------------------------------------------
(* The order of the places. *)

LEMMA NatGreatest ==
  ASSUME NEW n \in Nat, NEW S \in SUBSET (0 .. n), S # {}
  PROVE  \E m \in S : \A y \in S : y <= m
<1> DEFINE T == {n - y : y \in S}
<1>0. \A y \in S : y \in Nat /\ y <= n
  OBVIOUS
<1>1. Numbers(T) /\ T # {}
  <2>1. \A y \in S : n - y \in Nat
    BY <1>0
  <2>2. \A x \in T : x \in Nat
    BY <2>1
  <2> QED BY <2>2 DEF Numbers
<1>2. PICK k \in T : \A y \in T : k <= y
  <2> HIDE DEF T
  <2> QED BY <1>1, NatMinimum
<1>3. PICK m \in S : k = n - m
  BY <1>2
<1>4. \A y \in S : n - m <= n - y
  BY <1>2, <1>3
<1>5. \A y \in S : y <= m
  BY <1>0, <1>4
<1> QED BY <1>5

LEMMA PrecedesOrder ==
  ASSUME NEW f, FilesOK(f), NEW p \in Records(f), NEW q \in Records(f)
  PROVE  /\ p = q \/ Precedes(p, q) \/ Precedes(q, p)
         /\ ~ (Precedes(p, q) /\ Precedes(q, p)) /\ ~ Precedes(p, p)
<1>1. p = <<p[1], p[2]>> /\ q = <<q[1], q[2]>> /\ p[1] \in Nat /\ p[2] \in Nat
      /\ q[1] \in Nat /\ q[2] \in Nat
  BY RecordFacts
<1>2. p[1] = q[1] /\ p[2] = q[2] => p = q
  BY <1>1
<1> QED BY <1>1, <1>2 DEF Precedes

IsLast(p, S) == p \in S /\ \A q \in S : q = p \/ Precedes(q, p)

LEMMA LatestFacts ==
  ASSUME NEW f, FilesOK(f), NEW S \in SUBSET Records(f)
  PROVE  /\ S # {} => IsLast(Latest(S), S)
         /\ \A p : IsLast(p, S) => Latest(S) = p
<1>1. ASSUME S # {} PROVE \E p : IsLast(p, S)
  <2>1. \A p \in S : p = <<p[1], p[2]>> /\ p[1] \in 0 .. f.gen /\ p[2] \in Nat /\ p[1] \in All(f)
                     /\ p[2] <= Len(File(f, p[1]))
    BY RecordFacts, FileFacts
  <2> DEFINE G == {p[1] : p \in S}
  <2>2. G \in SUBSET (0 .. f.gen) /\ G # {} /\ f.gen \in Nat
    BY <1>1, <2>1, FileFacts
  <2>3. PICK g \in G : \A h \in G : h <= g
    <3> HIDE DEF G
    <3> QED BY <2>2, NatGreatest
  <2>4. g \in All(f)
    BY <2>1
  <2> DEFINE n == Len(File(f, g))
             I == {p[2] : p \in {q \in S : q[1] = g}}
  <2>5. n \in Nat
    BY <2>4, FileFacts, LenProperties
  <2>6. I \in SUBSET (0 .. n) /\ I # {}
    BY <2>1, <2>3, <2>5
  <2>7. PICK i \in I : \A j \in I : j <= i
    <3> HIDE DEF I, n
    <3> QED BY <2>5, <2>6, NatGreatest
  <2>8. PICK p \in S : p[1] = g /\ p[2] = i
    BY <2>7
  <2>9. ASSUME NEW q \in S PROVE q = p \/ Precedes(q, p)
    <3>1. q[1] <= g /\ (q[1] = g => q[2] <= i)
      BY <2>3, <2>7
    <3>2. q = <<q[1], q[2]>> /\ p = <<g, i>>
      BY <2>1, <2>8
    <3>3. q[1] \in Nat /\ q[2] \in Nat /\ g \in Nat /\ i \in Nat
      BY <2>1, <2>8
    <3>4. CASE q[1] = g /\ q[2] = i
      BY <3>2, <3>4
    <3>5. CASE q[1] < g \/ (q[1] = g /\ q[2] < i)
      BY <3>5, <2>8 DEF Precedes
    <3> QED BY <3>1, <3>3, <3>4, <3>5
  <2> QED BY <2>8, <2>9 DEF IsLast
<1>2. ASSUME NEW p, NEW q, IsLast(p, S), IsLast(q, S) PROVE p = q
  BY <1>2, PrecedesOrder DEF IsLast
<1>3. ASSUME NEW p, IsLast(p, S) PROVE IsLast(Latest(S), S)
  <2>1. \E q \in S : \A r \in S : r = q \/ Precedes(r, q)
    BY <1>3 DEF IsLast
  <2> QED BY <2>1, Zenon DEF IsLast, Latest
<1> QED BY <1>1, <1>2, <1>3

LEMMA RecordsFinite ==
  ASSUME NEW f, FilesOK(f), NEW S \in SUBSET Records(f), S # {}
  PROVE  Latest(S) \in S /\ At(f, Latest(S)) \in LineType
BY LatestFacts, PlaceFacts, RecordFacts DEF IsLast

-----------------------------------------------------------------------------
(* Files that are kept: g has what f has from file b on. *)

Keeps(f, g, b) ==
  /\ f.gen <= g.gen
  /\ \A h \in Gens(g) : h \in All(f)
  /\ Records(g) = {p \in Records(f) : p[1] >= b}
  /\ \A p \in Records(g) : At(g, p) = At(f, p)
  /\ IF g.gen = f.gen THEN g.active = f.active ELSE g.active = <<>>

LEMMA KeptFacts ==
  ASSUME NEW f, NEW g, FilesOK(f), FilesOK(g), NEW b \in Nat,
         f.gen <= g.gen,
         \A h : h \in Gens(g) <=> h \in All(f) /\ h >= b /\ h # g.gen,
         IF g.gen = f.gen THEN g.active = f.active /\ b <= f.gen ELSE g.active = <<>>,
         \A h \in Gens(g) :
           /\ Len(File(g, h)) = Len(File(f, h))
           /\ \A i \in 1 .. Len(File(f, h)) :
                /\ IsRecord(File(g, h)[i]) <=> IsRecord(File(f, h)[i])
                /\ IsRecord(File(f, h)[i]) => File(g, h)[i] = File(f, h)[i]
  PROVE  Keeps(f, g, b)
<1>1. ASSUME NEW p \in Records(g)
      PROVE  p \in Records(f) /\ p[1] >= b /\ At(g, p) = At(f, p)
  <2>1. p = <<p[1], p[2]>> /\ p[1] \in All(g) /\ p[2] \in 1 .. Len(File(g, p[1])) /\ IsRecord(At(g, p))
    BY RecordFacts
  <2>2. CASE p[1] \in Gens(g)
    <3>1. <<p[1], p[2]>> \in Places(f)
      BY <2>1, <2>2, PlaceFacts
    <3>2. At(g, p) = At(f, p)
      BY <2>1, <2>2 DEF At
    <3> QED BY <2>1, <2>2, <3>1, <3>2 DEF Records
  <2>3. CASE p[1] = g.gen
    <3>1. File(g, g.gen) = g.active /\ Len(<<>>) = 0
      BY FileFacts
    <3>2. g.gen = f.gen
      BY <2>1, <2>3, <3>1
    <3>3. File(f, f.gen) = f.active /\ f.gen \in All(f) /\ f.gen \in Nat
      BY FileFacts
    <3>4. <<p[1], p[2]>> \in Places(f) /\ At(g, p) = At(f, p)
      BY <2>1, <2>3, <3>1, <3>2, <3>3, PlaceFacts DEF At
    <3> QED BY <2>1, <2>3, <3>2, <3>3, <3>4 DEF Records
  <2> QED BY <2>1, <2>2, <2>3 DEF All
<1>2. ASSUME NEW p \in Records(f), p[1] >= b PROVE p \in Records(g)
  <2>1. p = <<p[1], p[2]>> /\ p[1] \in All(f) /\ p[2] \in 1 .. Len(File(f, p[1])) /\ IsRecord(At(f, p))
    BY RecordFacts
  <2>2. CASE p[1] # g.gen
    <3>1. p[1] \in Gens(g) /\ p[1] \in All(g)
      BY <1>2, <2>1, <2>2 DEF All
    <3>2. <<p[1], p[2]>> \in Places(g)
      BY <2>1, <3>1, PlaceFacts
    <3>3. At(g, p) = At(f, p)
      BY <2>1, <3>1 DEF At
    <3> QED BY <2>1, <3>2, <3>3 DEF Records
  <2>3. CASE p[1] = g.gen
    <3>1. p[1] \in 1 .. f.gen /\ f.gen \in Nat /\ g.gen \in Nat
      BY <2>1, FileFacts
    <3>2. g.gen = f.gen
      BY <2>3, <3>1
    <3>3. File(f, f.gen) = f.active /\ File(g, g.gen) = f.active /\ g.gen \in All(g)
      BY <3>2, FileFacts
    <3>4. <<p[1], p[2]>> \in Places(g) /\ At(g, p) = At(f, p)
      BY <2>1, <2>3, <3>2, <3>3, PlaceFacts DEF At
    <3> QED BY <2>1, <3>4 DEF Records
  <2> QED BY <2>2, <2>3
<1>3. Records(g) = {p \in Records(f) : p[1] >= b}
  BY <1>1, <1>2
<1> QED BY <1>1, <1>3 DEF Keeps

\* A rotation moves the active file as it is, its last line isolated, into the archives.
LEMMA MovedKeeps ==
  ASSUME NEW f, FilesOK(f)
  PROVE  /\ FilesOK(Moved(f)) /\ Moved(f).gen = f.gen + 1 /\ Gens(Moved(f)) = All(f)
         /\ Moved(f).active = <<>> /\ Keeps(f, Moved(f), 0)
<1> DEFINE m == Moved(f)
<1>1. /\ f.gen \in Nat \ {0} /\ Gens(f) \subseteq 1 .. f.gen - 1 /\ f.active \in Seq(LineType)
      /\ All(f) \subseteq 1 .. f.gen /\ f.gen \in All(f)
  BY FileFacts DEF FilesOK
<1>2. /\ m.archives = [g \in All(f) |-> IF g = f.gen THEN Isolated(f.active) ELSE f.archives[g]]
      /\ m.active = <<>> /\ m.gen = f.gen + 1
      /\ m = [archives |-> m.archives, active |-> m.active, gen |-> m.gen]
  BY DEF Moved
<1>3. Gens(m) = All(f)
  BY <1>2 DEF Gens
<1>4. \A g \in All(f) : m.archives[g] = IF g = f.gen THEN Isolated(File(f, g)) ELSE File(f, g)
  BY <1>2 DEF File
<1>5. \A g \in All(f) : File(f, g) \in Seq(LineType)
  BY FileFacts
<1>6. m.archives \in [Gens(m) -> Seq(LineType)]
  <2>1. \A g \in All(f) : m.archives[g] \in Seq(LineType)
    BY <1>4, <1>5, IsolatedFacts
  <2> QED BY <1>2, <1>3, <2>1
<1>7. <<>> \in Seq(LineType) /\ Len(<<>>) = 0
  OBVIOUS
<1>8. m.gen \in Nat \ {0} /\ Gens(m) \subseteq 1 .. m.gen - 1 /\ f.gen <= m.gen /\ m.gen # f.gen
  BY <1>1, <1>2, <1>3
<1> HIDE DEF m
<1>9. FilesOK(m)
  <2>1. m.active \in Seq(LineType)
    BY <1>2, <1>7
  <2> QED BY <1>2, <1>6, <1>8, <2>1 DEF FilesOK
<1>10. \A h \in Gens(m) : File(m, h) = IF h = f.gen THEN Isolated(File(f, h)) ELSE File(f, h)
  BY <1>3, <1>4, <1>9, FileFacts
<1>11. ASSUME NEW h \in Gens(m)
       PROVE  /\ Len(File(m, h)) = Len(File(f, h))
              /\ \A i \in 1 .. Len(File(f, h)) :
                   /\ IsRecord(File(m, h)[i]) <=> IsRecord(File(f, h)[i])
                   /\ IsRecord(File(f, h)[i]) => File(m, h)[i] = File(f, h)[i]
  BY <1>3, <1>5, <1>10, IsolatedFacts, IsolatedRecords
<1>12. \A h : h \in Gens(m) <=> h \in All(f) /\ h >= 0 /\ h # m.gen
  BY <1>1, <1>2, <1>3
<1>13. 0 \in Nat
  OBVIOUS
<1>14. Keeps(f, m, 0)
  BY <1>2, <1>8, <1>9, <1>11, <1>12, <1>13, KeptFacts
<1> QED BY <1>2, <1>3, <1>9, <1>14 DEF m

\* A retention takes the oldest archives.
LEMMA PrunedKeeps ==
  ASSUME NEW f, FilesOK(f), NEW aged \in All(f)
  PROVE  \E b \in Nat :
           /\ FilesOK(Pruned(f, aged)) /\ Pruned(f, aged).gen = f.gen
           /\ Pruned(f, aged).active = f.active /\ Gens(Pruned(f, aged)) \subseteq Gens(f)
           /\ Keeps(f, Pruned(f, aged), b)
<1> DEFINE from(g) == {h \in Gens(f) : h >= g}
           size(S) == SumFunctionOnSet([h \in Gens(f) |-> Len(f.archives[h])], S)
           S0 == {g \in aged .. f.gen : size(from(g)) <= Retained}
           b == Min(S0)
           r == Pruned(f, aged)
<1>1. /\ f.gen \in Nat /\ aged \in 1 .. f.gen /\ All(f) = Gens(f) \union {f.gen}
      /\ \A h \in Gens(f) : h \in 1 .. f.gen - 1
      /\ f.archives \in [Gens(f) -> Seq(LineType)] /\ f.active \in Seq(LineType)
  BY FileFacts DEF All, FilesOK
<1>2. b \in Nat /\ b <= f.gen
  <2>1. from(f.gen) = {}
    BY <1>1
  <2>2. size(from(f.gen)) = 0
    <3> HIDE DEF from
    <3> QED BY <2>1, SumEmpty
  <2> HIDE DEF from, size
  <2>3. f.gen \in S0
    BY <1>1, <2>2, AuditConstants
  <2>4. Numbers(S0)
    BY <1>1 DEF Numbers
  <2> HIDE DEF S0
  <2>5. b \in S0 /\ b <= f.gen
    BY <2>3, <2>4, NatMinimum
  <2> QED BY <2>4, <2>5 DEF Numbers
<1>3. r = [f EXCEPT !.archives = Restrict(@, from(b))]
  BY DEF Pruned
<1> HIDE DEF b, r, size, S0
<1>4. /\ r.archives = [h \in from(b) |-> f.archives[h]] /\ r.active = f.active /\ r.gen = f.gen
      /\ r = [archives |-> r.archives, active |-> r.active, gen |-> r.gen]
  <2>1. f = [archives |-> f.archives, active |-> f.active, gen |-> f.gen]
    BY DEF FilesOK
  <2> DEFINE A == f.archives
  <2>2. Restrict(A, from(b)) = [h \in from(b) |-> A[h]]
    BY DEF Restrict
  <2> HIDE DEF from
  <2> QED BY <1>3, <2>1, <2>2
<1>5. Gens(r) = from(b)
  BY <1>4 DEF Gens
<1>6. \A h \in Gens(r) : h \in Gens(f) /\ h >= b /\ r.archives[h] = f.archives[h]
  BY <1>4, <1>5
<1>7. r.archives \in [Gens(r) -> Seq(LineType)]
  BY <1>1, <1>4, <1>5, <1>6
<1>8. FilesOK(r)
  <2>1. f.gen \in Nat \ {0} /\ Gens(r) \subseteq 1 .. f.gen - 1
    BY <1>1, <1>6 DEF FilesOK
  <2> QED BY <1>1, <1>4, <1>7, <2>1 DEF FilesOK
<1>9. \A h \in Gens(r) : File(r, h) = File(f, h) /\ File(f, h) \in Seq(LineType)
  <2> TAKE h \in Gens(r)
  <2>1. h \in Gens(f) /\ r.archives[h] = f.archives[h]
    BY <1>6
  <2>2. File(f, h) = f.archives[h] /\ File(f, h) \in Seq(LineType)
    BY <2>1, FileFacts
  <2>3. File(r, h) = r.archives[h]
    BY <1>8, FileFacts
  <2> QED BY <2>1, <2>2, <2>3
<1>10. \A h : h \in Gens(r) <=> h \in All(f) /\ h >= b /\ h # r.gen
  BY <1>1, <1>4, <1>5
<1>11. f.gen <= r.gen
  BY <1>1, <1>4
<1>12. Keeps(f, r, b)
  BY <1>2, <1>4, <1>8, <1>9, <1>10, <1>11, KeptFacts
<1>13. Gens(r) \subseteq Gens(f)
  BY <1>6
<1> QED BY <1>2, <1>4, <1>8, <1>12, <1>13 DEF r

-----------------------------------------------------------------------------
(* What an index says of the length of the active file. *)

Junks(s, k) == {i \in 1 .. k : s[i] = Junk}

LEMMA JunksFinite ==
  ASSUME NEW s, NEW k \in Nat
  PROVE  /\ IsFiniteSet(Junks(s, k)) /\ Cardinality(Junks(s, k)) \in Nat
         /\ \A j \in 0 .. k : Cardinality(Junks(s, j)) <= Cardinality(Junks(s, k))
<1>1. IsFiniteSet(1 .. k)
  BY FS_Interval
<1>2. Junks(s, k) \subseteq 1 .. k
  BY DEF Junks
<1>3. IsFiniteSet(Junks(s, k))
  BY <1>1, <1>2, FS_Subset
<1>4. ASSUME NEW j \in 0 .. k PROVE Cardinality(Junks(s, j)) <= Cardinality(Junks(s, k))
  <2>1. Junks(s, j) \subseteq Junks(s, k)
    BY DEF Junks
  <2> QED BY <1>3, <2>1, FS_Subset
<1> QED BY <1>3, <1>4, FS_CardinalityType

LEMMA BytesOf ==
  ASSUME NEW s \in Seq(LineType)
  PROVE  /\ Bytes(s) = Len(s) + Cardinality(Junks(s, Len(s))) /\ Bytes(s) \in Nat
         /\ \A k \in 0 .. Len(s) : Bytes(SubSeq(s, 1, k)) = k + Cardinality(Junks(s, k))
<1>1. ASSUME NEW t \in Seq(LineType)
      PROVE  Bytes(t) = Len(t) + Cardinality(Junks(t, Len(t)))
  <2>1. DOMAIN t = 1 .. Len(t)
    BY LenProperties
  <2> QED BY <2>1 DEF Bytes, Junks
<1>2. Bytes(s) \in Nat
  BY <1>1, JunksFinite, LenProperties
<1>3. ASSUME NEW k \in 0 .. Len(s) PROVE Bytes(SubSeq(s, 1, k)) = k + Cardinality(Junks(s, k))
  <2> DEFINE t == SubSeq(s, 1, k)
  <2>1. t \in Seq(LineType) /\ Len(t) = k /\ \A i \in 1 .. k : t[i] = s[i]
    BY PrefixFacts
  <2> HIDE DEF t
  <2>2. Junks(t, k) = Junks(s, k)
    BY <2>1 DEF Junks
  <2>3. Bytes(t) = k + Cardinality(Junks(s, k))
    BY <1>1, <2>1, <2>2
  <2> QED BY <2>3 DEF t
<1> QED BY <1>1, <1>2, <1>3

LEMMA BytesGrow ==
  ASSUME NEW s \in Seq(LineType), NEW j \in 0 .. Len(s), NEW k \in 0 .. Len(s), j < k
  PROVE  Bytes(SubSeq(s, 1, j)) < Bytes(SubSeq(s, 1, k))
<1>1. j \in Nat /\ k \in Nat /\ j \in 0 .. k
  BY LenProperties
<1>2. Cardinality(Junks(s, j)) <= Cardinality(Junks(s, k))
      /\ Cardinality(Junks(s, j)) \in Nat /\ Cardinality(Junks(s, k)) \in Nat
  BY <1>1, JunksFinite
<1>3. Bytes(SubSeq(s, 1, j)) = j + Cardinality(Junks(s, j))
      /\ Bytes(SubSeq(s, 1, k)) = k + Cardinality(Junks(s, k))
  BY BytesOf
<1> QED BY <1>1, <1>2, <1>3

LEMMA BytesFull ==
  ASSUME NEW s \in Seq(LineType), NEW k \in 0 .. Len(s), Bytes(SubSeq(s, 1, k)) = Bytes(s)
  PROVE  k = Len(s)
<1>1. Len(s) \in 0 .. Len(s) /\ Len(s) \in Nat /\ k \in Nat /\ k <= Len(s)
  BY LenProperties
<1>2. Bytes(SubSeq(s, 1, Len(s))) = Bytes(s)
  BY SubSeqFull, Zenon
<1>3. CASE k < Len(s)
  <2>1. Bytes(SubSeq(s, 1, k)) < Bytes(SubSeq(s, 1, Len(s)))
    BY <1>1, <1>3, BytesGrow
  <2>2. Bytes(s) < Bytes(s)
    BY <1>2, <2>1, Zenon
  <2>3. Bytes(s) \in Nat
    BY BytesOf
  <2> QED BY <2>2, <2>3
<1>4. CASE k = Len(s)
  BY <1>4
<1> QED BY <1>1, <1>3, <1>4

\* A write makes the file longer.  What an index of the shorter file says of it stays true.
LEMMA BytesWritten ==
  ASSUME NEW s \in Seq(LineType), NEW x \in LineType, NEW b, b <= Bytes(s), b \in Int,
         NEW k \in 0 .. Len(s) + 1, Bytes(SubSeq(Append(Isolated(s), x), 1, k)) = b
  PROVE  k \in 0 .. Len(s) /\ Bytes(SubSeq(s, 1, k)) = b
<1> DEFINE t == Append(Isolated(s), x)
<1>1. /\ t \in Seq(LineType) /\ Len(t) = Len(s) + 1 /\ Len(s) \in Nat
      /\ \A i \in 1 .. Len(s) : t[i] = IF i = Len(s) /\ s[i] = Torn THEN Junk ELSE s[i]
  <2> DEFINE y == Isolated(s)
  <2>1. /\ y \in Seq(LineType) /\ Len(y) = Len(s) /\ Len(s) \in Nat
        /\ \A i \in 1 .. Len(s) : y[i] = IF i = Len(s) /\ s[i] = Torn THEN Junk ELSE s[i]
    BY IsolatedFacts, LenProperties
  <2> HIDE DEF y
  <2>2. /\ Append(y, x) \in Seq(LineType) /\ Len(Append(y, x)) = Len(y) + 1
        /\ \A i \in 1 .. Len(y) : Append(y, x)[i] = y[i]
    BY <2>1, AppendProperties
  <2>3. t = Append(y, x)
    BY DEF y
  <2> HIDE DEF t
  <2> QED BY <2>1, <2>2, <2>3
<1> HIDE DEF t
<1>2. ASSUME NEW j \in 0 .. Len(s) PROVE Cardinality(Junks(t, j)) >= Cardinality(Junks(s, j))
  <2>1. Junks(s, j) \subseteq Junks(t, j)
    BY <1>1, LineFacts DEF Junks
  <2>2. j \in Nat
    BY <1>1
  <2> QED BY <2>1, <2>2, JunksFinite, FS_Subset
<1>3. /\ \A j \in 0 .. Len(t) : Bytes(SubSeq(t, 1, j)) = j + Cardinality(Junks(t, j))
      /\ \A j \in 0 .. Len(s) : Bytes(SubSeq(s, 1, j)) = j + Cardinality(Junks(s, j))
      /\ Bytes(s) = Len(s) + Cardinality(Junks(s, Len(s))) /\ Bytes(s) \in Nat
  BY <1>1, BytesOf
<1>4. Bytes(SubSeq(t, 1, k)) = k + Cardinality(Junks(t, k)) /\ k \in Nat
      /\ k + Cardinality(Junks(t, k)) = b
  <2>1. k \in 0 .. Len(t)
    BY <1>1
  <2> QED BY <1>1, <1>3, <2>1 DEF t
<1>5. /\ \A j \in Nat : Cardinality(Junks(t, j)) \in Nat /\ Cardinality(Junks(s, j)) \in Nat
      /\ \A j \in 0 .. k : Cardinality(Junks(t, j)) <= Cardinality(Junks(t, k))
  BY <1>4, JunksFinite
<1>6. k # Len(s) + 1
  <2> SUFFICES ASSUME k = Len(s) + 1 PROVE FALSE
    OBVIOUS
  <2>1. Len(s) \in 0 .. k /\ Len(s) \in 0 .. Len(s)
    BY <1>1
  <2>2. /\ Cardinality(Junks(t, Len(s))) <= Cardinality(Junks(t, k))
        /\ Cardinality(Junks(t, Len(s))) >= Cardinality(Junks(s, Len(s)))
    BY <1>2, <1>5, <2>1
  <2> QED BY <1>1, <1>3, <1>4, <1>5, <2>2
<1>7. k \in 0 .. Len(s)
  BY <1>1, <1>6
<1>8. Junks(t, k) = Junks(s, k)
  <2>1. CASE k = Len(s) /\ k # 0 /\ s[k] = Torn
    <3>1. Junks(t, k) = Junks(s, k) \union {k} /\ k \notin Junks(s, k)
      BY <1>1, <1>4, <2>1, LineFacts DEF Junks
    <3>2. Cardinality(Junks(t, k)) = Cardinality(Junks(s, k)) + 1
      BY <1>4, <3>1, JunksFinite, FS_AddElement
    <3> QED BY <1>1, <1>3, <1>4, <1>5, <2>1, <3>2
  <2>2. CASE ~ (k = Len(s) /\ k # 0 /\ s[k] = Torn)
    BY <1>1, <1>7, <2>2 DEF Junks
  <2> QED BY <2>1, <2>2
<1>9. Bytes(SubSeq(s, 1, k)) = k + Cardinality(Junks(s, k))
  BY <1>3, <1>7
<1> QED BY <1>4, <1>7, <1>8, <1>9

-----------------------------------------------------------------------------
(* A write to the active file. *)

WithLine(f, x) == [f EXCEPT !.active = Append(Isolated(@), x)]
NewPlace(f)   == <<f.gen, Len(f.active) + 1>>

LEMMA WrittenFiles ==
  ASSUME NEW f, FilesOK(f), NEW x \in LineType
  PROVE  /\ FilesOK(WithLine(f, x)) /\ WithLine(f, x).gen = f.gen /\ Gens(WithLine(f, x)) = Gens(f)
         /\ All(WithLine(f, x)) = All(f)
         /\ WithLine(f, x).active = Append(Isolated(f.active), x)
         /\ Len(WithLine(f, x).active) = Len(f.active) + 1 /\ Len(f.active) \in Nat
         /\ \A h \in Gens(f) : File(WithLine(f, x), h) = File(f, h)
<1> DEFINE w == WithLine(f, x)
           a == Append(Isolated(f.active), x)
<1>1. /\ f = [archives |-> f.archives, active |-> f.active, gen |-> f.gen]
      /\ f.active \in Seq(LineType)
  BY DEF FilesOK
<1>2. a \in Seq(LineType) /\ Len(a) = Len(f.active) + 1 /\ Len(f.active) \in Nat
  BY <1>1, IsolatedFacts, AppendProperties, LenProperties
<1>3. w = [f EXCEPT !.active = a]
  BY DEF WithLine
<1> HIDE DEF a, w
<1>4. w.archives = f.archives /\ w.active = a /\ w.gen = f.gen
      /\ w = [archives |-> w.archives, active |-> w.active, gen |-> w.gen]
  BY <1>1, <1>3
<1>5. Gens(w) = Gens(f) /\ All(w) = All(f)
  BY <1>4 DEF Gens, All
<1>6. FilesOK(w)
  BY <1>2, <1>4, <1>5 DEF FilesOK
<1>7. \A h \in Gens(f) : File(w, h) = File(f, h)
  BY <1>4, <1>5, <1>6, FileFacts
<1>8. Len(w.active) = Len(f.active) + 1
  BY <1>2, <1>4
<1> QED BY <1>2, <1>4, <1>5, <1>6, <1>7, <1>8 DEF w, a

LEMMA WrittenRecords ==
  ASSUME NEW f, FilesOK(f), NEW x \in LineType
  PROVE  /\ Records(WithLine(f, x)) = Records(f) \union (IF IsRecord(x) THEN {NewPlace(f)} ELSE {})
         /\ \A p \in Records(f) :
              /\ At(WithLine(f, x), p) = At(f, p)
              /\ Precedes(p, NewPlace(f)) /\ ~ Precedes(NewPlace(f), p) /\ p # NewPlace(f)
         /\ At(WithLine(f, x), NewPlace(f)) = x
<1> DEFINE w == WithLine(f, x)
           n == Len(f.active)
<1>1. /\ FilesOK(w) /\ w.gen = f.gen /\ Gens(w) = Gens(f) /\ All(w) = All(f)
      /\ w.active = Append(Isolated(f.active), x) /\ Len(w.active) = n + 1 /\ n \in Nat
      /\ \A h \in Gens(f) : File(w, h) = File(f, h)
  BY WrittenFiles
<1>2. File(w, f.gen) = w.active /\ File(f, f.gen) = f.active /\ f.active \in Seq(LineType)
      /\ f.gen \in All(f) /\ f.gen \in Nat
  BY <1>1, FileFacts DEF FilesOK
<1>3. /\ w.active[n + 1] = x
      /\ \A i \in 1 .. n : /\ IsRecord(w.active[i]) <=> IsRecord(f.active[i])
                           /\ IsRecord(f.active[i]) => w.active[i] = f.active[i]
  BY <1>1, <1>2, IsolatedFacts, IsolatedRecords, AppendProperties
<1>4. NewPlace(f) = <<f.gen, n + 1>> /\ NewPlace(f)[1] = f.gen /\ NewPlace(f)[2] = n + 1
  BY DEF NewPlace
<1> HIDE DEF w, n
<1>5. At(w, NewPlace(f)) = x
  BY <1>1, <1>2, <1>3, <1>4 DEF At
<1>6. ASSUME NEW p \in Records(f)
      PROVE  /\ p \in Records(w) /\ At(w, p) = At(f, p)
             /\ Precedes(p, NewPlace(f)) /\ ~ Precedes(NewPlace(f), p) /\ p # NewPlace(f)
  <2>1. /\ p = <<p[1], p[2]>> /\ p[1] \in All(f) /\ p[2] \in 1 .. Len(File(f, p[1]))
        /\ p[1] \in Nat /\ p[2] \in Nat /\ p[1] <= f.gen /\ IsRecord(At(f, p))
    BY RecordFacts
  <2>2. CASE p[1] = f.gen
    <3>1. p[2] \in 1 .. n /\ At(f, p) = f.active[p[2]] /\ At(w, p) = w.active[p[2]]
      BY <1>2, <2>1, <2>2 DEF At, n
    <3>2. At(w, p) = At(f, p)
      BY <1>3, <2>1, <3>1
    <3>3. p[2] \in 1 .. Len(File(w, p[1]))
      BY <1>1, <1>2, <2>2, <3>1
    <3>4. p \in Places(w)
      BY <1>1, <2>1, <3>3, PlaceFacts
    <3>5. Precedes(p, NewPlace(f)) /\ ~ Precedes(NewPlace(f), p) /\ p # NewPlace(f)
      BY <1>1, <1>2, <1>4, <2>2, <3>1 DEF Precedes
    <3> QED BY <2>1, <3>2, <3>4, <3>5 DEF Records
  <2>3. CASE p[1] # f.gen
    <3>1. p[1] \in Gens(f) /\ p[1] < f.gen
      BY <1>2, <2>1, <2>3 DEF All
    <3>2. File(w, p[1]) = File(f, p[1])
      BY <1>1, <3>1
    <3>3. At(w, p) = At(f, p)
      BY <3>2 DEF At
    <3>4. p \in Places(w)
      BY <1>1, <2>1, <3>2, PlaceFacts
    <3>5. Precedes(p, NewPlace(f)) /\ ~ Precedes(NewPlace(f), p) /\ p # NewPlace(f)
      BY <1>1, <1>2, <1>4, <2>1, <3>1 DEF Precedes
    <3> QED BY <2>1, <3>3, <3>4, <3>5 DEF Records
  <2> QED BY <2>2, <2>3
<1>7. ASSUME IsRecord(x) PROVE NewPlace(f) \in Records(w)
  <2>1. NewPlace(f) \in Places(w)
    BY <1>1, <1>2, <1>4, PlaceFacts
  <2> QED BY <1>5, <1>7, <2>1 DEF Records
<1>8. ASSUME NEW p \in Records(w) PROVE p \in Records(f) \/ (IsRecord(x) /\ p = NewPlace(f))
  <2>1. /\ p = <<p[1], p[2]>> /\ p[1] \in All(f) /\ p[2] \in 1 .. Len(File(w, p[1]))
        /\ p[2] \in Nat /\ IsRecord(At(w, p))
    BY <1>1, RecordFacts
  <2>2. CASE p[1] = f.gen /\ p[2] # n + 1
    <3>1. p[2] \in 1 .. n /\ At(f, p) = f.active[p[2]] /\ At(w, p) = w.active[p[2]]
      BY <1>1, <1>2, <2>1, <2>2 DEF At
    <3>2. p[2] \in 1 .. Len(File(f, p[1]))
      BY <1>2, <2>2, <3>1 DEF n
    <3>3. p \in Places(f)
      BY <2>1, <3>2, PlaceFacts
    <3> QED BY <1>3, <2>1, <3>1, <3>3 DEF Records
  <2>3. CASE p[1] = f.gen /\ p[2] = n + 1
    <3>1. p = NewPlace(f)
      BY <1>4, <2>1, <2>3
    <3> QED BY <1>5, <2>1, <3>1
  <2>4. CASE p[1] # f.gen
    <3>1. p[1] \in Gens(f)
      BY <2>1, <2>4 DEF All
    <3>2. File(w, p[1]) = File(f, p[1])
      BY <1>1, <3>1
    <3>3. At(w, p) = At(f, p)
      BY <3>2 DEF At
    <3>4. p \in Places(f)
      BY <2>1, <3>2, PlaceFacts
    <3> QED BY <2>1, <3>3, <3>4 DEF Records
  <2> QED BY <2>2, <2>3, <2>4
<1>9. Records(w) = Records(f) \union (IF IsRecord(x) THEN {NewPlace(f)} ELSE {})
  BY <1>6, <1>7, <1>8
<1> QED BY <1>5, <1>6, <1>9 DEF w

-----------------------------------------------------------------------------
(* The chain. *)

LEMMA KeepsChain ==
  ASSUME NEW f, NEW g, NEW b \in Nat, FilesOK(f), FilesOK(g), Keeps(f, g, b), NEW d
  PROVE  /\ Chained(f, d) => Chained(g, d)
         /\ \A last : Known(last, f, Records(f), d) => Known(last, g, Records(g), d)
<1>1. \A p \in Records(g) : p \in Records(f) /\ p[1] >= b /\ At(g, p) = At(f, p)
  BY DEF Keeps
<1>2. \A p \in Records(f) : p[1] \in Nat /\ (p[1] >= b => p \in Records(g))
  BY RecordFacts DEF Keeps
<1>3. ASSUME Chained(f, d), NEW p \in Records(g), NEW q \in Records(g), Precedes(p, q),
             ~ \E r \in Records(g) : Precedes(p, r) /\ Precedes(r, q)
      PROVE  At(g, q).prev = At(g, p).id \/ At(g, p).id \in d
  <2>1. ASSUME NEW r \in Records(f), Precedes(p, r), Precedes(r, q) PROVE FALSE
    <3>1. p[1] \in Nat /\ r[1] \in Nat /\ p[1] >= b /\ p[1] <= r[1]
      BY <1>1, <1>2, <2>1 DEF Precedes
    <3>2. r \in Records(g)
      BY <1>2, <3>1
    <3> QED BY <1>3, <2>1, <3>2
  <2>2. At(f, q).prev = At(f, p).id \/ At(f, p).id \in d
    BY <1>1, <1>3, <2>1 DEF Chained
  <2> QED BY <1>1, <2>2
<1>4. ASSUME NEW last, Known(last, f, Records(f), d), NEW p \in Records(g),
             \A q \in Records(g) : q = p \/ Precedes(q, p)
      PROVE  At(g, p).id = last \/ At(g, p).id \in d
  <2>1. ASSUME NEW q \in Records(f) PROVE q = p \/ Precedes(q, p)
    <3>1. CASE q[1] >= b
      BY <1>2, <1>4, <3>1
    <3>2. CASE ~ (q[1] >= b)
      BY <1>1, <1>2, <3>2 DEF Precedes
    <3> QED BY <3>1, <3>2
  <2> QED BY <1>1, <1>4, <2>1 DEF Known
<1> QED BY <1>3, <1>4 DEF Chained, Known

\* A record that knows the last one extends the chain; a torn line leaves it alone.
LEMMA WithLineChain ==
  ASSUME NEW f, FilesOK(f), NEW x \in LineType, NEW d, NEW e, d \subseteq e, Chained(f, d),
         IsRecord(x) => Known(x.prev, f, Records(f), d)
  PROVE  Chained(WithLine(f, x), e)
<1> DEFINE w == WithLine(f, x)
<1>1. /\ Records(w) = Records(f) \union (IF IsRecord(x) THEN {NewPlace(f)} ELSE {})
      /\ \A p \in Records(f) :
           /\ At(w, p) = At(f, p)
           /\ Precedes(p, NewPlace(f)) /\ ~ Precedes(NewPlace(f), p) /\ p # NewPlace(f)
      /\ At(w, NewPlace(f)) = x
  BY WrittenRecords
<1>2. ~ Precedes(NewPlace(f), NewPlace(f))
  <2>1. f.gen \in Nat /\ Len(f.active) \in Nat
    BY FileFacts, WrittenFiles
  <2> QED BY <2>1 DEF Precedes, NewPlace
<1> HIDE DEF w
<1>3. ASSUME NEW p \in Records(w), NEW q \in Records(w), Precedes(p, q),
             ~ \E r \in Records(w) : Precedes(p, r) /\ Precedes(r, q)
      PROVE  At(w, q).prev = At(w, p).id \/ At(w, p).id \in e
  <2>1. p \in Records(f)
    BY <1>1, <1>2, <1>3
  <2>2. ~ \E r \in Records(f) : Precedes(p, r) /\ Precedes(r, q)
    BY <1>1, <1>3
  <2>3. CASE q \in Records(f)
    <3>1. At(f, q).prev = At(f, p).id \/ At(f, p).id \in d
      BY <1>3, <2>1, <2>2, <2>3 DEF Chained
    <3> QED BY <1>1, <2>1, <2>3, <3>1
  <2>4. CASE q = NewPlace(f) /\ IsRecord(x)
    <3>1. \A r \in Records(f) : r = p \/ Precedes(r, p)
      BY <1>1, <2>1, <2>2, <2>4, PrecedesOrder
    <3>2. At(f, p).id = x.prev \/ At(f, p).id \in d
      BY <2>1, <2>4, <3>1 DEF Known
    <3> QED BY <1>1, <2>1, <2>4, <3>2
  <2> QED BY <1>1, <2>3, <2>4
<1> QED BY <1>3 DEF Chained, w

LEMMA WithLineKnown ==
  ASSUME NEW f, FilesOK(f), NEW x \in LineType, NEW d, NEW last
  PROVE  /\ IsRecord(x) /\ (last = x.id \/ x.id \in d)
            => Known(last, WithLine(f, x), Records(WithLine(f, x)), d)
         /\ ~ IsRecord(x) /\ Known(last, f, Records(f), d)
            => Known(last, WithLine(f, x), Records(WithLine(f, x)), d)
<1> DEFINE w == WithLine(f, x)
<1>1. /\ Records(w) = Records(f) \union (IF IsRecord(x) THEN {NewPlace(f)} ELSE {})
      /\ \A p \in Records(f) :
           /\ At(w, p) = At(f, p)
           /\ Precedes(p, NewPlace(f)) /\ ~ Precedes(NewPlace(f), p) /\ p # NewPlace(f)
      /\ At(w, NewPlace(f)) = x
  BY WrittenRecords
<1> HIDE DEF w
<1>2. CASE IsRecord(x) /\ (last = x.id \/ x.id \in d)
  <2>1. ASSUME NEW p \in Records(w), \A q \in Records(w) : q = p \/ Precedes(q, p)
        PROVE  p = NewPlace(f)
    BY <1>1, <1>2, <2>1
  <2>2. Known(last, w, Records(w), d)
    BY <1>1, <1>2, <2>1 DEF Known
  <2> QED BY <1>2, <2>2 DEF w
<1>3. CASE ~ IsRecord(x) /\ Known(last, f, Records(f), d)
  <2>1. Records(w) = Records(f)
    BY <1>1, <1>3
  <2>2. Known(last, w, Records(w), d)
    BY <1>1, <1>3, <2>1 DEF Known
  <2> QED BY <1>3, <2>2 DEF w
<1> QED BY <1>2, <1>3

LEMMA ImageFits ==
  ASSUME NEW f, FilesOK(f), NEW m, NEW d, Known(m.last, f, Records(f), d)
  PROVE  IndexFits(f, Image(m, f), d)
<1> DEFINE x == Image(m, f)
<1>1. x.mem = m /\ x.bytes = Bytes(f.active) /\ x.gens = Gens(f) /\ x.gen = f.gen
  BY DEF Image
<1> HIDE DEF x
<1>2. f.active \in Seq(LineType) /\ Bytes(f.active) \in Nat
  BY BytesOf DEF FilesOK
<1>3. ASSUME NEW k \in 0 .. Len(f.active), Bytes(SubSeq(f.active, 1, k)) = x.bytes
      PROVE  Known(x.mem.last, f, Upto(f, k), d)
  <2>1. k = Len(f.active)
    BY <1>1, <1>2, <1>3, BytesFull
  <2>2. \A p \in Records(f) : p[1] < f.gen \/ p[2] <= k
    <3> TAKE p \in Records(f)
    <3>1. p[1] \in Nat /\ f.gen \in Nat /\ p[1] <= f.gen /\ p[2] \in 1 .. Len(File(f, p[1]))
      BY RecordFacts, FileFacts
    <3>2. p[1] = f.gen => p[2] \in 1 .. Len(f.active)
      BY <3>1, FileFacts
    <3>3. Len(f.active) \in Nat
      BY <1>2, LenProperties
    <3> QED BY <2>1, <3>1, <3>2, <3>3
  <2>3. Upto(f, k) = Records(f)
    BY <2>2 DEF Upto
  <2> QED BY <1>1, <2>3
<1>4. IndexFits(f, x, d)
  BY <1>1, <1>2, <1>3 DEF IndexFits
<1> QED BY <1>4 DEF x

LEMMA WithLineIndex ==
  ASSUME NEW f, FilesOK(f), NEW x \in LineType, NEW d, NEW e, d \subseteq e,
         NEW i, IndexOK(i, f.gen), IndexFits(f, i, d)
  PROVE  IndexFits(WithLine(f, x), i, e)
<1> DEFINE w == WithLine(f, x)
           n == Len(f.active)
<1>1. /\ FilesOK(w) /\ w.gen = f.gen /\ Gens(w) = Gens(f)
      /\ w.active = Append(Isolated(f.active), x) /\ Len(w.active) = n + 1 /\ n \in Nat
  BY WrittenFiles
<1>2. /\ \A p \in Records(f) : p \in Records(w) /\ At(w, p) = At(f, p)
      /\ \A p \in Records(w) : p \in Records(f) \/ p = NewPlace(f)
      /\ NewPlace(f)[1] = f.gen /\ NewPlace(f)[2] = n + 1
  <2>1. NewPlace(f)[1] = f.gen /\ NewPlace(f)[2] = n + 1
    BY DEF NewPlace
  <2> HIDE DEF w, n
  <2>2. /\ Records(w) = Records(f) \union (IF IsRecord(x) THEN {NewPlace(f)} ELSE {})
        /\ \A p \in Records(f) : At(w, p) = At(f, p)
    BY WrittenRecords DEF w
  <2> QED BY <2>1, <2>2
<1>3. f.active \in Seq(LineType) /\ w.active \in Seq(LineType) /\ f.gen \in Nat /\ i.bytes \in Int
  BY <1>1, FileFacts DEF FilesOK, IndexOK
<1> HIDE DEF w, n
<1>4. CASE i.gen = f.gen
  <2>1. /\ i.gens = Gens(f) /\ i.bytes <= Bytes(f.active)
        /\ \A k \in 0 .. n :
             Bytes(SubSeq(f.active, 1, k)) = i.bytes => Known(i.mem.last, f, Upto(f, k), d)
    BY <1>4 DEF IndexFits, n
  <2>2. ASSUME NEW k \in 0 .. Len(w.active), Bytes(SubSeq(w.active, 1, k)) = i.bytes
        PROVE  Known(i.mem.last, w, Upto(w, k), e)
    <3>1. k \in 0 .. n + 1 /\ Bytes(SubSeq(Append(Isolated(f.active), x), 1, k)) = i.bytes
      BY <1>1, <2>2
    <3>2. k \in 0 .. n /\ Bytes(SubSeq(f.active, 1, k)) = i.bytes
      BY <1>3, <2>1, <3>1, BytesWritten DEF n
    <3>3. Upto(w, k) = Upto(f, k)
      BY <1>1, <1>2, <1>3, <3>2 DEF Upto
    <3>4. Known(i.mem.last, f, Upto(f, k), d)
      BY <2>1, <3>2
    <3>5. \A p \in Upto(f, k) : At(w, p) = At(f, p)
      BY <1>2 DEF Upto
    <3> QED BY <3>3, <3>4, <3>5 DEF Known
  <2>3. i.bytes <= Bytes(w.active)
    <3>1. Bytes(f.active) \in Nat /\ Bytes(w.active) \in Nat
      BY <1>3, BytesOf
    <3> SUFFICES ASSUME Bytes(w.active) < Bytes(f.active) PROVE FALSE
      BY <1>3, <2>1, <3>1
    <3>2. SubSeq(w.active, 1, n + 1) = w.active
      BY <1>1, <1>3, SubSeqFull
    <3>3. n + 1 \in 0 .. n + 1 /\ Bytes(w.active) \in Int /\ Bytes(w.active) <= Bytes(f.active)
      BY <1>1, <3>1
    <3>4. Bytes(SubSeq(Append(Isolated(f.active), x), 1, n + 1)) = Bytes(w.active)
      BY <1>1, <3>2
    <3>5. n + 1 \in 0 .. n
      BY <1>3, <3>3, <3>4, BytesWritten DEF n
    <3> QED BY <1>1, <3>5
  <2> QED BY <1>1, <1>4, <2>1, <2>2, <2>3 DEF IndexFits, w
<1>5. CASE i.gen # f.gen
  <2>1. i.bytes = -1 \/ i.gen \in Gens(f)
    BY <1>5 DEF IndexFits
  <2>2. IndexFits(w, i, e)
    BY <1>1, <1>5, <2>1 DEF IndexFits
  <2> QED BY <2>2 DEF w
<1> QED BY <1>4, <1>5

LEMMA MovedIndex ==
  ASSUME NEW f, FilesOK(f), NEW i, IndexOK(i, f.gen), NEW d, IndexFits(f, i, d)
  PROVE  IndexFits(Moved(f), i, d)
<1>1. Moved(f).gen = f.gen + 1 /\ Gens(Moved(f)) = All(f) /\ f.gen \in Nat
  BY MovedKeeps, FileFacts
<1>2. i.gen \in 0 .. f.gen
  BY DEF IndexOK
<1>3. i.gen # Moved(f).gen
  BY <1>1, <1>2
<1>4. i.bytes = -1 \/ i.gen \in All(f)
  BY DEF IndexFits, All
<1> QED BY <1>1, <1>3, <1>4 DEF IndexFits

-----------------------------------------------------------------------------
(* What the recipients have. *)

More(rcv, rcv2) == \A c \in Recipient : rcv[c] \subseteq rcv2[c]

\* What the cache, the index and the segment on its way say of the recipients.
Delivered(f, m, i, fl, str, rcv) ==
  /\ MemClaims(f, m, str, rcv) /\ MemWithin(f, m, str)
  /\ IndexClaims(f, i, str, rcv) /\ FlightClaims(f, fl, str, rcv)

LEMMA CacheFacts ==
  ASSUME NEW m, NEW gen \in Nat, CacheOK(m, gen)
  PROVE  /\ \A c \in Recipient : m.cursor[c] \in Nat
         /\ \A c \in Recipient, g \in Nat : Offset(m, g, c) \in Nat /\ (g >= gen => Offset(m, g, c) = 0)
<1>1. /\ m.cursor \in [Recipient -> Nat] /\ DOMAIN m.kept \subseteq 1 .. gen - 1
      /\ m.kept \in [DOMAIN m.kept -> [Recipient -> Nat]]
  BY DEF CacheOK
<1>2. \A g \in DOMAIN m.kept : m.kept[g] \in [Recipient -> Nat]
  BY <1>1
<1> QED BY <1>1, <1>2 DEF Offset

LEMMA CreditMore ==
  ASSUME NEW f, NEW g, Records(g) \subseteq Records(f), \A p \in Records(g) : At(g, p) = At(f, p),
         NEW str, NEW str2, str \subseteq str2, NEW rcv, NEW rcv2, NEW c, rcv[c] \subseteq rcv2[c],
         NEW h, NEW n, NEW ids, Credit(f, str, rcv, c, h, n, ids)
  PROVE  Credit(g, str2, rcv2, c, h, n, ids)
BY DEF Credit

LEMMA CreditOfNothing ==
  ASSUME NEW f, FilesOK(f), NEW str, NEW rcv, NEW c, NEW h, NEW ids
  PROVE  Credit(f, str, rcv, c, h, 0, ids)
<1>1. \A p \in Records(f) : ~ (p[2] <= 0)
  <2> TAKE p \in Records(f)
  <2>1. p[2] \in 1 .. Len(File(f, p[1])) /\ p[2] \in Nat
    BY RecordFacts
  <2> QED BY <2>1
<1> QED BY <1>1 DEF Credit

LEMMA CreditWithLine ==
  ASSUME NEW f, FilesOK(f), NEW x \in LineType, NEW str, NEW rcv, NEW c, NEW h, NEW n \in Nat, NEW ids,
         Credit(f, str, rcv, c, h, n, ids), h = f.gen => Within(f, str, c, n)
  PROVE  Credit(WithLine(f, x), str, rcv, c, h, n, ids)
<1> DEFINE w == WithLine(f, x)
<1>1. /\ \A p \in Records(w) : p \in Records(f) \/ p = NewPlace(f)
      /\ \A p \in Records(f) : At(w, p) = At(f, p)
  BY WrittenRecords
<1>2. NewPlace(f)[1] = f.gen /\ NewPlace(f)[2] = Len(f.active) + 1 /\ Len(f.active) \in Nat
  BY WrittenFiles DEF NewPlace
<1> HIDE DEF w
<1>3. ASSUME <<h, c>> \notin str, NEW p \in Records(w), p[1] = h, p[2] <= n
      PROVE  p \in Records(f)
  BY <1>1, <1>2, <1>3 DEF Within
<1>4. Credit(w, str, rcv, c, h, n, ids)
  BY <1>1, <1>3 DEF Credit
<1> QED BY <1>4 DEF w

LEMMA MoreDelivered ==
  ASSUME NEW f, NEW m, NEW i, NEW fl, FlightOK(fl), NEW str, NEW str2, str \subseteq str2,
         NEW rcv, NEW rcv2, More(rcv, rcv2)
  PROVE  /\ MemClaims(f, m, str, rcv) => MemClaims(f, m, str2, rcv2)
         /\ MemWithin(f, m, str) => MemWithin(f, m, str2)
         /\ IndexClaims(f, i, str, rcv) => IndexClaims(f, i, str2, rcv2)
         /\ FlightClaims(f, fl, str, rcv) => FlightClaims(f, fl, str2, rcv2)
<1>1. ASSUME NEW c \in Recipient, NEW h, NEW n, NEW ids, Credit(f, str, rcv, c, h, n, ids)
      PROVE  Credit(f, str2, rcv2, c, h, n, ids)
  BY <1>1, CreditMore DEF More
<1>2. ASSUME NEW c, NEW n, Within(f, str, c, n) PROVE Within(f, str2, c, n)
  BY <1>2 DEF Within
<1>3. fl # NoFlight => fl.chat \in Recipient
  BY DEF FlightOK
<1>4. MemClaims(f, m, str, rcv) => MemClaims(f, m, str2, rcv2)
  BY <1>1 DEF MemClaims
<1>5. MemWithin(f, m, str) => MemWithin(f, m, str2)
  BY <1>2 DEF MemWithin
<1>6. IndexClaims(f, i, str, rcv) => IndexClaims(f, i, str2, rcv2)
  BY <1>1, <1>2 DEF IndexClaims
<1>7. FlightClaims(f, fl, str, rcv) => FlightClaims(f, fl, str2, rcv2)
  BY <1>1, <1>2, <1>3 DEF FlightClaims
<1> QED BY <1>4, <1>5, <1>6, <1>7

LEMMA ImageClaims ==
  ASSUME NEW f, FilesOK(f), NEW m, NEW str, NEW rcv, MemClaims(f, m, str, rcv), MemWithin(f, m, str)
  PROVE  IndexClaims(f, Image(m, f), str, rcv)
<1>1. Image(m, f).mem = m /\ Image(m, f).gen = f.gen
  BY DEF Image
<1>2. ASSUME NEW c \in Recipient, NEW g \in Gens(f) PROVE Credit(f, str, rcv, c, g, Offset(m, g, c), {})
  <2>1. g \in All(f) /\ Got(m, f, g, c) = Offset(m, g, c)
    BY FileFacts DEF Got
  <2> QED BY <2>1 DEF MemClaims
<1>3. ASSUME NEW c \in Recipient
      PROVE  Credit(f, str, rcv, c, f.gen, m.cursor[c], {}) /\ Within(f, str, c, m.cursor[c])
  <2>1. f.gen \in All(f) /\ Got(m, f, f.gen, c) = m.cursor[c]
    BY FileFacts DEF Got
  <2> QED BY <2>1 DEF MemClaims, MemWithin
<1> QED BY <1>1, <1>2, <1>3 DEF IndexClaims

LEMMA WithLineDelivered ==
  ASSUME NEW f, FilesOK(f), NEW x \in LineType, NEW m, CacheOK(m, f.gen), NEW i, IndexOK(i, f.gen),
         NEW fl, FlightOK(fl), NEW str, NEW rcv, Delivered(f, m, i, fl, str, rcv)
  PROVE  Delivered(WithLine(f, x), m, i, fl, str, rcv)
<1> DEFINE w == WithLine(f, x)
<1>1. /\ w.gen = f.gen /\ Gens(w) = Gens(f) /\ All(w) = All(f) /\ f.gen \in Nat
      /\ Len(w.active) = Len(f.active) + 1 /\ Len(f.active) \in Nat
      /\ \A h \in All(f) : h \in Nat
  BY WrittenFiles, FileFacts
<1>2. ASSUME NEW c, NEW h, NEW n \in Nat, NEW ids,
             Credit(f, str, rcv, c, h, n, ids), h = f.gen => Within(f, str, c, n)
      PROVE  Credit(w, str, rcv, c, h, n, ids)
  BY <1>2, CreditWithLine
<1> HIDE DEF w
<1>3. ASSUME NEW c, NEW n \in Nat, Within(f, str, c, n) PROVE Within(w, str, c, n)
  BY <1>1, <1>3 DEF Within
<1>4. \A c \in Recipient : m.cursor[c] \in Nat /\ \A g \in All(f) : Offset(m, g, c) \in Nat
  BY <1>1, CacheFacts
<1>5. \A c \in Recipient : i.mem.cursor[c] \in Nat /\ \A g \in All(f) : Offset(i.mem, g, c) \in Nat
  <2>1. i.gen \in Nat /\ CacheOK(i.mem, i.gen)
    BY <1>1 DEF IndexOK
  <2> QED BY <1>1, <2>1, CacheFacts
<1>6. MemWithin(w, m, str)
  BY <1>3, <1>4 DEF Delivered, MemWithin
<1>7. MemClaims(w, m, str, rcv)
  <2> SUFFICES ASSUME NEW c \in Recipient, NEW g \in All(f)
               PROVE  Credit(w, str, rcv, c, g, Got(m, w, g, c), {})
    BY <1>1 DEF MemClaims
  <2>1. Got(m, w, g, c) = Got(m, f, g, c) /\ Got(m, f, g, c) \in Nat
    BY <1>1, <1>4 DEF Got
  <2>2. g = f.gen => Within(f, str, c, Got(m, f, g, c))
    BY DEF Got, Delivered, MemWithin
  <2>3. Credit(f, str, rcv, c, g, Got(m, f, g, c), {})
    BY DEF Delivered, MemClaims
  <2> QED BY <1>2, <2>1, <2>2, <2>3
<1>8. IndexClaims(w, i, str, rcv)
  <2> SUFFICES ASSUME NEW c \in Recipient
               PROVE  /\ \A g \in Gens(f) : Credit(w, str, rcv, c, g, Offset(i.mem, g, c), {})
                      /\ i.gen = f.gen => /\ Credit(w, str, rcv, c, f.gen, i.mem.cursor[c], {})
                                          /\ Within(w, str, c, i.mem.cursor[c])
    BY <1>1 DEF IndexClaims
  <2>1. \A g \in Gens(f) : g # f.gen /\ g \in All(f)
    BY FileFacts
  <2>2. \A g \in Gens(f) : Credit(f, str, rcv, c, g, Offset(i.mem, g, c), {})
    BY DEF Delivered, IndexClaims
  <2>3. \A g \in Gens(f) : Credit(w, str, rcv, c, g, Offset(i.mem, g, c), {})
    BY <1>2, <1>5, <2>1, <2>2
  <2>4. i.gen = f.gen => /\ Credit(f, str, rcv, c, f.gen, i.mem.cursor[c], {})
                         /\ Within(f, str, c, i.mem.cursor[c])
    BY DEF Delivered, IndexClaims
  <2> QED BY <1>2, <1>3, <1>5, <2>3, <2>4
<1>9. FlightClaims(w, fl, str, rcv)
  <2> SUFFICES ASSUME fl # NoFlight PROVE FlightClaims(w, fl, str, rcv)
    BY DEF FlightClaims
  <2>1. fl.end \in Nat
    BY DEF FlightOK
  <2>2. /\ fl.gen <= f.gen /\ (fl.active \/ fl.gen < f.gen)
        /\ Credit(f, str, rcv, fl.chat, fl.gen, fl.end, fl.ids)
        /\ fl.gen = f.gen => Within(f, str, fl.chat, fl.end)
    BY DEF Delivered, FlightClaims
  <2>3. Credit(w, str, rcv, fl.chat, fl.gen, fl.end, fl.ids)
    BY <1>2, <2>1, <2>2
  <2> QED BY <1>1, <1>3, <2>1, <2>2, <2>3 DEF FlightClaims
<1> QED BY <1>6, <1>7, <1>8, <1>9 DEF Delivered, w

-----------------------------------------------------------------------------
(* Rotation and retention. *)

LEMMA KeepsDelivered ==
  ASSUME NEW f, NEW g, NEW b \in Nat, FilesOK(f), FilesOK(g), Keeps(f, g, b), NEW str, NEW rcv
  PROVE  /\ \A c, h, n, ids : Credit(f, str, rcv, c, h, n, ids) => Credit(g, str, rcv, c, h, n, ids)
         /\ \A fl : FlightOK(fl) /\ FlightClaims(f, fl, str, rcv) => FlightClaims(g, fl, str, rcv)
<1>1. /\ Records(g) \subseteq Records(f) /\ \A p \in Records(g) : At(g, p) = At(f, p)
      /\ f.gen <= g.gen /\ f.gen \in Nat /\ g.gen \in Nat
      /\ (g.gen = f.gen => g.active = f.active)
  BY FileFacts DEF Keeps
<1>2. \A c, h, n, ids : Credit(f, str, rcv, c, h, n, ids) => Credit(g, str, rcv, c, h, n, ids)
  BY <1>1 DEF Credit
<1>3. ASSUME NEW fl, FlightOK(fl), FlightClaims(f, fl, str, rcv), fl # NoFlight
      PROVE  FlightClaims(g, fl, str, rcv)
  <2>1. /\ fl.gen <= f.gen /\ (fl.active \/ fl.gen < f.gen) /\ fl.gen \in Nat
        /\ Credit(f, str, rcv, fl.chat, fl.gen, fl.end, fl.ids)
        /\ fl.gen = f.gen => Within(f, str, fl.chat, fl.end)
    BY <1>3 DEF FlightClaims, FlightOK
  <2>2. fl.gen <= g.gen /\ (fl.active \/ fl.gen < g.gen)
    BY <1>1, <2>1
  <2>3. Credit(g, str, rcv, fl.chat, fl.gen, fl.end, fl.ids)
    BY <1>2, <2>1
  <2>4. fl.gen = g.gen => Within(g, str, fl.chat, fl.end)
    BY <1>1, <2>1 DEF Within
  <2> QED BY <2>2, <2>3, <2>4 DEF FlightClaims
<1> QED BY <1>2, <1>3 DEF FlightClaims

\* A failure right after the rotation: the cursors are those of the old file.
LEMMA MovedDelivered ==
  ASSUME NEW f, FilesOK(f), NEW m, CacheOK(m, f.gen), NEW i, IndexOK(i, f.gen), NEW fl, FlightOK(fl),
         NEW str, NEW rcv, Delivered(f, m, i, fl, str, rcv)
  PROVE  /\ MemClaims(Moved(f), m, str, rcv) /\ IndexClaims(Moved(f), i, str, rcv)
         /\ FlightClaims(Moved(f), fl, str, rcv)
         /\ MemWithin(Moved(f), m, str \union Strays(m.cursor, f.gen + 1))
<1> DEFINE g == Moved(f)
<1>1. /\ FilesOK(g) /\ g.gen = f.gen + 1 /\ Gens(g) = All(f) /\ g.active = <<>> /\ Keeps(f, g, 0)
      /\ f.gen \in Nat /\ f.gen \notin Gens(f) /\ \A h \in All(f) : h \in Nat /\ h <= f.gen
  BY MovedKeeps, FileFacts
<1> HIDE DEF g
<1>2. 0 \in Nat
  OBVIOUS
<1>3. /\ \A c, h, n, ids : Credit(f, str, rcv, c, h, n, ids) => Credit(g, str, rcv, c, h, n, ids)
      /\ FlightClaims(g, fl, str, rcv)
  BY <1>1, <1>2, KeepsDelivered DEF Delivered
<1>4. \A c, h : Credit(g, str, rcv, c, h, 0, {})
  BY <1>1, CreditOfNothing
<1>5. \A c \in Recipient : Offset(m, f.gen, c) = 0 /\ Offset(i.mem, f.gen, c) = 0
  <2>1. i.gen \in Nat /\ i.gen <= f.gen /\ CacheOK(i.mem, i.gen)
    BY <1>1 DEF IndexOK
  <2> QED BY <1>1, <2>1, CacheFacts
<1>6. MemClaims(g, m, str, rcv)
  <2> SUFFICES ASSUME NEW c \in Recipient, NEW h \in All(g)
               PROVE  Credit(g, str, rcv, c, h, Got(m, g, h, c), {})
    BY DEF MemClaims
  <2>1. CASE h = g.gen
    <3>1. \A p \in Records(g) : p[1] # h
      <4> TAKE p \in Records(g)
      <4>1. p \in Records(f)
        BY <1>1 DEF Keeps
      <4>2. p[1] \in Nat /\ p[1] <= f.gen
        BY <4>1, RecordFacts
      <4> QED BY <1>1, <2>1, <4>2
    <3> QED BY <3>1 DEF Credit
  <2>2. CASE h = f.gen
    <3>1. Got(m, g, h, c) = 0
      BY <1>1, <1>5, <2>2 DEF Got
    <3> QED BY <1>4, <3>1
  <2>3. CASE h \in Gens(f)
    <3>1. h # f.gen /\ h # g.gen /\ h \in All(f)
      BY <1>1, <2>3 DEF All
    <3>2. Got(m, g, h, c) = Got(m, f, h, c)
      BY <3>1 DEF Got
    <3>3. Credit(f, str, rcv, c, h, Got(m, f, h, c), {})
      BY <3>1 DEF Delivered, MemClaims
    <3> QED BY <1>3, <3>2, <3>3
  <2> QED BY <1>1, <2>1, <2>2, <2>3 DEF All
<1>7. IndexClaims(g, i, str, rcv)
  <2>1. i.gen # g.gen
    BY <1>1 DEF IndexOK
  <2>2. ASSUME NEW c \in Recipient, NEW h \in Gens(g)
        PROVE  Credit(g, str, rcv, c, h, Offset(i.mem, h, c), {})
    <3>1. CASE h = f.gen
      BY <1>4, <1>5, <3>1
    <3>2. CASE h \in Gens(f)
      BY <1>3, <3>2 DEF Delivered, IndexClaims
    <3> QED BY <1>1, <3>1, <3>2 DEF All
  <2> QED BY <2>1, <2>2 DEF IndexClaims
<1>8. MemWithin(g, m, str \union Strays(m.cursor, f.gen + 1))
  <2> SUFFICES ASSUME NEW c \in Recipient
               PROVE  Within(g, str \union Strays(m.cursor, f.gen + 1), c, m.cursor[c])
    BY DEF MemWithin
  <2>1. m.cursor[c] \in Nat /\ Len(<<>>) = 0
    BY <1>1, CacheFacts
  <2>2. CASE m.cursor[c] > 0
    BY <1>1, <2>2 DEF Within, Strays
  <2>3. CASE ~ (m.cursor[c] > 0)
    BY <1>1, <2>1, <2>3 DEF Within
  <2> QED BY <2>2, <2>3
<1> QED BY <1>3, <1>6, <1>7, <1>8 DEF g

LEMMA ImageType ==
  ASSUME NEW f, FilesOK(f), NEW m, CacheOK(m, f.gen)
  PROVE  IndexOK(Image(m, f), f.gen)
<1>1. f.active \in Seq(LineType) /\ f.gen \in Nat /\ Gens(f) \subseteq 1 .. f.gen - 1
  BY DEF FilesOK
<1>2. Bytes(f.active) \in Nat
  BY <1>1, BytesOf
<1> QED BY <1>1, <1>2 DEF IndexOK, Image

\* A rotation that succeeds: the cursors go with the file they belong to.
LEMMA RotatedDelivered ==
  ASSUME NEW f, FilesOK(f), NEW m, CacheOK(m, f.gen), NEW fl, FlightOK(fl),
         NEW i, NEW str, NEW rcv, Delivered(f, m, i, fl, str, rcv),
         NEW r, FilesOK(r), NEW b \in Nat, Keeps(Moved(f), r, b), r.gen = f.gen + 1,
         Gens(r) \subseteq All(f)
  PROVE  /\ CacheOK(CursorsRotated(m, r, f.gen), r.gen)
         /\ CursorsRotated(m, r, f.gen).last = m.last
         /\ Delivered(r, CursorsRotated(m, r, f.gen), Image(CursorsRotated(m, r, f.gen), r), fl, str, rcv)
<1> DEFINE g == Moved(f)
           q == CursorsRotated(m, r, f.gen)
           kept == [h \in Gens(r) |-> IF h = f.gen THEN m.cursor ELSE [c \in Recipient |-> Offset(m, h, c)]]
           zero == [c \in Recipient |-> 0]
<1>1. FilesOK(g) /\ Keeps(f, g, 0) /\ 0 \in Nat /\ f.gen \in Nat /\ r.gen \in Nat
      /\ Gens(r) \subseteq 1 .. r.gen - 1
  BY MovedKeeps, FileFacts
<1>2. \A c, h, n : Credit(f, str, rcv, c, h, n, {}) => Credit(r, str, rcv, c, h, n, {})
  <2>1. \A c, h, n : Credit(f, str, rcv, c, h, n, {}) => Credit(g, str, rcv, c, h, n, {})
    BY <1>1, KeepsDelivered
  <2>2. \A c, h, n : Credit(g, str, rcv, c, h, n, {}) => Credit(r, str, rcv, c, h, n, {})
    BY <1>1, KeepsDelivered
  <2> QED BY <2>1, <2>2
<1>3. FlightClaims(r, fl, str, rcv)
  <2>1. FlightClaims(g, fl, str, rcv)
    BY <1>1, KeepsDelivered DEF Delivered
  <2> QED BY <1>1, <2>1, KeepsDelivered
<1>4. /\ m = [last |-> m.last, seen |-> m.seen, cursor |-> m.cursor, kept |-> m.kept]
      /\ m.last \in Nat /\ m.seen \in [Order -> Nat] /\ m.cursor \in [Recipient -> Nat]
  BY DEF CacheOK
<1>5. q = [m EXCEPT !.kept = kept, !.cursor = zero]
  BY DEF CursorsRotated
<1>6. /\ DOMAIN kept = Gens(r)
      /\ \A h \in Gens(r), c \in Recipient :
           kept[h][c] = IF h = f.gen THEN m.cursor[c] ELSE Offset(m, h, c)
      /\ \A h \in Gens(r) : kept[h] \in [Recipient -> Nat]
      /\ zero \in [Recipient -> Nat] /\ \A c \in Recipient : zero[c] = 0
  <2>1. \A h \in Gens(r) : h \in Nat
    BY <1>1
  <2>2. \A h \in Gens(r), c \in Recipient : Offset(m, h, c) \in Nat
    BY <1>1, <2>1, CacheFacts
  <2> QED BY <1>4, <2>2
<1>7. kept \in [Gens(r) -> [Recipient -> Nat]]
  BY <1>6
<1> HIDE DEF g, q, kept, zero
<1>8. /\ q.last = m.last /\ q.seen = m.seen /\ q.cursor = zero /\ q.kept = kept
      /\ q = [last |-> q.last, seen |-> q.seen, cursor |-> q.cursor, kept |-> q.kept]
  BY <1>4, <1>5
<1>9. CacheOK(q, r.gen)
  BY <1>1, <1>4, <1>6, <1>7, <1>8 DEF CacheOK
<1>10. MemClaims(r, q, str, rcv)
  <2> SUFFICES ASSUME NEW c \in Recipient, NEW h \in All(r)
               PROVE  Credit(r, str, rcv, c, h, Got(q, r, h, c), {})
    BY DEF MemClaims
  <2>1. CASE h = r.gen
    <3>1. Got(q, r, h, c) = 0
      BY <1>6, <1>8, <2>1 DEF Got
    <3> QED BY <3>1, CreditOfNothing
  <2>2. CASE h \in Gens(r)
    <3>1. h # r.gen /\ h \in All(f)
      BY <2>2, FileFacts
    <3>2. Got(q, r, h, c) = kept[h][c]
      BY <1>6, <1>8, <2>2, <3>1 DEF Got, Offset
    <3>3. Got(q, r, h, c) = Got(m, f, h, c)
      BY <1>6, <2>2, <3>2 DEF Got
    <3>4. Credit(f, str, rcv, c, h, Got(m, f, h, c), {})
      BY <3>1 DEF Delivered, MemClaims
    <3> QED BY <1>2, <3>3, <3>4
  <2> QED BY <2>1, <2>2 DEF All
<1>11. MemWithin(r, q, str)
  <2>1. r.active \in Seq(LineType)
    BY DEF FilesOK
  <2>2. Len(r.active) \in Nat
    BY <2>1, LenProperties
  <2>3. \A c \in Recipient : q.cursor[c] <= Len(r.active)
    BY <1>6, <1>8, <2>2
  <2> QED BY <2>3 DEF MemWithin, Within
<1>12. IndexClaims(r, Image(q, r), str, rcv)
  BY <1>10, <1>11, ImageClaims
<1> QED BY <1>3, <1>8, <1>9, <1>10, <1>11, <1>12 DEF Delivered, q

-----------------------------------------------------------------------------
(* The evidence as it rests in the files and the index, and as the memory  *)
(* knows it while the process runs.                                        *)

Resting(f, m, i, fl, dbt, str, rcv) ==
  /\ FilesOK(f) /\ CacheOK(m, f.gen) /\ IndexOK(i, f.gen)
  /\ Chained(f, dbt) /\ IndexFits(f, i, dbt)
  /\ MemClaims(f, m, str, rcv) /\ IndexClaims(f, i, str, rcv) /\ FlightClaims(f, fl, str, rcv)

Running(f, m, dbt, str) == Known(m.last, f, Records(f), dbt) /\ MemWithin(f, m, str)

LEMMA RestingMore ==
  ASSUME NEW f, NEW m, NEW i, NEW fl, FlightOK(fl), NEW fl2 \in {fl, NoFlight}, NEW dbt,
         NEW str, NEW str2, str \subseteq str2, NEW rcv, NEW rcv2, More(rcv, rcv2),
         Resting(f, m, i, fl, dbt, str, rcv)
  PROVE  /\ Resting(f, m, i, fl2, dbt, str2, rcv2)
         /\ Running(f, m, dbt, str) => Running(f, m, dbt, str2)
<1>1. FlightClaims(f, fl2, str2, rcv2)
  <2>1. FlightClaims(f, fl, str2, rcv2)
    BY MoreDelivered DEF Resting
  <2> QED BY <2>1 DEF FlightClaims
<1>2. MemClaims(f, m, str2, rcv2) /\ IndexClaims(f, i, str2, rcv2)
  BY MoreDelivered DEF Resting
<1>3. MemWithin(f, m, str) => MemWithin(f, m, str2)
  BY MoreDelivered
<1> QED BY <1>1, <1>2, <1>3 DEF Resting, Running

LEMMA MoreItself == \A rcv : More(rcv, rcv)
BY DEF More

LEMMA RestingImage ==
  ASSUME NEW f, NEW m, NEW i, NEW fl, NEW dbt, NEW str, NEW rcv,
         Resting(f, m, i, fl, dbt, str, rcv), Running(f, m, dbt, str)
  PROVE  Resting(f, m, Image(m, f), fl, dbt, str, rcv)
<1>1. IndexOK(Image(m, f), f.gen)
  BY ImageType DEF Resting
<1>2. IndexFits(f, Image(m, f), dbt)
  BY ImageFits DEF Resting, Running
<1>3. IndexClaims(f, Image(m, f), str, rcv)
  BY ImageClaims DEF Resting, Running
<1> QED BY <1>1, <1>2, <1>3 DEF Resting

\* A rotation and a retention.
LEMMA RotatedRests ==
  ASSUME NEW f, NEW m, NEW i, NEW fl, FlightOK(fl), NEW dbt, NEW str, NEW rcv,
         Resting(f, m, i, fl, dbt, str, rcv), Running(f, m, dbt, str), NEW aged \in All(Moved(f)),
         NEW r, r = Pruned(Moved(f), aged), NEW q, q = CursorsRotated(m, r, f.gen)
  PROVE  Resting(r, q, Image(q, r), fl, dbt, str, rcv) /\ Running(r, q, dbt, str)
<1>1. /\ FilesOK(Moved(f)) /\ Moved(f).gen = f.gen + 1 /\ Gens(Moved(f)) = All(f)
      /\ Keeps(f, Moved(f), 0) /\ 0 \in Nat /\ FilesOK(f)
  BY MovedKeeps DEF Resting
<1>2. PICK b \in Nat : /\ FilesOK(r) /\ r.gen = Moved(f).gen /\ Gens(r) \subseteq Gens(Moved(f))
                       /\ Keeps(Moved(f), r, b)
  BY <1>1, PrunedKeeps
<1>3. Chained(r, dbt) /\ \A last : Known(last, f, Records(f), dbt) => Known(last, r, Records(r), dbt)
  <2>1. /\ Chained(Moved(f), dbt)
        /\ \A last : Known(last, f, Records(f), dbt) => Known(last, Moved(f), Records(Moved(f)), dbt)
    BY <1>1, KeepsChain DEF Resting
  <2> QED BY <1>1, <1>2, <2>1, KeepsChain
<1>4. CacheOK(q, r.gen) /\ q.last = m.last /\ Delivered(r, q, Image(q, r), fl, str, rcv)
  <2>1. Delivered(f, m, i, fl, str, rcv) /\ CacheOK(m, f.gen)
    BY DEF Resting, Running, Delivered
  <2>2. r.gen = f.gen + 1 /\ Gens(r) \subseteq All(f)
    BY <1>1, <1>2
  <2> QED BY <1>1, <1>2, <2>1, <2>2, RotatedDelivered
<1>5. Known(q.last, r, Records(r), dbt)
  BY <1>3, <1>4 DEF Running
<1>6. IndexFits(r, Image(q, r), dbt) /\ IndexOK(Image(q, r), r.gen)
  BY <1>2, <1>4, <1>5, ImageFits, ImageType
<1> QED BY <1>2, <1>3, <1>4, <1>5, <1>6 DEF Resting, Running, Delivered

\* A line that the memory takes note of, or does not.
LEMMA LineRests ==
  ASSUME NEW f, NEW m, NEW i, NEW fl, FlightOK(fl), NEW dbt, NEW dbt2, dbt \subseteq dbt2,
         NEW str, NEW rcv, Resting(f, m, i, fl, dbt, str, rcv), Running(f, m, dbt, str),
         NEW x \in LineType, IsRecord(x) => x.prev = m.last,
         NEW n, CacheOK(n, f.gen), n.cursor = m.cursor, n.kept = m.kept
  PROVE  /\ Resting(WithLine(f, x), n, i, fl, dbt2, str, rcv)
         /\ (IF IsRecord(x) THEN n.last = x.id \/ x.id \in dbt2 ELSE n.last = m.last /\ dbt2 = dbt)
              => Running(WithLine(f, x), n, dbt2, str)
<1> DEFINE w == WithLine(f, x)
<1>1. FilesOK(f) /\ CacheOK(m, f.gen) /\ IndexOK(i, f.gen) /\ Chained(f, dbt) /\ IndexFits(f, i, dbt)
      /\ Known(m.last, f, Records(f), dbt)
  BY DEF Resting, Running
<1>2. FilesOK(w) /\ w.gen = f.gen
  BY <1>1, WrittenFiles
<1>3. Chained(w, dbt2) /\ IndexFits(w, i, dbt2)
  BY <1>1, WithLineChain, WithLineIndex
<1>4. Delivered(f, m, i, fl, str, rcv)
  BY DEF Resting, Running, Delivered
<1>5. Delivered(w, m, i, fl, str, rcv)
  BY <1>1, <1>4, WithLineDelivered
<1> HIDE DEF w
<1>6. MemClaims(w, n, str, rcv) /\ MemWithin(w, n, str)
  <2>1. \A g, c : Got(n, w, g, c) = Got(m, w, g, c)
    BY DEF Got, Offset
  <2> QED BY <1>5, <2>1 DEF Delivered, MemClaims, MemWithin
<1>7. Resting(w, n, i, fl, dbt2, str, rcv)
  BY <1>1, <1>2, <1>3, <1>5, <1>6 DEF Resting, Delivered
<1>8. ASSUME IF IsRecord(x) THEN n.last = x.id \/ x.id \in dbt2 ELSE n.last = m.last /\ dbt2 = dbt
      PROVE  Known(n.last, w, Records(w), dbt2)
  <2>1. CASE IsRecord(x)
    <3>1. n.last = x.id \/ x.id \in dbt2
      BY <1>8, <2>1
    <3> QED BY <1>1, <2>1, <3>1, WithLineKnown DEF w
  <2>2. CASE ~ IsRecord(x)
    <3>1. n.last = m.last /\ dbt2 = dbt
      BY <1>8, <2>2
    <3>2. Known(n.last, f, Records(f), dbt2)
      BY <1>1, <3>1
    <3> QED BY <1>1, <2>2, <3>2, WithLineKnown DEF w
  <2> QED BY <2>1, <2>2
<1> QED BY <1>6, <1>7, <1>8 DEF w, Running

-----------------------------------------------------------------------------
(* The steps: an append. *)

\* What the append finds is sound, also after a rotation.
LEMMA PreparedRests ==
  ASSUME FlightOK(flight), Resting(files, mem, index, flight, doubtful, stray, held),
         Running(files, mem, doubtful, stray), NEW base \in Prepared
  PROVE  /\ Resting(base.files, base.mem, base.index, flight, doubtful, stray, held)
         /\ Running(base.files, base.mem, doubtful, stray)
         /\ ~ Full(files) => base.index = index
<1>1. CASE ~ Full(files)
  <2>1. base = [files |-> files, mem |-> mem, index |-> index]
    BY <1>1 DEF Prepared
  <2> QED BY <2>1
<1>2. CASE Full(files)
  <2>1. PICK aged \in All(Moved(files)) :
          base = (LET f == Pruned(Moved(files), aged)
                      m == CursorsRotated(mem, f, files.gen)
                  IN  [files |-> f, mem |-> m, index |-> Image(m, f)])
    BY <1>2 DEF Prepared
  <2>2. /\ base.files = Pruned(Moved(files), aged)
        /\ base.mem = CursorsRotated(mem, base.files, files.gen)
        /\ base.index = Image(base.mem, base.files)
    BY <2>1
  <2> QED BY <1>2, <2>2, RotatedRests
<1> QED BY <1>1, <1>2

Survived(outcome) ==
  IF outcome = "moved" THEN stray \union Strays(mem.cursor, files.gen + 1) ELSE stray

LEMMA AppendRests ==
  ASSUME FlightOK(flight), Resting(files, mem, index, flight, doubtful, stray, held),
         Running(files, mem, doubtful, stray), written \in Nat,
         NEW line \in LineType, IsRecord(line), NEW outcome \in Outcome, NEW seen \in [Order -> Nat],
         NEW flush, Appended(line, outcome, seen, flush),
         NEW d \in {doubtful, doubtful \union {written + 1}}, outcome # "whole" => d = doubtful
  PROVE  /\ written' \in Nat /\ Resting(files', mem', index', flight, d, stray, held)
         /\ (outcome = "whole" => written + 1 \in d) => Running(files', mem', d, Survived(outcome))
<1>1. PICK base \in Prepared :
        \E record \in {[line EXCEPT !.id = written + 1, !.prev = base.mem.last]} :
        LET with(x) == files' = [base.files EXCEPT !.active = Append(Isolated(@), x)]
            kept    == mem' = base.mem /\ index' = base.index
        IN \/ /\ outcome = "done" /\ with(record) /\ written' = written + 1
              /\ mem' = [base.mem EXCEPT !.last = record.id, !.seen = seen]
              /\ index' \in IF flush \/ Full(files) THEN {Image(mem', files')}
                            ELSE {index, Image(mem', files')}
           \/ outcome = "nothing" /\ files' = base.files /\ kept /\ UNCHANGED written
           \/ /\ outcome = "moved" /\ Full(files) /\ files' = Moved(files)
              /\ UNCHANGED <<mem, index, written>>
           \/ outcome = "torn" /\ with(Torn) /\ kept /\ UNCHANGED written
           \/ outcome = "whole" /\ with(record) /\ kept /\ written' = written + 1
  BY DEF Appended
<1> DEFINE record == [line EXCEPT !.id = written + 1, !.prev = base.mem.last]
<1>2. /\ Resting(base.files, base.mem, base.index, flight, doubtful, stray, held)
      /\ Running(base.files, base.mem, doubtful, stray)
      /\ ~ Full(files) => base.index = index
  BY PreparedRests
<1>3. CacheOK(base.mem, base.files.gen) /\ base.mem.last \in Nat
  BY <1>2 DEF Resting, CacheOK
<1>4. record \in LineType /\ IsRecord(record) /\ record.prev = base.mem.last /\ record.id = written + 1
  <2> DEFINE a == written + 1
             b == base.mem.last
             r == [line EXCEPT !.id = a, !.prev = b]
  <2>1. a \in Nat /\ b \in Nat
    BY <1>3
  <2> HIDE DEF a, b
  <2>2. r \in LineType /\ r.kind = line.kind /\ r.prev = b /\ r.id = a
    BY <2>1 DEF LineType
  <2>3. IsRecord(r)
    BY <2>2 DEF IsRecord
  <2> QED BY <2>2, <2>3 DEF a, b
<1> HIDE DEF record
<1>5. CASE /\ outcome = "done" /\ files' = WithLine(base.files, record) /\ written' = written + 1
           /\ mem' = [base.mem EXCEPT !.last = record.id, !.seen = seen]
           /\ index' \in IF flush \/ Full(files) THEN {Image(mem', files')}
                         ELSE {index, Image(mem', files')}
  <2>1. /\ base.mem = [last |-> base.mem.last, seen |-> base.mem.seen,
                       cursor |-> base.mem.cursor, kept |-> base.mem.kept]
        /\ base.mem.last \in Nat /\ base.mem.seen \in [Order -> Nat]
        /\ base.mem.cursor \in [Recipient -> Nat]
        /\ DOMAIN base.mem.kept \subseteq 1 .. base.files.gen - 1
        /\ base.mem.kept \in [DOMAIN base.mem.kept -> [Recipient -> Nat]]
    BY <1>3 DEF CacheOK
  <2>2. /\ mem'.last = record.id /\ mem'.seen = seen
        /\ mem'.cursor = base.mem.cursor /\ mem'.kept = base.mem.kept
        /\ mem' = [last |-> mem'.last, seen |-> mem'.seen, cursor |-> mem'.cursor, kept |-> mem'.kept]
    BY <1>5, <2>1
  <2>3. CacheOK(mem', base.files.gen)
    BY <1>4, <2>1, <2>2 DEF CacheOK
  <2>4. d = doubtful /\ Survived(outcome) = stray
    BY <1>5 DEF Survived
  <2>5. /\ Resting(files', mem', base.index, flight, doubtful, stray, held)
        /\ Running(files', mem', doubtful, stray)
    BY <1>2, <1>4, <1>5, <2>2, <2>3, LineRests
  <2>6. Resting(files', mem', Image(mem', files'), flight, doubtful, stray, held)
    BY <2>5, RestingImage
  <2>7. index' = Image(mem', files') \/ index' = base.index
    BY <1>2, <1>5
  <2> QED BY <1>5, <2>4, <2>5, <2>6, <2>7
<1>6. CASE outcome = "nothing" /\ files' = base.files /\ mem' = base.mem /\ index' = base.index
           /\ written' = written
  BY <1>2, <1>6 DEF Survived
<1>7. CASE outcome = "moved" /\ files' = Moved(files) /\ UNCHANGED <<mem, index, written>>
  <2>1. /\ FilesOK(files) /\ CacheOK(mem, files.gen) /\ IndexOK(index, files.gen)
        /\ Chained(files, doubtful) /\ IndexFits(files, index, doubtful)
        /\ Known(mem.last, files, Records(files), doubtful)
        /\ Delivered(files, mem, index, flight, stray, held)
    BY DEF Resting, Running, Delivered
  <2>2. /\ MemClaims(Moved(files), mem, stray, held) /\ IndexClaims(Moved(files), index, stray, held)
        /\ FlightClaims(Moved(files), flight, stray, held)
        /\ MemWithin(Moved(files), mem, stray \union Strays(mem.cursor, files.gen + 1))
    BY <2>1, MovedDelivered
  <2>3. /\ FilesOK(Moved(files)) /\ Moved(files).gen = files.gen + 1 /\ files.gen \in Nat
        /\ Keeps(files, Moved(files), 0) /\ 0 \in Nat
    BY <2>1, MovedKeeps, FileFacts
  <2>4. /\ Chained(Moved(files), doubtful)
        /\ Known(mem.last, Moved(files), Records(Moved(files)), doubtful)
    BY <2>1, <2>3, KeepsChain
  <2>5. IndexFits(Moved(files), index, doubtful)
    BY <2>1, MovedIndex
  <2>6. CacheOK(mem, files.gen + 1) /\ IndexOK(index, files.gen + 1)
    BY <2>1, <2>3 DEF CacheOK, IndexOK
  <2>7. d = doubtful /\ Survived(outcome) = stray \union Strays(mem.cursor, files.gen + 1)
    BY <1>7 DEF Survived
  <2> QED BY <1>7, <2>2, <2>3, <2>4, <2>5, <2>6, <2>7 DEF Resting, Running
<1>8. CASE outcome = "torn" /\ files' = WithLine(base.files, Torn) /\ mem' = base.mem
           /\ index' = base.index /\ written' = written
  <2>1. d = doubtful /\ Survived(outcome) = stray
    BY <1>8 DEF Survived
  <2> QED BY <1>2, <1>3, <1>8, <2>1, LineFacts, LineRests
<1>9. CASE outcome = "whole" /\ files' = WithLine(base.files, record) /\ mem' = base.mem
           /\ index' = base.index /\ written' = written + 1
  <2>1. Survived(outcome) = stray /\ doubtful \subseteq d
    BY <1>9 DEF Survived
  <2> QED BY <1>2, <1>3, <1>4, <1>9, <2>1, LineRests
<1> QED BY <1>1, <1>5, <1>6, <1>7, <1>8, <1>9 DEF WithLine, record

-----------------------------------------------------------------------------
(* The steps: what the threads have to do. *)

Tasks ==
  /\ version \in [Order -> [now : Nat, recent : BOOLEAN]]
  /\ settings \in [on : BOOLEAN, send : BOOLEAN]
  /\ up \in BOOLEAN /\ queue \subseteq Order \union {"sweep"} /\ JobsOK
  /\ missed \subseteq Order /\ budget \in [acts : Nat, faults : Nat]

Histories ==
  /\ FlightOK(flight) /\ written \in Nat /\ doubtful \subseteq Nat
  /\ held \in [Recipient -> SUBSET Nat] /\ stray \subseteq Nat \X Recipient

LEMMA InvParts ==
  AuditInv <=> /\ Tasks /\ Histories
               /\ Resting(files, mem, index, flight, doubtful, stray, held)
               /\ up => Running(files, mem, doubtful, stray)
BY DEF AuditInv, AuditTypeOK, ChainInv, DeliveryInv, Tasks, Histories, Resting, Running

LEMMA InvPartsNext ==
  ASSUME Tasks', Histories',
         Resting(files', mem', index', flight', doubtful', stray', held'),
         up' => Running(files', mem', doubtful', stray')
  PROVE  AuditInv'
BY DEF AuditInv, AuditTypeOK, ChainInv, DeliveryInv, Tasks, Histories, Resting, Running

JobOK(j) ==
  /\ j = [stage |-> j.stage, todo |-> j.todo] /\ j.stage \in {"none", "order", "sweep", "export"}
  /\ DOMAIN j.todo \subseteq Order /\ j.todo \in [DOMAIN j.todo -> Nat]

LEMMA JobFacts ==
  /\ JobOK(NoJob)
  /\ \A j, t : JobsOK /\ JobOK(j) /\ job' = [job EXCEPT ![t] = j] => JobsOK'
  /\ \A t \in Worker : JobsOK => JobOK(job[t])
  /\ job' = [t \in Worker |-> NoJob] => JobsOK'
<1>1. JobOK(NoJob)
  <2>1. NoJob.stage = "none" /\ NoJob.todo = Empty /\ NoJob = [stage |-> NoJob.stage, todo |-> NoJob.todo]
    BY DEF NoJob
  <2>2. DOMAIN Empty = {} /\ Empty \in [DOMAIN Empty -> Nat]
    BY DEF Empty
  <2> QED BY <2>1, <2>2 DEF JobOK
<1>2. ASSUME NEW j, NEW t, JobsOK, JobOK(j), job' = [job EXCEPT ![t] = j] PROVE JobsOK'
  <2>1. DOMAIN job = Worker /\ DOMAIN job' = Worker
    BY <1>2 DEF JobsOK
  <2>2. \A u \in Worker : job'[u] = IF u = t THEN j ELSE job[u]
    BY <1>2, <2>1
  <2>3. \A u \in Worker : JobOK(job[u])
    BY <1>2 DEF JobsOK, JobOK
  <2>4. \A u \in Worker : JobOK(job'[u])
    BY <1>2, <2>2, <2>3
  <2>5. job' = [u \in Worker |-> job'[u]]
    BY <1>2, <2>1
  <2> QED BY <2>4, <2>5 DEF JobsOK, JobOK
<1>3. \A t \in Worker : JobsOK => JobOK(job[t])
  BY DEF JobsOK, JobOK
<1>4. ASSUME job' = [t \in Worker |-> NoJob] PROVE JobsOK'
  <2>1. \A t \in Worker : job'[t] = NoJob
    BY <1>4
  <2>2. \A t \in Worker : JobOK(job'[t])
    BY <1>1, <2>1
  <2>3. job' = [u \in Worker |-> job'[u]]
    BY <1>4
  <2> QED BY <2>2, <2>3 DEF JobsOK, JobOK
<1> QED BY <1>1, <1>2, <1>3, <1>4

LEMMA ReadsTypes ==
  ASSUME Tasks, NEW t, NEW stage \in {"order", "sweep"}, NEW orders \in SUBSET Order,
         Reads(t, stage, orders)
  PROVE  JobsOK'
<1> DEFINE read == [o \in orders |-> version[o].now]
           j == [stage |-> stage, todo |-> read]
<1>1. read \in [orders -> Nat] /\ DOMAIN read = orders
  BY DEF Tasks
<1>2. job' = [job EXCEPT ![t] = j]
  BY DEF Reads
<1> HIDE DEF read
<1>3. JobOK(j)
  BY <1>1 DEF JobOK
<1> HIDE DEF j
<1> QED BY <1>2, <1>3, JobFacts DEF Tasks

LEMMA DoneTypes ==
  ASSUME JobsOK, NEW t \in Worker, NEW o, job' = Done(t, o)
  PROVE  JobsOK'
<1>1. JobOK(job[t]) /\ DOMAIN job = Worker
  BY JobFacts DEF JobsOK
<1> DEFINE rest == Restrict(job[t].todo, DOMAIN job[t].todo \ {o})
           j == IF job[t].stage = "order" THEN NoJob ELSE [stage |-> job[t].stage, todo |-> rest]
<1>2. DOMAIN rest \subseteq Order /\ rest \in [DOMAIN rest -> Nat]
  BY <1>1 DEF Restrict, JobOK
<1>3. job' = [job EXCEPT ![t] = j]
  <2>1. [job[t] EXCEPT !.todo = rest] = [stage |-> job[t].stage, todo |-> rest]
    <3> HIDE DEF rest
    <3> QED BY <1>1 DEF JobOK
  <2>2. job' = [job EXCEPT ![t] = IF job[t].stage = "order" THEN NoJob
                                  ELSE [job[t] EXCEPT !.todo = rest]]
    BY <1>1 DEF Done
  <2> QED BY <2>1, <2>2
<1> HIDE DEF rest
<1>4. JobOK(j)
  <2>1. CASE job[t].stage = "order"
    BY <2>1, JobFacts
  <2>2. CASE job[t].stage # "order"
    BY <1>1, <1>2, <2>2 DEF JobOK
  <2> QED BY <2>1, <2>2
<1> HIDE DEF j
<1> QED BY <1>3, <1>4, JobFacts

LEMMA ResultTasks ==
  ASSUME Tasks, NEW outcome, NEW survives \in BOOLEAN, NEW acts \in Nat, Result(outcome, survives, acts),
         survives => JobsOK', UNCHANGED <<version, settings>>, missed' \subseteq Order, up = TRUE
  PROVE  Tasks'
<1>1. budget' \in [acts : Nat, faults : Nat]
  <2> DEFINE a == budget.acts + acts
             b == budget.faults + (IF outcome = "done" THEN 0 ELSE 1)
  <2>1. a \in Nat /\ b \in Nat /\ budget' = [acts |-> a, faults |-> b]
    BY DEF Tasks, Result
  <2> HIDE DEF a, b
  <2> QED BY <2>1
<1>2. CASE survives
  BY <1>1, <1>2 DEF Tasks, Result
<1>3. CASE ~ survives
  <2>1. up' = FALSE /\ queue' = {} /\ job' = [t \in Worker |-> NoJob]
    BY <1>3 DEF Result, Dies
  <2>2. JobsOK'
    BY <2>1, JobFacts
  <2> QED BY <1>1, <2>1, <2>2 DEF Tasks
<1> QED BY <1>2, <1>3

LEMMA SpendTypes ==
  ASSUME Tasks, NEW what \in {"acts", "faults"}, NEW most, Spend(what, most)
  PROVE  budget' \in [acts : Nat, faults : Nat]
BY DEF Tasks, Spend

-----------------------------------------------------------------------------
(* The steps: the start. *)

LEMMA ReplayedFacts ==
  ASSUME NEW f, FilesOK(f), NEW S \in SUBSET Records(f), NEW gen, NEW m, CacheOK(m, gen)
  PROVE  /\ CacheOK(Replayed(m, f, S), gen)
         /\ Replayed(m, f, S).cursor = m.cursor /\ Replayed(m, f, S).kept = m.kept
         /\ Replayed(m, f, S).last = IF S = {} THEN m.last ELSE At(f, Latest(S)).id
<1> DEFINE of(o) == {p \in S : At(f, p).order = o}
           last == IF S = {} THEN m.last ELSE At(f, Latest(S)).id
           seen == [o \in Order |-> IF of(o) = {} THEN m.seen[o] ELSE At(f, Latest(of(o))).version]
           r == Replayed(m, f, S)
<1>1. /\ m = [last |-> m.last, seen |-> m.seen, cursor |-> m.cursor, kept |-> m.kept]
      /\ m.last \in Nat /\ m.seen \in [Order -> Nat] /\ m.cursor \in [Recipient -> Nat]
      /\ DOMAIN m.kept \subseteq 1 .. gen - 1 /\ m.kept \in [DOMAIN m.kept -> [Recipient -> Nat]]
  BY DEF CacheOK
<1>2. ASSUME NEW T \in SUBSET Records(f), T # {}
      PROVE  At(f, Latest(T)).id \in Nat /\ At(f, Latest(T)).version \in Nat
  <2>1. At(f, Latest(T)) \in LineType
    BY <1>2, RecordsFinite
  <2> QED BY <2>1 DEF LineType
<1>3. last \in Nat
  BY <1>1, <1>2
<1>4. seen \in [Order -> Nat]
  <2>1. \A o \in Order : of(o) \in SUBSET Records(f)
    OBVIOUS
  <2> HIDE DEF of
  <2>2. \A o \in Order : (IF of(o) = {} THEN m.seen[o] ELSE At(f, Latest(of(o))).version) \in Nat
    BY <1>1, <1>2, <2>1
  <2> QED BY <2>2
<1>5. r = [m EXCEPT !.last = last, !.seen = seen]
  BY <1>1 DEF Replayed
<1> HIDE DEF last, seen, r
<1>6. /\ r.last = last /\ r.seen = seen /\ r.cursor = m.cursor /\ r.kept = m.kept
      /\ r = [last |-> r.last, seen |-> r.seen, cursor |-> r.cursor, kept |-> r.kept]
  BY <1>1, <1>5
<1>7. CacheOK(r, gen)
  BY <1>1, <1>3, <1>4, <1>6 DEF CacheOK
<1> QED BY <1>6, <1>7 DEF r, last

LEMMA BlankFacts ==
  \A gen \in Nat : CacheOK(Blank, gen) /\ Blank.last = 0 /\ Blank.seen \in [Order -> Nat]
                   /\ \A c \in Recipient : Blank.cursor[c] = 0
<1>1. DOMAIN Empty = {} /\ Empty \in [DOMAIN Empty -> [Recipient -> Nat]]
  BY DEF Empty
<1>2. /\ Blank = [last |-> Blank.last, seen |-> Blank.seen, cursor |-> Blank.cursor, kept |-> Blank.kept]
      /\ Blank.last = 0 /\ Blank.seen = [o \in Order |-> 0]
      /\ Blank.cursor = [c \in Recipient |-> 0] /\ Blank.kept = Empty
  BY DEF Blank
<1>3. \A c \in Recipient : Blank.cursor[c] = 0
  BY <1>2
<1>4. Blank.seen \in [Order -> Nat] /\ Blank.cursor \in [Recipient -> Nat]
  BY <1>2
<1> QED BY <1>1, <1>2, <1>3, <1>4 DEF CacheOK

\* The last record of some is the last of all when nothing follows them.
LEMMA KnownAfter ==
  ASSUME NEW f, FilesOK(f), NEW S \in SUBSET Records(f), NEW last, NEW d,
         S = {} => Known(last, f, Records(f), d), S # {} => last = At(f, Latest(S)).id,
         \A p \in S, q \in Records(f) : Precedes(p, q) => q \in S
  PROVE  Known(last, f, Records(f), d)
<1>1. ASSUME S # {}, NEW p \in Records(f), \A q \in Records(f) : q = p \/ Precedes(q, p)
      PROVE  At(f, p).id = last
  <2>1. p \in S
    BY <1>1
  <2>2. IsLast(p, S)
    BY <1>1, <2>1 DEF IsLast
  <2>3. Latest(S) = p
    BY <2>2, LatestFacts
  <2> QED BY <1>1, <2>3
<1> QED BY <1>1 DEF Known

\* The file decides, whatever the index was.
LEMMA LoadedFacts ==
  ASSUME FilesOK(files), IndexOK(index, files.gen), IndexFits(files, index, doubtful)
  PROVE  /\ CacheOK(Loaded(files), files.gen)
         /\ Known(Loaded(files).last, files, Records(files), doubtful)
         /\ \/ Places(files) = {} /\ \A c \in Recipient : Loaded(files).cursor[c] = 0
            \/ /\ Places(files) # {}
               /\ Loaded(files).cursor = index.mem.cursor /\ Loaded(files).kept = index.mem.kept
<1> DEFINE f == files
           m == index.mem
           ends == {k \in 0 .. Len(f.active) : Bytes(SubSeq(f.active, 1, k)) = index.bytes}
           tail == {p \in Records(f) : p[1] = f.gen /\ p[2] > Max(ends)}
           blank == [m EXCEPT !.last = 0, !.seen = Blank.seen]
<1>1. /\ f.gen \in Nat /\ index.gen \in Nat /\ index.gen <= f.gen /\ CacheOK(m, index.gen)
      /\ index.gens \subseteq 1 .. index.gen - 1 /\ index.bytes \in Nat \union {-1}
  BY FileFacts DEF IndexOK
<1>2. CacheOK(m, f.gen)
  BY <1>1 DEF CacheOK
<1>3. CASE Places(f) = {}
  <2>1. Loaded(f) = Blank /\ Records(f) = {}
    BY <1>3 DEF Loaded, Records
  <2>2. Known(Blank.last, f, Records(f), doubtful)
    BY <2>1 DEF Known
  <2> QED BY <1>1, <1>3, <2>1, <2>2, BlankFacts
<1>4. CASE Places(f) # {} /\ (index.gens # Gens(f) \/ ends = {})
  <2>1. Loaded(f) = Replayed(blank, f, Records(f))
    BY <1>4 DEF Loaded, Rebuilt
  <2>2. blank.cursor = m.cursor /\ blank.kept = m.kept /\ CacheOK(blank, f.gen)
    <3>1. /\ m = [last |-> m.last, seen |-> m.seen, cursor |-> m.cursor, kept |-> m.kept]
          /\ m.last \in Nat /\ m.seen \in [Order -> Nat] /\ m.cursor \in [Recipient -> Nat]
          /\ DOMAIN m.kept \subseteq 1 .. f.gen - 1
          /\ m.kept \in [DOMAIN m.kept -> [Recipient -> Nat]]
      BY <1>2 DEF CacheOK
    <3> DEFINE s == Blank.seen
               z == 0
    <3>2. s \in [Order -> Nat] /\ z \in Nat /\ blank = [m EXCEPT !.last = z, !.seen = s]
      BY <1>1, BlankFacts
    <3> HIDE DEF s, z, blank
    <3>3. /\ blank.last = z /\ blank.seen = s /\ blank.cursor = m.cursor /\ blank.kept = m.kept
          /\ blank = [last |-> blank.last, seen |-> blank.seen, cursor |-> blank.cursor,
                      kept |-> blank.kept]
      BY <3>1, <3>2
    <3> QED BY <3>1, <3>2, <3>3 DEF CacheOK
  <2> HIDE DEF blank
  <2>3. /\ CacheOK(Loaded(f), f.gen) /\ Loaded(f).cursor = m.cursor /\ Loaded(f).kept = m.kept
        /\ Records(f) # {} => Loaded(f).last = At(f, Latest(Records(f))).id
    BY <2>1, <2>2, ReplayedFacts
  <2>4. Known(Loaded(f).last, f, Records(f), doubtful)
    <3>1. Records(f) = {} => Known(Loaded(f).last, f, Records(f), doubtful)
      BY DEF Known
    <3> QED BY <2>3, <3>1, KnownAfter
  <2> QED BY <1>4, <2>3, <2>4
<1>5. CASE Places(f) # {} /\ index.gens = Gens(f) /\ ends # {}
  <2>1. Loaded(f) = Replayed(m, f, tail)
    BY <1>5 DEF Loaded
  <2>2. PICK k \in ends : TRUE
    BY <1>5
  <2>3. f.active \in Seq(LineType)
    BY DEF FilesOK
  <2>4. k \in 0 .. Len(f.active) /\ Bytes(SubSeq(f.active, 1, k)) = index.bytes
    BY <2>2
  <2>5. index.bytes \in Nat
    <3>1. SubSeq(f.active, 1, k) \in Seq(LineType)
      BY <2>3, <2>4, PrefixFacts
    <3> QED BY <2>4, <3>1, BytesOf
  <2>6. ends = {k}
    <3> SUFFICES ASSUME NEW j \in ends, j # k PROVE FALSE
      BY <2>2
    <3>1. j \in 0 .. Len(f.active) /\ Bytes(SubSeq(f.active, 1, j)) = index.bytes
      OBVIOUS
    <3>2. j \in Nat /\ k \in Nat
      BY <2>4, <3>1
    <3> HIDE DEF ends
    <3>3. CASE j < k
      <4>1. Bytes(SubSeq(f.active, 1, j)) < Bytes(SubSeq(f.active, 1, k))
        BY <2>3, <2>4, <3>1, <3>3, BytesGrow
      <4> QED BY <2>4, <2>5, <3>1, <4>1
    <3>4. CASE k < j
      <4>1. Bytes(SubSeq(f.active, 1, k)) < Bytes(SubSeq(f.active, 1, j))
        BY <2>3, <2>4, <3>1, <3>4, BytesGrow
      <4> QED BY <2>4, <2>5, <3>1, <4>1
    <3> QED BY <3>2, <3>3, <3>4
  <2> HIDE DEF ends
  <2>7. Max(ends) = k
    <3>1. \A x \in {k} : k >= x
      BY <2>4
    <3>2. Max({k}) = k
      BY <3>1 DEF Max
    <3> QED BY <2>6, <3>2
  <2>8. index.gen = f.gen
    <3>1. index.gen # f.gen => index.gen \in Gens(f)
      BY <2>5 DEF IndexFits
    <3>2. index.gen \notin index.gens
      BY <1>1
    <3> QED BY <1>5, <3>1, <3>2
  <2>9. Known(m.last, f, Upto(f, k), doubtful)
    BY <2>4, <2>8 DEF IndexFits
  <2>10. tail = {p \in Records(f) : p[1] = f.gen /\ p[2] > k}
    BY <2>7
  <2> HIDE DEF tail
  <2>11. \A p \in Records(f) : p[1] \in Nat /\ p[2] \in Nat /\ p[1] <= f.gen
    BY RecordFacts
  <2>12. tail = {} => Known(m.last, f, Records(f), doubtful)
    <3> SUFFICES ASSUME tail = {} PROVE Known(m.last, f, Records(f), doubtful)
      OBVIOUS
    <3>1. \A p \in Records(f) : p[1] < f.gen \/ p[2] <= k
      BY <1>1, <2>4, <2>10, <2>11
    <3>2. Upto(f, k) = Records(f)
      BY <3>1 DEF Upto
    <3> QED BY <2>9, <3>2
  <2>13. \A p \in tail, q \in Records(f) : Precedes(p, q) => q \in tail
    BY <1>1, <2>4, <2>10, <2>11 DEF Precedes
  <2>14. tail \in SUBSET Records(f)
    BY <2>10
  <2>15. /\ CacheOK(Loaded(f), f.gen) /\ Loaded(f).cursor = m.cursor /\ Loaded(f).kept = m.kept
         /\ Loaded(f).last = IF tail = {} THEN m.last ELSE At(f, Latest(tail)).id
    BY <1>2, <2>1, <2>14, ReplayedFacts
  <2>16. Known(Loaded(f).last, f, Records(f), doubtful)
    BY <2>12, <2>13, <2>14, <2>15, KnownAfter
  <2> QED BY <1>5, <2>15, <2>16
<1> QED BY <1>3, <1>4, <1>5

\* What the retention at the start leaves, and what is loaded of it.
LEMMA LoadedRests ==
  ASSUME AuditInv, NEW aged \in All(files), NEW f, f = Pruned(files, aged), NEW m, m = Loaded(files),
         NEW str, str = IF index.gen # files.gen /\ Places(files) # {}
                        THEN stray \union Strays(index.mem.cursor, files.gen) ELSE stray
  PROVE  /\ Resting(f, m, Image(m, f), flight, doubtful, str, held)
         /\ Running(f, m, doubtful, str)
<1>1. /\ FilesOK(files) /\ IndexOK(index, files.gen) /\ Chained(files, doubtful)
      /\ IndexFits(files, index, doubtful) /\ IndexClaims(files, index, stray, held)
      /\ FlightClaims(files, flight, stray, held) /\ FlightOK(flight)
  BY InvParts DEF Resting, Histories
<1>2. PICK b \in Nat : FilesOK(f) /\ f.gen = files.gen /\ f.active = files.active
                       /\ Gens(f) \subseteq Gens(files) /\ Keeps(files, f, b)
  BY <1>1, PrunedKeeps
<1>3. /\ CacheOK(m, files.gen) /\ Known(m.last, files, Records(files), doubtful)
      /\ \/ Places(files) = {} /\ \A c \in Recipient : m.cursor[c] = 0
         \/ Places(files) # {} /\ m.cursor = index.mem.cursor /\ m.kept = index.mem.kept
  BY <1>1, LoadedFacts
<1>4. Chained(f, doubtful) /\ Known(m.last, f, Records(f), doubtful)
  BY <1>1, <1>2, <1>3, KeepsChain
<1>5. stray \subseteq str
  OBVIOUS
<1>6. IndexClaims(files, index, str, held) /\ FlightClaims(files, flight, str, held)
  BY <1>1, <1>5, MoreDelivered, MoreItself
<1>7. /\ \A c, h, n : Credit(files, str, held, c, h, n, {}) => Credit(f, str, held, c, h, n, {})
      /\ FlightClaims(f, flight, str, held)
  BY <1>1, <1>2, <1>6, KeepsDelivered
<1>8. files.gen \in Nat /\ Len(f.active) \in Nat
  <2>1. f.active \in Seq(LineType)
    BY <1>2 DEF FilesOK
  <2> QED BY <1>1, <2>1, FileFacts, LenProperties
<1>9. \A c, h : Credit(f, str, held, c, h, 0, {})
  BY <1>2, CreditOfNothing
<1>10. CASE Places(files) = {} /\ \A c \in Recipient : m.cursor[c] = 0
  <2>1. Records(f) = {}
    BY <1>2, <1>10 DEF Keeps, Records
  <2>2. MemClaims(f, m, str, held)
    BY <2>1 DEF MemClaims, Credit
  <2>3. MemWithin(f, m, str)
    BY <1>8, <1>10 DEF MemWithin, Within
  <2> QED BY <1>2, <1>3, <1>4, <1>7, <2>2, <2>3, ImageType, ImageFits, ImageClaims DEF Resting, Running
<1>11. CASE Places(files) # {} /\ m.cursor = index.mem.cursor /\ m.kept = index.mem.kept
  <2>1. ASSUME NEW c \in Recipient, index.gen # files.gen
        PROVE  <<files.gen, c>> \in str \/ m.cursor[c] = 0
    <3>1. m.cursor[c] \in Nat
      BY <1>3, <1>8, CacheFacts
    <3> QED BY <1>11, <2>1, <3>1 DEF Strays
  <2>2. ASSUME NEW c \in Recipient
        PROVE  Credit(f, str, held, c, f.gen, m.cursor[c], {}) /\ Within(f, str, c, m.cursor[c])
    <3>1. CASE index.gen = files.gen
      <4>1. Credit(files, str, held, c, files.gen, m.cursor[c], {}) /\ Within(files, str, c, m.cursor[c])
        BY <1>6, <1>11, <3>1 DEF IndexClaims
      <4> QED BY <1>2, <1>7, <4>1 DEF Within
    <3>2. CASE <<files.gen, c>> \in str
      BY <1>2, <3>2 DEF Credit, Within
    <3>3. CASE m.cursor[c] = 0
      <4>1. Credit(f, str, held, c, f.gen, m.cursor[c], {})
        BY <1>9, <3>3, Zenon
      <4>2. m.cursor[c] <= Len(f.active)
        BY <1>8, <3>3
      <4> QED BY <4>1, <4>2 DEF Within
    <3> QED BY <2>1, <3>1, <3>2, <3>3
  <2>3. ASSUME NEW c \in Recipient, NEW h \in Gens(f)
        PROVE  Credit(f, str, held, c, h, Offset(m, h, c), {})
    <3>1. Credit(files, str, held, c, h, Offset(index.mem, h, c), {})
      BY <1>2, <1>6 DEF IndexClaims
    <3>2. Offset(m, h, c) = Offset(index.mem, h, c)
      BY <1>11 DEF Offset
    <3> QED BY <1>7, <3>1, <3>2
  <2>4. MemClaims(f, m, str, held)
    <3> SUFFICES ASSUME NEW c \in Recipient, NEW h \in All(f)
                 PROVE  Credit(f, str, held, c, h, Got(m, f, h, c), {})
      BY DEF MemClaims
    <3>1. CASE h = f.gen
      BY <2>2, <3>1 DEF Got
    <3>2. CASE h \in Gens(f)
      <4>1. h # f.gen
        BY <1>2, <3>2, FileFacts
      <4> QED BY <2>3, <3>2, <4>1 DEF Got
    <3> QED BY <3>1, <3>2 DEF All
  <2>5. MemWithin(f, m, str)
    BY <2>2 DEF MemWithin
  <2> QED BY <1>2, <1>3, <1>4, <1>7, <2>4, <2>5, ImageType, ImageFits, ImageClaims DEF Resting, Running
<1> QED BY <1>3, <1>10, <1>11

LEMMA StraysType ==
  ASSUME NEW cursor, NEW g \in Nat
  PROVE  Strays(cursor, g) \subseteq Nat \X Recipient
BY DEF Strays

LEMMA BootStep == AuditInv /\ Boot => AuditInv'
<1> SUFFICES ASSUME AuditInv, Boot PROVE AuditInv'
  OBVIOUS
<1>1. PICK aged \in All(files) :
        /\ files' = Pruned(files, aged) /\ mem' = Loaded(files) /\ index' = Image(mem', files')
  BY DEF Boot
<1>2. /\ stray' = IF index.gen # files.gen /\ Places(files) # {}
                  THEN stray \union Strays(index.mem.cursor, files.gen) ELSE stray
      /\ up' = TRUE /\ queue' = {"sweep"}
      /\ UNCHANGED <<version, settings, job, flight, written, doubtful, held, missed, budget>>
  BY DEF Boot
<1>3. /\ Resting(files', mem', Image(mem', files'), flight, doubtful, stray', held)
      /\ Running(files', mem', doubtful, stray')
  BY <1>1, <1>2, LoadedRests
<1>4. Tasks /\ Histories /\ files.gen \in Nat
  BY InvParts, FileFacts DEF Resting
<1>5. Tasks'
  BY <1>2, <1>4 DEF Tasks, JobsOK
<1>6. Histories'
  BY <1>2, <1>4, StraysType DEF Histories
<1> QED BY <1>1, <1>2, <1>3, <1>5, <1>6, InvPartsNext

-----------------------------------------------------------------------------
(* The steps: the threads. *)

LEMMA DiesFacts ==
  ASSUME Histories, Dies
  PROVE  /\ up' = FALSE /\ flight' = NoFlight /\ More(held, held')
         /\ held' \in [Recipient -> SUBSET Nat]
<1>1. up' = FALSE /\ flight' = NoFlight
  BY DEF Dies
<1>2. CASE held' = held
  BY <1>1, <1>2, MoreItself DEF Histories
<1>3. CASE held' = [c \in Recipient |-> IF c = flight.chat THEN held[c] \union flight.ids ELSE held[c]]
  <2>1. \A c \in Recipient : held'[c] = IF c = flight.chat THEN held[c] \union flight.ids ELSE held[c]
    BY <1>3
  <2>2. flight.ids \subseteq Nat
    BY DEF Histories, FlightOK, NoFlight
  <2> QED BY <1>1, <1>3, <2>1, <2>2 DEF More, Histories
<1> QED BY <1>2, <1>3 DEF Dies

\* Any append, with or without the end of the process.
LEMMA AppendStep ==
  ASSUME AuditInv, up, NEW line \in LineType, IsRecord(line), NEW outcome \in Outcome,
         NEW survives \in BOOLEAN, NEW acts \in Nat, NEW seen \in [Order -> Nat], NEW flush,
         Result(outcome, survives, acts), Appended(line, outcome, seen, flush), Tasks'
  PROVE  AuditInv'
<1>1. /\ Tasks /\ Histories /\ FlightOK(flight) /\ written \in Nat
      /\ Resting(files, mem, index, flight, doubtful, stray, held)
      /\ Running(files, mem, doubtful, stray)
  BY InvParts DEF Histories
<1>2. /\ doubtful' \in {doubtful, doubtful \union {written + 1}}
      /\ outcome # "whole" => doubtful' = doubtful
      /\ survives => (outcome = "whole" => written + 1 \in doubtful')
      /\ stray' = IF survives THEN Survived(outcome) ELSE stray
  BY DEF Result, Survived
<1>3. /\ written' \in Nat /\ Resting(files', mem', index', flight, doubtful', stray, held)
      /\ (outcome = "whole" => written + 1 \in doubtful')
           => Running(files', mem', doubtful', Survived(outcome))
  BY <1>1, <1>2, AppendRests
<1>4. files.gen \in Nat /\ stray \subseteq stray' /\ stray' \subseteq Nat \X Recipient
  <2>1. files.gen \in Nat /\ files.gen + 1 \in Nat
    BY <1>1, FileFacts DEF Resting
  <2> QED BY <1>1, <1>2, <2>1, StraysType DEF Survived, Histories
<1>5. doubtful' \subseteq Nat
  BY <1>1, <1>2 DEF Histories
<1>6. CASE survives
  <2>1. flight' = flight /\ held' = held
    BY <1>6 DEF Result
  <2>2. Resting(files', mem', index', flight', doubtful', stray', held')
    BY <1>1, <1>3, <1>4, <2>1, MoreItself, RestingMore
  <2>3. Running(files', mem', doubtful', stray')
    BY <1>2, <1>3, <1>6
  <2>4. Histories'
    BY <1>1, <1>3, <1>4, <1>5, <2>1 DEF Histories
  <2> QED BY <2>2, <2>3, <2>4, InvPartsNext
<1>7. CASE ~ survives
  <2>1. Dies
    BY <1>7 DEF Result
  <2>2. /\ up' = FALSE /\ flight' = NoFlight /\ More(held, held')
        /\ held' \in [Recipient -> SUBSET Nat]
    BY <1>1, <2>1, DiesFacts
  <2>3. Resting(files', mem', index', flight', doubtful', stray', held')
    BY <1>1, <1>3, <1>4, <2>2, RestingMore
  <2>4. Histories'
    BY <1>1, <1>3, <1>4, <1>5, <2>2 DEF Histories, FlightOK
  <2> QED BY <2>2, <2>3, <2>4, InvPartsNext
<1> QED BY <1>6, <1>7

\* A step that leaves the evidence alone.
LEMMA QuietStep ==
  ASSUME AuditInv, Tasks', UNCHANGED <<files, index, mem, up, flight, written, doubtful, held, stray>>
  PROVE  AuditInv'
<1>1. /\ Histories /\ Resting(files, mem, index, flight, doubtful, stray, held)
      /\ up => Running(files, mem, doubtful, stray)
  BY InvParts
<1>2. Histories'
  BY <1>1 DEF Histories
<1> QED BY <1>1, <1>2, InvPartsNext

LEMMA EventLine == Line("event", "none", 0, 0, 0) \in LineType /\ IsRecord(Line("event", "none", 0, 0, 0))
BY DEF Line, LineType, IsRecord

LEMMA SnapshotLine ==
  ASSUME NEW o \in Order, NEW v \in Nat
  PROVE  Line("snapshot", o, v, 0, 0) \in LineType /\ IsRecord(Line("snapshot", o, v, 0, 0))
BY DEF Line, LineType, IsRecord

LEMMA MemSeen == AuditInv => mem.seen \in [Order -> Nat]
BY InvParts DEF Resting, CacheOK

LEMMA ChangeStep == ASSUME AuditInv, NEW o \in Order, Change(o) PROVE AuditInv'
<1>1. Tasks
  BY InvParts
<1>2. version' \in [Order -> [now : Nat, recent : BOOLEAN]]
  <2>1. PICK own \in BOOLEAN : version' = [version EXCEPT ![o] = [now |-> @.now + 1, recent |-> @.recent \/ own]]
    BY DEF Change
  <2>2. version[o].now + 1 \in Nat /\ (version[o].recent \/ own) \in BOOLEAN
    BY <1>1 DEF Tasks
  <2> QED BY <1>1, <2>1, <2>2 DEF Tasks
<1>3. queue' \subseteq Order \union {"sweep"}
  BY <1>1 DEF Change, Requested, Tasks
<1>4. Tasks'
  BY <1>1, <1>2, <1>3 DEF Tasks, JobsOK, Change
<1> QED BY <1>4, QuietStep DEF Change

LEMMA SwitchStep == ASSUME AuditInv, NEW key \in {"on", "send"}, Switch(key) PROVE AuditInv'
<1>1. Tasks
  BY InvParts
<1>2. settings' \in [on : BOOLEAN, send : BOOLEAN]
  BY <1>1 DEF Switch, Tasks
<1>3. budget' \in [acts : Nat, faults : Nat]
  BY <1>1, SpendTypes DEF Switch
<1>4. Tasks'
  BY <1>1, <1>2, <1>3 DEF Tasks, JobsOK, Switch
<1> QED BY <1>4, QuietStep DEF Switch

LEMMA TakeStep ==
  ASSUME AuditInv,
         \/ \E o \in Order : TakeOrder(o)
         \/ TakeSweep \/ PeriodicSweep \/ PanelSweep
  PROVE  AuditInv'
<1>1. Tasks
  BY InvParts
<1>2. Existing \in SUBSET Order /\ RecentlyChanged \in SUBSET Order
  BY DEF Existing, RecentlyChanged
<1>3. ASSUME NEW o \in Order, TakeOrder(o) PROVE AuditInv'
  <2>1. JobsOK'
    BY <1>1, <1>3, ReadsTypes DEF TakeOrder
  <2>2. Tasks'
    BY <1>1, <1>3, <2>1 DEF TakeOrder, Tasks
  <2> QED BY <1>3, <2>2, QuietStep DEF TakeOrder
<1>4. CASE TakeSweep
  <2>1. JobsOK'
    BY <1>1, <1>2, <1>4, ReadsTypes DEF TakeSweep
  <2>2. Tasks'
    BY <1>1, <1>4, <2>1 DEF TakeSweep, Tasks
  <2> QED BY <1>4, <2>2, QuietStep DEF TakeSweep
<1>5. CASE PeriodicSweep
  <2>1. JobsOK'
    BY <1>1, <1>2, <1>5, ReadsTypes DEF PeriodicSweep
  <2>2. Tasks'
    BY <1>1, <1>5, <2>1 DEF PeriodicSweep, Tasks
  <2> QED BY <1>5, <2>2, QuietStep DEF PeriodicSweep
<1>6. CASE PanelSweep
  <2>1. JobsOK'
    BY <1>1, <1>2, <1>6, ReadsTypes DEF PanelSweep
  <2>2. budget' \in [acts : Nat, faults : Nat]
    BY <1>1, <1>6, SpendTypes DEF PanelSweep
  <2>3. Tasks'
    BY <1>1, <1>6, <2>1, <2>2 DEF PanelSweep, Tasks
  <2> QED BY <1>6, <2>3, QuietStep DEF PanelSweep
<1> QED BY <1>3, <1>4, <1>5, <1>6

LEMMA RecordEventStep == AuditInv /\ RecordEvent => AuditInv'
<1> SUFFICES ASSUME AuditInv, RecordEvent PROVE AuditInv'
  OBVIOUS
<1>1. PICK outcome \in Outcome, survives \in BOOLEAN :
        /\ Result(outcome, survives, 1) /\ (survives => UNCHANGED job)
        /\ Appended(Line("event", "none", 0, 0, 0), outcome, mem.seen, FALSE)
  BY DEF RecordEvent
<1>2. up = TRUE /\ UNCHANGED <<version, settings, missed>> /\ Tasks /\ 1 \in Nat
  BY InvParts DEF RecordEvent, Tasks
<1>3. survives => JobsOK'
  BY <1>1, <1>2 DEF Tasks, JobsOK
<1>4. missed' \subseteq Order
  BY <1>2 DEF Tasks
<1>5. Tasks'
  BY <1>1, <1>2, <1>3, <1>4, ResultTasks
<1> QED BY <1>1, <1>2, <1>5, EventLine, MemSeen, AppendStep

LEMMA PanelExportStep == AuditInv /\ PanelExport => AuditInv'
<1> SUFFICES ASSUME AuditInv, PanelExport PROVE AuditInv'
  OBVIOUS
<1>1. PICK outcome \in Outcome, survives \in BOOLEAN :
        /\ Result(outcome, survives, 0) /\ (survives => job' = [job EXCEPT !["panel"] = NoJob])
        /\ Appended(Line("event", "none", 0, 0, 0), outcome, mem.seen, TRUE)
  BY DEF PanelExport
<1>2. up = TRUE /\ UNCHANGED <<version, settings, missed>> /\ Tasks /\ 0 \in Nat
  BY InvParts DEF PanelExport, Tasks
<1>3. survives => JobsOK'
  BY <1>1, <1>2, JobFacts DEF Tasks
<1>4. missed' \subseteq Order
  BY <1>2 DEF Tasks
<1>5. Tasks'
  BY <1>1, <1>2, <1>3, <1>4, ResultTasks
<1> QED BY <1>1, <1>2, <1>5, EventLine, MemSeen, AppendStep

LEMMA CaptureStep == ASSUME AuditInv, NEW t \in Worker, NEW o \in Order, Capture(t, o) PROVE AuditInv'
<1> DEFINE v == job[t].todo[o]
<1>1. Tasks /\ up = TRUE /\ o \in DOMAIN job[t].todo /\ UNCHANGED <<version, settings>> /\ 0 \in Nat
  BY InvParts DEF Capture, Tasks
<1>2. v \in Nat
  <2>1. JobOK(job[t])
    BY <1>1, JobFacts DEF Tasks
  <2> QED BY <1>1, <2>1 DEF JobOK
<1>3. CASE ~ Wanted(o, v)
  <2>1. job' = Done(t, o)
        /\ UNCHANGED <<files, index, mem, up, queue, flight, written, doubtful, held, stray, missed, budget>>
    BY <1>3 DEF Capture
  <2>2. JobsOK'
    BY <1>1, <2>1, DoneTypes DEF Tasks
  <2>3. Tasks'
    BY <1>1, <2>1, <2>2 DEF Tasks
  <2> QED BY <2>1, <2>3, QuietStep
<1>4. CASE Wanted(o, v)
  <2>1. PICK outcome \in Outcome, survives \in BOOLEAN :
          /\ Result(outcome, survives, 0) /\ (survives => job' = Done(t, o))
          /\ missed' = IF outcome # "done" \/ v < mem.seen[o] THEN missed \union {o}
                       ELSE IF v = version[o].now THEN missed \ {o} ELSE missed
          /\ Appended(Line("snapshot", o, v, 0, 0), outcome, [mem.seen EXCEPT ![o] = v], FALSE)
    BY <1>4 DEF Capture
  <2>2. survives => JobsOK'
    BY <1>1, <2>1, DoneTypes DEF Tasks
  <2>3. missed' \subseteq Order
    BY <1>1, <2>1 DEF Tasks
  <2>4. Tasks'
    BY <1>1, <2>1, <2>2, <2>3, ResultTasks
  <2>5. [mem.seen EXCEPT ![o] = v] \in [Order -> Nat]
    BY <1>2, MemSeen
  <2> HIDE DEF v
  <2> QED BY <1>1, <1>2, <2>1, <2>4, <2>5, SnapshotLine, AppendStep
<1> QED BY <1>3, <1>4

LEMMA EndSweepStep == ASSUME AuditInv, NEW t \in Worker, EndSweep(t) PROVE AuditInv'
<1>1. /\ Tasks /\ Histories /\ up = TRUE
      /\ Resting(files, mem, index, flight, doubtful, stray, held)
      /\ Running(files, mem, doubtful, stray)
  BY InvParts DEF EndSweep, Tasks
<1>2. index' = Image(mem, files)
      /\ UNCHANGED <<version, settings, files, mem, up, queue, flight, written, doubtful, held, stray,
                     missed, budget>>
  BY DEF EndSweep
<1>3. Resting(files, mem, Image(mem, files), flight, doubtful, stray, held)
  BY <1>1, RestingImage
<1>4. JobsOK'
  <2>1. JobOK(job[t]) /\ DOMAIN job = Worker
    BY <1>1, JobFacts DEF Tasks, JobsOK
  <2> DEFINE j == IF t = "panel" THEN [job[t] EXCEPT !.stage = "export"] ELSE NoJob
  <2>2. job' = [job EXCEPT ![t] = j]
    BY <2>1 DEF EndSweep
  <2>3. JobOK(j)
    <3>1. JobOK([job[t] EXCEPT !.stage = "export"])
      BY <2>1 DEF JobOK
    <3> QED BY <3>1, JobFacts
  <2> HIDE DEF j
  <2> QED BY <1>1, <2>2, <2>3, JobFacts DEF Tasks
<1>5. Tasks'
  BY <1>1, <1>2, <1>4 DEF Tasks
<1>6. Histories'
  BY <1>1, <1>2 DEF Histories
<1> QED BY <1>1, <1>2, <1>3, <1>5, <1>6, InvPartsNext

LEMMA EndStep == AuditInv /\ (AuditExit \/ ProcessCrash) => AuditInv'
<1> SUFFICES ASSUME AuditInv, AuditExit \/ ProcessCrash PROVE AuditInv'
  OBVIOUS
<1>1. /\ Tasks /\ Histories /\ up = TRUE /\ FlightOK(flight)
      /\ Resting(files, mem, index, flight, doubtful, stray, held)
      /\ Running(files, mem, doubtful, stray)
  BY InvParts DEF AuditExit, ProcessCrash, Tasks, Histories
<1>2. /\ Dies /\ (index' = index \/ index' = Image(mem, files))
      /\ UNCHANGED <<version, settings, files, mem, written, doubtful, stray, missed>>
      /\ \E what \in {"acts", "faults"} : \E most : Spend(what, most)
  BY DEF AuditExit, ProcessCrash
<1>3. /\ up' = FALSE /\ flight' = NoFlight /\ More(held, held')
      /\ held' \in [Recipient -> SUBSET Nat]
  BY <1>1, <1>2, DiesFacts
<1>4. Resting(files, mem, index', flight, doubtful, stray, held)
  BY <1>1, <1>2, RestingImage
<1>5. Resting(files, mem, index', flight', doubtful, stray, held')
  BY <1>1, <1>3, <1>4, RestingMore
<1>6. Tasks'
  <2>1. JobsOK' /\ queue' = {}
    BY <1>2, JobFacts DEF Dies
  <2>2. budget' \in [acts : Nat, faults : Nat]
    BY <1>1, <1>2, SpendTypes
  <2> QED BY <1>1, <1>2, <1>3, <2>1, <2>2 DEF Tasks
<1>7. Histories'
  BY <1>1, <1>2, <1>3 DEF Histories, FlightOK
<1> QED BY <1>2, <1>3, <1>5, <1>6, <1>7, InvPartsNext


-----------------------------------------------------------------------------
(* The steps: the sender. *)

LEMMA MinOfTwo ==
  ASSUME NEW a \in Nat, NEW b \in Nat
  PROVE  Min({a, b}) \in Nat /\ Min({a, b}) <= a /\ Min({a, b}) <= b
<1> DEFINE S == {a, b}
<1>1. Numbers(S) /\ S # {}
  BY DEF Numbers
<1>2. Min(S) \in S /\ \A y \in S : Min(S) <= y
  <2> HIDE DEF S
  <2> QED BY <1>1, NatMinimum
<1> QED BY <1>2

LEMMA MaxOfTwo ==
  ASSUME NEW a \in Nat, NEW b \in Nat
  PROVE  Max({a, b}) = a \/ Max({a, b}) = b
<1> DEFINE S == {a, b}
<1>1. \E k \in S : \A y \in S : k >= y
  OBVIOUS
<1>2. Max(S) \in S
  <2> HIDE DEF S
  <2> QED BY <1>1 DEF Max
<1> QED BY <1>2

LEMMA NextSourceFacts ==
  ASSUME FilesOK(files), NEW c
  PROVE  \E g \in All(files) : NextSource(c) = Source(c, g)
<1> DEFINE waits(g) == Source(c, g).start < Len(File(files, g))
           S == {g \in Gens(files) : waits(g)} \union {files.gen}
<1>1. S \subseteq All(files) /\ S # {} /\ NextSource(c) = Source(c, Min(S))
  BY DEF All, NextSource
<1> HIDE DEF S
<1>2. Numbers(S)
  BY <1>1, FileFacts DEF Numbers
<1>3. Min(S) \in S
  BY <1>1, <1>2, NatMinimum
<1> QED BY <1>1, <1>3

\* A recipient that receives a segment has the file up to the end of it.
LEMMA PartFacts ==
  ASSUME FilesOK(files), CacheOK(mem, files.gen), MemClaims(files, mem, stray, held),
         NEW c \in Recipient, NEW src, src = NextSource(c), NEW fl, fl = Part(c, src)
  PROVE  FlightOK(fl) /\ FlightClaims(files, fl, stray, held)
<1>1. PICK g \in All(files) : src = Source(c, g)
  BY NextSourceFacts
<1> DEFINE s == File(files, g)
           got == Got(mem, files, g, c)
           start == IF got > Len(s) THEN 0 ELSE got
           stop == Min({start + Segment, Len(s)})
           end == IF stop > 0 /\ s[stop] = Torn THEN stop - 1 ELSE stop
           ids == {s[i].id : i \in {k \in start + 1 .. end : IsRecord(s[k])}}
<1>2. src.gen = g /\ src.active = (g = files.gen) /\ src.lines = s /\ src.start = start
  BY <1>1 DEF Source
<1>3. /\ fl = [chat |-> c, gen |-> g, active |-> (g = files.gen), end |-> end, ids |-> ids]
  BY <1>2 DEF Part
<1>4. s \in Seq(LineType) /\ Len(s) \in Nat /\ g \in Nat /\ g <= files.gen /\ files.gen \in Nat
  BY FileFacts, LenProperties
<1>5. got \in Nat
  BY <1>4, CacheFacts DEF Got
<1>6. Credit(files, stray, held, c, g, got, {})
  BY DEF MemClaims
<1> HIDE DEF got
<1>7. start \in Nat /\ (start = 0 \/ start = got) /\ Segment \in Nat
  BY <1>4, <1>5, AuditConstants
<1> HIDE DEF start
<1>8. stop \in Nat /\ stop <= Len(s)
  <2>1. start + Segment \in Nat
    BY <1>7
  <2> QED BY <1>4, <2>1, MinOfTwo
<1> HIDE DEF stop
<1>9. end \in Nat /\ end <= Len(s)
  BY <1>4, <1>8
<1> HIDE DEF end
<1>10. ids \subseteq Nat
  <2> SUFFICES ASSUME NEW i \in start + 1 .. end PROVE s[i].id \in Nat
    OBVIOUS
  <2>1. i \in 1 .. Len(s)
    BY <1>4, <1>7, <1>9
  <2>2. s[i] \in LineType
    BY <1>4, <2>1, ElementOfSeq
  <2> QED BY <2>2 DEF LineType
<1>11. Credit(files, stray, held, c, g, end, ids)
  <2> SUFFICES ASSUME <<g, c>> \notin stray, NEW p \in Records(files), p[1] = g, p[2] <= end
               PROVE  At(files, p).id \in held[c] \union ids
    BY DEF Credit
  <2>1. p[2] \in 1 .. Len(s) /\ At(files, p) = s[p[2]] /\ IsRecord(s[p[2]])
    BY RecordFacts DEF At
  <2>2. CASE p[2] <= got
    BY <1>6, <2>2 DEF Credit
  <2>3. CASE p[2] > got
    <3>1. p[2] \in start + 1 .. end
      BY <1>4, <1>5, <1>7, <1>9, <2>1, <2>3
    <3> QED BY <2>1, <3>1
  <2> QED BY <1>5, <2>1, <2>2, <2>3
<1> HIDE DEF ids
<1>12. fl.chat = c /\ fl.gen = g /\ fl.active = (g = files.gen) /\ fl.end = end /\ fl.ids = ids
  BY <1>3
<1>13. FlightOK(fl)
  BY <1>3, <1>4, <1>9, <1>10 DEF FlightOK
<1>14. g = files.gen => Within(files, stray, c, end)
  BY <1>9, FileFacts DEF Within
<1>15. (g = files.gen) \/ g < files.gen
  BY <1>4
<1> QED BY <1>4, <1>11, <1>12, <1>13, <1>14, <1>15 DEF FlightClaims

LEMMA FreezeStep == ASSUME AuditInv, NEW c \in Recipient, Freeze(c) PROVE AuditInv'
<1>1. /\ Tasks /\ Histories /\ up = TRUE
      /\ Resting(files, mem, index, flight, doubtful, stray, held)
      /\ Running(files, mem, doubtful, stray)
  BY InvParts DEF Freeze, Tasks
<1>2. UNCHANGED <<version, settings, files, index, mem, up, queue, job, written, doubtful, held,
                  stray, missed, budget>>
  BY DEF Freeze
<1>3. flight' = Part(c, NextSource(c))
  BY DEF Freeze
<1>4. FlightOK(flight') /\ FlightClaims(files, flight', stray, held)
  BY <1>1, <1>3, PartFacts DEF Resting
<1>5. Resting(files, mem, index, flight', doubtful, stray, held)
  BY <1>1, <1>4 DEF Resting
<1>6. Tasks'
  BY <1>1, <1>2 DEF Tasks, JobsOK
<1>7. Histories'
  BY <1>1, <1>2, <1>4 DEF Histories
<1> QED BY <1>1, <1>2, <1>5, <1>6, <1>7, InvPartsNext

\* The cursors after a segment that was acknowledged.
LEMMA MarkedFacts ==
  ASSUME FilesOK(files), CacheOK(mem, files.gen), flight # NoFlight, FlightOK(flight),
         NEW str, NEW rcv, MemClaims(files, mem, str, rcv), MemWithin(files, mem, str),
         FlightClaims(files, flight, str, rcv), flight.ids \subseteq rcv[flight.chat],
         flight.active /\ flight.gen # files.gen => <<files.gen, flight.chat>> \in str
  PROVE  /\ CacheOK(Marked, files.gen) /\ Marked.last = mem.last
         /\ MemClaims(files, Marked, str, rcv) /\ MemWithin(files, Marked, str)
<1> DEFINE c == flight.chat
           g == flight.gen
           m == Marked
<1>1. /\ c \in Recipient /\ g \in Nat /\ flight.end \in Nat /\ flight.active \in BOOLEAN
      /\ g <= files.gen /\ (flight.active \/ g < files.gen)
      /\ Credit(files, str, rcv, c, g, flight.end, {})
      /\ g = files.gen => Within(files, str, c, flight.end)
  <2>1. Credit(files, str, rcv, c, g, flight.end, flight.ids)
    BY DEF FlightClaims
  <2>2. Credit(files, str, rcv, c, g, flight.end, {})
    BY <2>1 DEF Credit
  <2> QED BY <2>2 DEF FlightClaims, FlightOK
<1>2. /\ mem = [last |-> mem.last, seen |-> mem.seen, cursor |-> mem.cursor, kept |-> mem.kept]
      /\ mem.last \in Nat /\ mem.seen \in [Order -> Nat] /\ mem.cursor \in [Recipient -> Nat]
      /\ DOMAIN mem.kept \subseteq 1 .. files.gen - 1
      /\ mem.kept \in [DOMAIN mem.kept -> [Recipient -> Nat]]
  BY DEF CacheOK
<1>3. files.gen \in Nat /\ files.gen \in All(files) /\ files.gen \notin Gens(files)
      /\ \A h \in Gens(files) : h \in 1 .. files.gen - 1 /\ h \in All(files) /\ h # files.gen
  BY FileFacts
<1>4. \A h \in Gens(files), d \in Recipient : Offset(mem, h, d) \in Nat
  BY <1>3, CacheFacts
<1>5. \A h \in Gens(files), d \in Recipient : Credit(files, str, rcv, d, h, Offset(mem, h, d), {})
  BY <1>3 DEF MemClaims, Got
<1>6. \A d \in Recipient : Credit(files, str, rcv, d, files.gen, mem.cursor[d], {})
                           /\ Within(files, str, d, mem.cursor[d])
  BY <1>3 DEF MemClaims, MemWithin, Got
<1>7. CASE flight.active
  <2> DEFINE most == Max({mem.cursor[c], flight.end})
             cursor == [mem.cursor EXCEPT ![c] = most]
  <2>1. most = mem.cursor[c] \/ most = flight.end
    BY <1>1, <1>2, MaxOfTwo
  <2>2. Credit(files, str, rcv, c, files.gen, most, {}) /\ Within(files, str, c, most)
    <3>1. CASE most = mem.cursor[c]
      BY <1>1, <1>6, <3>1
    <3>2. CASE most = flight.end /\ g = files.gen
      BY <1>1, <3>2
    <3>3. CASE g # files.gen
      BY <1>7, <3>3 DEF Credit, Within
    <3> QED BY <2>1, <3>1, <3>2, <3>3
  <2>3. m = [mem EXCEPT !.cursor = cursor]
    BY <1>2, <1>7 DEF Marked
  <2>4. most \in Nat
    BY <1>1, <1>2, <2>1
  <2> HIDE DEF most
  <2>5. /\ cursor \in [Recipient -> Nat]
        /\ \A d \in Recipient : cursor[d] = IF d = c THEN most ELSE mem.cursor[d]
    BY <1>2, <2>4
  <2> HIDE DEF cursor, m
  <2>6. /\ m.last = mem.last /\ m.seen = mem.seen /\ m.cursor = cursor /\ m.kept = mem.kept
        /\ m = [last |-> m.last, seen |-> m.seen, cursor |-> m.cursor, kept |-> m.kept]
    BY <1>2, <2>3
  <2>7. CacheOK(m, files.gen)
    BY <1>2, <2>5, <2>6 DEF CacheOK
  <2>8. MemWithin(files, m, str)
    BY <1>6, <2>2, <2>5, <2>6 DEF MemWithin
  <2>9. MemClaims(files, m, str, rcv)
    <3> SUFFICES ASSUME NEW d \in Recipient, NEW h \in All(files)
                 PROVE  Credit(files, str, rcv, d, h, Got(m, files, h, d), {})
      BY DEF MemClaims
    <3>1. CASE h = files.gen
      <4>1. Got(m, files, h, d) = IF d = c THEN most ELSE mem.cursor[d]
        BY <2>5, <2>6, <3>1 DEF Got
      <4> QED BY <1>6, <2>2, <3>1, <4>1
    <3>2. CASE h \in Gens(files)
      <4>1. Got(m, files, h, d) = Offset(mem, h, d)
        BY <1>3, <2>6, <3>2 DEF Got, Offset
      <4> QED BY <1>5, <3>2, <4>1
    <3> QED BY <3>1, <3>2 DEF All
  <2> QED BY <2>6, <2>7, <2>8, <2>9 DEF m
<1>8. CASE ~ flight.active /\ g \in Gens(files)
  <2> DEFINE most(h, d) == IF h = g /\ d = c THEN Max({Offset(mem, h, d), flight.end})
                           ELSE Offset(mem, h, d)
             kept == [h \in Gens(files) |-> [d \in Recipient |-> most(h, d)]]
  <2>1. \A h \in Gens(files), d \in Recipient :
          /\ most(h, d) = Offset(mem, h, d) \/ (h = g /\ d = c /\ most(h, d) = flight.end)
          /\ most(h, d) \in Nat
    BY <1>1, <1>4, MaxOfTwo
  <2>2. \A h \in Gens(files), d \in Recipient : Credit(files, str, rcv, d, h, most(h, d), {})
    BY <1>1, <1>5, <2>1
  <2>3. m = [mem EXCEPT !.kept = kept]
    BY <1>2, <1>8 DEF Marked
  <2> HIDE DEF most
  <2>4. /\ DOMAIN kept = Gens(files) /\ kept \in [DOMAIN kept -> [Recipient -> Nat]]
        /\ \A h \in Gens(files), d \in Recipient : kept[h][d] = most(h, d)
    BY <2>1
  <2> HIDE DEF kept, m
  <2>5. /\ m.last = mem.last /\ m.seen = mem.seen /\ m.cursor = mem.cursor /\ m.kept = kept
        /\ m = [last |-> m.last, seen |-> m.seen, cursor |-> m.cursor, kept |-> m.kept]
    BY <1>2, <2>3
  <2>6. CacheOK(m, files.gen)
    BY <1>2, <1>3, <2>4, <2>5 DEF CacheOK
  <2>7. MemWithin(files, m, str)
    BY <2>5 DEF MemWithin
  <2>8. MemClaims(files, m, str, rcv)
    <3> SUFFICES ASSUME NEW d \in Recipient, NEW h \in All(files)
                 PROVE  Credit(files, str, rcv, d, h, Got(m, files, h, d), {})
      BY DEF MemClaims
    <3>1. CASE h = files.gen
      BY <1>6, <2>5, <3>1 DEF Got
    <3>2. CASE h \in Gens(files)
      <4>1. Got(m, files, h, d) = most(h, d)
        BY <1>3, <2>4, <2>5, <3>2 DEF Got, Offset
      <4> QED BY <2>2, <3>2, <4>1
    <3> QED BY <3>1, <3>2 DEF All
  <2> QED BY <2>5, <2>6, <2>7, <2>8 DEF m
<1>9. CASE ~ flight.active /\ g \notin Gens(files)
  BY <1>9 DEF Marked
<1> QED BY <1>7, <1>8, <1>9

LEMMA DeliverStep == AuditInv /\ Deliver => AuditInv'
<1> SUFFICES ASSUME AuditInv, Deliver PROVE AuditInv'
  OBVIOUS
<1>1. /\ Tasks /\ Histories /\ up = TRUE /\ FlightOK(flight)
      /\ Resting(files, mem, index, flight, doubtful, stray, held)
      /\ Running(files, mem, doubtful, stray)
  BY InvParts DEF Deliver, Tasks, Histories
<1>2. /\ flight # NoFlight /\ flight' = NoFlight
      /\ UNCHANGED <<version, settings, files, up, queue, job, written, doubtful, missed>>
  BY DEF Deliver
<1>3. flight.chat \in Recipient /\ flight.ids \subseteq Nat /\ files.gen \in Nat
  BY <1>1, <1>2, FileFacts DEF FlightOK, Resting
<1>4. held' = held \/ Holds(flight.chat) => More(held, held') /\ held' \in [Recipient -> SUBSET Nat]
  <2>1. CASE held' = held
    BY <1>1, <2>1, MoreItself DEF Histories
  <2>2. CASE Holds(flight.chat)
    BY <1>1, <1>3, <2>2 DEF Holds, Histories, More
  <2> QED BY <2>1, <2>2
<1>5. CASE /\ Holds(flight.chat) /\ UNCHANGED budget /\ mem' = Marked /\ index' = Image(mem', files)
           /\ stray' = IF flight.active /\ flight.gen # files.gen
                       THEN stray \union {<<files.gen, flight.chat>>} ELSE stray
  <2>1. stray \subseteq stray' /\ stray' \subseteq Nat \X Recipient
    BY <1>1, <1>3, <1>5 DEF Histories
  <2>2. /\ Resting(files, mem, index, flight, doubtful, stray', held')
        /\ Running(files, mem, doubtful, stray')
    BY <1>1, <1>4, <1>5, <2>1, RestingMore
  <2>3. flight.ids \subseteq held'[flight.chat]
    BY <1>1, <1>3, <1>5 DEF Holds, Histories
  <2>4. flight.active /\ flight.gen # files.gen => <<files.gen, flight.chat>> \in stray'
    BY <1>5
  <2>5. /\ CacheOK(Marked, files.gen) /\ Marked.last = mem.last
        /\ MemClaims(files, Marked, stray', held') /\ MemWithin(files, Marked, stray')
    BY <1>1, <1>2, <2>2, <2>3, <2>4, MarkedFacts DEF Resting, Running
  <2>6. Running(files, Marked, doubtful, stray')
    BY <2>2, <2>5 DEF Running
  <2>7. Resting(files, Marked, index, NoFlight, doubtful, stray', held')
    BY <2>2, <2>5 DEF Resting, FlightClaims
  <2>8. Resting(files, Marked, Image(Marked, files), NoFlight, doubtful, stray', held')
    BY <2>6, <2>7, RestingImage
  <2>9. Tasks'
    BY <1>1, <1>2, <1>5 DEF Tasks, JobsOK
  <2>10. Histories'
    BY <1>1, <1>2, <1>4, <1>5, <2>1 DEF Histories, FlightOK
  <2> QED BY <1>2, <1>5, <2>6, <2>8, <2>9, <2>10, InvPartsNext
<1>6. CASE /\ Spend("faults", MaxFailures) /\ (Holds(flight.chat) \/ UNCHANGED held)
           /\ index' \in {index, Image(mem, files)} /\ UNCHANGED <<mem, stray>>
  <2>1. Resting(files, mem, index', flight, doubtful, stray, held)
    BY <1>1, <1>6, RestingImage
  <2>2. Resting(files, mem, index', NoFlight, doubtful, stray, held')
    BY <1>1, <1>4, <1>6, <2>1, RestingMore
  <2>3. budget' \in [acts : Nat, faults : Nat]
    BY <1>1, <1>6, SpendTypes
  <2>4. Tasks'
    BY <1>1, <1>2, <2>3 DEF Tasks, JobsOK
  <2>5. Histories'
    BY <1>1, <1>2, <1>4, <1>6 DEF Histories, FlightOK
  <2> QED BY <1>1, <1>2, <1>6, <2>2, <2>4, <2>5, InvPartsNext
<1> QED BY <1>5, <1>6 DEF Deliver

-----------------------------------------------------------------------------
(* The theorems. *)

LEMMA AuditStart == AuditInit => AuditInv
<1> SUFFICES ASSUME AuditInit PROVE AuditInv
  OBVIOUS
<1>1. /\ files = [archives |-> Empty, active |-> <<>>, gen |-> 1] /\ mem = Blank /\ index = NoIndex
      /\ up = FALSE /\ queue = {} /\ flight = NoFlight /\ job = [t \in Worker |-> NoJob]
      /\ written = 0 /\ doubtful = {} /\ held = [c \in Recipient |-> {}] /\ stray = {} /\ missed = {}
  BY DEF AuditInit
<1>2. /\ NoIndex.mem = Blank /\ NoIndex.bytes = -1 /\ NoIndex.gens = {} /\ NoIndex.gen = 0
      /\ NoIndex = [mem |-> NoIndex.mem, bytes |-> NoIndex.bytes, gens |-> NoIndex.gens,
                    gen |-> NoIndex.gen]
  BY DEF NoIndex
<1>3. Gens(files) = {} /\ files.gen = 1 /\ files.active = <<>> /\ All(files) = {1}
  BY <1>1 DEF Gens, All, Empty
<1>4. FilesOK(files)
  <2>1. files.archives \in [Gens(files) -> Seq(LineType)]
    BY <1>1 DEF Gens, Empty
  <2>2. files.active \in Seq(LineType)
    BY <1>3
  <2>3. files = [archives |-> files.archives, active |-> files.active, gen |-> files.gen]
    BY <1>1
  <2> QED BY <1>3, <2>1, <2>2, <2>3 DEF FilesOK
<1>5. Records(files) = {}
  <2>1. File(files, 1) = <<>>
    BY <1>3 DEF File
  <2>2. Places(files) = {}
    BY <1>3, <2>1 DEF Places
  <2> QED BY <2>2 DEF Records
<1>6. CacheOK(mem, files.gen) /\ CacheOK(Blank, 0)
  BY <1>1, <1>3, BlankFacts
<1>7. IndexOK(index, files.gen)
  <2>1. NoIndex.gen \in 0 .. 1 /\ NoIndex.gens \subseteq 1 .. NoIndex.gen - 1
        /\ NoIndex.bytes \in Nat \union {-1} /\ CacheOK(NoIndex.mem, NoIndex.gen)
    BY <1>2, <1>6
  <2> HIDE DEF NoIndex
  <2> QED BY <1>1, <1>2, <1>3, <2>1 DEF IndexOK
<1>8. Chained(files, doubtful) /\ IndexFits(files, index, doubtful)
  <2>1. Chained(files, doubtful)
    BY <1>5 DEF Chained
  <2>2. index.gen # files.gen /\ index.bytes = -1
    BY <1>1, <1>2, <1>3
  <2> QED BY <2>1, <2>2 DEF IndexFits
<1>9. \A c, g, n, ids : Credit(files, stray, held, c, g, n, ids)
  BY <1>5 DEF Credit
<1>10. MemClaims(files, mem, stray, held) /\ FlightClaims(files, flight, stray, held)
  BY <1>1, <1>9 DEF MemClaims, FlightClaims
<1>11. IndexClaims(files, index, stray, held)
  BY <1>1, <1>2, <1>3, <1>9 DEF IndexClaims
<1>12. Tasks
  <2>1. JobsOK
    <3>1. \A t \in Worker : JobOK(job[t])
      BY <1>1, JobFacts
    <3>2. job = [t \in Worker |-> job[t]]
      BY <1>1
    <3> QED BY <3>1, <3>2 DEF JobsOK, JobOK
  <2>2. version \in [Order -> [now : Nat, recent : BOOLEAN]] /\ settings \in [on : BOOLEAN, send : BOOLEAN]
    BY DEF AuditInit
  <2>3. budget \in [acts : Nat, faults : Nat]
    BY DEF AuditInit
  <2> QED BY <1>1, <2>1, <2>2, <2>3 DEF Tasks
<1>13. Histories
  BY <1>1 DEF Histories, FlightOK
<1>14. Resting(files, mem, index, flight, doubtful, stray, held)
  BY <1>4, <1>6, <1>7, <1>8, <1>10, <1>11 DEF Resting
<1> QED BY <1>1, <1>12, <1>13, <1>14, InvParts

LEMMA AuditStep == AuditInv /\ [AuditNext]_auditVars => AuditInv'
<1> SUFFICES ASSUME AuditInv, [AuditNext]_auditVars PROVE AuditInv'
  OBVIOUS
<1>1. CASE Boot
  BY <1>1, BootStep
<1>2. CASE RecordEvent \/ PanelExport
  BY <1>2, RecordEventStep, PanelExportStep
<1>3. CASE TakeSweep \/ PeriodicSweep \/ PanelSweep
  BY <1>3, TakeStep
<1>4. CASE Deliver
  BY <1>4, DeliverStep
<1>5. CASE AuditExit \/ ProcessCrash
  BY <1>5, EndStep
<1>6. ASSUME NEW o \in Order, Change(o) \/ TakeOrder(o) \/ Capture("collector", o) \/ Capture("panel", o)
      PROVE  AuditInv'
  <2>1. "collector" \in Worker /\ "panel" \in Worker
    BY DEF Worker
  <2> QED BY <1>6, <2>1, ChangeStep, TakeStep, CaptureStep
<1>7. ASSUME NEW t \in Worker, EndSweep(t) PROVE AuditInv'
  BY <1>7, EndSweepStep
<1>8. ASSUME NEW key \in {"on", "send"}, Switch(key) PROVE AuditInv'
  BY <1>8, SwitchStep
<1>9. ASSUME NEW c \in Recipient, Freeze(c) PROVE AuditInv'
  BY <1>9, FreezeStep
<1>10. CASE UNCHANGED auditVars
  <2>1. Tasks
    BY InvParts
  <2>2. Tasks'
    BY <1>10, <2>1 DEF auditVars, Tasks, JobsOK
  <2> QED BY <1>10, <2>2, QuietStep DEF auditVars
<1> QED BY <1>1, <1>2, <1>3, <1>4, <1>5, <1>6, <1>7, <1>8, <1>9, <1>10 DEF AuditNext

LEMMA AuditInvariant == AuditSpec => []AuditInv
BY AuditStart, AuditStep, PTL DEF AuditSpec

\* The files, the index, the memory, what the threads have read and the segment on its way are
\* of their types; no archive is newer than the active file, nor an index than the files.
THEOREM AuditTypes == AuditSpec => []AuditTypeOK
<1>1. AuditInv => AuditTypeOK
  BY DEF AuditInv
<1> QED BY <1>1, AuditInvariant, PTL

\* The hash chain of what is retained (_append, _rotate_if_needed, _prune_archives, _load_index)
\* has no gap and no fork, whatever fails and whenever the process ends, but after a record
\* whose append reported an error.
THEOREM ChainHolds == AuditSpec => []ChainUnbroken
<1>1. AuditInv => ChainUnbroken
  BY DEF AuditInv, ChainInv, Chained, ChainUnbroken
<1> QED BY <1>1, AuditInvariant, PTL

\* The cursors (mark_delivered, _rotate_if_needed, _load_index) never pass a record that their
\* recipient does not hold, in any file but those to which a cursor of another was applied.
THEOREM NeverSkips == AuditSpec => []NeverSkipped
<1>1. AuditInv => NeverSkipped
  <2> SUFFICES ASSUME AuditInv, NEW c \in Recipient, NEW p \in Records(files), p[2] <= Got(mem, files, p[1], c)
               PROVE  At(files, p).id \in held[c] \/ <<p[1], c>> \in stray
    BY DEF NeverSkipped
  <2>1. FilesOK(files) /\ MemClaims(files, mem, stray, held)
    BY InvParts DEF Resting
  <2>2. Credit(files, stray, held, c, p[1], Got(mem, files, p[1], c), {})
    BY <2>1, RecordFacts DEF MemClaims
  <2> QED BY <2>2 DEF Credit
<1> QED BY <1>1, AuditInvariant, PTL

-----------------------------------------------------------------------------
(* The Telegram outbox. *)

LEMMA Bounds == MaxTime \in Nat /\ MaxFaults \in Nat /\ Patience \in Nat /\ Settle \in Nat \ {0}
BY OutboxConstants

-----------------------------------------------------------------------------
(* The inductive invariant. *)

RowType   == [state : {"none", "open", "committed"}, stamp : Time,
              callback : {"none", "registered", "due"}]
EntryType == [state : {"none", "pending", "sending", "failed", "sent"},
              due : BOOLEAN, failures : Nat, at : Time]

\* The data, without what came out of a page.
Types ==
  /\ clock \in Time
  /\ rows \in [Event -> RowType]
  /\ config \in Config /\ draft \in Config
  /\ outbox \in [Row -> EntryType]
  /\ received \in [Row -> Nat] /\ expired \in [Row -> Nat] /\ faults \in Nat
  /\ quiet \subseteq Event
  /\ meta.since \in Time \union {Unset} /\ meta = [since |-> meta.since, cursor |-> meta.cursor]

\* The fields of the thread.
Thread ==
  worker = [stage |-> worker.stage, since |-> worker.since, horizon |-> worker.horizon,
            left |-> worker.left, kind |-> worker.kind, todo |-> worker.todo,
            put |-> worker.put, row |-> worker.row]

\* Beyond the claim, the thread has a row that is claimed.
ClaimHeld ==
  worker.stage \in {"claimed", "sent", "failed"} =>
    worker.row \in Row /\ outbox[worker.row].state = "sending"

\* Only what is committed is queued.
QueuedIsCommitted == \A r \in Row : outbox[r].state # "none" => rows[r[1]].state = "committed"

\* A quiet event was stamped in the past; and before the epoch, once the channel is on again.
QuietIsPast == \A e \in quiet : rows[e].state # "none" /\ rows[e].stamp <= clock
QuietIsOld  ==
  config.on \/ draft.on => \A e \in quiet : meta.since # Unset /\ rows[e].stamp < meta.since

QuietInv == QueuedIsCommitted /\ QuietIsPast /\ QuietIsOld /\ QuietStaysQuiet

\* The copy that costs nothing is the one whose row is marked, or about to be; and the one
\* before it, whose row has been deleted.
Free(r)  == outbox[r].state = "sent" \/ (worker.stage = "sent" /\ worker.row = r)
Received == \A r \in Row : received[r] <= faults + expired[r] + (IF Free(r) THEN 1 ELSE 0)

OutboxInv == Types /\ Thread /\ ClaimHeld /\ QuietInv /\ Received

-----------------------------------------------------------------------------
(* The helpers. *)

LEMMA StartTypes == NoDraft \in Config /\ Idle = [NoThread EXCEPT !.stage = "top"]
BY DEF NoDraft, Config, Idle

LEMMA EntryTypes ==
  /\ NoRow \in EntryType /\ NoRow.state = "none"
  /\ \A e : NewRow(e) \in EntryType /\ NewRow(e).state = "pending"
  /\ \A t \in Time : [NoRow EXCEPT !.state = "sent", !.at = t] \in EntryType
<1>1. NoRow \in EntryType /\ NoRow.state = "none"
  <2>1. 0 \in Time
    BY Bounds DEF Time
  <2> QED BY <2>1 DEF NoRow, EntryType
<1> HIDE DEF NoRow
<1>2. \A e : NewRow(e) \in EntryType /\ NewRow(e).state = "pending"
  BY <1>1 DEF NewRow, EntryType
<1> QED BY <1>1, <1>2 DEF EntryType

LEMMA EnqueueFacts ==
  ASSUME Types, NEW found, Enqueue(found)
  PROVE  /\ meta'.since \in Time \union {Unset}
         /\ meta' = [since |-> meta'.since, cursor |-> meta'.cursor]
         /\ \A e \in quiet : QuietIsOld /\ config.on => meta'.since = meta.since
         /\ outbox' \in [Row -> EntryType]
         /\ \A r \in Row :
              \/ outbox'[r] = outbox[r]
              \/ /\ outbox[r].state = "none" /\ outbox'[r].state = "pending"
                 /\ config.on /\ rows[r[1]].state = "committed"
                 /\ rows[r[1]].stamp >= Ensured.since
<1>1. meta' = IF config.on THEN Ensured ELSE meta
  BY DEF Enqueue
<1>2. /\ Ensured.since \in Time \union {Unset}
      /\ Ensured = [since |-> Ensured.since, cursor |-> Ensured.cursor]
      /\ meta.since # Unset => Ensured.since = meta.since
  BY DEF Types, Ensured, Epoch
<1>3. \A e \in quiet : QuietIsOld /\ config.on => meta'.since = meta.since
  BY <1>1, <1>2 DEF QuietIsOld
<1>4. outbox' = Inserted({e \in found : Eligible(e, Ensured.since)})
  BY DEF Enqueue
<1>5. outbox' \in [Row -> EntryType]
  BY <1>4, EntryTypes DEF Inserted, Types, Row
<1>6. ASSUME NEW r \in Row, outbox'[r] # outbox[r]
      PROVE  /\ outbox[r].state = "none" /\ outbox'[r].state = "pending"
             /\ config.on /\ rows[r[1]].state = "committed"
             /\ rows[r[1]].stamp >= Ensured.since
  BY <1>4, <1>6 DEF Inserted, Eligible, Row, NewRow, NoRow
<1> QED BY <1>1, <1>2, <1>3, <1>5, <1>6 DEF Types

LEMMA EnqueueKeeps ==
  ASSUME OutboxInv, NEW found, Enqueue(found), UNCHANGED <<clock, config, draft, quiet>>,
         \A e \in Event : rows'[e].state = rows[e].state /\ rows'[e].stamp = rows[e].stamp
  PROVE  QuietInv'
<1> USE DEF OutboxInv
<1>1. \A e \in quiet : config.on => Ensured.since = meta.since /\ meta'.since = meta.since
  BY EnqueueFacts DEF QuietInv, QuietIsOld, Ensured
<1>2. QueuedIsCommitted'
  BY EnqueueFacts DEF QuietInv, QueuedIsCommitted, Row
<1>3. QuietIsPast'
  BY DEF QuietInv, QuietIsPast, Types
<1>4. QuietIsOld'
  <2>1. CASE config.on
    BY <1>1, <2>1 DEF QuietInv, QuietIsOld, Types
  <2>2. CASE ~config.on
    BY <2>2 DEF QuietInv, QuietIsOld, Types, Enqueue
  <2> QED BY <2>1, <2>2
<1>5. QuietStaysQuiet'
  <2> SUFFICES ASSUME NEW e \in quiet, NEW c \in Chat, outbox'[<<e, c>>].state # "none"
               PROVE  FALSE
    BY DEF QuietStaysQuiet
  <2>1. <<e, c>> \in Row /\ outbox[<<e, c>>].state = "none"
    BY DEF Row, Types, QuietInv, QuietStaysQuiet
  <2>2. config.on /\ rows[e].stamp >= Ensured.since
    BY <2>1, EnqueueFacts
  <2>3. rows[e].stamp < meta.since /\ Ensured.since = meta.since
    BY <1>1, <2>2 DEF QuietInv, QuietIsOld
  <2>4. rows[e].stamp \in Int /\ meta.since \in Int
    BY Bounds DEF Types, RowType, Time, Unset
  <2> QED BY <2>2, <2>3, <2>4
<1> QED BY <1>2, <1>3, <1>4, <1>5 DEF QuietInv

LEMMA EnqueueCounts ==
  ASSUME OutboxInv, NEW found, Enqueue(found), UNCHANGED <<received, expired, faults>>,
         worker'.stage = worker.stage, worker'.row = worker.row
  PROVE  ClaimHeld' /\ Received'
<1> USE DEF OutboxInv
<1>1. ClaimHeld'
  BY EnqueueFacts DEF ClaimHeld
<1>2. \A r \in Row : outbox[r].state = "sent" => outbox'[r].state = "sent"
  BY EnqueueFacts
<1>3. \A r \in Row : received[r] \in Nat /\ expired[r] \in Nat /\ faults \in Nat
  BY DEF Types
<1>4. Received'
  BY <1>2, <1>3 DEF Received, Free
<1> QED BY <1>1, <1>4

-----------------------------------------------------------------------------
(* Rows and configurations. *)

LEMMA OutboxStart == Init => OutboxInv
<1> SUFFICES ASSUME Init PROVE OutboxInv
  OBVIOUS
<1>1. KindOf \in [Event -> Kind] /\ Range(KindOf) \subseteq Kind
  BY OutboxConstants DEF Range
<1>2. Types
  BY <1>1, Bounds DEF Init, Types, Time, RowType, Absent, Config, NoDraft, Row, EntryType, NoRow, Unset
<1>3. Thread /\ ClaimHeld
  BY DEF Init, Thread, ClaimHeld, NoThread
<1>4. QuietInv
  BY DEF Init, QuietInv, QueuedIsCommitted, QuietIsPast, QuietIsOld, QuietStaysQuiet, Row, NoRow
<1>5. Received
  BY DEF Init, Received, Free, Row
<1> QED BY <1>2, <1>3, <1>4, <1>5 DEF OutboxInv

LEMMA TickStep == OutboxInv /\ Tick => OutboxInv'
<1> SUFFICES ASSUME OutboxInv, Tick PROVE OutboxInv'
  OBVIOUS
<1> USE DEF OutboxInv
<1>1. clock' \in Time /\ clock <= clock'
  BY Bounds DEF Tick, Types, Time
<1>2. Types' /\ Thread' /\ ClaimHeld' /\ Received'
  BY <1>1 DEF Tick, Types, Thread, ClaimHeld, Received, Free
<1>3. QuietIsPast'
  BY <1>1, Bounds DEF Tick, QuietInv, QuietIsPast, Types, Time, RowType
<1>4. QuietInv'
  BY <1>3 DEF Tick, QuietInv, QueuedIsCommitted, QuietIsOld, QuietStaysQuiet
<1> QED BY <1>2, <1>4

LEMMA SaveStep == ASSUME NEW e \in Event, OutboxInv, Save(e) PROVE OutboxInv'
<1> USE DEF OutboxInv
<1>1. /\ rows' \in [Event -> RowType] /\ rows'[e].state = "open" /\ rows'[e].stamp = clock
      /\ \A d \in Event \ {e} : rows'[d] = rows[d]
  BY DEF Save, Types, RowType
<1>2. e \notin quiet /\ \A c \in Chat : <<e, c>> \in Row /\ outbox[<<e, c>>].state = "none"
  BY DEF Save, QuietInv, QuietIsPast, QueuedIsCommitted, Row
<1>3. quiet' = quiet \/ (quiet' = quiet \union {e} /\ ~config.on /\ ~draft.on)
  BY DEF Save
<1>4. Types' /\ Thread' /\ ClaimHeld' /\ Received'
  BY <1>1, <1>3 DEF Save, Types, Thread, ClaimHeld, Received, Free
<1>5. QueuedIsCommitted'
  BY <1>1 DEF Save, QuietInv, QueuedIsCommitted, Row
<1>6. QuietIsPast'
  <2>1. clock <= clock
    BY DEF Types, Time
  <2> QED BY <1>1, <1>2, <1>3, <2>1 DEF Save, QuietInv, QuietIsPast, Types
<1>7. QuietIsOld'
  BY <1>1, <1>2, <1>3 DEF Save, QuietInv, QuietIsOld, Types
<1>8. QuietStaysQuiet'
  BY <1>2, <1>3 DEF Save, QuietInv, QuietStaysQuiet
<1> QED BY <1>4, <1>5, <1>6, <1>7, <1>8 DEF QuietInv

\* A row goes on, with the stamp it has.
LEMMA RowStep ==
  ASSUME OutboxInv, rows' \in [Event -> RowType],
         \A e \in Event : /\ rows'[e].stamp = rows[e].stamp
                          /\ rows[e].state = "none" <=> rows'[e].state = "none"
                          /\ rows[e].state = "committed" => rows'[e].state = "committed",
         UNCHANGED <<clock, config, draft, meta, outbox, worker, received, quiet, expired, faults>>
  PROVE  OutboxInv'
<1> USE DEF OutboxInv
<1>1. Types' /\ Thread' /\ ClaimHeld' /\ Received'
  BY DEF Types, Thread, ClaimHeld, Received, Free
<1>2. QuietInv'
  BY DEF QuietInv, QueuedIsCommitted, QuietIsPast, QuietIsOld, QuietStaysQuiet, Types, Row
<1> QED BY <1>1, <1>2

LEMMA CommitStep == ASSUME NEW e \in Event, OutboxInv, Commit(e) \/ Resave(e) PROVE OutboxInv'
<1>1. rows' \in [Event -> RowType]
  BY DEF OutboxInv, Types, RowType, Commit, Resave
<1>2. \A d \in Event : /\ rows'[d].stamp = rows[d].stamp
                       /\ rows[d].state = "none" <=> rows'[d].state = "none"
                       /\ rows[d].state = "committed" => rows'[d].state = "committed"
  BY DEF OutboxInv, Types, RowType, Commit, Resave
<1> QED BY <1>1, <1>2, RowStep DEF Commit, Resave

LEMMA CallbackStep == ASSUME NEW e \in Event, OutboxInv, Callback(e) PROVE OutboxInv'
<1>1. /\ rows' \in [Event -> RowType]
      /\ \A d \in Event : rows'[d].stamp = rows[d].stamp /\ rows'[d].state = rows[d].state
  BY DEF OutboxInv, Types, RowType, Callback
<1>2. CASE Enqueue({e}) /\ UNCHANGED faults
  <2>1. Types'
    BY <1>1, <1>2, EnqueueFacts DEF OutboxInv, Callback, Types
  <2>2. QuietInv'
    BY <1>1, <1>2, EnqueueKeeps DEF Callback
  <2>3. ClaimHeld' /\ Received'
    BY <1>2, EnqueueCounts DEF Callback
  <2> QED BY <2>1, <2>2, <2>3 DEF OutboxInv, Thread, Callback
<1>3. CASE Fault /\ UNCHANGED <<meta, outbox>>
  <2>1. faults' = faults + 1 /\ faults' \in Nat
    BY <1>3 DEF OutboxInv, Types, Fault
  <2>2. Types' /\ Thread' /\ ClaimHeld'
    BY <1>1, <1>3, <2>1 DEF OutboxInv, Types, Thread, ClaimHeld, Callback
  <2>3. QuietInv'
    BY <1>1, <1>3 DEF OutboxInv, QuietInv, QueuedIsCommitted, QuietIsPast, QuietIsOld,
                      QuietStaysQuiet, Types, Row, Callback
  <2>4. Received'
    BY <1>3, <2>1 DEF OutboxInv, Types, Received, Free, Callback
  <2> QED BY <2>2, <2>3, <2>4 DEF OutboxInv
<1> QED BY <1>2, <1>3 DEF Callback

LEMMA ConfigStep ==
  ASSUME OutboxInv, SaveOff \/ PrepareOn \/ Write \/ \E k \in Kind : PrepareKind(k)
  PROVE  OutboxInv'
<1> USE DEF OutboxInv
<1>1. UNCHANGED <<rows, outbox, worker, received, quiet, expired, faults>>
  BY DEF SaveOff, PrepareOn, Write, PrepareKind
<1>2. Thread' /\ ClaimHeld' /\ Received' /\ QueuedIsCommitted' /\ QuietStaysQuiet'
  BY <1>1 DEF Thread, ClaimHeld, Received, Free, QuietInv, QueuedIsCommitted, QuietStaysQuiet
<1>3. CASE SaveOff
  <2>1. config' \in Config /\ (config'.on => config.on)
    <3>1. /\ config' = [config EXCEPT !.on = FALSE]
             \/ config' = [config EXCEPT !.chats = Chat \ @]
             \/ \E k \in Range(KindOf) : config' = [config EXCEPT !.kinds = @ \ {k}]
      BY <1>3 DEF SaveOff, Written
    <3>2. config \in Config /\ {Chat \ {}, Chat \ Chat} \subseteq {{}, Chat}
      BY DEF Types
    <3> QED BY <3>1, <3>2 DEF Config
  <2>2. UNCHANGED <<clock, draft, meta>>
    BY <1>3 DEF SaveOff
  <2>3. Types'
    BY <1>1, <2>1, <2>2 DEF Types
  <2>4. QuietInv'
    BY <1>1, <1>2, <2>1, <2>2 DEF QuietInv, QuietIsPast, QuietIsOld
  <2> QED BY <1>2, <2>3, <2>4
<1>4. CASE PrepareOn
  <2>1. /\ clock' = clock + 1 /\ clock' \in Time /\ meta'.since = clock'
        /\ meta' = [since |-> meta'.since, cursor |-> meta'.cursor] /\ clock' # Unset
    BY <1>4, Bounds DEF PrepareOn, Types, Time, Epoch, Unset
  <2>2. Types'
    BY <1>1, <1>4, <2>1 DEF PrepareOn, Types, Config
  <2>3. QuietIsPast' /\ QuietIsOld'
    <3>1. \A e \in quiet : rows[e].stamp \in Int /\ clock \in Int /\ rows[e].stamp <= clock
      BY Bounds DEF Types, RowType, Time, QuietInv, QuietIsPast
    <3> QED BY <1>1, <2>1, <3>1 DEF QuietInv, QuietIsPast, QuietIsOld
  <2> QED BY <1>2, <2>2, <2>3 DEF QuietInv
<1>5. CASE Write
  <2>1. config' = draft /\ draft' = NoDraft /\ ~draft'.on /\ UNCHANGED <<clock, meta>>
    BY <1>5 DEF Write, Written, NoDraft
  <2>2. Types'
    BY <1>1, <2>1, StartTypes DEF Types
  <2>3. QuietInv'
    BY <1>1, <1>2, <2>1 DEF QuietInv, QuietIsPast, QuietIsOld
  <2> QED BY <1>2, <2>2, <2>3
<1>6. ASSUME NEW k \in Kind, PrepareKind(k) PROVE OutboxInv'
  <2>1. /\ meta'.since = meta.since /\ meta' = [since |-> meta'.since, cursor |-> meta'.cursor]
        /\ UNCHANGED <<clock, config>>
    BY <1>6 DEF PrepareKind, Types
  <2>2. draft' \in Config /\ draft'.on = config.on
    BY <1>6 DEF PrepareKind, Types, Config
  <2>3. Types'
    BY <1>1, <2>1, <2>2 DEF Types
  <2>4. QuietInv'
    BY <1>1, <1>2, <2>1, <2>2 DEF QuietInv, QuietIsPast, QuietIsOld
  <2> QED BY <1>2, <2>3, <2>4
<1> QED BY <1>3, <1>4, <1>5, <1>6

-----------------------------------------------------------------------------
(* The process and the sweep. *)

LEMMA StartStep == OutboxInv /\ Start => OutboxInv'
<1> SUFFICES ASSUME OutboxInv, Start PROVE OutboxInv'
  OBVIOUS
<1> USE DEF OutboxInv
<1>1. /\ outbox' \in [Row -> EntryType]
      /\ \A r \in Row : /\ outbox[r].state = "none" <=> outbox'[r].state = "none"
                        /\ outbox[r].state = "sent" <=> outbox'[r].state = "sent"
  BY DEF Start, Recovered, Types, Row, EntryType
<1>2. worker' = Idle /\ worker.stage = "none"
  BY DEF Start
<1>3. Types' /\ Thread' /\ ClaimHeld'
  BY <1>1, <1>2 DEF Start, Types, Thread, ClaimHeld, Idle, NoThread
<1>4. QuietInv'
  BY <1>1 DEF Start, QuietInv, QueuedIsCommitted, QuietIsPast, QuietIsOld, QuietStaysQuiet, Row,
              Types
<1>5. Received'
  BY <1>1, <1>2 DEF Start, Received, Free, Idle, NoThread
<1> QED BY <1>3, <1>4, <1>5

\* The thread moves, but neither takes a row nor leaves one it has posted.
LEMMA ThreadStep ==
  ASSUME OutboxInv, Thread', UNCHANGED <<clock, rows, config, draft, outbox, received, quiet, expired, faults>>,
         meta'.since = meta.since, meta' = [since |-> meta'.since, cursor |-> meta'.cursor],
         worker.stage # "sent", worker'.stage \notin {"claimed", "sent", "failed"}
  PROVE  OutboxInv'
<1> USE DEF OutboxInv
<1>1. Types' /\ ClaimHeld' /\ Received'
  BY DEF Types, ClaimHeld, Received, Free
<1>2. QuietInv'
  BY DEF QuietInv, QueuedIsCommitted, QuietIsPast, QuietIsOld, QuietStaysQuiet
<1> QED BY <1>1, <1>2

LEMMA LeaveStep == OutboxInv /\ (Shutdown \/ WorkerExits) => OutboxInv'
<1> SUFFICES ASSUME OutboxInv, Shutdown \/ WorkerExits PROVE OutboxInv'
  OBVIOUS
<1>1. CASE Shutdown
  BY <1>1 DEF Shutdown, OutboxInv, Types, Thread, ClaimHeld, QuietInv, QueuedIsCommitted,
              QuietIsPast, QuietIsOld, QuietStaysQuiet, Received, Free
<1>2. CASE WorkerExits
  <2>1. Thread' /\ worker'.stage = "none"
    BY <1>2 DEF WorkerExits, Thread, NoThread
  <2> QED BY <1>2, <2>1, ThreadStep DEF WorkerExits, OutboxInv, Types
<1> QED BY <1>1, <1>2

\* A copy that was posted and not marked is one more, at the cost of the crash.
LEMMA EndedStep == OutboxInv /\ (Exit \/ Crash) => OutboxInv'
<1> SUFFICES ASSUME OutboxInv, Exit \/ Crash PROVE OutboxInv'
  OBVIOUS
<1> USE DEF OutboxInv
<1>1. Ended
  BY DEF Exit, Crash
<1>2. /\ rows' \in [Event -> RowType]
      /\ \A e \in Event : rows[e].state # "open" =>
           rows'[e].state = rows[e].state /\ rows'[e].stamp = rows[e].stamp
  BY <1>1, Bounds DEF Ended, Types, RowType, Absent, Time
<1>3. /\ quiet' \subseteq quiet /\ \A e \in quiet' : rows[e].state # "open"
      /\ draft' = NoDraft /\ ~draft'.on /\ worker' = NoThread
      /\ UNCHANGED <<clock, config, meta, outbox, received, expired>>
  BY <1>1 DEF Ended, NoDraft
<1>4. faults' \in Nat /\ (faults' = faults \/ faults' = faults + 1)
  BY DEF Exit, Crash, Fault, Types
<1>5. Types' /\ Thread' /\ ClaimHeld'
  BY <1>2, <1>3, <1>4, StartTypes DEF Types, Thread, ClaimHeld, NoThread
<1>6. QuietInv'
  BY <1>2, <1>3 DEF QuietInv, QueuedIsCommitted, QuietIsPast, QuietIsOld, QuietStaysQuiet, Types, Row
<1>7. Received'
  <2> SUFFICES ASSUME NEW r \in Row PROVE received[r] <= faults' + expired[r] + (IF outbox[r].state = "sent" THEN 1 ELSE 0)
    BY <1>3 DEF Received, Free, NoThread
  <2>1. received[r] \in Nat /\ expired[r] \in Nat /\ faults \in Nat
    BY DEF Types
  <2>2. received[r] <= faults + expired[r] + (IF Free(r) THEN 1 ELSE 0)
    BY DEF Received
  <2>3. CASE Exit
    BY <2>1, <2>2, <2>3 DEF Exit, Free
  <2>4. CASE Crash
    BY <2>1, <2>2, <2>4 DEF Crash, Fault, Free
  <2> QED BY <2>3, <2>4
<1> QED BY <1>5, <1>6, <1>7

LEMMA BeginStep == OutboxInv /\ BeginSweep => OutboxInv'
<1> SUFFICES ASSUME OutboxInv, BeginSweep PROVE OutboxInv'
  OBVIOUS
<1> USE DEF OutboxInv
<1>1. /\ worker.stage = "top" /\ worker'.stage \in {"top", "sweep"} /\ Thread'
      /\ config.on /\ meta' = Ensured
      /\ UNCHANGED <<clock, rows, config, draft, outbox, received, quiet, expired, faults>>
  BY DEF BeginSweep, Thread
<1>2. /\ meta'.since \in Time \union {Unset}
      /\ meta' = [since |-> meta'.since, cursor |-> meta'.cursor]
      /\ meta.since # Unset => meta'.since = meta.since
  BY <1>1 DEF Types, Ensured, Epoch
<1>3. Types' /\ ClaimHeld' /\ Received'
  BY <1>1, <1>2 DEF Types, ClaimHeld, Received, Free
<1>4. QuietInv'
  BY <1>1, <1>2 DEF QuietInv, QueuedIsCommitted, QuietIsPast, QuietIsOld, QuietStaysQuiet
<1> QED BY <1>1, <1>3, <1>4

LEMMA SweepStep ==
  ASSUME OutboxInv, SweepPut \/ SweepAdvance \/ SweepRecent \/ \E k \in Kind : SweepKind(k)
  PROVE  OutboxInv'
<1> USE DEF OutboxInv
<1>1. ASSUME NEW k \in Kind, SweepKind(k) PROVE OutboxInv'
  <2>1. Thread' /\ worker.stage = "sweep" /\ worker'.stage = "sweep"
    BY <1>1 DEF SweepKind, Thread
  <2> QED BY <1>1, <2>1, ThreadStep DEF SweepKind, Types
<1>2. CASE SweepPut
  <2>1. Enqueue({Head(worker.todo)})
    BY <1>2 DEF SweepPut
  <2>2. Thread' /\ worker'.stage = worker.stage /\ worker'.row = worker.row
    BY <1>2 DEF SweepPut, Thread
  <2>3. Types'
    BY <1>2, <2>1, EnqueueFacts DEF SweepPut, Types
  <2>4. QuietInv'
    BY <1>2, <2>1, EnqueueKeeps DEF SweepPut
  <2>5. ClaimHeld' /\ Received'
    BY <1>2, <2>1, <2>2, EnqueueCounts DEF SweepPut
  <2> QED BY <2>2, <2>3, <2>4, <2>5
<1>3. CASE SweepAdvance
  <2>1. Thread' /\ worker.stage = "sweep" /\ worker'.stage = "sweep"
    BY <1>3 DEF SweepAdvance, Thread
  <2>2. meta'.since = meta.since /\ meta' = [since |-> meta'.since, cursor |-> meta'.cursor]
    BY <1>3 DEF SweepAdvance, Types
  <2> QED BY <1>3, <2>1, <2>2, ThreadStep DEF SweepAdvance
<1>4. CASE SweepRecent
  <2>1. Thread' /\ worker.stage = "sweep" /\ worker'.stage \in {"top", "sweep"}
    BY <1>4 DEF SweepRecent, Thread, Idle, NoThread
  <2>2. CASE worker.kind = "none"
    BY <1>4, <2>1, <2>2, ThreadStep DEF SweepRecent, Types
  <2>3. CASE worker.kind # "none"
    <3>1. Enqueue(Range(Recent(worker.kind)))
      BY <1>4, <2>3 DEF SweepRecent
    <3>2. Types'
      BY <1>4, <3>1, EnqueueFacts DEF SweepRecent, Types
    <3>3. QuietInv'
      BY <1>4, <3>1, EnqueueKeeps DEF SweepRecent
    <3>4. ClaimHeld'
      BY <2>1 DEF ClaimHeld
    <3>5. Received'
      <4>1. \A r \in Row : outbox[r].state = "sent" => outbox'[r].state = "sent"
        BY <3>1, EnqueueFacts
      <4>2. \A r \in Row : Free(r) => outbox'[r].state = "sent"
        BY <2>1, <4>1 DEF Free
      <4>3. \A r \in Row : received[r] \in Nat /\ expired[r] \in Nat /\ faults \in Nat
        BY DEF Types
      <4> QED BY <1>4, <4>2, <4>3 DEF SweepRecent, Received, Free
    <3> QED BY <2>1, <3>2, <3>3, <3>4, <3>5
  <2> QED BY <2>2, <2>3
<1> QED BY <1>1, <1>2, <1>3, <1>4

-----------------------------------------------------------------------------
(* The delivery. *)

\* An entry that is queued moves on; the rest stays.
LEMMA EntryStep ==
  ASSUME OutboxInv, NEW q \in Row, outbox[q].state # "none", NEW x \in EntryType, x.state # "none",
         outbox' = [outbox EXCEPT ![q] = x],
         UNCHANGED <<clock, rows, config, draft, meta, received, quiet, expired, faults>>
  PROVE  Types' /\ QuietInv' /\ outbox'[q] = x /\ \A r \in Row \ {q} : outbox'[r] = outbox[r]
<1> USE DEF OutboxInv
<1>1. outbox'[q] = x /\ \A r \in Row \ {q} : outbox'[r] = outbox[r]
  BY DEF Types
<1>2. Types'
  BY DEF Types
<1>3. QuietInv'
  <2>1. QueuedIsCommitted' /\ QuietIsPast' /\ QuietIsOld'
    BY <1>1 DEF QuietInv, QueuedIsCommitted, QuietIsPast, QuietIsOld
  <2>2. QuietStaysQuiet'
    <3> SUFFICES ASSUME NEW e \in quiet, NEW c \in Chat PROVE outbox'[<<e, c>>].state = "none"
      BY DEF QuietStaysQuiet
    <3>1. <<e, c>> \in Row /\ outbox[<<e, c>>].state = "none"
      BY DEF Row, Types, QuietInv, QuietStaysQuiet
    <3> QED BY <1>1, <3>1
  <2> QED BY <2>1, <2>2 DEF QuietInv
<1> QED BY <1>1, <1>2, <1>3

LEMMA ClaimStep == ASSUME NEW q \in Row, OutboxInv, Claim(q) PROVE OutboxInv'
<1> USE DEF OutboxInv
<1> DEFINE x == [outbox[q] EXCEPT !.state = "sending"]
<1>1. x \in EntryType /\ x.state = "sending" /\ outbox[q].state \in {"pending", "failed"}
  BY DEF Claim, Claimable, Types, EntryType
<1>2. outbox' = [outbox EXCEPT ![q] = x]
  BY DEF Claim
<1> HIDE DEF x
<1>3. Types' /\ QuietInv' /\ outbox'[q] = x /\ \A r \in Row \ {q} : outbox'[r] = outbox[r]
  BY <1>1, <1>2, EntryStep DEF Claim
<1>4. worker.stage = "top" /\ worker'.stage = "claimed" /\ worker'.row = q /\ Thread'
  BY DEF Claim, Sending, Idle, NoThread, Thread
<1>5. ClaimHeld'
  BY <1>1, <1>3, <1>4 DEF ClaimHeld
<1>6. Received'
  BY <1>1, <1>3, <1>4 DEF Claim, Received, Free
<1> QED BY <1>3, <1>4, <1>5, <1>6

LEMMA RipenStep == ASSUME NEW q \in Row, OutboxInv, Ripen(q) PROVE OutboxInv'
<1> USE DEF OutboxInv
<1> DEFINE x == [outbox[q] EXCEPT !.due = TRUE]
<1>1. x \in EntryType /\ x.state = outbox[q].state /\ outbox[q].state \in {"pending", "failed"}
  BY DEF Ripen, Types, EntryType
<1>2. outbox' = [outbox EXCEPT ![q] = x]
  BY DEF Ripen
<1> HIDE DEF x
<1>3. Types' /\ QuietInv' /\ outbox'[q] = x /\ \A r \in Row \ {q} : outbox'[r] = outbox[r]
  BY <1>1, <1>2, EntryStep DEF Ripen
<1>4. \A r \in Row : outbox'[r].state = outbox[r].state
  BY <1>1, <1>3
<1> QED BY <1>3, <1>4 DEF Ripen, Thread, ClaimHeld, Received, Free

LEMMA PostStep == OutboxInv /\ Post => OutboxInv'
<1> SUFFICES ASSUME OutboxInv, Post PROVE OutboxInv'
  OBVIOUS
<1> USE DEF OutboxInv
<1> DEFINE q == worker.row
<1>1. /\ worker.stage = "claimed" /\ q \in Row /\ outbox[q].state = "sending"
      /\ UNCHANGED <<clock, rows, config, draft, meta, outbox, quiet, expired>>
  BY DEF Post, ClaimHeld
<1>2. /\ worker'.stage \in {"sent", "failed"} /\ worker'.row = q /\ Thread'
      /\ \/ received' = received /\ faults' \in {faults, faults + 1} /\ worker'.stage = "failed"
         \/ /\ received' = [received EXCEPT ![q] = @ + 1]
            /\ \/ worker'.stage = "sent" /\ faults' = faults
               \/ worker'.stage = "failed" /\ faults' = faults + 1
  BY DEF Post, Became, Fault, Thread
<1> HIDE DEF q
<1>3. received' \in [Row -> Nat] /\ faults' \in Nat
  BY <1>1, <1>2 DEF Types
<1>4. Types' /\ ClaimHeld'
  BY <1>1, <1>2, <1>3 DEF Types, ClaimHeld, q
<1>5. QuietInv'
  BY <1>1 DEF QuietInv, QueuedIsCommitted, QuietIsPast, QuietIsOld, QuietStaysQuiet
<1>6. Received'
  <2> SUFFICES ASSUME NEW r \in Row
               PROVE  received'[r] <= faults' + expired'[r] + (IF Free(r)' THEN 1 ELSE 0)
    BY DEF Received
  <2>1. /\ received[r] \in Nat /\ expired[r] \in Nat /\ faults \in Nat
        /\ received[r] <= faults + expired[r] + (IF Free(r) THEN 1 ELSE 0)
    BY DEF Types, Received
  <2>2. CASE r = q
    <3>1. ~Free(r) /\ received'[r] \in {received[r], received[r] + 1}
      BY <1>1, <1>2, <2>2 DEF Free, Types
    <3> QED BY <1>1, <1>2, <2>1, <2>2, <3>1 DEF Free, Types
  <2>3. CASE r # q
    <3>1. received'[r] = received[r] /\ (Free(r) <=> Free(r)')
      BY <1>1, <1>2, <2>3 DEF Free, Types
    <3> QED BY <1>1, <1>2, <2>1, <3>1
  <2> QED BY <2>2, <2>3
<1> QED BY <1>2, <1>4, <1>5, <1>6

LEMMA MarkSentStep == OutboxInv /\ MarkSent => OutboxInv'
<1> SUFFICES ASSUME OutboxInv, MarkSent PROVE OutboxInv'
  OBVIOUS
<1> USE DEF OutboxInv
<1> DEFINE q == worker.row
<1>1. /\ worker.stage = "sent" /\ q \in Row /\ outbox[q].state = "sending"
      /\ UNCHANGED <<clock, rows, config, draft, meta, received, quiet>>
  BY DEF MarkSent, ClaimHeld
<1>2. CASE /\ outbox' = [r \in Row |-> IF r = q THEN Sent ELSE IF Old(r) THEN NoRow ELSE outbox[r]]
           /\ expired' = [r \in Row |-> IF Old(r) THEN expired[r] + 1 ELSE expired[r]]
           /\ worker' = Idle /\ UNCHANGED faults
  <2>1. /\ Sent \in EntryType /\ Sent.state = "sent"
        /\ NoRow \in EntryType /\ NoRow.state = "none"
    <3>1. NoRow \in EntryType /\ NoRow.state = "none" /\ clock \in Time
      BY EntryTypes DEF Types
    <3>2. Sent \in EntryType
      BY <3>1, EntryTypes DEF Sent
    <3>3. Sent.state = "sent"
      BY DEF Sent, NoRow
    <3> QED BY <3>1, <3>2, <3>3
  <2>2. Thread' /\ worker'.stage = "top"
    BY <1>2 DEF Thread, Idle, NoThread
  <2>3. ~Old(q) /\ \A r \in Row : Old(r) => outbox[r].state = "sent"
    BY <1>1 DEF Old
  <2>4. \A r \in Row : received[r] \in Nat /\ expired[r] \in Nat /\ faults \in Nat
    BY DEF Types
  <2>5. /\ outbox'[q] = Sent /\ expired'[q] = expired[q]
        /\ \A r \in Row \ {q} : /\ outbox'[r] = IF Old(r) THEN NoRow ELSE outbox[r]
                              /\ expired'[r] = IF Old(r) THEN expired[r] + 1 ELSE expired[r]
    BY <1>1, <1>2, <2>3
  <2> HIDE DEF q
  <2>6. Types'
    <3>1. outbox' \in [Row -> EntryType]
      <4>1. \A r \in Row : outbox[r] \in EntryType
        BY DEF Types
      <4>2. \A r \in Row : (IF r = q THEN Sent ELSE IF Old(r) THEN NoRow ELSE outbox[r]) \in EntryType
        BY <2>1, <4>1
      <4> QED BY <1>2, <4>2
    <3>2. expired' \in [Row -> Nat]
      BY <1>2, <2>4
    <3>3. faults' = faults
      BY <1>2
    <3> QED BY <1>1, <3>1, <3>2, <3>3 DEF Types
  <2>7. \A r \in Row : outbox'[r].state # "none" => outbox[r].state # "none"
    BY <1>1, <2>1, <2>5
  <2>8. QuietInv'
    <3>1. QueuedIsCommitted' /\ QuietIsPast' /\ QuietIsOld'
      BY <1>1, <2>7 DEF QuietInv, QueuedIsCommitted, QuietIsPast, QuietIsOld
    <3>2. QuietStaysQuiet'
      BY <1>1, <2>7 DEF QuietInv, QuietStaysQuiet, Types, Row
    <3> QED BY <3>1, <3>2 DEF QuietInv
  <2>9. Received'
    <3> SUFFICES ASSUME NEW r \in Row
                 PROVE  received[r] <= faults + expired'[r] + (IF Free(r)' THEN 1 ELSE 0)
      BY <1>1, <1>2 DEF Received
    <3>1. received[r] <= faults + expired[r] + (IF Free(r) THEN 1 ELSE 0)
      BY DEF Received
    <3>2. CASE r = q
      BY <2>1, <2>4, <2>5, <3>1, <3>2 DEF Free
    <3>3. CASE r # q /\ Old(r)
      BY <2>3, <2>4, <2>5, <3>1, <3>3 DEF Free
    <3>4. CASE r # q /\ ~Old(r)
      <4>1. Free(r) => Free(r)'
        BY <2>5, <3>4 DEF Free, q
      <4> QED BY <2>4, <2>5, <3>1, <3>4, <4>1
    <3> QED BY <3>2, <3>3, <3>4
  <2> QED BY <2>2, <2>6, <2>8, <2>9 DEF ClaimHeld
<1>3. CASE Fault /\ Became("failed") /\ UNCHANGED <<outbox, expired>>
  <2>1. /\ worker'.stage = "failed" /\ worker'.row = q /\ Thread'
        /\ faults' = faults + 1 /\ faults \in Nat /\ faults' \in Nat
    BY <1>3 DEF Became, Thread, Fault, Types
  <2> HIDE DEF q
  <2>2. Types' /\ ClaimHeld'
    BY <1>1, <1>3, <2>1 DEF Types, ClaimHeld
  <2>3. QuietInv'
    BY <1>1, <1>3 DEF QuietInv, QueuedIsCommitted, QuietIsPast, QuietIsOld, QuietStaysQuiet
  <2>4. \A r \in Row : received[r] \in Nat /\ expired[r] \in Nat
    BY DEF Types
  <2>5. Received'
    BY <1>1, <1>3, <2>1, <2>4 DEF Received, Free
  <2> QED BY <2>1, <2>2, <2>3, <2>5
<1> QED BY <1>2, <1>3 DEF MarkSent

LEMMA MinNat == ASSUME NEW a \in Nat, NEW b \in Nat PROVE Min({a, b}) \in Nat
<1>1. \E m \in {a, b} : \A y \in {a, b} : m <= y
  OBVIOUS
<1> QED BY <1>1 DEF Min

LEMMA MarkFailedStep == OutboxInv /\ MarkFailed => OutboxInv'
<1> SUFFICES ASSUME OutboxInv, MarkFailed PROVE OutboxInv'
  OBVIOUS
<1> USE DEF OutboxInv
<1> DEFINE q == worker.row
           x == Failed(outbox[q])
<1>1. /\ worker.stage = "failed" /\ q \in Row /\ outbox[q].state = "sending"
      /\ worker' = Idle /\ Thread' /\ worker'.stage = "top"
      /\ UNCHANGED <<clock, rows, config, draft, meta, received, quiet, expired>>
  BY DEF MarkFailed, ClaimHeld, Thread, Idle, NoThread
<1>2. ClaimHeld'
  BY <1>1 DEF ClaimHeld
<1>3. \A r \in Row : received[r] \in Nat /\ expired[r] \in Nat /\ faults \in Nat
  BY DEF Types
<1>4. CASE outbox' = [outbox EXCEPT ![q] = x] /\ UNCHANGED faults
  <2>1. x \in EntryType /\ x.state = "failed"
    <3>1. outbox[q].failures + 1 \in Nat /\ Patience \in Nat
      BY <1>1, Bounds DEF Types, EntryType
    <3>2. Min({Patience, outbox[q].failures + 1}) \in Nat
      BY <3>1, MinNat
    <3> DEFINE d == outbox[q].failures + 1 < Patience
               n == Min({Patience, outbox[q].failures + 1})
    <3>3. x = [NoRow EXCEPT !.state = "failed", !.due = d, !.failures = n]
      BY DEF Failed
    <3>4. d \in BOOLEAN /\ n \in Nat /\ NoRow \in EntryType
      <4>1. d \in BOOLEAN
        BY <3>1
      <4> QED BY <3>2, <4>1, EntryTypes
    <3> HIDE DEF d, n, x
    <3>5. x \in EntryType
      BY <3>3, <3>4 DEF EntryType
    <3>6. x.state = "failed"
      BY <3>3, <3>4 DEF EntryType
    <3> QED BY <3>5, <3>6
  <2> HIDE DEF q, x
  <2>2. Types' /\ QuietInv' /\ outbox'[q] = x /\ \A r \in Row \ {q} : outbox'[r] = outbox[r]
    BY <1>1, <1>4, <2>1, EntryStep
  <2>3. \A r \in Row : Free(r) => outbox'[r].state = "sent"
    BY <1>1, <2>2 DEF Free
  <2>4. Received'
    BY <1>1, <1>3, <1>4, <2>3 DEF Received, Free
  <2> QED BY <1>1, <1>2, <2>2, <2>4
<1>5. CASE Fault /\ UNCHANGED outbox
  <2>1. faults' = faults + 1 /\ faults' \in Nat
    BY <1>5 DEF Fault, Types
  <2>2. Types'
    BY <1>1, <1>5, <2>1 DEF Types
  <2>3. QuietInv'
    BY <1>1, <1>5 DEF QuietInv, QueuedIsCommitted, QuietIsPast, QuietIsOld, QuietStaysQuiet
  <2>4. Received'
    BY <1>1, <1>3, <1>5, <2>1 DEF Received, Free
  <2> QED BY <1>1, <1>2, <2>2, <2>3, <2>4
<1> QED BY <1>4, <1>5 DEF MarkFailed

-----------------------------------------------------------------------------
(* The theorems. *)

LEMMA OutboxStep == OutboxInv /\ [Next]_vars => OutboxInv'
<1> SUFFICES ASSUME OutboxInv, [Next]_vars PROVE OutboxInv'
  OBVIOUS
<1>1. CASE UNCHANGED vars
  BY <1>1 DEF vars, OutboxInv, Types, Thread, ClaimHeld, QuietInv, QueuedIsCommitted,
              QuietIsPast, QuietIsOld, QuietStaysQuiet, Received, Free
<1>2. CASE Tick
  BY <1>2, TickStep
<1>3. ASSUME NEW e \in Event, Save(e) \/ Commit(e) \/ Resave(e) \/ Callback(e) PROVE OutboxInv'
  BY <1>3, SaveStep, CommitStep, CallbackStep
<1>4. CASE Start \/ Shutdown \/ WorkerExits \/ Exit \/ Crash
  BY <1>4, StartStep, LeaveStep, EndedStep
<1>5. CASE Post \/ MarkSent \/ MarkFailed
  BY <1>5, PostStep, MarkSentStep, MarkFailedStep
<1>6. ASSUME NEW r \in Row, Claim(r) \/ Ripen(r) PROVE OutboxInv'
  BY <1>6, ClaimStep, RipenStep
<1> QED BY <1>1, <1>2, <1>3, <1>4, <1>5, <1>6, ConfigStep, BeginStep, SweepStep DEF Next

\* Every reachable state of the outbox satisfies the invariant: what is queued is committed,
\* what is quiet is older than the epoch, and copies are covered by failures and deletions.
THEOREM OutboxInductive == Spec => []OutboxInv
<1>1. Init => OutboxInv
  BY OutboxStart
<1>2. OutboxInv /\ [Next]_vars => OutboxInv'
  BY OutboxStep
<1> QED BY <1>1, <1>2, PTL DEF Spec

\* An event that was recorded, paid or ended while the channel was off never enters the queue
\* of any recipient, however the channel is switched, whatever a sweep under way had read,
\* however late a callback comes and however often the row is saved again
\* (enqueue_order, prepare_configuration_update, _ensure_enable_watermark).
THEOREM QuietIsNeverReported == Spec => []QuietStaysQuiet
<1>1. OutboxInv => QuietStaysQuiet
  BY DEF OutboxInv, QuietInv
<1> QED BY <1>1, OutboxInductive, PTL

\* A recipient gets at most one copy of a report more than there were failures and deletions
\* of its sent row: the callback and the sweep, the two passes of a sweep, and a restart repeat
\* nothing by themselves (_insert_delivery, _next_delivery, _mark_sent, _reset_inflight).
THEOREM CopiesCostFaults == Spec => []CopiesNeedFaults
<1>1. OutboxInv => CopiesNeedFaults
  <2> SUFFICES ASSUME OutboxInv, NEW r \in Row PROVE received[r] <= 1 + faults + expired[r]
    BY DEF CopiesNeedFaults
  <2>1. /\ received[r] \in Nat /\ expired[r] \in Nat /\ faults \in Nat
        /\ received[r] <= faults + expired[r] + (IF Free(r) THEN 1 ELSE 0)
    BY DEF OutboxInv, Types, Received
  <2> QED BY <2>1
<1> QED BY <1>1, OutboxInductive, PTL
=============================================================================

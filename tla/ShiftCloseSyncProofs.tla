------------------------ MODULE ShiftCloseSyncProofs ------------------------
(***************************************************************************)
(* For any number of closes, versions, workers and faults: the types, that *)
(* no acknowledgement is without proof, that a sync is reported clear only *)
(* over verified closes, and that the evidence of a close is never lost.   *)
(***************************************************************************)
EXTENDS ShiftCloseSync, FiniteSums

LEMMA Bounds ==
  MaxVersion \in Nat \ {0} /\ MaxProbes \in Nat \ {0} /\ MaxFaults \in Nat /\ Volatile \subseteq Shift
BY CloseConstants

-----------------------------------------------------------------------------
(* The agenda of a refresh. *)

\* t has the members of S, each once.
Distinct(t) == \A i, j \in 1 .. Len(t) : t[i] = t[j] => i = j
Members(t) == {t[i] : i \in 1 .. Len(t)}
Enumerates(t, S) == t \in Seq(Shift) /\ Distinct(t) /\ Members(t) = S

LEMMA ListedFacts ==
  ASSUME NEW S, S \subseteq Shift, NEW R, StrictOrder(R, S)
  PROVE  Enumerates(Listed(S, R), S)
<1> DEFINE s == Listed(S, R)
<1>1. IsFiniteSet(S)
  BY CloseConstants, FS_Subset
<1>2. \E t : Lists(t, S, R)
  BY <1>1, ListsExists
<1>3. Lists(s, S, R)
  BY <1>2 DEF Lists, Listed
<1> HIDE DEF s
<1>4. /\ s \in Seq(S)
      /\ \A i, j \in 1 .. Len(s) : s[i] = s[j] => i = j
      /\ {s[i] : i \in 1 .. Len(s)} = S
  BY <1>1, <1>3, ListsAll
<1>5. s \in Seq(Shift)
  <2>1. \A i \in 1 .. Len(s) : s[i] \in Shift
    BY <1>4
  <2> QED BY <1>4, <2>1
<1> QED BY <1>4, <1>5 DEF s, Enumerates, Distinct, Members

LEMMA NewestOrder ==
  ASSUME NEW S, S \subseteq Shift
  PROVE  StrictOrder({p \in S \X S : p[1] > p[2]}, S)
<1> DEFINE R == {p \in S \X S : p[1] > p[2]}
<1>1. \A a, b \in S : a \in Nat /\ b \in Nat /\ (<<a, b>> \in R <=> a > b)
  BY CloseConstants
<1> HIDE DEF R
<1>2. StrictOrder(R, S)
  BY <1>1 DEF StrictOrder
<1> QED BY <1>2 DEF R

LEMMA AgendaOrder ==
  ASSUME NEW S, S \subseteq Shift, NEW r
  PROVE  StrictOrder({p \in S \X S : Before(r, p[1], p[2])}, S)
<1> DEFINE R == {p \in S \X S : Before(r, p[1], p[2])}
           x(s) == IF r.seen[s].probed THEN 1 ELSE 0
           y(s) == IF r.seen[s].state = "PENDING" THEN 0 ELSE 1
<1>1. \A a, b \in S : /\ a \in Nat /\ b \in Nat
                      /\ x(a) \in {0, 1} /\ y(a) \in {0, 1}
  BY CloseConstants
<1>2. \A a, b \in S : <<a, b>> \in R <=> Before(r, a, b)
  OBVIOUS
<1>3. \A a, b \in S : Before(r, a, b) <=> \/ x(a) < x(b)
                                          \/ x(a) = x(b) /\ y(a) < y(b)
                                          \/ x(a) = x(b) /\ y(a) = y(b) /\ a > b
  BY DEF Before, Rank
<1> HIDE DEF R, x, y
<1>4. StrictOrder(R, S)
  BY <1>1, <1>2, <1>3 DEF StrictOrder
<1> QED BY <1>4 DEF R

LEMMA NewestFacts ==
  ASSUME NEW S, S \subseteq Shift
  PROVE  Enumerates(NewestFirst(S), S)
<1> DEFINE R == {p \in S \X S : p[1] > p[2]}
<1>1. StrictOrder(R, S)
  BY NewestOrder
<1>2. NewestFirst(S) = Listed(S, R)
  BY DEF NewestFirst
<1> HIDE DEF R
<1> QED BY <1>1, <1>2, ListedFacts

LEMMA AgendaFacts ==
  ASSUME NEW S, S \subseteq Shift, NEW r
  PROVE  Enumerates(Listed(S, {p \in S \X S : Before(r, p[1], p[2])}), S)
<1> DEFINE R == {p \in S \X S : Before(r, p[1], p[2])}
<1>1. StrictOrder(R, S)
  BY AgendaOrder
<1> HIDE DEF R
<1>2. Enumerates(Listed(S, R), S)
  BY <1>1, ListedFacts
<1> QED BY <1>2 DEF R

\* What a refresh that has tracked its entries does next.
LEMMA ArrangedFacts ==
  ASSUME NEW r \in Run
  PROVE  LET a == Arranged(r) IN
         /\ a \in Run /\ a.by = r.by /\ a.found = r.found /\ a.answer = r.answer
         /\ \/ r.todo # <<>> /\ a = r
            \/ /\ r.todo = <<>> /\ a.stage = "visit"
               /\ \A i, j \in 1 .. Len(a.todo) : a.todo[i] = a.todo[j] => i = j
               /\ \A i \in 1 .. Len(a.todo) : Sound(r.found[a.todo[i]])
               /\ \A s \in Shift : a.seen[s] = r.seen[s] \/ a.seen[s] = NoEntry
<1>1. CASE r.todo # <<>>
  BY <1>1 DEF Arranged
<1>2. CASE r.todo = <<>>
  <2> DEFINE agenda == IF phase[r.by] = "boot" THEN {} ELSE Agenda(r)
             todo == Listed(agenda, {p \in agenda \X agenda : Before(r, p[1], p[2])})
             seen == [s \in Shift |-> IF s \in agenda THEN r.seen[s] ELSE NoEntry]
  <2>1. agenda \subseteq Shift /\ \A s \in agenda : Sound(r.found[s])
    BY DEF Agenda, Found
  <2> HIDE DEF agenda
  <2>2. /\ todo \in Seq(Shift)
        /\ \A i, j \in 1 .. Len(todo) : todo[i] = todo[j] => i = j
        /\ {todo[i] : i \in 1 .. Len(todo)} = agenda
    <3>1. Enumerates(todo, agenda)
      BY <2>1, AgendaFacts
    <3> HIDE DEF todo
    <3> QED BY <3>1 DEF Enumerates, Distinct, Members
  <2> HIDE DEF todo
  <2>3. seen \in [Shift -> Entry] /\ \A s \in Shift : seen[s] = r.seen[s] \/ seen[s] = NoEntry
    <3>1. r.seen \in [Shift -> Entry] /\ NoEntry \in Entry
      BY CloseConstants DEF Run, NoEntry, Entry
    <3> QED BY <3>1 DEF seen
  <2>4. Arranged(r) = [r EXCEPT !.stage = "visit", !.todo = todo, !.seen = seen]
    BY <1>2 DEF Arranged, todo, agenda, Run
  <2> HIDE DEF seen
  <2>5. /\ Arranged(r) \in Run /\ Arranged(r).by = r.by /\ Arranged(r).found = r.found
        /\ Arranged(r).answer = r.answer /\ Arranged(r).stage = "visit"
        /\ Arranged(r).todo = todo /\ Arranged(r).seen = seen
    BY <2>2, <2>3, <2>4 DEF Run
  <2>6. \A i \in 1 .. Len(todo) : Sound(r.found[todo[i]])
    BY <2>1, <2>2
  <2> QED BY <1>2, <2>2, <2>3, <2>5, <2>6
<1> QED BY <1>1, <1>2

LEMMA SplitFacts ==
  ASSUME NEW q \in Seq(Shift), q # <<>>
  PROVE  /\ Head(q) \in Shift /\ Tail(q) \in Seq(Shift)
         /\ Members(q) = {Head(q)} \union Members(Tail(q))
         /\ Distinct(q) => Distinct(Tail(q)) /\ Head(q) \notin Members(Tail(q))
<1>1. /\ Len(q) \in Nat \ {0} /\ Head(q) = q[1] /\ Head(q) \in Shift
      /\ Tail(q) \in Seq(Shift) /\ Len(Tail(q)) = Len(q) - 1
      /\ \A i \in 1 .. Len(q) - 1 : Tail(q)[i] = q[i + 1]
  OBVIOUS
<1>2. Members(Tail(q)) = {q[i + 1] : i \in 1 .. Len(q) - 1}
  BY <1>1 DEF Members
<1>3. \A i \in 1 .. Len(q) : i = 1 \/ (i - 1 \in 1 .. Len(q) - 1 /\ q[i] = q[(i - 1) + 1])
  BY <1>1
<1>4. \A i \in 1 .. Len(q) - 1 : i + 1 \in 1 .. Len(q) /\ i + 1 # 1
  BY <1>1
<1>5. Members(q) \subseteq {Head(q)} \union Members(Tail(q))
  <2> SUFFICES ASSUME NEW i \in 1 .. Len(q)
               PROVE  q[i] = Head(q) \/ q[i] \in Members(Tail(q))
    BY DEF Members
  <2> QED BY <1>1, <1>2, <1>3
<1>6. {Head(q)} \union Members(Tail(q)) \subseteq Members(q)
  BY <1>1, <1>2, <1>4 DEF Members
<1>7. ASSUME Distinct(q) PROVE Distinct(Tail(q)) /\ Head(q) \notin Members(Tail(q))
  <2>1. Distinct(Tail(q))
    BY <1>1, <1>4, <1>7 DEF Distinct
  <2>2. \A i \in 1 .. Len(q) - 1 : q[i + 1] # q[1]
    BY <1>1, <1>4, <1>7 DEF Distinct
  <2> QED BY <1>1, <1>2, <2>1, <2>2
<1> QED BY <1>1, <1>5, <1>6, <1>7

LEMMA JoinFacts ==
  ASSUME NEW q \in Seq(Shift), NEW r \in Seq(Shift)
  PROVE  /\ q \o r \in Seq(Shift)
         /\ Members(q \o r) = Members(q) \union Members(r)
<1>1. /\ q \o r \in Seq(Shift) /\ Len(q \o r) = Len(q) + Len(r) /\ Len(q) \in Nat /\ Len(r) \in Nat
      /\ \A i \in 1 .. Len(q) : (q \o r)[i] = q[i]
      /\ \A i \in 1 .. Len(r) : (q \o r)[Len(q) + i] = r[i]
  OBVIOUS
<1>2. Members(q \o r) \subseteq Members(q) \union Members(r)
  <2> SUFFICES ASSUME NEW i \in 1 .. Len(q) + Len(r)
               PROVE  (q \o r)[i] \in Members(q) \union Members(r)
    BY <1>1 DEF Members
  <2>1. CASE i <= Len(q)
    BY <1>1, <2>1 DEF Members
  <2>2. CASE i > Len(q)
    <3>1. i - Len(q) \in 1 .. Len(r) /\ Len(q) + (i - Len(q)) = i
      BY <1>1, <2>2
    <3> QED BY <1>1, <3>1 DEF Members
  <2> QED BY <1>1, <2>1, <2>2
<1>3. Members(q) \union Members(r) \subseteq Members(q \o r)
  <2>1. ASSUME NEW i \in 1 .. Len(q) PROVE q[i] \in Members(q \o r)
    <3>1. i \in 1 .. Len(q \o r) /\ (q \o r)[i] = q[i]
      BY <1>1
    <3> QED BY <3>1 DEF Members
  <2>2. ASSUME NEW i \in 1 .. Len(r) PROVE r[i] \in Members(q \o r)
    <3>1. Len(q) + i \in 1 .. Len(q \o r) /\ (q \o r)[Len(q) + i] = r[i]
      BY <1>1
    <3> QED BY <3>1 DEF Members
  <2> QED BY <2>1, <2>2 DEF Members
<1> QED BY <1>1, <1>2, <1>3

-----------------------------------------------------------------------------
(* Types. *)

USE Bounds

LEMMA EntryTypes ==
  /\ NoEntry \in Entry
  /\ \A row \in Row, e \in Entry :
       /\ Tracked(row, e) \in Entry
       /\ [e EXCEPT !.state = "CONFLICT"] \in Entry
       /\ \A a \in Answer : a # "NONE" => EntryFor(row, e, Reading(a), TRUE) \in Entry
<1>1. NoEntry \in Entry
  BY DEF NoEntry, Entry
<1>2. ASSUME NEW row \in Row, NEW e \in Entry,
             NEW st \in {"NONE", "PENDING", "CONFLICT", "ACKNOWLEDGED"}, NEW b \in BOOLEAN
      PROVE  EntryFor(row, e, st, b) \in Entry
  BY DEF EntryFor, Row, Entry
<1>3. ASSUME NEW row \in Row, NEW e \in Entry PROVE Tracked(row, e) \in Entry
  BY <1>2 DEF Tracked
<1>4. \A e \in Entry : [e EXCEPT !.state = "CONFLICT"] \in Entry
  BY DEF Entry
<1>5. \A a \in Answer : a # "NONE" => Reading(a) \in {"NONE", "PENDING", "CONFLICT", "ACKNOWLEDGED"}
  BY DEF Answer, Reading
<1> QED BY <1>1, <1>2, <1>3, <1>4, <1>5

LEMMA QueueTypes ==
  ASSUME NEW rows \in [Part -> {"absent", "ready", "dead", "parked"}]
  PROVE  /\ Parked \in [Part -> {"absent", "ready", "dead", "parked"}]
         /\ \A b \in BOOLEAN : Retained(rows, b) \in [Part -> {"absent", "ready", "dead", "parked"}]
         /\ \A a \in Answer : a # "NONE" =>
              Requeued(rows, a) \in [Part -> {"absent", "ready", "dead", "parked"}]
<1>1. \A b \in BOOLEAN : Retained(rows, b) \in [Part -> {"absent", "ready", "dead", "parked"}]
  BY DEF Retained
<1>2. Cleared(rows) \in [Part -> {"absent", "ready", "dead", "parked"}]
  BY DEF Cleared
<1>3. Parked \in [Part -> {"absent", "ready", "dead", "parked"}]
  BY DEF Parked
<1>4. \A a \in Answer : a # "NONE" => Reading(a) \in {"PENDING", "CONFLICT", "ACKNOWLEDGED"}
  BY DEF Answer, Reading
<1> QED BY <1>1, <1>2, <1>3, <1>4 DEF Requeued

LEMMA VoidTypes ==
  /\ NoCall.row \in Row /\ NoCall.previous \in Entry /\ NoCall.at = "none"
  /\ NoCall \in [at : {"none", "committed", "read"}, row : Row, previous : Entry]
  /\ [NoCall EXCEPT !.at = "committed"] \in [at : {"none", "committed", "read"}, row : Row, previous : Entry]
  /\ NoRun \in Run /\ NoRun.stage = "discover" /\ NoRun.by = Nobody
BY EntryTypes DEF NoCall, NoRun, Run, Row, Version, Answer, Nobody

LEMMA InitTypes ==
  Init => TypeOK /\ AgendaIsSound
<1>1. ASSUME Init PROVE TypeOK
  <2>1. \A s \in Shift : shift[s] \in Row /\ entries[s] \in Entry
    BY <1>1, VoidTypes, EntryTypes DEF Init
  <2>2. run \in Run /\ run.stage = "discover"
    BY <1>1, VoidTypes DEF Init
  <2>3. shift \in [Shift -> Row] /\ entries \in [Shift -> Entry]
    BY <1>1, <2>1 DEF Init
  <2>4. cloud \in [Shift -> [Part -> 0 .. MaxVersion]] /\ faults \in 0 .. MaxFaults
    BY <1>1 DEF Init
  <2>5. call \in [Shift -> [at : {"none", "committed", "read"}, row : Row, previous : Entry]]
    BY <1>1, VoidTypes DEF Init
  <2> QED BY <1>1, <2>2, <2>3, <2>4, <2>5 DEF Init, TypeOK
<1> QED BY <1>1, VoidTypes DEF Init, AgendaIsSound

\* What the world does to the rows.
LEMMA WorldTypes ==
  ASSUME TypeOK, NEW s \in Shift, World(s)
  PROVE  TypeOK' /\ run' = run
<1>1. ASSUME NEW parts, Enqueue(s, parts)
      PROVE  queue' \in [Shift -> [Part -> {"absent", "ready", "dead", "parked"}]]
  BY <1>1 DEF Enqueue, TypeOK
<1>2. ASSUME Notify(s)
      PROVE  call' \in [Shift -> [at : {"none", "committed", "read"}, row : Row, previous : Entry]]
  BY <1>2, VoidTypes DEF Notify, TypeOK
<1>3. CASE Close(s)
  <2>1. shift' \in [Shift -> Row]
    BY <1>3 DEF Close, TypeOK, Row, Version
  <2> QED BY <1>1, <1>2, <1>3, <2>1 DEF Close, TypeOK
<1>4. CASE Resave(s)
  <2>1. shift' \in [Shift -> Row]
    <3>1. shift[s] \in Row
      BY DEF TypeOK
    <3>2. CASE shift[s].manifest < MaxVersion /\ shift' = [shift EXCEPT ![s].manifest = @ + 1]
      <4>1. shift[s].manifest + 1 \in 0 .. MaxVersion
        BY <3>1, <3>2 DEF Row
      <4>2. [shift[s] EXCEPT !.manifest = @ + 1] \in Row
        BY <3>1, <4>1 DEF Row
      <4> QED BY <3>2, <4>2 DEF TypeOK
    <3> QED BY <1>4, <3>2 DEF Resave, TypeOK
  <2> QED BY <1>1, <1>2, <1>4, <2>1 DEF Resave, TypeOK
<1>5. CASE Recount(s)
  <2>1. shift' \in [Shift -> Row]
    <3>1. shift[s] \in Row /\ shift[s].totals # MaxVersion
      BY <1>5 DEF TypeOK, Recount
    <3>2. shift[s].totals + 1 \in Version
      BY <3>1 DEF Row, Version
    <3>3. [shift[s] EXCEPT !.totals = @ + 1] \in Row
      BY <3>1, <3>2 DEF Row
    <3> QED BY <1>5, <3>3 DEF Recount, TypeOK
  <2> QED BY <1>1, <1>5, <2>1 DEF Recount, TypeOK
<1>6. CASE Vanish(s)
  <2>1. shift' \in [Shift -> Row]
    <3>1. shift[s] \in Row
      BY DEF TypeOK
    <3>2. [shift[s] EXCEPT !.status = "gone"] \in Row
      BY <3>1 DEF Row
    <3> QED BY <1>6, <3>2 DEF Vanish, TypeOK
  <2> QED BY <1>6, <2>1 DEF Vanish, TypeOK
<1>7. CASE Mend(s)
  <2>1. cloud' \in [Shift -> [Part -> 0 .. MaxVersion]]
    <3>1. PICK p \in Part : cloud' = [cloud EXCEPT ![s][p] = 0]
      BY <1>7 DEF Mend
    <3>2. cloud \in [Shift -> [Part -> 0 .. MaxVersion]] /\ 0 \in 0 .. MaxVersion
      BY DEF TypeOK
    <3> QED BY <3>1, <3>2
  <2> QED BY <1>7, <2>1 DEF Mend, TypeOK
<1> QED BY <1>3, <1>4, <1>5, <1>6, <1>7 DEF World

\* The callbacks, the deliveries and the phases of the workers.
Aside ==
  \/ \E s \in Shift : Callback(s) \/ World(s) \/ \E p \in Part : Deliver(s, p)
  \/ \E w \in Worker : EnsureStarted(w) \/ EndPush(w)
  \/ UNCHANGED vars

LEMMA AsideTypes ==
  ASSUME TypeOK, Aside
  PROVE  TypeOK' /\ run' = run
<1>1. ASSUME NEW s \in Shift, Callback(s) PROVE TypeOK' /\ run' = run
  <2>1. CASE ReadForCall(s)
    <3>1. call' \in [Shift -> [at : {"none", "committed", "read"}, row : Row, previous : Entry]]
      BY <2>1, VoidTypes DEF ReadForCall, TypeOK
    <3> QED BY <2>1, <3>1 DEF ReadForCall, TypeOK
  <2>2. CASE PersistForCall(s)
    <3>1. call' \in [Shift -> [at : {"none", "committed", "read"}, row : Row, previous : Entry]]
      BY <2>2, VoidTypes DEF PersistForCall, TypeOK
    <3>2. Tracked(call[s].row, call[s].previous) \in Entry
      BY EntryTypes DEF TypeOK
    <3>3. entries' \in [Shift -> Entry]
      BY <2>2, <3>2 DEF PersistForCall, TypeOK
    <3> QED BY <2>2, <3>1, <3>3 DEF PersistForCall, TypeOK
  <2> QED BY <1>1, <2>1, <2>2 DEF Callback
<1>2. ASSUME NEW s \in Shift, NEW p \in Part, Deliver(s, p) PROVE TypeOK' /\ run' = run
  <2>1. Content(shift[s], p) \in 0 .. MaxVersion
    BY DEF TypeOK, Content, Row, Version
  <2>2. cloud' \in [Shift -> [Part -> 0 .. MaxVersion]]
    <3>1. cloud \in [Shift -> [Part -> 0 .. MaxVersion]]
      BY DEF TypeOK
    <3> DEFINE new == Content(shift[s], p)
    <3>2. cloud' = cloud \/ cloud' = [cloud EXCEPT ![s][p] = new]
      BY <1>2 DEF Deliver
    <3> HIDE DEF new
    <3> QED BY <2>1, <3>1, <3>2 DEF new
  <2>3. queue' \in [Shift -> [Part -> {"absent", "ready", "dead", "parked"}]]
    <3>1. queue \in [Shift -> [Part -> {"absent", "ready", "dead", "parked"}]]
      BY DEF TypeOK
    <3>2. queue' = [queue EXCEPT ![s][p] = "absent"] \/ queue' = [queue EXCEPT ![s][p] = "dead"]
      BY <1>2 DEF Deliver
    <3> QED BY <3>1, <3>2
  <2>4. faults' \in 0 .. MaxFaults
    BY <1>2 DEF Deliver, TypeOK
  <2> QED BY <1>2, <2>2, <2>3, <2>4 DEF Deliver, TypeOK
<1>3. ASSUME NEW w \in Worker, EnsureStarted(w) \/ EndPush(w) PROVE TypeOK' /\ run' = run
  <2>1. phase' \in [Worker -> {"boot", "prepare", "push", "probe"}]
    BY <1>3 DEF EnsureStarted, EndPush, TypeOK
  <2>2. faults' \in 0 .. MaxFaults
    BY <1>3 DEF EnsureStarted, EndPush, TypeOK
  <2>3. started' \in BOOLEAN
    BY <1>3 DEF EnsureStarted, EndPush, TypeOK
  <2> QED BY <1>3, <2>1, <2>2, <2>3 DEF EnsureStarted, EndPush, TypeOK
<1>4. ASSUME UNCHANGED vars PROVE TypeOK' /\ run' = run
  BY <1>4 DEF vars, TypeOK
<1> QED BY <1>1, <1>2, <1>3, <1>4, WorldTypes DEF Aside

LEMMA RefreshTypes ==
  ASSUME TypeOK, AgendaIsSound, Refresh
  PROVE  TypeOK'
<1>1. CASE ReadEntries
  <2> DEFINE r0 == [run EXCEPT !.stage = "track", !.seen = entries]
             r1 == [r0 EXCEPT !.todo = NewestFirst(Found(r0)) \o NewestFirst(Orphans(r0))]
  <2>1. r0 \in Run
    BY DEF TypeOK, Run
  <2>2. Found(r0) \subseteq Shift /\ Orphans(r0) \subseteq Shift
    BY DEF Found, Orphans
  <2>3. run' = Arranged(r1)
    BY <1>1 DEF ReadEntries
  <2> HIDE DEF r0
  <2>4. NewestFirst(Found(r0)) \o NewestFirst(Orphans(r0)) \in Seq(Shift)
    BY <2>2, NewestFacts, JoinFacts DEF Enumerates
  <2>5. r1 \in Run /\ r1.stage = r0.stage
    BY <2>1, <2>4 DEF Run
  <2>6. r0.stage = "track"
    BY DEF r0, TypeOK, Run
  <2> HIDE DEF r1
  <2>7. run' \in Run /\ run'.stage \in {"track", "visit"}
    BY <2>3, <2>5, <2>6, ArrangedFacts
  <2> QED BY <1>1, <2>7 DEF ReadEntries, TypeOK
<1>2. CASE Track
  <2> DEFINE s == Head(run.todo)
             entry == IF s \in Found(run) THEN Tracked(run.found[s], run.seen[s])
                                          ELSE [run.seen[s] EXCEPT !.state = "CONFLICT"]
             r == [run EXCEPT !.seen[s] = entry, !.todo = Tail(@)]
  <2>1. run \in Run /\ s \in Shift /\ Tail(run.todo) \in Seq(Shift)
    BY <1>2, SplitFacts DEF Track, TypeOK, Run
  <2>2. entry \in Entry
    BY <2>1, EntryTypes DEF TypeOK, Run
  <2>3. run' = Arranged(r) /\ (entries' = entries \/ entries' = [entries EXCEPT ![s] = entry])
    BY <1>2 DEF Track
  <2> HIDE DEF s, entry
  <2>4. r \in Run /\ r.stage = run.stage
    BY <2>1, <2>2 DEF Run
  <2>5. entries' \in [Shift -> Entry]
    BY <2>2, <2>3 DEF TypeOK
  <2> HIDE DEF r
  <2>6. run' \in Run /\ run'.stage \in {"track", "visit"}
    BY <1>2, <2>3, <2>4, ArrangedFacts DEF Track
  <2> QED BY <1>2, <2>5, <2>6 DEF Track, TypeOK
<1>3. CASE Keep
  <2> DEFINE s == Head(run.todo)
  <2>1. s \in Shift /\ Tail(run.todo) \in Seq(Shift)
    BY <1>3, SplitFacts DEF Keep, TypeOK, Run
  <2>2. queue' = [queue EXCEPT ![s] = Parked] \/ queue' = [queue EXCEPT ![s] = Retained(@, FALSE)]
    BY <1>3 DEF Keep
  <2>3. run' = [run EXCEPT !.todo = Tail(@), !.seen[s] = NoEntry]
    BY <1>3 DEF Keep
  <2> HIDE DEF s
  <2>4. run' \in Run /\ run'.stage = run.stage
    BY <2>1, <2>3, EntryTypes DEF TypeOK, Run
  <2>5. queue' \in [Shift -> [Part -> {"absent", "ready", "dead", "parked"}]]
    <3>1. queue \in [Shift -> [Part -> {"absent", "ready", "dead", "parked"}]]
      BY DEF TypeOK
    <3>2. /\ Parked \in [Part -> {"absent", "ready", "dead", "parked"}]
          /\ Retained(queue[s], FALSE) \in [Part -> {"absent", "ready", "dead", "parked"}]
      BY <2>1, <3>1, QueueTypes
    <3> QED BY <2>2, <3>1, <3>2
  <2> QED BY <1>3, <2>4, <2>5 DEF Keep, TypeOK
<1>4. CASE Ask
  <2> DEFINE s == Head(run.todo)
             m == run.found[s].manifest
  <2>1. s \in Shift /\ s \in Ahead
    <3>1. run.todo \in Seq(Shift) /\ run.todo # <<>>
      BY <1>4 DEF Ask, TypeOK, Run
    <3>2. s \in Shift /\ s \in Members(run.todo)
      BY <3>1, SplitFacts
    <3> QED BY <3>2 DEF Ahead, Members
  <2>2. m \in Version
    <3>1. run.by # Nobody /\ run.stage \notin {"discover", "track"}
      BY <1>4 DEF Ask
    <3>2. Sound(run.found[s])
      BY <2>1, <3>1 DEF AgendaIsSound
    <3>3. run.found[s] \in Row
      BY <2>1 DEF TypeOK, Run
    <3> QED BY <3>2, <3>3 DEF Sound, Row, Version
  <2>3. Verdict(s, m) \in Answer /\ Verdict(s, m) # "NONE"
    BY DEF Verdict, Answer
  <2>4. run' \in Run /\ run'.todo = run.todo /\ run'.answer # "NONE"
    <3>1. run \in Run /\ (Spares => run.probes + 1 \in 0 .. MaxProbes)
      BY DEF TypeOK, Run, Spares
    <3>2. CASE run' = [run EXCEPT !.stage = "answered", !.answer = "UNAVAILABLE"]
      BY <3>1, <3>2 DEF Run, Answer
    <3>3. CASE run' = [run EXCEPT !.stage = "answered", !.answer = Verdict(s, m), !.probes = @ + 1]
      BY <1>4, <2>3, <3>1, <3>3 DEF Run, Ask
    <3>4. ASSUME NEW a \in {"UNAVAILABLE", "GARBLED"},
                 run' = [run EXCEPT !.stage = "answered", !.answer = a, !.probes = @ + 1,
                                    !.down = (a = "UNAVAILABLE")]
          PROVE  run' \in Run /\ run'.todo = run.todo /\ run'.answer # "NONE"
      BY <1>4, <3>1, <3>4 DEF Run, Answer, Ask
    <3> QED BY <1>4, <3>2, <3>3, <3>4 DEF Ask
  <2>5. verified' \subseteq Shift \X Version
    BY <1>4, <2>1, <2>2 DEF Ask, TypeOK
  <2>6. faults' \in 0 .. MaxFaults
    BY <1>4 DEF Ask, TypeOK
  <2> QED BY <1>4, <2>4, <2>5, <2>6 DEF Ask, TypeOK
<1>5. CASE Record
  <2> DEFINE s == Head(run.todo)
             entry == EntryFor(run.found[s], run.seen[s], Reading(run.answer), TRUE)
  <2>1. s \in Shift
    BY <1>5, SplitFacts DEF Record, TypeOK, Run
  <2>2. entry \in Entry
    BY <1>5, <2>1, EntryTypes DEF Record, TypeOK, Run
  <2>3. /\ entries' = [entries EXCEPT ![s] = entry]
        /\ run' = [run EXCEPT !.stage = "recorded", !.seen[s] = entry]
    BY <1>5 DEF Record
  <2> HIDE DEF s, entry
  <2>4. entries' \in [Shift -> Entry]
    BY <2>2, <2>3 DEF TypeOK
  <2>5. run' \in Run /\ run'.todo = run.todo /\ run'.answer = run.answer
    BY <2>1, <2>2, <2>3 DEF TypeOK, Run
  <2> QED BY <1>5, <2>4, <2>5 DEF Record, TypeOK
<1>6. CASE Requeue
  <2> DEFINE s == Head(run.todo)
  <2>1. s \in Shift /\ Tail(run.todo) \in Seq(Shift)
    BY <1>6, SplitFacts DEF Requeue, TypeOK, Run
  <2>2. queue' = [queue EXCEPT ![s] = Requeued(@, run.answer)]
    BY <1>6 DEF Requeue
  <2>3. run' = [run EXCEPT !.stage = "visit", !.todo = Tail(@), !.answer = "NONE", !.seen[s] = NoEntry]
    BY <1>6 DEF Requeue
  <2> HIDE DEF s
  <2>4. run' \in Run /\ run'.stage = "visit"
    BY <2>1, <2>3, EntryTypes DEF TypeOK, Run, Answer
  <2>5. queue' \in [Shift -> [Part -> {"absent", "ready", "dead", "parked"}]]
    <3>1. run.answer \in Answer /\ run.answer # "NONE"
      BY <1>6 DEF Requeue, TypeOK, Run
    <3> QED BY <2>1, <2>2, <3>1, QueueTypes DEF TypeOK
  <2> QED BY <1>6, <2>4, <2>5 DEF Requeue, TypeOK
<1>7. CASE Finish
  BY <1>7, VoidTypes DEF Finish, TypeOK
<1> QED BY <1>1, <1>2, <1>3, <1>4, <1>5, <1>6, <1>7 DEF Refresh

LEMMA DiscoverTypes ==
  ASSUME TypeOK, NEW w \in Worker, Discover(w)
  PROVE  TypeOK' /\ run'.stage = "discover" /\ run'.found = shift /\ run'.seen = NoRun.seen
<1>1. run' = [NoRun EXCEPT !.by = w, !.found = shift]
  BY DEF Discover, Discovered
<1>2. run' \in Run /\ run'.stage = "discover" /\ run'.found = shift /\ run'.seen = NoRun.seen
  BY <1>1, VoidTypes DEF TypeOK, Run, NoRun
<1> QED BY <1>2 DEF Discover, TypeOK

LEMMA CrashTypes ==
  ASSUME TypeOK, Crash
  PROVE  TypeOK' /\ run' = NoRun
<1>1. faults' \in 0 .. MaxFaults
  BY DEF Crash, TypeOK
<1> QED BY <1>1, VoidTypes DEF Crash, TypeOK

-----------------------------------------------------------------------------
(* What the steps of a refresh do to what it still has to work on. *)

\* The agenda of a run, and what its entries may have become.
SoundAgenda(r) == Distinct(r.todo) /\ \A s \in Members(r.todo) : Sound(r.found[s])
SameCloses == run'.by = run.by /\ run'.found = run.found /\ Found(run)' = Found(run)

LEMMA AgendaMeans ==
  AgendaIsSound <=> (run.by # Nobody /\ run.stage \notin {"discover", "track"} => SoundAgenda(run))
BY DEF AgendaIsSound, SoundAgenda, Distinct, Members, Ahead

LEMMA AheadMeans ==
  Ahead = Members(run.todo)
BY DEF Ahead, Members

LEMMA ArrangedMeans ==
  ASSUME NEW r \in Run, run' = Arranged(r), r.by = run.by, r.found = run.found, r.answer = run.answer
  PROVE  /\ SameCloses /\ run'.answer = run.answer
         /\ \/ run'.stage = r.stage /\ Ahead' = Members(r.todo)
            \/ run'.stage = "visit" /\ r.todo = <<>> /\ SoundAgenda(run')
         /\ \A s \in Shift : run'.seen[s] = r.seen[s] \/ run'.seen[s] = NoEntry
<1>1. run'.by = r.by /\ run'.found = r.found /\ run'.answer = r.answer
  BY ArrangedFacts
<1>2. SameCloses /\ run'.answer = run.answer
  BY <1>1 DEF SameCloses, Found
<1>3. CASE r.todo # <<>> /\ run' = r
  BY <1>2, <1>3, AheadMeans DEF Ahead, Members
<1>4. CASE /\ r.todo = <<>> /\ run'.stage = "visit"
           /\ \A i, j \in 1 .. Len(run'.todo) : run'.todo[i] = run'.todo[j] => i = j
           /\ \A i \in 1 .. Len(run'.todo) : Sound(r.found[run'.todo[i]])
           /\ \A s \in Shift : run'.seen[s] = r.seen[s] \/ run'.seen[s] = NoEntry
  <2>1. SoundAgenda(run')
    BY <1>1, <1>4 DEF SoundAgenda, Distinct, Members
  <2> QED BY <1>2, <1>4, <2>1
<1> QED BY <1>3, <1>4, ArrangedFacts

LEMMA ReadEffect ==
  ASSUME TypeOK, ReadEntries
  PROVE  /\ SameCloses
         /\ \/ run'.stage = "track" /\ Found(run) \subseteq Ahead'
            \/ run'.stage = "visit" /\ Found(run) = {} /\ SoundAgenda(run')
         /\ \A s \in Shift : run'.seen[s] = entries[s] \/ run'.seen[s] = NoEntry
<1> DEFINE r0 == [run EXCEPT !.stage = "track", !.seen = entries]
           r1 == [r0 EXCEPT !.todo = NewestFirst(Found(r0)) \o NewestFirst(Orphans(r0))]
<1>1. r0 \in Run /\ r0.found = run.found /\ r0.by = run.by /\ r0.answer = run.answer
      /\ r0.stage = "track" /\ r0.seen = entries
  BY DEF TypeOK, Run
<1>2. Found(r0) \subseteq Shift /\ Orphans(r0) \subseteq Shift
  BY DEF Found, Orphans
<1>3. run' = Arranged(r1)
  BY DEF ReadEntries
<1>4. Found(r0) = Found(run)
  BY <1>1 DEF Found
<1> HIDE DEF r0
<1>5. /\ NewestFirst(Found(r0)) \o NewestFirst(Orphans(r0)) \in Seq(Shift)
      /\ Found(r0) \subseteq Members(NewestFirst(Found(r0)) \o NewestFirst(Orphans(r0)))
  BY <1>2, NewestFacts, JoinFacts DEF Enumerates
<1>6. /\ r1 \in Run /\ r1.found = r0.found /\ r1.by = r0.by /\ r1.answer = r0.answer
      /\ r1.stage = "track" /\ r1.seen = entries
      /\ r1.todo = NewestFirst(Found(r0)) \o NewestFirst(Orphans(r0))
  BY <1>1, <1>5 DEF Run
<1> HIDE DEF r1
<1>7. Members(<<>>) = {}
  BY DEF Members
<1>8. Found(run) \subseteq Members(r1.todo)
  BY <1>4, <1>5, <1>6
<1> QED BY <1>1, <1>3, <1>6, <1>7, <1>8, ArrangedMeans

LEMMA TrackEffect ==
  ASSUME TypeOK, Track
  PROVE  LET s == Head(run.todo)
             entry == IF s \in Found(run) THEN Tracked(run.found[s], run.seen[s])
                                          ELSE [run.seen[s] EXCEPT !.state = "CONFLICT"]
         IN  /\ SameCloses /\ s \in Shift
             /\ \/ run'.stage = "track" /\ Ahead = {s} \union Ahead'
                \/ run'.stage = "visit" /\ Ahead = {s} /\ SoundAgenda(run')
             /\ \A x \in Shift : \/ run'.seen[x] = NoEntry
                                 \/ x = s /\ run'.seen[x] = entry
                                 \/ x # s /\ run'.seen[x] = run.seen[x]
<1> DEFINE s == Head(run.todo)
           entry == IF s \in Found(run) THEN Tracked(run.found[s], run.seen[s])
                                        ELSE [run.seen[s] EXCEPT !.state = "CONFLICT"]
           r == [run EXCEPT !.seen[s] = entry, !.todo = Tail(@)]
<1>1. /\ run \in Run /\ s \in Shift /\ Tail(run.todo) \in Seq(Shift)
      /\ Ahead = {s} \union Members(Tail(run.todo))
  BY SplitFacts, AheadMeans DEF Track, TypeOK, Run
<1>2. entry \in Entry
  BY <1>1, EntryTypes DEF TypeOK, Run
<1>3. run' = Arranged(r) /\ run.stage = "track"
  BY DEF Track
<1> HIDE DEF s, entry
<1>4. /\ r \in Run /\ r.stage = "track" /\ r.by = run.by /\ r.found = run.found
      /\ r.answer = run.answer /\ r.todo = Tail(run.todo)
      /\ r.seen = [run.seen EXCEPT ![s] = entry]
  BY <1>1, <1>2, <1>3 DEF Run
<1>5. \A x \in Shift : r.seen[x] = IF x = s THEN entry ELSE run.seen[x]
  BY <1>1, <1>4 DEF Run
<1> HIDE DEF r
<1>6. Members(<<>>) = {}
  BY DEF Members
<1>7. /\ SameCloses
      /\ \/ run'.stage = "track" /\ Ahead' = Members(r.todo)
         \/ run'.stage = "visit" /\ r.todo = <<>> /\ SoundAgenda(run')
      /\ \A x \in Shift : run'.seen[x] = r.seen[x] \/ run'.seen[x] = NoEntry
  BY <1>3, <1>4, ArrangedMeans
<1>8. \A x \in Shift : \/ run'.seen[x] = NoEntry
                       \/ x = s /\ run'.seen[x] = entry
                       \/ x # s /\ run'.seen[x] = run.seen[x]
  BY <1>5, <1>7
<1> QED BY <1>1, <1>4, <1>6, <1>7, <1>8 DEF s, entry

\* A shift is done with.
LEMMA DoneEffect ==
  ASSUME TypeOK, AgendaIsSound, Keep \/ Requeue
  PROVE  /\ SameCloses /\ run'.stage = "visit" /\ SoundAgenda(run')
         /\ Head(run.todo) \in Ahead /\ Head(run.todo) \in Shift
         /\ Ahead' = Ahead \ {Head(run.todo)}
         /\ \A x \in Shift : run'.seen[x] = run.seen[x] \/ run'.seen[x] = NoEntry
<1> DEFINE s == Head(run.todo)
<1>1. run.todo # <<>> /\ run.todo \in Seq(Shift) /\ SoundAgenda(run)
  BY AgendaMeans DEF TypeOK, Run, Keep, Requeue
<1>2. /\ s \in Shift /\ Members(run.todo) = {s} \union Members(Tail(run.todo))
      /\ Distinct(Tail(run.todo)) /\ s \notin Members(Tail(run.todo))
  BY <1>1, SplitFacts DEF SoundAgenda
<1>3. \/ run' = [run EXCEPT !.todo = Tail(@), !.seen[s] = NoEntry] /\ run.stage = "visit"
      \/ run' = [run EXCEPT !.stage = "visit", !.todo = Tail(@), !.answer = "NONE", !.seen[s] = NoEntry]
  BY DEF Keep, Requeue
<1> HIDE DEF s
<1>4. /\ run'.by = run.by /\ run'.found = run.found /\ run'.stage = "visit"
      /\ run'.todo = Tail(run.todo) /\ run'.seen = [run.seen EXCEPT ![s] = NoEntry]
  BY <1>3 DEF TypeOK, Run
<1>5. SoundAgenda(run')
  BY <1>1, <1>2, <1>4 DEF SoundAgenda
<1>6. Ahead = Members(run.todo) /\ Ahead' = Members(Tail(run.todo))
  BY <1>4, AheadMeans DEF Ahead, Members
<1>7. Ahead' = Ahead \ {s} /\ s \in Ahead
  BY <1>2, <1>6
<1>8. \A x \in Shift : run'.seen[x] = run.seen[x] \/ run'.seen[x] = NoEntry
  BY <1>4 DEF TypeOK, Run
<1>9. SameCloses
  BY <1>4 DEF SameCloses, Found
<1> QED BY <1>2, <1>4, <1>5, <1>7, <1>8, <1>9 DEF s

LEMMA AskEffect ==
  ASSUME TypeOK, AgendaIsSound, Ask
  PROVE  /\ SameCloses /\ run'.stage = "answered" /\ SoundAgenda(run') /\ run'.todo = run.todo
         /\ Ahead' = Ahead /\ run'.seen = run.seen
         /\ Head(run.todo) \in Shift /\ Sound(run.found[Head(run.todo)])
         /\ run'.answer = "ACKNOWLEDGED" =>
              /\ \A p \in Part : cloud[Head(run.todo)][p] = run.found[Head(run.todo)].manifest
              /\ <<Head(run.todo), run.found[Head(run.todo)].manifest>> \in verified'
<1> DEFINE s == Head(run.todo)
           m == run.found[s].manifest
<1>1. run.todo # <<>> /\ run.todo \in Seq(Shift) /\ SoundAgenda(run) /\ run \in Run
  BY AgendaMeans DEF TypeOK, Run, Ask
<1>2. s \in Shift /\ s \in Members(run.todo)
  BY <1>1, SplitFacts
<1>3. Sound(run.found[s])
  BY <1>1, <1>2 DEF SoundAgenda
<1>4. \/ run' = [run EXCEPT !.stage = "answered", !.answer = "UNAVAILABLE"]
      \/ run' = [run EXCEPT !.stage = "answered", !.answer = Verdict(s, m), !.probes = @ + 1]
         /\ verified' = IF Verdict(s, m) = "ACKNOWLEDGED" THEN verified \union {<<s, m>>} ELSE verified
      \/ \E a \in {"UNAVAILABLE", "GARBLED"} :
            run' = [run EXCEPT !.stage = "answered", !.answer = a, !.probes = @ + 1,
                               !.down = (a = "UNAVAILABLE")]
  BY DEF Ask
<1>5. Verdict(s, m) = "ACKNOWLEDGED" => \A p \in Part : cloud[s][p] = m
  BY DEF Verdict
<1> HIDE DEF s, m
<1>6. /\ run'.by = run.by /\ run'.found = run.found /\ run'.stage = "answered"
      /\ run'.todo = run.todo /\ run'.seen = run.seen
      /\ \/ run'.answer \in {"UNAVAILABLE", "GARBLED"}
         \/ run'.answer = Verdict(s, m)
            /\ verified' = IF Verdict(s, m) = "ACKNOWLEDGED" THEN verified \union {<<s, m>>} ELSE verified
  <2>1. CASE run' = [run EXCEPT !.stage = "answered", !.answer = "UNAVAILABLE"]
    BY <1>1, <2>1 DEF Run
  <2>2. CASE /\ run' = [run EXCEPT !.stage = "answered", !.answer = Verdict(s, m), !.probes = @ + 1]
             /\ verified' = IF Verdict(s, m) = "ACKNOWLEDGED" THEN verified \union {<<s, m>>} ELSE verified
    BY <1>1, <2>2 DEF Run
  <2>3. ASSUME NEW a \in {"UNAVAILABLE", "GARBLED"},
               run' = [run EXCEPT !.stage = "answered", !.answer = a, !.probes = @ + 1,
                                  !.down = (a = "UNAVAILABLE")]
        PROVE  /\ run'.by = run.by /\ run'.found = run.found /\ run'.stage = "answered"
               /\ run'.todo = run.todo /\ run'.seen = run.seen
               /\ run'.answer \in {"UNAVAILABLE", "GARBLED"}
    BY <1>1, <2>3 DEF Run
  <2> QED BY <1>4, <2>1, <2>2, <2>3
<1>7. run'.answer = "ACKNOWLEDGED" => (\A p \in Part : cloud[s][p] = m) /\ <<s, m>> \in verified'
  BY <1>5, <1>6
<1>8. SoundAgenda(run')
  BY <1>1, <1>6 DEF SoundAgenda
<1>9. SameCloses /\ Ahead' = Ahead
  BY <1>6 DEF SameCloses, Found, Ahead
<1> QED BY <1>2, <1>3, <1>6, <1>7, <1>8, <1>9 DEF s, m

LEMMA RecordEffect ==
  ASSUME TypeOK, AgendaIsSound, Record
  PROVE  LET s == Head(run.todo)
             entry == EntryFor(run.found[s], run.seen[s], Reading(run.answer), TRUE)
         IN  /\ SameCloses /\ run'.stage = "recorded" /\ SoundAgenda(run') /\ run'.todo = run.todo
             /\ Ahead' = Ahead /\ run'.answer = run.answer /\ s \in Shift
             /\ \A x \in Shift : \/ x = s /\ run'.seen[x] = entry
                                 \/ x # s /\ run'.seen[x] = run.seen[x]
<1> DEFINE s == Head(run.todo)
           entry == EntryFor(run.found[s], run.seen[s], Reading(run.answer), TRUE)
<1>1. run.todo # <<>> /\ run.todo \in Seq(Shift) /\ SoundAgenda(run) /\ run \in Run
  BY AgendaMeans DEF TypeOK, Run, Record
<1>2. s \in Shift
  BY <1>1
<1>3. run' = [run EXCEPT !.stage = "recorded", !.seen[s] = entry]
  BY DEF Record
<1> HIDE DEF s, entry
<1>4. /\ run'.by = run.by /\ run'.found = run.found /\ run'.stage = "recorded"
      /\ run'.todo = run.todo /\ run'.answer = run.answer /\ run'.seen = [run.seen EXCEPT ![s] = entry]
  BY <1>1, <1>3 DEF Run
<1>5. SoundAgenda(run')
  BY <1>1, <1>4 DEF SoundAgenda
<1>6. SameCloses /\ Ahead' = Ahead
  BY <1>4 DEF SameCloses, Found, Ahead
<1>7. \A x \in Shift : \/ x = s /\ run'.seen[x] = entry
                       \/ x # s /\ run'.seen[x] = run.seen[x]
  BY <1>1, <1>2, <1>4 DEF Run
<1> QED BY <1>2, <1>4, <1>5, <1>6, <1>7 DEF s, entry

\* The steps of a refresh, the others of the threads that run them, and the rest.
LEMMA Steps ==
  ASSUME [Next]_vars
  PROVE  Aside \/ Refresh \/ Crash \/ \E w \in Worker : Discover(w)
BY DEF Next, Aside, Cycle

LEMMA AgendaStep ==
  ASSUME TypeOK, AgendaIsSound, [Next]_vars
  PROVE  TypeOK' /\ AgendaIsSound'
<1>1. CASE Aside
  <2>1. TypeOK' /\ run' = run
    BY <1>1, AsideTypes
  <2> QED BY <2>1 DEF AgendaIsSound, Ahead
<1>2. CASE Refresh
  <2>1. TypeOK'
    BY <1>2, RefreshTypes
  <2>2. CASE Finish
    <3>1. run' = NoRun
      BY <2>2 DEF Finish
    <3> QED BY <2>1, <3>1, VoidTypes DEF AgendaIsSound
  <2>3. CASE ~Finish
    <3>1. run'.stage = "track" \/ SoundAgenda(run')
      BY <1>2, <2>3, ReadEffect, TrackEffect, DoneEffect, AskEffect, RecordEffect DEF Refresh
    <3>2. AgendaIsSound'
      BY <3>1 DEF AgendaIsSound, SoundAgenda, Distinct, Members, Ahead
    <3> QED BY <2>1, <3>2
  <2> QED BY <2>2, <2>3
<1>3. CASE Crash
  BY <1>3, CrashTypes, VoidTypes DEF AgendaIsSound
<1>4. ASSUME NEW w \in Worker, Discover(w) PROVE TypeOK' /\ AgendaIsSound'
  BY <1>4, DiscoverTypes DEF AgendaIsSound
<1> QED BY <1>1, <1>2, <1>3, <1>4, Steps

-----------------------------------------------------------------------------
(* No acknowledgement without proof. *)

LEMMA TrackedFacts ==
  ASSUME NEW row, NEW e
  PROVE  /\ ~ (Sound(row) /\ Proven(row, e)) => Tracked(row, e).state \in {"PENDING", "CONFLICT"}
         /\ Sound(row) /\ Proven(row, e) => Tracked(row, e) = e
<1>1. \A st, b : EntryFor(row, e, st, b).state = st
  BY DEF EntryFor
<1>2. CASE ~Sound(row) \/ Changed(row, e)
  <2>1. Tracked(row, e) = EntryFor(row, e, "CONFLICT", FALSE)
    BY <1>2 DEF Tracked, Proven, Changed
  <2>2. ~ (Sound(row) /\ Proven(row, e))
    BY <1>2 DEF Proven, Changed
  <2> QED BY <1>1, <2>1, <2>2
<1>3. CASE Sound(row) /\ ~Changed(row, e) /\ Proven(row, e)
  BY <1>3 DEF Tracked
<1>4. CASE Sound(row) /\ ~Changed(row, e) /\ ~Proven(row, e)
  <2>1. \/ Tracked(row, e) = EntryFor(row, e, "CONFLICT", FALSE)
        \/ Tracked(row, e) = EntryFor(row, e, "PENDING", FALSE)
    BY <1>4 DEF Tracked
  <2> QED BY <1>1, <1>4, <2>1
<1> QED BY <1>2, <1>3, <1>4

LEMMA EarnedGrows ==
  ASSUME NEW s, NEW e, Earned(s, e), verified \subseteq verified'
  PROVE  Earned(s, e)'
BY DEF Earned

LEMMA NothingEarned ==
  ASSUME NEW s
  PROVE  Earned(s, NoEntry) /\ Earned(s, NoCall.previous) /\ NoCall.at = "none"
BY DEF Earned, NoEntry, NoCall

LEMMA VerifiedGrows ==
  ASSUME [Next]_vars
  PROVE  verified \subseteq verified'
<1>1. CASE Aside
  BY <1>1 DEF Aside, Callback, ReadForCall, PersistForCall, World, Close, Resave, Recount, Vanish,
     Mend, Deliver, EnsureStarted, EndPush, vars
<1>2. CASE Refresh
  BY <1>2 DEF Refresh, ReadEntries, Track, Keep, Ask, Record, Requeue, Finish
<1>3. CASE Crash \/ \E w \in Worker : Discover(w)
  BY <1>3 DEF Crash, Discover
<1> QED BY <1>1, <1>2, <1>3, Steps

\* What a refresh writes: an entry is as proven as the one it read, or as the answer.
LEMMA WrittenIsEarned ==
  ASSUME TypeOK, ReadsAreEarned, NEW s \in Shift
  PROVE  /\ Earned(s, Tracked(run.found[s], run.seen[s]))
         /\ Earned(s, [run.seen[s] EXCEPT !.state = "CONFLICT"])
         /\ run.stage = "answered" /\ s = Head(run.todo) =>
              Earned(s, EntryFor(run.found[s], run.seen[s], Reading(run.answer), TRUE))
<1>1. Earned(s, run.seen[s]) /\ run.seen[s] \in Entry
  BY DEF ReadsAreEarned, TypeOK, Run
<1>2. Earned(s, Tracked(run.found[s], run.seen[s]))
  BY <1>1, TrackedFacts DEF Earned
<1>3. [run.seen[s] EXCEPT !.state = "CONFLICT"].state = "CONFLICT"
  BY <1>1 DEF Entry
<1>4. ASSUME run.stage = "answered", s = Head(run.todo)
      PROVE  Earned(s, EntryFor(run.found[s], run.seen[s], Reading(run.answer), TRUE))
  <2> DEFINE e == EntryFor(run.found[s], run.seen[s], Reading(run.answer), TRUE)
  <2>1. e.state = Reading(run.answer) /\ e.digest = run.found[s].manifest
    BY DEF EntryFor
  <2>2. Reading(run.answer) = "ACKNOWLEDGED" => run.answer = "ACKNOWLEDGED"
    BY DEF Reading
  <2>3. run.answer = "ACKNOWLEDGED" => <<s, run.found[s].manifest>> \in verified
    BY <1>4 DEF ReadsAreEarned
  <2> QED BY <2>1, <2>2, <2>3 DEF Earned
<1> QED BY <1>2, <1>3, <1>4 DEF Earned

LEMMA AckEarned ==
  AckIsEarned <=> \A s \in Shift : Earned(s, entries[s])
BY DEF AckIsEarned, Earned

\* Who writes an entry.
LEMMA EntryStep ==
  ASSUME TypeOK, [Next]_vars, NEW s \in Shift
  PROVE  \/ entries'[s] = entries[s]
         \/ /\ call[s].at = "read" /\ run' = run
            /\ entries'[s] = Tracked(call[s].row, call[s].previous)
         \/ /\ Track /\ s = Head(run.todo) /\ s \in Found(run)
            /\ ~ (Sound(run.found[s]) /\ Proven(run.found[s], run.seen[s]))
            /\ entries'[s] = Tracked(run.found[s], run.seen[s])
         \/ /\ Track /\ s = Head(run.todo) /\ s \notin Found(run)
            /\ entries'[s] = [run.seen[s] EXCEPT !.state = "CONFLICT"]
         \/ /\ Record /\ s = Head(run.todo)
            /\ entries'[s] = EntryFor(run.found[s], run.seen[s], Reading(run.answer), TRUE)
<1>1. entries \in [Shift -> Entry]
  BY DEF TypeOK
<1>2. CASE Aside
  <2>1. CASE \E x \in Shift : PersistForCall(x)
    BY <1>1, <2>1 DEF PersistForCall
  <2>2. CASE ~ \E x \in Shift : PersistForCall(x)
    BY <1>2, <2>2 DEF Aside, Callback, ReadForCall, World, Close, Resave, Recount, Vanish,
       Mend, Deliver, EnsureStarted, EndPush, vars
  <2> QED BY <2>1, <2>2
<1>3. CASE Refresh
  <2>1. CASE Track
    <3> DEFINE h == Head(run.todo)
               entry == IF h \in Found(run) THEN Tracked(run.found[h], run.seen[h])
                                            ELSE [run.seen[h] EXCEPT !.state = "CONFLICT"]
               kept == h \in Found(run) /\ Sound(run.found[h]) /\ Proven(run.found[h], run.seen[h])
    <3>1. entries' = IF kept THEN entries ELSE [entries EXCEPT ![h] = entry]
      BY <2>1 DEF Track
    <3> HIDE DEF h, entry, kept
    <3>2. entries'[s] = entries[s] \/ (s = h /\ entries'[s] = entry /\ ~kept)
      <4>1. CASE kept
        BY <3>1, <4>1
      <4>2. CASE ~kept
        BY <1>1, <3>1, <4>2
      <4> QED BY <4>1, <4>2
    <3> QED BY <2>1, <3>2 DEF h, entry, kept
  <2>2. CASE Record
    <3> DEFINE h == Head(run.todo)
               entry == EntryFor(run.found[h], run.seen[h], Reading(run.answer), TRUE)
    <3>1. entries' = [entries EXCEPT ![h] = entry]
      BY <2>2 DEF Record
    <3> HIDE DEF h, entry
    <3>2. entries'[s] = entries[s] \/ (s = h /\ entries'[s] = entry)
      BY <1>1, <3>1
    <3> QED BY <2>2, <3>2 DEF h, entry
  <2> QED BY <1>3, <2>1, <2>2 DEF Refresh, ReadEntries, Keep, Ask, Requeue, Finish
<1>4. CASE Crash \/ \E w \in Worker : Discover(w)
  BY <1>4 DEF Crash, Discover
<1> QED BY <1>2, <1>3, <1>4, Steps

\* What a callback has in hand.
LEMMA CallStep ==
  ASSUME TypeOK, [Next]_vars, NEW s \in Shift
  PROVE  \/ call'[s] = call[s]
         \/ call'[s].at # "read" /\ call'[s].previous = NoEntry
         \/ /\ call'[s].previous = entries[s]
            /\ ~ (Sound(call'[s].row) /\ Proven(call'[s].row, call'[s].previous))
<1>1. call \in [Shift -> [at : {"none", "committed", "read"}, row : Row, previous : Entry]]
  BY DEF TypeOK
<1>2. /\ NoCall.at # "read" /\ NoCall.previous = NoEntry
      /\ [NoCall EXCEPT !.at = "committed"].at # "read" /\ [NoCall EXCEPT !.at = "committed"].previous = NoEntry
  BY DEF NoCall
<1>3. ASSUME NEW x \in Shift, ReadForCall(x)
      PROVE  \/ call'[s] = call[s]
             \/ call'[s].at # "read" /\ call'[s].previous = NoEntry
             \/ /\ call'[s].previous = entries[s]
                /\ ~ (Sound(call'[s].row) /\ Proven(call'[s].row, call'[s].previous))
  <2>1. CASE x # s
    BY <1>1, <1>3, <2>1 DEF ReadForCall
  <2>2. CASE x = s
    <3>1. call'[s] = IF shift[s].status = "closed" /\ (~Sound(shift[s]) \/ ~Proven(shift[s], entries[s]))
                     THEN [at |-> "read", row |-> shift[s], previous |-> entries[s]]
                     ELSE NoCall
      BY <1>1, <1>3, <2>2 DEF ReadForCall
    <3> QED BY <1>2, <3>1
  <2> QED BY <2>1, <2>2
<1>4. ASSUME NEW x \in Shift, PersistForCall(x) \/ Notify(x)
      PROVE  call'[s] = call[s] \/ (call'[s].at # "read" /\ call'[s].previous = NoEntry)
  <2>1. \/ call' = call
        \/ call' = [call EXCEPT ![x] = NoCall]
        \/ call' = [call EXCEPT ![x] = [NoCall EXCEPT !.at = "committed"]]
    BY <1>4 DEF PersistForCall, Notify
  <2> DEFINE noted == [NoCall EXCEPT !.at = "committed"]
  <2>2. NoCall.previous = NoEntry /\ noted.previous = NoEntry /\ NoCall.at # "read" /\ noted.at # "read"
    BY <1>2
  <2> HIDE DEF noted
  <2>3. call'[s] \in {call[s], NoCall, noted}
    BY <1>1, <2>1 DEF noted
  <2> QED BY <2>2, <2>3
<1>5. CASE Aside
  <2>1. CASE \E x \in Shift : Callback(x)
    BY <1>3, <1>4, <2>1 DEF Callback
  <2>2. CASE \E x \in Shift : Close(x) \/ Resave(x)
    BY <1>4, <2>2 DEF Close, Resave
  <2>3. CASE ~ \E x \in Shift : Callback(x) \/ Close(x) \/ Resave(x)
    BY <1>5, <2>3 DEF Aside, World, Recount, Vanish, Mend, Deliver, EnsureStarted, EndPush, vars
  <2> QED BY <2>1, <2>2, <2>3
<1>6. CASE Refresh
  BY <1>6 DEF Refresh, ReadEntries, Track, Keep, Ask, Record, Requeue, Finish
<1>7. CASE Crash
  BY <1>2, <1>7 DEF Crash
<1>8. CASE \E w \in Worker : Discover(w)
  BY <1>8 DEF Discover
<1> QED BY <1>5, <1>6, <1>7, <1>8, Steps

\* What a refresh has in hand.
LEMMA SeenStep ==
  ASSUME TypeOK, AgendaIsSound, [Next]_vars, NEW s \in Shift
  PROVE  \/ run'.seen[s] \in {run.seen[s], entries[s], NoEntry}
         \/ run'.seen[s] = Tracked(run.found[s], run.seen[s])
         \/ run'.seen[s] = [run.seen[s] EXCEPT !.state = "CONFLICT"]
         \/ /\ run.stage = "answered" /\ s = Head(run.todo)
            /\ run'.seen[s] = EntryFor(run.found[s], run.seen[s], Reading(run.answer), TRUE)
<1>1. NoRun.seen[s] = NoEntry
  BY DEF NoRun
<1>2. CASE Aside
  BY <1>2, AsideTypes
<1>3. CASE Refresh
  <2>1. CASE ReadEntries
    BY <2>1, ReadEffect
  <2>2. CASE Track
    BY <2>2, TrackEffect
  <2>3. CASE Keep \/ Requeue
    BY <2>3, DoneEffect
  <2>4. CASE Ask
    BY <2>4, AskEffect
  <2>5. CASE Record
    <3>1. run.stage = "answered"
      BY <2>5 DEF Record
    <3> QED BY <2>5, <3>1, RecordEffect
  <2>6. CASE Finish
    BY <1>1, <2>6 DEF Finish
  <2> QED BY <1>3, <2>1, <2>2, <2>3, <2>4, <2>5, <2>6 DEF Refresh
<1>4. CASE Crash
  BY <1>1, <1>4, CrashTypes
<1>5. ASSUME NEW w \in Worker, Discover(w) PROVE run'.seen[s] = NoEntry
  BY <1>1, <1>5, DiscoverTypes
<1> QED BY <1>2, <1>3, <1>4, <1>5, Steps

\* The answer a refresh has in hand is the cloud's.
LEMMA AnswerStep ==
  ASSUME TypeOK, AgendaIsSound, ReadsAreEarned, [Next]_vars,
         run'.stage = "answered", run'.answer = "ACKNOWLEDGED"
  PROVE  <<Head(run'.todo), run'.found[Head(run'.todo)].manifest>> \in verified'
<1>1. verified \subseteq verified'
  BY VerifiedGrows
<1>2. CASE run' = run
  BY <1>1, <1>2 DEF ReadsAreEarned
<1>3. CASE Ask
  BY <1>3, AskEffect DEF SameCloses
<1>4. CASE Refresh /\ ~Ask
  <2>1. CASE Finish
    BY <2>1, VoidTypes DEF Finish
  <2> QED BY <1>4, <2>1, ReadEffect, TrackEffect, DoneEffect, RecordEffect DEF Refresh
<1>5. CASE Crash
  BY <1>5, CrashTypes, VoidTypes
<1>6. CASE \E w \in Worker : Discover(w)
  BY <1>6, DiscoverTypes
<1> QED BY <1>2, <1>3, <1>4, <1>5, <1>6, AsideTypes, Steps

LEMMA EarnedStep ==
  ASSUME TypeOK, AgendaIsSound, AckIsEarned, ReadsAreEarned, CallsAreUnproven, [Next]_vars
  PROVE  AckIsEarned' /\ ReadsAreEarned' /\ CallsAreUnproven'
<1>1. verified \subseteq verified'
  BY VerifiedGrows
<1>2. \A s \in Shift : Earned(s, entries[s]) /\ Earned(s, call[s].previous) /\ Earned(s, run.seen[s])
  BY AckEarned DEF ReadsAreEarned
<1>3. ASSUME NEW s \in Shift PROVE Earned(s, entries'[s])
  <2>1. call[s].at = "read" => Tracked(call[s].row, call[s].previous).state \in {"PENDING", "CONFLICT"}
    BY TrackedFacts DEF CallsAreUnproven
  <2>2. call[s].at = "read" => Earned(s, Tracked(call[s].row, call[s].previous))
    BY <2>1 DEF Earned
  <2>3. Record => run.stage = "answered"
    BY DEF Record
  <2> QED BY <1>2, <2>2, <2>3, EntryStep, WrittenIsEarned
<1>4. ASSUME NEW s \in Shift PROVE Earned(s, call'[s].previous)
  BY <1>2, CallStep, NothingEarned
<1>5. ASSUME NEW s \in Shift PROVE Earned(s, run'.seen[s])
  BY <1>2, SeenStep, NothingEarned, WrittenIsEarned
<1>6. AckIsEarned'
  BY <1>1, <1>3 DEF AckIsEarned, Earned
<1>7. ReadsAreEarned'
  BY <1>1, <1>4, <1>5, AnswerStep DEF ReadsAreEarned, Earned
<1>8. CallsAreUnproven'
  BY CallStep DEF CallsAreUnproven
<1> QED BY <1>6, <1>7, <1>8

-----------------------------------------------------------------------------
(* A sync reported clear. *)

\* What is left to say of a close when the refresh has tracked it.
Covered(s) ==
  \/ entries[s].state \in {"PENDING", "CONFLICT"}
  \/ <<s, run.found[s].manifest>> \in verified

\* Whoever writes the entry of a tracked close leaves it open, or verified.
LEMMA CoveredStep ==
  ASSUME TypeOK, ClearInv, [Next]_vars, run'.found = run.found,
         NEW s \in Shift, s \in Found(run),
         Covered(s) \/ (Track /\ s = Head(run.todo))
  PROVE  Covered(s)'
<1>1. verified \subseteq verified'
  BY VerifiedGrows
<1>2. Covered(s) /\ entries'[s] = entries[s] => Covered(s)'
  BY <1>1 DEF Covered
<1>3. entries'[s].state \in {"PENDING", "CONFLICT"} => Covered(s)'
  BY DEF Covered
<1>4. CASE call[s].at = "read" /\ entries'[s] = Tracked(call[s].row, call[s].previous)
  BY <1>3, <1>4, TrackedFacts DEF ClearInv, CallsAreUnproven
<1>5. CASE /\ ~ (Sound(run.found[s]) /\ Proven(run.found[s], run.seen[s]))
           /\ entries'[s] = Tracked(run.found[s], run.seen[s])
  BY <1>3, <1>5, TrackedFacts
<1>6. CASE /\ Record /\ s = Head(run.todo)
           /\ entries'[s] = EntryFor(run.found[s], run.seen[s], Reading(run.answer), TRUE)
  <2>1. run.stage = "answered" /\ run.answer \in Answer /\ run.answer # "NONE"
    BY <1>6 DEF Record, TypeOK, Run
  <2>2. entries'[s].state = Reading(run.answer)
    BY <1>6 DEF EntryFor
  <2>3. CASE run.answer = "ACKNOWLEDGED"
    BY <1>1, <1>6, <2>1, <2>3 DEF ClearInv, ReadsAreEarned, Covered
  <2>4. CASE run.answer # "ACKNOWLEDGED"
    BY <1>3, <2>1, <2>2, <2>4 DEF Reading, Answer
  <2> QED BY <2>3, <2>4
<1>7. CASE entries'[s] = entries[s]
  <2>1. CASE Covered(s)
    BY <1>2, <1>7, <2>1
  <2>2. CASE Track /\ s = Head(run.todo)
    <3>1. CASE Sound(run.found[s]) /\ Proven(run.found[s], run.seen[s])
      <4>1. Earned(s, run.seen[s])
        BY DEF ClearInv, ReadsAreEarned
      <4> QED BY <1>1, <3>1, <4>1 DEF Earned, Proven, Covered
    <3>2. CASE ~ (Sound(run.found[s]) /\ Proven(run.found[s], run.seen[s]))
      <4> DEFINE entry == Tracked(run.found[s], run.seen[s])
      <4>1. entries' = [entries EXCEPT ![s] = entry]
        BY <2>2, <3>2 DEF Track
      <4>2. entry.state \in {"PENDING", "CONFLICT"}
        BY <3>2, TrackedFacts
      <4> HIDE DEF entry
      <4>3. entries'[s] = entry
        BY <4>1 DEF TypeOK
      <4> QED BY <1>3, <4>2, <4>3
    <3> QED BY <3>1, <3>2
  <2> QED BY <2>1, <2>2
<1> QED BY <1>4, <1>5, <1>6, <1>7, EntryStep

LEMMA TrackedMeans ==
  TrackedIsOpen <=> (run.by # Nobody /\ run.stage # "discover" =>
                       \A s \in Found(run) : (run.stage = "track" /\ s \in Ahead) \/ Covered(s))
BY DEF TrackedIsOpen, Covered

LEMMA TrackedStep ==
  ASSUME TypeOK, ClearInv, [Next]_vars
  PROVE  TrackedIsOpen'
<1>1. ASSUME SameCloses, run.stage # "discover", run.by # Nobody,
             (run'.stage = "track" /\ run.stage = "track" /\ Ahead \subseteq Ahead') \/ run.stage # "track"
      PROVE  TrackedIsOpen'
  <2>1. ASSUME NEW s \in Found(run) PROVE (run'.stage = "track" /\ s \in Ahead') \/ Covered(s)'
    <3>1. s \in Shift /\ run'.found = run.found
      BY <1>1 DEF Found, SameCloses
    <3>2. (run.stage = "track" /\ s \in Ahead) \/ Covered(s)
      BY <1>1, TrackedMeans DEF ClearInv
    <3> QED BY <1>1, <3>1, <3>2, CoveredStep
  <2> QED BY <1>1, <2>1 DEF SameCloses, TrackedIsOpen, Covered
<1>2. CASE run' = run
  <2>1. SameCloses /\ Ahead' = Ahead
    BY <1>2 DEF SameCloses, Found, Ahead
  <2>2. CASE run.stage = "discover" \/ run.by = Nobody
    BY <1>2, <2>2 DEF TrackedIsOpen
  <2> QED BY <1>1, <1>2, <2>1, <2>2
<1>3. CASE Keep \/ Requeue
  <2>1. run.by # Nobody /\ run.stage \in {"visit", "recorded"}
    BY <1>3 DEF Keep, Requeue
  <2> QED BY <1>1, <1>3, <2>1, DoneEffect DEF ClearInv
<1>4. CASE Ask
  <2>1. run.by # Nobody /\ run.stage = "visit"
    BY <1>4 DEF Ask
  <2> QED BY <1>1, <1>4, <2>1, AskEffect DEF ClearInv
<1>5. CASE Record
  <2>1. run.by # Nobody /\ run.stage = "answered"
    BY <1>5 DEF Record
  <2> QED BY <1>1, <1>5, <2>1, RecordEffect DEF ClearInv
<1>6. CASE ReadEntries
  <2>1. \A s \in Found(run) : run'.stage = "track" /\ s \in Ahead'
    BY <1>6, ReadEffect
  <2> QED BY <1>6, <2>1, ReadEffect DEF SameCloses, TrackedIsOpen
<1>7. CASE Track
  <2>1. run.by # Nobody /\ run.stage = "track"
    BY <1>7 DEF Track
  <2>2. ASSUME NEW s \in Found(run) PROVE (run'.stage = "track" /\ s \in Ahead') \/ Covered(s)'
    <3>1. s \in Shift /\ run'.found = run.found
      BY <1>7, TrackEffect DEF Found, SameCloses
    <3>2. s \in Ahead \/ Covered(s)
      BY <2>1, TrackedMeans DEF ClearInv
    <3>3. s \in Ahead => s = Head(run.todo) \/ (run'.stage = "track" /\ s \in Ahead')
      BY <1>7, TrackEffect
    <3> QED BY <1>7, <3>1, <3>2, <3>3, CoveredStep
  <2>3. SameCloses
    BY <1>7, TrackEffect
  <2> QED BY <2>2, <2>3 DEF SameCloses, TrackedIsOpen, Covered
<1>8. CASE Finish \/ Crash
  <2>1. run' = NoRun
    BY <1>8, CrashTypes DEF Finish
  <2> QED BY <2>1, VoidTypes DEF TrackedIsOpen
<1>9. CASE \E w \in Worker : Discover(w)
  BY <1>9, DiscoverTypes DEF TrackedIsOpen
<1> QED BY <1>2, <1>3, <1>4, <1>5, <1>6, <1>7, <1>8, <1>9, AsideTypes, Steps DEF Refresh

LEMMA ClearHolds ==
  Spec => [](TypeOK /\ ClearInv)
<1>1. Init => TypeOK /\ ClearInv
  <2> SUFFICES ASSUME Init PROVE TypeOK /\ ClearInv
    OBVIOUS
  <2>1. \A s \in Shift : /\ entries[s] = NoEntry /\ call[s] = NoCall /\ run.seen[s] = NoEntry
    BY DEF Init, NoRun
  <2>2. run.stage = "discover" /\ run.by = Nobody
    BY VoidTypes DEF Init
  <2> QED BY <2>1, <2>2, InitTypes, NothingEarned, AckEarned
          DEF ClearInv, ReadsAreEarned, CallsAreUnproven, TrackedIsOpen
<1>2. TypeOK /\ ClearInv /\ [Next]_vars => (TypeOK /\ ClearInv)'
  BY AgendaStep, EarnedStep, TrackedStep DEF ClearInv
<1> QED BY <1>1, <1>2, PTL DEF Spec

(* Types.  The state of the tracker, of the refresh and of the queue keeps *)
(* to its types (desktop/shift_close_sync.py).                             *)
THEOREM TypeCorrect == Spec => []TypeOK
BY ClearHolds, PTL

(* No acknowledgement without proof: whatever callbacks and refreshes      *)
(* overwrite each other, an entry is ACKNOWLEDGED for a manifest only if   *)
(* the cloud said it has verified that manifest                            *)
(* (_validated_remote_result, _track_committed_shift, _refresh).           *)
THEOREM EveryAckEarned == Spec => []AckIsEarned
<1>1. TypeOK /\ ClearInv => AckIsEarned
  BY DEF ClearInv
<1> QED BY <1>1, ClearHolds, PTL

(* A refresh that ends with no close pending or in conflict has every      *)
(* close it found verified by the cloud at the manifest it found, though   *)
(* callbacks write the entries without the lock (_refresh, get_status).    *)
THEOREM ClearMeansVerified == Spec => []ClearIsVerified
<1>1. TypeOK /\ ClearInv => ClearIsVerified
  <2> SUFFICES ASSUME TypeOK, ClearInv, run.by # Nobody, run.stage = "visit", Clear,
                      NEW s \in Found(run)
               PROVE  <<s, run.found[s].manifest>> \in verified
    BY DEF ClearIsVerified
  <2>1. Covered(s)
    BY TrackedMeans DEF ClearInv
  <2>2. s \in Shift
    BY DEF Found
  <2> QED BY <2>1, <2>2 DEF Covered, Clear
<1> QED BY <1>1, ClearHolds, PTL

-----------------------------------------------------------------------------
(* The evidence of a close. *)

\* The part itself is as it was.
SamePart(s, p) ==
  /\ Content(shift'[s], p) = Content(shift[s], p)
  /\ shift'[s].status = "closed" => shift[s].status = "closed"

\* What a step makes of a part of a bundle, here, in the queue and in the cloud.
PartMoves(s, p) ==
  \/ SamePart(s, p) /\ cloud'[s][p] = cloud[s][p] /\ queue'[s][p] = queue[s][p]
  \/ cloud'[s][p] = cloud[s][p] /\ queue'[s][p] = "ready"
  \/ SamePart(s, p) /\ queue'[s][p] = "dead"
  \/ SamePart(s, p) /\ queue'[s][p] = "absent" /\ cloud'[s][p] = Content(shift'[s], p)
  \/ SamePart(s, p) /\ queue'[s][p] = queue[s][p]
     /\ shift[s].status = "closed" /\ cloud[s][p] # Content(shift[s], p)
  \/ /\ Keep \/ Requeue
     /\ SamePart(s, p) /\ cloud'[s][p] = cloud[s][p] /\ s = Head(run.todo)
     /\ \/ queue'[s][p] \in {"parked", queue[s][p]}
        \/ run.stage = "recorded" /\ run.answer = "ACKNOWLEDGED" /\ queue[s][p] = "parked"

LEMMA WorldMoves ==
  ASSUME TypeOK, NEW x \in Shift, World(x), NEW s \in Shift, NEW p \in Part
  PROVE  PartMoves(s, p)
<1>1. /\ shift \in [Shift -> Row] /\ queue \in [Shift -> [Part -> {"absent", "ready", "dead", "parked"}]]
      /\ cloud \in [Shift -> [Part -> 0 .. MaxVersion]]
  BY DEF TypeOK
<1>2. ASSUME NEW parts, Enqueue(x, parts)
      PROVE  queue'[s][p] = IF s = x /\ p \in parts THEN "ready" ELSE queue[s][p]
  BY <1>1, <1>2 DEF Enqueue
<1>3. CASE Close(x)
  <2>1. queue'[s][p] = IF s = x THEN "ready" ELSE queue[s][p]
    BY <1>2, <1>3 DEF Close
  <2>2. cloud' = cloud /\ (s # x => shift'[s] = shift[s])
    BY <1>1, <1>3 DEF Close
  <2> QED BY <2>1, <2>2 DEF PartMoves, SamePart
<1>4. CASE Resave(x)
  <2>1. cloud' = cloud
    BY <1>4 DEF Resave
  <2>2. CASE UNCHANGED <<shift, queue>>
    BY <2>1, <2>2 DEF PartMoves, SamePart
  <2>3. CASE shift' = [shift EXCEPT ![x].manifest = @ + 1] /\ Enqueue(x, {"shift"})
    <3>1. queue'[s][p] = IF s = x /\ p = "shift" THEN "ready" ELSE queue[s][p]
      BY <1>2, <2>3
    <3>2. s # x => shift'[s] = shift[s]
      BY <1>1, <2>3
    <3>3. shift'[x].totals = shift[x].totals /\ shift'[x].status = shift[x].status
      BY <1>1, <2>3 DEF Row
    <3> QED BY <2>1, <3>1, <3>2, <3>3 DEF PartMoves, SamePart, Content, Part
  <2> QED BY <1>4, <2>2, <2>3 DEF Resave
<1>5. CASE Recount(x)
  <2>1. cloud' = cloud /\ shift' = [shift EXCEPT ![x].totals = @ + 1] /\ Enqueue(x, {"totals"})
    BY <1>5 DEF Recount
  <2>2. queue'[s][p] = IF s = x /\ p = "totals" THEN "ready" ELSE queue[s][p]
    BY <1>2, <2>1
  <2>3. s # x => shift'[s] = shift[s]
    BY <1>1, <2>1
  <2>4. shift'[x].manifest = shift[x].manifest /\ shift'[x].status = shift[x].status
    BY <1>1, <2>1 DEF Row
  <2> QED BY <2>1, <2>2, <2>3, <2>4 DEF PartMoves, SamePart, Content, Part
<1>6. CASE Vanish(x)
  <2>1. cloud' = cloud /\ queue' = queue /\ shift' = [shift EXCEPT ![x].status = "gone"]
    BY <1>6 DEF Vanish
  <2>2. s # x => shift'[s] = shift[s]
    BY <1>1, <2>1
  <2>3. /\ shift'[x].manifest = shift[x].manifest /\ shift'[x].totals = shift[x].totals
        /\ shift'[x].status = "gone"
    BY <1>1, <2>1 DEF Row
  <2> QED BY <2>1, <2>2, <2>3 DEF PartMoves, SamePart, Content
<1>7. CASE Mend(x)
  <2>1. PICK y \in Part : /\ cloud[x][y] \notin {0, Content(shift[x], y)}
                         /\ cloud' = [cloud EXCEPT ![x][y] = 0]
    BY <1>7 DEF Mend
  <2>2. shift' = shift /\ queue' = queue /\ shift[x].status = "closed"
    BY <1>7 DEF Mend
  <2>3. s # x \/ p # y => cloud'[s][p] = cloud[s][p]
    BY <1>1, <2>1
  <2> QED BY <2>1, <2>2, <2>3 DEF PartMoves, SamePart
<1> QED BY <1>3, <1>4, <1>5, <1>6, <1>7 DEF World

LEMMA DeliverMoves ==
  ASSUME TypeOK, NEW x \in Shift, NEW y \in Part, Deliver(x, y), NEW s \in Shift, NEW p \in Part
  PROVE  PartMoves(s, p)
<1> DEFINE new == Content(shift[x], y)
<1>1. /\ queue \in [Shift -> [Part -> {"absent", "ready", "dead", "parked"}]]
      /\ cloud \in [Shift -> [Part -> 0 .. MaxVersion]] /\ shift' = shift
  BY DEF TypeOK, Deliver
<1>2. \/ cloud' = [cloud EXCEPT ![x][y] = new] /\ queue' = [queue EXCEPT ![x][y] = "absent"]
      \/ cloud' = cloud /\ queue' = [queue EXCEPT ![x][y] = "dead"]
  BY DEF Deliver
<1>3. SamePart(s, p)
  BY <1>1 DEF SamePart
<1> HIDE DEF new
<1>4. CASE s = x /\ p = y
  <2>1. (cloud'[s][p] = new /\ queue'[s][p] = "absent") \/ queue'[s][p] = "dead"
    BY <1>1, <1>2, <1>4
  <2> QED BY <1>1, <1>3, <1>4, <2>1 DEF PartMoves, new
<1>5. CASE ~ (s = x /\ p = y)
  <2>1. cloud'[s][p] = cloud[s][p] /\ queue'[s][p] = queue[s][p]
    BY <1>1, <1>2, <1>5
  <2> QED BY <1>3, <2>1 DEF PartMoves
<1> QED BY <1>4, <1>5

LEMMA DoneMoves ==
  ASSUME TypeOK, Keep \/ Requeue, NEW s \in Shift, NEW p \in Part
  PROVE  PartMoves(s, p)
<1> DEFINE h == Head(run.todo)
<1>1. queue \in [Shift -> [Part -> {"absent", "ready", "dead", "parked"}]]
  BY DEF TypeOK
<1>2. cloud' = cloud /\ shift' = shift
  BY DEF Keep, Requeue
<1>3. SamePart(s, p)
  BY <1>2 DEF SamePart
<1>4. \/ queue' = [queue EXCEPT ![h] = Parked]
      \/ \E b \in BOOLEAN : queue' = [queue EXCEPT ![h] = Retained(queue[h], b)]
      \/ /\ run.stage = "recorded" /\ run.answer = "ACKNOWLEDGED"
         /\ queue' = [queue EXCEPT ![h] = Cleared(queue[h])]
  <2>1. CASE Keep
    BY <2>1 DEF Keep
  <2>2. CASE Requeue
    <3>1. run.answer \in Answer /\ run.answer # "NONE" /\ run.stage = "recorded"
      BY <2>2 DEF Requeue, TypeOK, Run
    <3>2. queue' = [queue EXCEPT ![h] = Requeued(queue[h], run.answer)]
      BY <2>2 DEF Requeue
    <3>3. \/ Requeued(queue[h], run.answer) = Parked
          \/ \E b \in BOOLEAN : Requeued(queue[h], run.answer) = Retained(queue[h], b)
          \/ run.answer = "ACKNOWLEDGED" /\ Requeued(queue[h], run.answer) = Cleared(queue[h])
      BY <3>1 DEF Requeued, Reading, Answer
    <3> QED BY <3>1, <3>2, <3>3
  <2> QED BY <2>1, <2>2
<1> HIDE DEF h
<1>5. CASE s # h
  <2>1. queue'[s] = queue[s]
    BY <1>1, <1>4, <1>5
  <2> QED BY <1>2, <1>3, <2>1 DEF PartMoves
<1>6. CASE s = h
  <2>1. \/ queue'[s] = Parked
        \/ \E b \in BOOLEAN : queue'[s] = Retained(queue[s], b)
        \/ /\ run.stage = "recorded" /\ run.answer = "ACKNOWLEDGED"
           /\ queue'[s] = Cleared(queue[s])
    BY <1>1, <1>4, <1>6
  <2>2. \/ queue'[s][p] \in {"parked", "ready", queue[s][p]}
        \/ /\ run.stage = "recorded" /\ run.answer = "ACKNOWLEDGED" /\ queue[s][p] = "parked"
    BY <2>1 DEF Parked, Retained, Cleared
  <2> QED BY <1>2, <1>3, <1>6, <2>2 DEF PartMoves, h
<1> QED BY <1>5, <1>6

LEMMA PartStep ==
  ASSUME TypeOK, [Next]_vars, NEW s \in Shift, NEW p \in Part
  PROVE  PartMoves(s, p)
<1>1. CASE \E x \in Shift : World(x) \/ \E y \in Part : Deliver(x, y)
  BY <1>1, WorldMoves, DeliverMoves
<1>2. CASE Keep \/ Requeue
  BY <1>2, DoneMoves
<1>3. CASE UNCHANGED <<shift, queue, cloud>>
  BY <1>3 DEF PartMoves, SamePart
<1>4. CASE Aside
  BY <1>1, <1>3, <1>4 DEF Aside, Callback, ReadForCall, PersistForCall, EnsureStarted, EndPush, vars
<1>5. CASE Refresh
  BY <1>2, <1>3, <1>5 DEF Refresh, ReadEntries, Track, Ask, Record, Finish
<1>6. CASE Crash \/ \E w \in Worker : Discover(w)
  BY <1>3, <1>6 DEF Crash, Discover
<1> QED BY <1>4, <1>5, <1>6, Steps

\* The shifts a refresh may still come to.
Coming(s) == run.stage \in {"discover", "track"} \/ s \in Ahead

LEMMA ComingStep ==
  ASSUME TypeOK, AgendaIsSound, [Next]_vars, run'.by # Nobody,
         ~ \E w \in Worker : Discover(w), NEW s \in Shift, Coming(s)'
  PROVE  /\ SameCloses /\ Coming(s)
         /\ ~ ((Keep \/ Requeue) /\ s = Head(run.todo))
<1>1. CASE Aside
  <2>1. run' = run
    BY <1>1, AsideTypes
  <2>2. SameCloses /\ Ahead' = Ahead
    BY <2>1 DEF SameCloses, Found, Ahead
  <2>3. ~ (Keep \/ Requeue)
    BY <2>2, DoneEffect
  <2> QED BY <2>1, <2>2, <2>3 DEF Coming
<1>2. CASE ReadEntries
  <2>1. run.stage = "discover" /\ ~Keep /\ ~Requeue
    BY <1>2 DEF ReadEntries, Keep, Requeue
  <2> QED BY <1>2, <2>1, ReadEffect DEF Coming
<1>3. CASE Track
  <2>1. run.stage = "track" /\ ~Keep /\ ~Requeue
    BY <1>3 DEF Track, Keep, Requeue
  <2> QED BY <1>3, <2>1, TrackEffect DEF Coming
<1>4. CASE Keep \/ Requeue
  BY <1>4, DoneEffect DEF Coming
<1>5. CASE Ask \/ Record
  <2>1. SameCloses /\ Ahead' = Ahead /\ run'.stage \in {"answered", "recorded"}
    BY <1>5, AskEffect, RecordEffect
  <2>2. ~ (Keep \/ Requeue)
    BY <2>1, DoneEffect
  <2> QED BY <2>1, <2>2 DEF Coming
<1>6. CASE Finish \/ Crash
  <2>1. run' = NoRun
    BY <1>6, CrashTypes DEF Finish
  <2> QED BY <2>1, VoidTypes
<1> QED BY <1>1, <1>2, <1>3, <1>4, <1>5, <1>6, Steps DEF Refresh

LEMMA EvidenceStep ==
  ASSUME TypeOK, EvidenceInv, [Next]_vars
  PROVE  EvidenceKept'
<1> SUFFICES ASSUME NEW s \in Shift, NEW p \in Part, shift'[s].status = "closed",
                    queue'[s][p] = "absent"
             PROVE  cloud'[s][p] = Content(shift'[s], p)
  BY DEF EvidenceKept
<1>1. PartMoves(s, p)
  BY PartStep
<1>2. shift[s].status = "closed" =>
        cloud[s][p] = Content(shift[s], p) \/ queue[s][p] # "absent"
  BY DEF EvidenceInv, EvidenceKept
<1>3. ASSUME run.stage = "recorded", run.answer = "ACKNOWLEDGED", s = Head(run.todo), queue[s][p] = "parked"
      PROVE  cloud[s][p] = Content(shift[s], p)
  BY <1>3 DEF EvidenceInv, ParkedIsHeld
<1> QED BY <1>1, <1>2, <1>3 DEF PartMoves, SamePart

LEMMA ParkedFoundStep ==
  ASSUME TypeOK, EvidenceInv, [Next]_vars
  PROVE  ParkedIsFound'
<1> SUFFICES ASSUME run'.by # Nobody, NEW s \in Shift, NEW p \in Part, Coming(s)', queue'[s][p] = "parked"
             PROVE  Content(shift'[s], p) = Content(run'.found[s], p)
  BY DEF ParkedIsFound, Coming
<1>1. CASE \E w \in Worker : Discover(w)
  BY <1>1, DiscoverTypes DEF Discover
<1>2. CASE ~ \E w \in Worker : Discover(w)
  <2>1. SameCloses /\ Coming(s) /\ ~ ((Keep \/ Requeue) /\ s = Head(run.todo))
    BY <1>2, ComingStep DEF EvidenceInv
  <2>2. SamePart(s, p) /\ queue[s][p] = "parked"
    BY <2>1, PartStep DEF PartMoves
  <2>3. Content(shift[s], p) = Content(run.found[s], p)
    BY <2>1, <2>2 DEF EvidenceInv, ParkedIsFound, Coming, SameCloses
  <2> QED BY <2>1, <2>2, <2>3 DEF SamePart, SameCloses
<1> QED BY <1>1, <1>2

LEMMA ParkedHeldStep ==
  ASSUME TypeOK, EvidenceInv, [Next]_vars
  PROVE  ParkedIsHeld'
<1> DEFINE h == Head(run'.todo)
<1> SUFFICES ASSUME run'.stage \in {"answered", "recorded"}, run'.answer = "ACKNOWLEDGED",
                    NEW p \in Part, queue'[h][p] = "parked"
             PROVE  cloud'[h][p] = Content(shift'[h], p)
  BY DEF ParkedIsHeld
<1>1. AgendaIsSound /\ TypeOK'
  BY AgendaStep DEF EvidenceInv
<1>2. h \in Shift
  BY <1>1 DEF TypeOK, Run
<1>3. CASE Aside
  <2>1. run' = run
    BY <1>3, AsideTypes
  <2>2. queue[h][p] = "parked" => cloud[h][p] = Content(shift[h], p)
    BY <2>1 DEF EvidenceInv, ParkedIsHeld
  <2>3. ~ (Keep \/ Requeue)
    BY <1>1, <2>1, DoneEffect DEF Ahead
  <2>4. PartMoves(h, p)
    BY <1>2, PartStep
  <2> HIDE DEF h
  <2> QED BY <2>2, <2>3, <2>4 DEF PartMoves, SamePart
<1>4. CASE Ask
  <2>1. run.by # Nobody /\ UNCHANGED <<shift, queue, cloud>>
    BY <1>4 DEF Ask
  <2>2. run'.todo = run.todo
    BY <1>1, <1>4, AskEffect
  <2>3. /\ cloud[h][p] = run.found[h].manifest /\ Sound(run.found[h])
    BY <1>1, <1>4, <2>2, AskEffect
  <2>4. h \in Ahead
    BY <1>4, <2>2, SplitFacts, AheadMeans DEF Ask, TypeOK, Run
  <2>5. Content(shift[h], p) = Content(run.found[h], p)
    BY <1>2, <2>1, <2>4 DEF EvidenceInv, ParkedIsFound
  <2>6. Content(run.found[h], p) = run.found[h].manifest
    BY <2>3 DEF Content, Sound
  <2> QED BY <2>1, <2>3, <2>5, <2>6
<1>5. CASE Record
  <2>1. UNCHANGED <<shift, queue, cloud>> /\ run.stage = "answered"
    BY <1>5 DEF Record
  <2>2. run'.todo = run.todo /\ run'.answer = run.answer
    BY <1>1, <1>5, RecordEffect
  <2> QED BY <2>1, <2>2 DEF EvidenceInv, ParkedIsHeld
<1>6. CASE Refresh /\ ~Ask /\ ~Record
  <2>1. CASE Finish
    BY <2>1, VoidTypes DEF Finish
  <2> QED BY <1>1, <1>6, <2>1, ReadEffect, TrackEffect, DoneEffect DEF Refresh
<1>7. CASE Crash
  BY <1>7, CrashTypes, VoidTypes
<1>8. CASE \E w \in Worker : Discover(w)
  BY <1>8, DiscoverTypes
<1> QED BY <1>3, <1>4, <1>5, <1>6, <1>7, <1>8, Steps

(* The evidence of a close is never lost: what the cloud does not hold of  *)
(* it is in the queue, live, dead or parked, whatever is saved while an    *)
(* acknowledgement is on its way (_clear_parked_bundle_after_ack).         *)
THEOREM EvidenceSafe == Spec => []EvidenceKept
<1>1. Init => TypeOK /\ EvidenceInv
  <2> SUFFICES ASSUME Init PROVE TypeOK /\ EvidenceInv
    OBVIOUS
  <2>1. run.by = Nobody /\ run.stage = "discover"
    BY VoidTypes DEF Init
  <2>2. \A s \in Shift : shift[s].status = "open"
    BY DEF Init, NoCall
  <2> QED BY <2>1, <2>2, InitTypes DEF EvidenceInv, ParkedIsFound, ParkedIsHeld, EvidenceKept
<1>2. TypeOK /\ EvidenceInv /\ [Next]_vars => (TypeOK /\ EvidenceInv)'
  BY AgendaStep, EvidenceStep, ParkedFoundStep, ParkedHeldStep DEF EvidenceInv
<1>3. EvidenceInv => EvidenceKept
  BY DEF EvidenceInv
<1> QED BY <1>1, <1>2, <1>3, PTL DEF Spec

=============================================================================

--------------------------- MODULE TicketsProofs ---------------------------
(***************************************************************************)
(* For any number of tickets, lines and requests: the types, that the bill *)
(* of a ticket is the sum of its lines and frozen by the payment, that the *)
(* drawer holds every sale once, that only line taps can wait in a circle, *)
(* and that a closed shift comes to have an unpaid ticket in two ways      *)
(* only: a waiter's new ticket, and a cancelled one that comes back.       *)
(***************************************************************************)
EXTENDS Tickets, FiniteSums

-----------------------------------------------------------------------------
(* Bills. *)

LEMMA BillIsNat ==
  ASSUME NEW items \in [Line -> Item]
  PROVE  BillOf(items) \in Nat
<1> DEFINE f == [l \in Line |-> items[l].qty]
           S == {l \in Line : items[l].live}
<1>1. IsFiniteSet(S)
  BY TicketConstants, FS_Subset
<1>2. \A l \in S : f[l] \in Nat
  BY DEF Item
<1> HIDE DEF f, S
<1>3. SumFunctionOnSet(f, S) \in Nat
  BY <1>1, <1>2, SumPart
<1> QED BY <1>3 DEF BillOf, f, S

LEMMA BillSame ==
  ASSUME NEW a, NEW b, \A l \in Line : a[l].qty = b[l].qty /\ a[l].live = b[l].live
  PROVE  BillOf(a) = BillOf(b)
<1>1. [l \in Line |-> a[l].qty] = [l \in Line |-> b[l].qty]
  OBVIOUS
<1>2. {l \in Line : a[l].live} = {l \in Line : b[l].live}
  OBVIOUS
<1> QED BY <1>1, <1>2 DEF BillOf

LEMMA BornBill ==
  ASSUME NEW L \in SUBSET Line, NEW q \in Nat,
         NEW items, items = [l \in Line |->
           IF l \in L THEN [qty |-> q, ready |-> l \in Instant, live |-> TRUE] ELSE NoItem]
  PROVE  BillOf(items) = q * Cardinality(L)
<1> DEFINE f == [l \in Line |-> items[l].qty]
<1>1. {l \in Line : items[l].live} = L
  BY DEF NoItem
<1>2. \A l \in L : f[l] = q
  OBVIOUS
<1>3. IsFiniteSet(L)
  BY TicketConstants, FS_Subset
<1> HIDE DEF f
<1>4. SumFunctionOnSet(f, L) = q * Cardinality(L)
  BY <1>2, <1>3, SumConstant
<1> QED BY <1>1, <1>4 DEF BillOf, f

LEMMA SeqOfSet ==
  ASSUME NEW S, IsFiniteSet(S)
  PROVE  SetToSeq(S) \in Seq(S) /\ {SetToSeq(S)[i] : i \in 1 .. Len(SetToSeq(S))} \subseteq S
<1> DEFINE n == Cardinality(S)
           s == SetToSeq(S)
<1>1. n \in Nat /\ ExistsBijection(1 .. n, S)
  BY FS_CardinalityType
<1>2. \E f \in [1 .. n -> S] : IsInjective(f)
  BY <1>1 DEF ExistsBijection, Bijection, Injection, IsInjective
<1>3. s \in [1 .. n -> S]
  BY <1>2 DEF SetToSeq
<1> HIDE DEF s, n
<1>4. s \in Seq(S) /\ Len(s) = n
  BY <1>1, <1>3
<1>5. \A i \in 1 .. Len(s) : s[i] \in S
  BY <1>3, <1>4
<1> QED BY <1>4, <1>5 DEF s

-----------------------------------------------------------------------------
(* What a step does to the open requests. *)

Commit(t) ==
  \/ Create(t) \/ CreateRemote(t) \/ AddItem(t) \/ SetQuantity(t)
  \/ RemoveItem(t) \/ RemoveItemByWaiter(t)
  \/ Prepare(t) \/ SetReady(t) \/ MarkReady(t) \/ Cancel(t) \/ Pay(t)
  \/ MarkItem(t) \/ UnmarkItem(t) \/ OpenShift(t) \/ CloseShift(t)

LEMMA Steps ==
  ASSUME [Next]_vars
  PROVE  \/ UNCHANGED vars
         \/ \E t \in Task : Begin(t) \/ Acquire(t) \/ Look(t) \/ Count(t) \/ Abort(t) \/ Commit(t)
BY DEF Next, Commit

LEMMA CommitEnds ==
  ASSUME NEW t \in Task, Abort(t) \/ Commit(t)
  PROVE  task' = [task EXCEPT ![t] = Idle]
<1>1. \A op, stage : Committing(t, op, stage) => task' = [task EXCEPT ![t] = Idle]
  BY DEF Committing
<1> QED BY <1>1 DEF Abort, Commit, Create, CreateRemote, AddItem, SetQuantity, RemoveItem,
        RemoveItemByWaiter, Removes, Prepare, SetReady, MarkReady, Cancel, Pay, MarkItem,
        UnmarkItem, OpenShift, CloseShift

LEMMA LocksAre ==
  /\ \A u \in Staff : ShiftLock(u) \in Lock
  /\ \A o \in Order : OrderLock(o) \in Lock /\ OrderLines(o) \subseteq Lock
BY DEF Lock, OrderLines

LEMMA LocksDiffer ==
  /\ \A o, u : OrderLock(o) # ShiftLock(u)
  /\ \A o, l, u : LineLock(o, l) # ShiftLock(u)
  /\ \A o, p, l : OrderLock(o) # LineLock(p, l)
  /\ \A o, p : OrderLock(o) = OrderLock(p) => o = p
  /\ \A o, p, l, m : LineLock(o, l) = LineLock(p, m) => o = p
BY DEF OrderLock, LineLock, ShiftLock

LEMMA LineSeq ==
  ASSUME NEW o, NEW L \in SUBSET Line
  PROVE  LET s == SetToSeq({LineLock(o, l) : l \in L}) IN
         s \in Seq(OrderLines(o)) /\ \A i \in 1 .. Len(s) : s[i] \in OrderLines(o)
<1> DEFINE S == {LineLock(o, l) : l \in L}
           s == SetToSeq(S)
<1>1. IsFiniteSet(S) /\ S \subseteq OrderLines(o)
  <2>1. IsFiniteSet(L)
    BY TicketConstants, FS_Subset
  <2> DEFINE f == [l \in L |-> LineLock(o, l)]
  <2>3. f \in Surjection(L, S)
    BY DEF Surjection
  <2>2. IsFiniteSet(S)
    BY <2>1, <2>3, FS_Surjection
  <2> QED BY <2>2 DEF OrderLines
<1> HIDE DEF S
<1>2. s \in Seq(S) /\ \A i \in 1 .. Len(s) : s[i] \in S
  BY <1>1, SeqOfSet
<1> HIDE DEF s
<1>3. \A i \in 1 .. Len(s) : s[i] \in OrderLines(o)
  BY <1>1, <1>2
<1>4. s \in Seq(OrderLines(o))
  BY <1>2, <1>3
<1> QED BY <1>3, <1>4 DEF s, S

\* What a request may still have to lock after it has looked.
LEMMA MoreLocksAre ==
  ASSUME NEW t \in Task, NEW L \in SUBSET Line
  PROVE  LET s == MoreLocks(t, L) o == task[t].order IN
         \/ s = <<ShiftLock(task[t].by)>> /\ task[t].op \in {"pay", "cancel"}
         \/ s = <<>> /\ task[t].op \in Creates
         \/ /\ task[t].op \notin Creates /\ s = SetToSeq({LineLock(o, l) : l \in L})
            /\ s \in Seq(OrderLines(o)) /\ \A i \in 1 .. Len(s) : s[i] \in OrderLines(o)
BY LineSeq DEF MoreLocks, Creates

LEMMA IdleIs ==
  /\ Idle.op = "idle" /\ Idle.by = Nobody /\ Idle.stage = "begun"
  /\ Idle.want = <<>> /\ Idle.held = {}
  /\ Idle.order = NoOrder /\ Idle.lines = {} /\ Idle.qty = 0 /\ Idle.seen = "NONE" /\ Idle.all = FALSE
  /\ Idle \in Request
<1>1. Idle.want \in Seq(Lock) /\ Idle.held \in SUBSET Lock
  BY DEF Idle
<1> QED BY <1>1 DEF Idle, Request, Status

\* A step ends a request, or writes one with the fields it does.
LEMMA BeginWrites ==
  ASSUME task \in [Task -> Request], NEW t \in Task, Begin(t)
  PROVE  \E op \in Op, u \in Staff \union {Nobody}, o \in Order, L \in SUBSET Line, q \in Nat :
           /\ task[t] = Idle /\ task' = [task EXCEPT ![t] = task'[t]]
           /\ task'[t].op = op /\ task'[t].stage = "begun" /\ task'[t].held = {}
           /\ task'[t].by = u /\ u \in Senders(op)
           /\ task'[t].want = FirstLocks(op, o, u)
           /\ task'[t].order = IF op \in OnShift THEN NoOrder ELSE o
           /\ task'[t].lines = L
           /\ op \in Creates =>
                order[o].status = "NONE" /\ \A v \in Task : task[v].op \in Creates => task[v].order # o
           /\ op \notin Creates \union OnShift => order[o].status # "NONE"
           /\ task'[t] \in Request
<1>1. PICK op \in Op, u \in Staff \union {Nobody}, o \in Order, L \in SUBSET Line, q \in 1 .. MaxQty :
        /\ task[t] = Idle /\ u \in Senders(op)
        /\ op \in OnLine <=> L # {}
        /\ op \notin Creates => Cardinality(L) <= 1
        /\ op \in Creates =>
             order[o].status = "NONE" /\ \A v \in Task : task[v].op \in Creates => task[v].order # o
        /\ op \notin Creates \union OnShift => order[o].status # "NONE"
        /\ task' = [task EXCEPT ![t] = [Idle EXCEPT
                  !.op = op, !.by = u, !.want = FirstLocks(op, o, u),
                  !.order = IF op \in OnShift THEN NoOrder ELSE o,
                  !.lines = L,
                  !.qty = IF op \in Creates \union {"add", "set"} THEN q ELSE 0]]
        /\ UNCHANGED rows
  BY DEF Begin
<1> DEFINE new == IF op \in OnShift THEN NoOrder ELSE o
           n == IF op \in Creates \union {"add", "set"} THEN q ELSE 0
           want == FirstLocks(op, o, u)
           k == [Idle EXCEPT !.op = op, !.by = u, !.want = want, !.order = new, !.lines = L, !.qty = n]
<1>2. task' = [task EXCEPT ![t] = k]
  BY <1>1
<1>3. n \in Nat /\ new \in Order \union {NoOrder} /\ want \in Seq(Lock)
  <2>1. n \in Nat
    BY TicketConstants
  <2>2. want \in Seq(Lock)
    <3>1. op \in {"create"} \union OnShift => u \in Staff
      BY <1>1 DEF Senders, OnShift, Staff
    <3>2. <<>> \in Seq(Lock) /\ <<OrderLock(o)>> \in Seq(Lock)
      BY LocksAre
    <3>3. u \in Staff => <<ShiftLock(u)>> \in Seq(Lock)
      BY LocksAre
    <3> QED BY <3>1, <3>2, <3>3 DEF FirstLocks
  <2> QED BY <2>1, <2>2
<1> HIDE DEF new, n, want
<1>4. /\ k.op = op /\ k.by = u /\ k.stage = "begun" /\ k.held = {}
      /\ k.want = want /\ k.order = new /\ k.lines = L
      /\ k \in Request
  BY <1>3 DEF Idle, Request, Status
<1> HIDE DEF k
<1>5. task'[t] = k
  BY <1>2
<1> QED BY <1>1, <1>2, <1>4, <1>5, <1>3 DEF new, want

LEMMA AcquireWrites ==
  ASSUME task \in [Task -> Request], NEW t \in Task, Acquire(t)
  PROVE  /\ task[t].want # <<>> /\ Free(t, Head(task[t].want))
         /\ task' = [task EXCEPT ![t] = task'[t]]
         /\ task'[t].op = task[t].op /\ task'[t].stage = task[t].stage /\ task'[t].order = task[t].order
         /\ task'[t].lines = task[t].lines /\ task'[t].by = task[t].by
         /\ task'[t].want = Tail(task[t].want)
         /\ task'[t].held = task[t].held \union {Head(task[t].want)}
         /\ task'[t] \in Request
<1> DEFINE w == task[t].want
           h == Head(w)
           r == Tail(w)
<1>1. w \in Seq(Lock) /\ w # <<>> /\ Free(t, h) /\ task[t] \in Request
  BY DEF Acquire, Request
<1>2. h \in Lock /\ r \in Seq(Lock)
  BY <1>1
<1>3. task' = [task EXCEPT ![t].held = @ \union {h}, ![t].want = r]
  BY DEF Acquire
<1> HIDE DEF h, r
<1> DEFINE k == [task[t] EXCEPT !.held = @ \union {h}, !.want = r]
<1>4. task' = [task EXCEPT ![t] = k] /\ task'[t] = k
  BY <1>3
<1>5. k \in Request
  BY <1>1, <1>2 DEF Request
<1>6. /\ k.op = task[t].op /\ k.stage = task[t].stage /\ k.order = task[t].order
      /\ k.lines = task[t].lines /\ k.by = task[t].by /\ k.want = r /\ k.held = task[t].held \union {h}
  BY <1>1 DEF Request
<1> HIDE DEF k
<1> QED BY <1>1, <1>4, <1>5, <1>6 DEF h, r

LEMMA LookWrites ==
  ASSUME TypeOK, NEW t \in Task, Look(t)
  PROVE  /\ task[t].op # "idle" /\ task[t].stage = "begun" /\ task[t].want = <<>>
         /\ task' = [task EXCEPT ![t] = task'[t]]
         /\ task'[t].op = task[t].op /\ task'[t].stage = "looked" /\ task'[t].order = task[t].order
         /\ task'[t].held = task[t].held /\ task'[t].by = task[t].by
         /\ \E L \in SUBSET Line : Allowed(t, L) /\ task'[t].want = MoreLocks(t, L)
<1>1. PICK L \in SUBSET Line :
        /\ Allowed(t, L)
        /\ task' = [task EXCEPT
            ![t].stage = "looked", ![t].lines = L, ![t].want = MoreLocks(t, L),
            ![t].seen = IF task[t].op \in OnShift THEN "NONE" ELSE order[task[t].order].status]
  BY DEF Look
<1> DEFINE w == MoreLocks(t, L)
           e == IF task[t].op \in OnShift THEN "NONE" ELSE order[task[t].order].status
           k == [task[t] EXCEPT !.stage = "looked", !.lines = L, !.want = w, !.seen = e]
<1>2. task' = [task EXCEPT ![t].stage = "looked", ![t].lines = L, ![t].want = w, ![t].seen = e]
  BY <1>1
<1> HIDE DEF w, e
<1>3. task' = [task EXCEPT ![t] = k] /\ task'[t] = k /\ task[t] \in Request
  BY <1>2 DEF TypeOK
<1>4. /\ k.op = task[t].op /\ k.stage = "looked" /\ k.order = task[t].order
      /\ k.held = task[t].held /\ k.by = task[t].by /\ k.want = w
  BY <1>3 DEF Request
<1> HIDE DEF k
<1> QED BY <1>1, <1>3, <1>4 DEF Look, w

LEMMA CountWrites ==
  ASSUME TypeOK, NEW t \in Task, Count(t)
  PROVE  /\ task[t].op \in {"mark", "unmark", "remove"} /\ task[t].stage = "looked" /\ task[t].want = <<>>
         /\ task' = [task EXCEPT ![t] = task'[t]]
         /\ task'[t].op = task[t].op /\ task'[t].stage = "counted" /\ task'[t].order = task[t].order
         /\ task'[t].held = task[t].held /\ task'[t].by = task[t].by
         /\ \/ task'[t].want = <<>>
            \/ task'[t].want = <<OrderLock(task[t].order)>> /\ task[t].op \in Taps
         /\ task'[t] = [task[t] EXCEPT !.stage = "counted", !.all = task'[t].all, !.want = task'[t].want]
<1> DEFINE op == task[t].op
           o == task[t].order
           L == task[t].lines
           items == CASE op = "mark"   -> Stamped(line[o], L, TRUE)
                      [] op = "remove" -> Without(line[o], L)
                      [] OTHER         -> line[o]
           all == AllReady(items)
           w == IF (op = "mark" /\ all) \/ (op = "unmark" /\ task[t].seen = "READY")
                THEN <<OrderLock(o)>> ELSE <<>>
           k == [task[t] EXCEPT !.stage = "counted", !.all = all, !.want = w]
<1>1. task' = [task EXCEPT ![t].stage = "counted", ![t].all = all, ![t].want = w]
  BY DEF Count
<1>2. w = <<>> \/ (w = <<OrderLock(o)>> /\ op \in Taps)
  BY DEF Taps
<1> HIDE DEF w, all
<1>3. task' = [task EXCEPT ![t] = k] /\ task'[t] = k /\ task[t] \in Request
  BY <1>1 DEF TypeOK
<1>4. /\ k.op = task[t].op /\ k.stage = "counted" /\ k.order = task[t].order
      /\ k.held = task[t].held /\ k.by = task[t].by /\ k.want = w /\ k.all = all
  BY <1>3 DEF Request
<1>5. task'[t] = [task[t] EXCEPT !.stage = "counted", !.all = task'[t].all, !.want = task'[t].want]
  BY <1>3, <1>4
<1> HIDE DEF k
<1> QED BY <1>2, <1>3, <1>4, <1>5 DEF Count

-----------------------------------------------------------------------------
(* The locks. *)

LEMMA NoLines ==
  \A o : SetToSeq({LineLock(o, l) : l \in {}}) = <<>>
<1> SUFFICES ASSUME NEW o PROVE SetToSeq({LineLock(o, l) : l \in {}}) = <<>>
  OBVIOUS
<1>1. {LineLock(o, l) : l \in {}} = {} /\ IsFiniteSet({})
  BY FS_EmptySet
<1>2. SetToSeq({}) \in Seq({})
  BY <1>1, SeqOfSet
<1>3. \A s \in Seq({}) : s = <<>>
  OBVIOUS
<1> QED BY <1>1, <1>2, <1>3

LEMMA BeginOrdered ==
  ASSUME TypeOK, NEW t \in Task, Begin(t)
  PROVE  Ordered(task'[t]) /\ task'[t].held = {}
<1>1. PICK op \in Op, u \in Staff \union {Nobody}, o \in Order :
        /\ task'[t].op = op /\ task'[t].stage = "begun" /\ task'[t].held = {}
        /\ task'[t].by = u /\ task'[t].want = FirstLocks(op, o, u)
        /\ task'[t].order = IF op \in OnShift THEN NoOrder ELSE o
  BY BeginWrites DEF TypeOK
<1>2. op # "idle"
  BY TicketConstants
<1>3. CASE op \in OnOrder
  <2>1. task'[t].want = <<OrderLock(o)>> /\ task'[t].order = o
    BY <1>1, <1>3 DEF FirstLocks, OnOrder, Taps, OnShift
  <2> QED BY <1>1, <1>3, <2>1 DEF Ordered, OnOrder
<1>4. CASE op \in {"create", "open", "close"}
  <2>1. op \notin {"remote"} \union Taps /\ op \in {"create"} \union OnShift
    BY <1>4 DEF Taps, OnShift
  <2>2. FirstLocks(op, o, u) = <<ShiftLock(u)>>
    BY <2>1 DEF FirstLocks
  <2>3. task'[t].want = <<ShiftLock(task'[t].by)>>
    BY <1>1, <2>2
  <2> QED BY <1>1, <1>4, <2>3 DEF Ordered, OnOrder
<1>5. CASE op \in {"remote"} \union Taps
  <2>3. op \notin {"create"} \union OnShift
    BY <1>5 DEF Taps, OnShift
  <2>1. FirstLocks(op, o, u) = <<>>
    BY <1>5, <2>3 DEF FirstLocks
  <2>2. task'[t].want = <<>>
    BY <1>1, <2>1
  <2> QED BY <1>1, <1>5, <2>2 DEF Ordered, OnOrder, Taps
<1>6. op \in OnOrder \/ op \in {"create", "open", "close"} \/ op \in {"remote"} \union Taps
  BY TicketConstants DEF OnOrder, Taps
<1> QED BY <1>1, <1>3, <1>4, <1>5, <1>6

LEMMA AcquireOrdered ==
  ASSUME TypeOK, NEW t \in Task, Acquire(t), Ordered(task[t])
  PROVE  Ordered(task'[t])
<1> DEFINE k == task[t]
           n == task'[t]
           o == k.order
           b == ShiftLock(k.by)
<1>1. /\ k.want \in Seq(Lock) /\ k.want # <<>> /\ k \in Request
      /\ n.op = k.op /\ n.stage = k.stage /\ n.order = o /\ n.by = k.by
      /\ n.want = Tail(k.want) /\ n.held = k.held \union {Head(k.want)}
  BY AcquireWrites DEF TypeOK, Request
<1>2. /\ Head(k.want) \in Wanted(k) /\ Wanted(n) \subseteq Wanted(k)
  <2>1. /\ Len(k.want) \in Nat \ {0} /\ Head(k.want) = k.want[1] /\ Len(Tail(k.want)) = Len(k.want) - 1
        /\ \A i \in 1 .. Len(k.want) - 1 : Tail(k.want)[i] = k.want[i + 1] /\ i + 1 \in 1 .. Len(k.want)
    BY <1>1
  <2>2. 1 \in 1 .. Len(k.want)
    BY <2>1
  <2> QED BY <1>1, <2>1, <2>2 DEF Wanted
<1>3. \A x : k.want = <<x>> => Head(k.want) = x /\ n.want = <<>>
  BY <1>1
<1>4. Wanted(n) = {} \/ n.want # <<>>
  <2>1. n.want = <<>> => Wanted(n) = {}
    BY DEF Wanted
  <2> QED BY <2>1
<1>9. \A l : b # OrderLock(l) /\ b \notin OrderLines(l)
  BY LocksDiffer DEF OrderLines
<1>10. n.by = k.by /\ b = ShiftLock(k.by)
  BY <1>1
<1> HIDE DEF k, n, o, b
<1>5. CASE k.op \in OnOrder
  <2>1. CASE k.stage = "begun" /\ k.want = <<OrderLock(o)>> /\ k.held = {}
    <3>1. n.want = <<>> /\ n.held = {OrderLock(o)}
      BY <1>1, <1>3, <2>1
    <3> QED BY <1>1, <1>5, <2>1, <3>1 DEF Ordered, OnOrder, k, n, o, b
  <2>2. CASE /\ k.stage # "begun" /\ OrderLock(o) \in k.held
             /\ k.held \subseteq {OrderLock(o), b} \union OrderLines(o)
             /\ Wanted(k) \subseteq OrderLines(o) /\ (b \in k.held => k.want = <<>>)
    <3>1. Head(k.want) \in OrderLines(o) /\ b \notin k.held
      BY <1>1, <1>2, <2>2
    <3>2. b \notin n.held
      BY <1>1, <1>9, <3>1
    <3>3. OrderLock(o) \in n.held /\ n.held \subseteq {OrderLock(o), b} \union OrderLines(o)
      BY <1>1, <2>2, <3>1
    <3>4. Wanted(n) \subseteq OrderLines(o)
      BY <1>2, <2>2
    <3> QED BY <1>1, <1>5, <2>2, <3>2, <3>3, <3>4 DEF Ordered, OnOrder, k, n, o, b
  <2>3. CASE /\ k.stage # "begun" /\ OrderLock(o) \in k.held
             /\ k.held \subseteq {OrderLock(o), b} \union OrderLines(o)
             /\ k.want = <<b>> /\ b \notin k.held
    <3>1. n.want = <<>> /\ Wanted(n) = {} /\ n.held = k.held \union {b}
      BY <1>1, <1>3, <1>4, <2>3
    <3> QED BY <1>1, <1>5, <2>3, <3>1 DEF Ordered, OnOrder, k, n, o, b
  <2>4. CASE k.stage = "begun" /\ k.want = <<>> /\ k.held = {OrderLock(o)}
    BY <1>1, <2>4
  <2> QED BY <1>5, <2>1, <2>2, <2>3, <2>4 DEF Ordered, k, o, b
<1>6. CASE k.op \in {"create", "open", "close"}
  <2>1. k.stage = "begun" /\ k.want = <<b>> /\ k.held = {}
    BY <1>1, <1>6 DEF Ordered, k, b
  <2>2. n.want = <<>> /\ n.held = {b}
    BY <1>1, <1>3, <2>1
  <2> QED BY <1>1, <1>6, <2>2 DEF Ordered, OnOrder, n, b, k
<1>7. CASE k.op \in {"remote", "idle"}
  BY <1>1, <1>7 DEF Ordered, k, b
<1>8. CASE k.op \notin OnOrder \union {"create", "open", "close", "remote", "idle"}
  BY <1>1, <1>8 DEF Ordered, n, k
<1> QED BY <1>5, <1>6, <1>7, <1>8 DEF n

LEMMA LookOrdered ==
  ASSUME TypeOK, NEW t \in Task, Look(t), Ordered(task[t])
  PROVE  Ordered(task'[t])
<1> DEFINE k == task[t]
           n == task'[t]
           o == k.order
<1>1. /\ k.op # "idle" /\ k.stage = "begun" /\ k.want = <<>>
      /\ n.op = k.op /\ n.stage = "looked" /\ n.order = o /\ n.held = k.held /\ n.by = k.by
  BY LookWrites
<1>2. PICK L \in SUBSET Line : Allowed(t, L) /\ n.want = MoreLocks(t, L)
  BY LookWrites
<1>3. Wanted(n) = {n.want[i] : i \in 1 .. Len(n.want)}
  BY DEF Wanted
<1>4. CASE k.op \in OnOrder
  <2>1. k.held = {OrderLock(o)} /\ ShiftLock(k.by) \notin k.held
    BY <1>1, <1>4, LocksDiffer DEF Ordered
  <2>2. n.want = <<ShiftLock(k.by)>> \/ \A i \in 1 .. Len(n.want) : n.want[i] \in OrderLines(o)
    <3>1. k.op \notin Creates
      BY <1>4 DEF OnOrder, Creates
    <3> QED BY <1>2, <3>1, MoreLocksAre
  <2>4. n.want = <<ShiftLock(k.by)>> \/ Wanted(n) \subseteq OrderLines(o)
    BY <1>3, <2>2
  <2> HIDE DEF k, n, o
  <2>3. Ordered(n)
    BY <1>1, <1>4, <2>1, <2>4 DEF Ordered, OnOrder
  <2> QED BY <2>3 DEF n
<1>5. CASE k.op \in {"create", "open", "close"}
  <2>1. k.held = {ShiftLock(k.by)}
    BY <1>1, <1>5 DEF Ordered
  <2>2. n.want = <<>>
    <3>1. CASE k.op = "create"
      BY <1>2, <3>1, MoreLocksAre DEF Creates
    <3>2. CASE k.op \in {"open", "close"}
      <4>1. L = {}
        BY <1>2, <3>2 DEF Allowed, OnShift
      <4>2. n.want = SetToSeq({LineLock(o, l) : l \in {}})
        BY <1>2, <3>2, <4>1 DEF MoreLocks, Creates
      <4> QED BY <4>2, NoLines
    <3> QED BY <1>5, <3>1, <3>2
  <2> HIDE DEF k, n, o
  <2>3. Ordered(n)
    BY <1>1, <1>5, <2>1, <2>2 DEF Ordered, OnOrder
  <2> QED BY <2>3 DEF n
<1>6. CASE k.op = "remote"
  <2>1. n.want = <<>> /\ n.held = {}
    BY <1>1, <1>2, <1>6, MoreLocksAre DEF Ordered, Creates
  <2> HIDE DEF k, n, o
  <2>2. Ordered(n)
    BY <1>1, <1>6, <2>1 DEF Ordered, OnOrder
  <2> QED BY <2>2 DEF n
<1>7. CASE k.op \notin OnOrder \union {"create", "open", "close", "remote"}
  <2> HIDE DEF k, n, o
  <2>1. Ordered(n)
    BY <1>1, <1>7 DEF Ordered
  <2> QED BY <2>1 DEF n
<1> QED BY <1>4, <1>5, <1>6, <1>7

LEMMA CountOrdered ==
  ASSUME TypeOK, NEW t \in Task, Count(t), Ordered(task[t])
  PROVE  Ordered(task'[t])
<1> DEFINE k == task[t]
           n == task'[t]
           o == k.order
<1>1. /\ k.op \in {"mark", "unmark", "remove"} /\ k.stage = "looked" /\ k.want = <<>>
      /\ n.op = k.op /\ n.stage = "counted" /\ n.order = o /\ n.held = k.held /\ n.by = k.by
      /\ n.want = <<>> \/ k.op \in Taps
  BY CountWrites
<1>2. n.want = <<>> => Wanted(n) = {}
  BY DEF Wanted
<1>3. CASE k.op \in OnOrder
  <2>1. /\ OrderLock(o) \in k.held
        /\ k.held \subseteq {OrderLock(o), ShiftLock(k.by)} \union OrderLines(o)
    BY <1>1, <1>3 DEF Ordered
  <2>2. n.want = <<>>
    BY <1>1, <1>3 DEF OnOrder, Taps
  <2> HIDE DEF k, n, o
  <2>3. Ordered(n)
    BY <1>1, <1>2, <1>3, <2>1, <2>2 DEF Ordered, OnOrder
  <2> QED BY <2>3 DEF n
<1>4. CASE k.op \notin OnOrder
  <2> HIDE DEF k, n, o
  <2>1. Ordered(n)
    BY <1>1, <1>4 DEF Ordered
  <2> QED BY <2>1 DEF n
<1> QED BY <1>3, <1>4

LEMMA LocksStep ==
  ASSUME TypeOK, LocksExclude, LocksInOrder, [Next]_vars
  PROVE  LocksExclude' /\ LocksInOrder'
<1>1. ASSUME NEW t \in Task, task' = [task EXCEPT ![t] = task'[t]], Ordered(task'[t]),
             \A u \in Task \ {t} : task'[t].held \intersect task[u].held = {}
      PROVE  LocksExclude' /\ LocksInOrder'
  <2>1. \A u \in Task \ {t} : task'[u] = task[u]
    BY <1>1 DEF TypeOK
  <2>2. LocksInOrder'
    BY <1>1, <2>1 DEF LocksInOrder
  <2>3. ASSUME NEW u \in Task, NEW v \in Task, u # v
        PROVE  task'[u].held \intersect task'[v].held = {}
    <3>1. CASE u # t /\ v # t
      BY <2>1, <2>3, <3>1 DEF LocksExclude
    <3>2. CASE u = t
      BY <1>1, <2>1, <2>3, <3>2
    <3>3. CASE v = t
      BY <1>1, <2>1, <2>3, <3>3
    <3> QED BY <3>1, <3>2, <3>3
  <2> QED BY <2>2, <2>3 DEF LocksExclude
<1>2. CASE UNCHANGED vars
  BY <1>2 DEF vars, LocksExclude, LocksInOrder
<1>3. ASSUME NEW t \in Task, Begin(t) PROVE LocksExclude' /\ LocksInOrder'
  <2>1. task' = [task EXCEPT ![t] = task'[t]]
    BY <1>3, BeginWrites DEF TypeOK
  <2> QED BY <1>1, <1>3, <2>1, BeginOrdered
<1>4. ASSUME NEW t \in Task, Acquire(t) PROVE LocksExclude' /\ LocksInOrder'
  <2>1. task' = [task EXCEPT ![t] = task'[t]] /\ task'[t].held = task[t].held \union {Head(task[t].want)}
        /\ Free(t, Head(task[t].want))
    BY <1>4, AcquireWrites DEF TypeOK
  <2>2. \A u \in Task \ {t} : task'[t].held \intersect task[u].held = {}
    BY <2>1 DEF Free, LocksExclude
  <2> QED BY <1>1, <1>4, <2>1, <2>2, AcquireOrdered DEF LocksInOrder
<1>5. ASSUME NEW t \in Task, Look(t) \/ Count(t) PROVE LocksExclude' /\ LocksInOrder'
  <2>1. task' = [task EXCEPT ![t] = task'[t]] /\ task'[t].held = task[t].held
    BY <1>5, LookWrites, CountWrites
  <2>2. \A u \in Task \ {t} : task'[t].held \intersect task[u].held = {}
    BY <2>1 DEF LocksExclude
  <2> QED BY <1>1, <1>5, <2>1, <2>2, LookOrdered, CountOrdered DEF LocksInOrder
<1>6. ASSUME NEW t \in Task, Abort(t) \/ Commit(t) PROVE LocksExclude' /\ LocksInOrder'
  <2>1. task' = [task EXCEPT ![t] = Idle]
    BY <1>6, CommitEnds
  <2>2. task'[t] = Idle /\ Ordered(Idle)
    BY <2>1, IdleIs DEF TypeOK, Ordered, OnOrder
  <2> QED BY <1>1, <2>1, <2>2, IdleIs
<1> QED BY <1>2, <1>3, <1>4, <1>5, <1>6, Steps

\* What a request that waits holds, unless it is a tap.
LEMMA WaitingHolds ==
  ASSUME TypeOK, LocksInOrder, NEW t \in Task, task[t].want # <<>>, task[t].op \notin Taps
  PROVE  LET k == task[t] o == k.order IN
         /\ \A u : ShiftLock(u) \notin k.held
         /\ k.held \subseteq {OrderLock(o)} \union OrderLines(o)
         /\ k.held # {} => OrderLock(o) \in k.held
         /\ \/ Head(k.want) = ShiftLock(k.by)
            \/ Head(k.want) = OrderLock(o) /\ k.held = {}
            \/ Head(k.want) \in OrderLines(o) /\ OrderLock(o) \in k.held
<1> DEFINE k == task[t]
           o == k.order
<1>1. k.want \in Seq(Lock) /\ k.op \in Op \union {"idle"} /\ Ordered(k)
  BY DEF TypeOK, Request, LocksInOrder
<1>2. Head(k.want) \in Wanted(k)
  <2>1. Head(k.want) = k.want[1] /\ 1 \in 1 .. Len(k.want)
    BY <1>1
  <2> QED BY <2>1 DEF Wanted
<1>3. \A x : k.want = <<x>> => Head(k.want) = x
  OBVIOUS
<1>7. ASSUME ShiftLock(k.by) \notin k.held,
             k.held \subseteq {OrderLock(o), ShiftLock(k.by)} \union OrderLines(o)
      PROVE  /\ k.held \subseteq {OrderLock(o)} \union OrderLines(o)
             /\ \A u : ShiftLock(u) \notin k.held
  <2>1. k.held \subseteq {OrderLock(o)} \union OrderLines(o)
    BY <1>7
  <2> QED BY <2>1, LocksDiffer DEF OrderLines
<1>4. k.op \in OnOrder \union {"create", "open", "close"}
  <2>1. k.op \notin {"remote", "idle"}
    BY <1>1 DEF Ordered
  <2> QED BY <1>1, <2>1, TicketConstants DEF OnOrder, Taps
<1>5. CASE k.op \in OnOrder
  <2>1. CASE k.stage = "begun" /\ k.want = <<OrderLock(o)>> /\ k.held = {}
    BY <1>3, <2>1
  <2>2. CASE /\ k.stage # "begun" /\ OrderLock(o) \in k.held
             /\ k.held \subseteq {OrderLock(o), ShiftLock(k.by)} \union OrderLines(o)
             /\ Wanted(k) \subseteq OrderLines(o) /\ (ShiftLock(k.by) \in k.held => k.want = <<>>)
    BY <1>2, <1>7, <2>2
  <2>3. CASE /\ k.stage # "begun" /\ OrderLock(o) \in k.held
             /\ k.held \subseteq {OrderLock(o), ShiftLock(k.by)} \union OrderLines(o)
             /\ k.want = <<ShiftLock(k.by)>> /\ ShiftLock(k.by) \notin k.held
    BY <1>3, <1>7, <2>3
  <2> QED BY <1>1, <1>5, <2>1, <2>2, <2>3 DEF Ordered
<1>6. CASE k.op \in {"create", "open", "close"}
  <2>1. k.want = <<ShiftLock(k.by)>> /\ k.held = {}
    BY <1>1, <1>6 DEF Ordered
  <2> QED BY <1>3, <2>1
<1> QED BY <1>4, <1>5, <1>6

\* No circle: the holder of the shift waits for nothing, the holder of a ticket's line
\* holds the ticket, and a request that waits for its ticket holds nothing.
LEMMA NoCircle ==
  ASSUME TypeOK, LocksExclude, LocksInOrder
  PROVE  OnlyTapsWaitInCircles
<1> SUFFICES ASSUME NEW S \in SUBSET Task, S # {}, \A t \in S : Waits(t, S),
                    \A t \in S : task[t].op \notin Taps
             PROVE  FALSE
  BY DEF OnlyTapsWaitInCircles
<1>1. ASSUME NEW t \in S
      PROVE  /\ task[t].want # <<>>
             /\ \E u \in S \ {t} : Head(task[t].want) \in task[u].held
  BY DEF Waits
<1>2. ASSUME NEW t \in S
      PROVE  /\ Head(task[t].want) = OrderLock(task[t].order) /\ task[t].held = {}
             /\ \E u \in S \ {t} : Head(task[t].want) \in task[u].held
  <2>1. PICK u \in S \ {t} : Head(task[t].want) \in task[u].held
    BY <1>1
  <2>2. /\ \A v : ShiftLock(v) \notin task[u].held
        /\ task[u].held \subseteq {OrderLock(task[u].order)} \union OrderLines(task[u].order)
        /\ task[u].held # {} => OrderLock(task[u].order) \in task[u].held
    BY <1>1, WaitingHolds
  <2>3. \A v : Head(task[t].want) # ShiftLock(v)
    BY <2>1, <2>2
  <2>4. ASSUME Head(task[t].want) \in OrderLines(task[t].order), OrderLock(task[t].order) \in task[t].held
        PROVE  FALSE
    <3>1. PICK l \in Line : Head(task[t].want) = LineLock(task[t].order, l)
      BY <2>4 DEF OrderLines
    <3>2. LineLock(task[t].order, l) \in OrderLines(task[u].order)
      BY <2>1, <2>2, <3>1, LocksDiffer
    <3>3. task[t].order = task[u].order
      BY <3>2, LocksDiffer DEF OrderLines
    <3>4. OrderLock(task[t].order) \in task[u].held
      BY <2>1, <2>2, <3>3
    <3> QED BY <2>4, <3>4 DEF LocksExclude
  <2> QED BY <1>1, <2>1, <2>3, <2>4, WaitingHolds
<1>3. PICK t \in S : TRUE
  OBVIOUS
<1>4. PICK u \in S \ {t} : Head(task[t].want) \in task[u].held
  BY <1>2
<1> QED BY <1>2, <1>4

-----------------------------------------------------------------------------
(* What a commit does to its ticket. *)

\* It writes one ticket and its lines.
Writes(o) ==
  /\ o \in Order
  /\ order' = [order EXCEPT ![o] = order'[o]] /\ order'[o] \in Ticket
  /\ line' = [line EXCEPT ![o] = line'[o]] /\ line'[o] \in [Line -> Item]
  /\ order'[o].status # "NONE" /\ drawer' \in Int /\ UNCHANGED shift

Same(o, fields) == \A x \in fields : order'[o][x] = order[o][x]

\* A new ticket, unpaid; one of a cashier is born on an open shift.
Arrives(t, o) ==
  /\ task[t].op \in Creates /\ order[o].status = "NONE"
  /\ ~order'[o].paid /\ ~order'[o].refunded /\ order'[o].discount = 0
  /\ order'[o].total = BillOf(line'[o])
  /\ order'[o].cashier \in Staff => order'[o].cashier \in Waiter \/ shift[order'[o].cashier]
  /\ drawer' = drawer

\* Its money and its lines stay what they are.
Calm(o) ==
  /\ order[o].status # "NONE"
  /\ Same(o, {"deleted", "paid", "refunded", "cashier", "total", "discount", "cash"})
  /\ BillOf(line'[o]) = BillOf(line[o])
  /\ drawer' = drawer

\* An unpaid ticket is billed anew, or leaves with its last line.
Edited(o) ==
  /\ order[o].status # "NONE" /\ Unpaid(o)
  /\ Same(o, {"paid", "refunded", "cashier", "discount", "cash"})
  /\ order[o].deleted => order'[o].deleted
  /\ order'[o].deleted \/ order'[o].total = BillOf(line'[o])
  /\ drawer' = drawer

\* An unpaid ticket is paid, its cash goes into the drawer.
Paid(t, o) ==
  /\ OrderLock(o) \in task[t].held
  /\ order[o].status # "NONE" /\ Unpaid(o)
  /\ Same(o, {"deleted", "refunded"})
  /\ order'[o].paid /\ order'[o].total + order'[o].discount = order[o].total
  /\ BillOf(line'[o]) = BillOf(line[o])
  /\ drawer' = drawer + order'[o].cash

\* A paid ticket is given back, once.
Refunded(o) ==
  /\ order[o].status # "NONE"
  /\ order[o].paid /\ ~order[o].refunded /\ order'[o].refunded
  /\ Same(o, {"deleted", "paid", "cashier", "total", "discount", "cash"})
  /\ BillOf(line'[o]) = BillOf(line[o])
  /\ drawer' = drawer - order[o].cash

Moves(t, o) ==
  /\ Writes(o)
  /\ Arrives(t, o) \/ Calm(o) \/ Edited(o) \/ Paid(t, o) \/ Refunded(o)

\* The ticket of a request, its locks and what it relies on.
LEMMA OwnTicket ==
  ASSUME TypeOK, TicketInv, NEW t \in Task, task[t].op \notin OnShift \union {"idle"}
  PROVE  LET o == task[t].order IN
         /\ o \in Order /\ order[o] \in Ticket /\ line[o] \in [Line -> Item]
         /\ task[t].lines \in SUBSET Line /\ task[t].qty \in Nat
         /\ order[o].status = "NONE" <=> task[t].op \in Creates
         /\ task[t].op \in OnOrder /\ task[t].stage # "begun" => OrderLock(o) \in task[t].held
         /\ task[t].op \in {"add", "set", "remove", "pay"} /\ task[t].stage # "begun" => Unpaid(o)
<1>1. task[t] \in Request
  BY DEF TypeOK
<1>2. task[t].lines \in SUBSET Line /\ task[t].qty \in Nat
  BY <1>1 DEF Request
<1>3. task[t].order \in Order /\ (order[task[t].order].status = "NONE" <=> task[t].op \in Creates)
  BY DEF TicketInv, OwnTickets
<1>4. order[task[t].order] \in Ticket /\ line[task[t].order] \in [Line -> Item]
  BY <1>3 DEF TypeOK
<1>5. task[t].op \in OnOrder /\ task[t].stage # "begun" => OrderLock(task[t].order) \in task[t].held
  <2>1. Ordered(task[t])
    BY DEF TicketInv, LocksInOrder
  <2> QED BY <2>1 DEF Ordered
<1>6. task[t].op \in {"add", "set", "remove", "pay"} /\ task[t].stage # "begun" => Unpaid(task[t].order)
  BY DEF TicketInv, LooksHold
<1> QED BY <1>2, <1>3, <1>4, <1>5, <1>6

LEMMA BornMoves ==
  ASSUME TypeOK, TicketInv, NEW t \in Task, Create(t) \/ CreateRemote(t)
  PROVE  Moves(t, task[t].order)
<1> DEFINE o == task[t].order
           L == task[t].lines
           q == task[t].qty
           u == task[t].by
<1>1. /\ Born(t) /\ task[t].op \in Creates /\ task[t].stage = "looked"
  BY DEF Create, CreateRemote, Committing, Creates
<1>0. u \in Staff \union {Nobody} /\ (u \in Staff => u \in Waiter \/ shift[u])
  <2>1. u \in Staff \union {Nobody}
    BY DEF TypeOK, Request
  <2>2. task[t].op = "create" => shift[u]
    BY <1>1 DEF TicketInv, LooksHold
  <2>3. task[t].op = "remote" => u \in Waiter \union {Nobody}
    <3>1. task[t].op = "remote" => u \in Senders("remote")
      BY DEF TicketInv, Sent
    <3> QED BY <3>1 DEF Senders, OnShift
  <2> QED BY <1>1, <2>1, <2>2, <2>3, TicketStaff DEF Creates
<1>2. task[t].op \notin OnShift \union {"idle"}
  BY <1>1 DEF Creates, OnShift
<1>3. o \in Order /\ L \in SUBSET Line /\ q \in Nat /\ order[o].status = "NONE"
  BY <1>1, <1>2, OwnTicket
<1> DEFINE st == IF L \subseteq Instant THEN "READY" ELSE "PREPARING"
           n == q * Cardinality(L)
           r == [NoTicket EXCEPT !.status = st, !.cashier = u, !.total = n]
           items == [l \in Line |->
             IF l \in L THEN [qty |-> q, ready |-> l \in Instant, live |-> TRUE] ELSE NoItem]
<1>4. /\ order' = [order EXCEPT ![o] = r] /\ line' = [line EXCEPT ![o] = items]
      /\ UNCHANGED <<drawer, shift>>
  BY <1>1 DEF Born
<1>5. n \in Nat /\ st \in Status \ {"NONE"}
  <2>1. IsFiniteSet(L)
    BY <1>3, TicketConstants, FS_Subset
  <2>2. Cardinality(L) \in Nat
    BY <2>1, FS_CardinalityType
  <2> HIDE DEF o, L, q
  <2>3. q * Cardinality(L) \in Nat
    BY <1>3, <2>2
  <2>4. st \in Status \ {"NONE"}
    BY DEF Status
  <2> QED BY <2>3, <2>4 DEF n
<1>6. BillOf(items) = n
  BY <1>3, BornBill
<1>7. items \in [Line -> Item]
  <2>1. [qty |-> q, ready |-> TRUE, live |-> TRUE] \in Item /\ [qty |-> q, ready |-> FALSE, live |-> TRUE] \in Item
    BY <1>3 DEF Item
  <2>2. NoItem \in Item
    BY DEF NoItem, Item
  <2>3. \A l \in Line : l \in L => [qty |-> q, ready |-> l \in Instant, live |-> TRUE] \in Item
    BY <1>3 DEF Item
  <2> QED BY <2>2, <2>3
<1> HIDE DEF items, n, st, u
<1>8. /\ r \in Ticket /\ r.status = st /\ ~r.paid /\ ~r.refunded /\ r.discount = 0
      /\ r.total = n /\ r.cashier = u
  BY <1>0, <1>5 DEF Ticket, NoTicket
<1> HIDE DEF r
<1>9. order'[o] = r /\ line'[o] = items
  BY <1>3, <1>4 DEF TypeOK
<1>10. Writes(o)
  <2>1. drawer' \in Int
    BY <1>4 DEF TypeOK
  <2> QED BY <1>3, <1>4, <1>5, <1>7, <1>8, <1>9, <2>1 DEF Writes
<1>11. Arrives(t, o)
  <2> QED BY <1>0, <1>1, <1>3, <1>4, <1>6, <1>8, <1>9 DEF Arrives
<1> QED BY <1>10, <1>11 DEF Moves, o

\* A ticket under edit is billed for the lines as they are written.
LEMMA RebilledMoves ==
  ASSUME TypeOK, NEW o \in Order, order[o].status # "NONE", Unpaid(o),
         NEW items \in [Line -> Item], NEW st \in Status \ {"NONE"}, NEW gone \in BOOLEAN, NEW n \in Nat,
         order' = [order EXCEPT ![o] = [order[o] EXCEPT !.total = n, !.status = st, !.deleted = gone]],
         gone \/ n = BillOf(items), order[o].deleted => gone,
         line' = [line EXCEPT ![o] = items], UNCHANGED <<drawer, shift>>
  PROVE  Writes(o) /\ Edited(o)
<1> DEFINE r == [order[o] EXCEPT !.total = n, !.status = st, !.deleted = gone]
<1>1. order[o] \in Ticket
  BY DEF TypeOK
<1>2. /\ r \in Ticket /\ r.status = st /\ r.total = n /\ r.deleted = gone
      /\ \A x \in {"paid", "refunded", "cashier", "discount", "cash"} : r[x] = order[o][x]
  BY <1>1 DEF Ticket
<1>3. order' = [order EXCEPT ![o] = r]
  OBVIOUS
<1> HIDE DEF r
<1>4. order'[o] = r /\ line'[o] = items
  BY <1>3 DEF TypeOK
<1>5. Writes(o)
  <2>1. drawer' \in Int
    BY DEF TypeOK
  <2> QED BY <1>2, <1>3, <1>4, <2>1 DEF Writes
<1>6. Edited(o)
  BY <1>2, <1>4 DEF Edited, Same
<1> QED BY <1>5, <1>6

LEMMA AddMoves ==
  ASSUME TypeOK, TicketInv, NEW t \in Task, AddItem(t)
  PROVE  Moves(t, task[t].order)
<1> DEFINE o == task[t].order
           L == task[t].lines
           q == task[t].qty
           grown(l) == [line[o][l] EXCEPT !.qty = @ + q]
           new(l) == [qty |-> q, ready |-> l \in Instant, live |-> TRUE]
           items == [l \in Line |-> IF l \notin L THEN line[o][l]
                                    ELSE IF line[o][l].qty > 0 THEN grown(l) ELSE new(l)]
<1>1. task[t].op = "add" /\ task[t].stage = "looked"
  BY DEF AddItem, Committing
<1>2. /\ o \in Order /\ order[o] \in Ticket /\ line[o] \in [Line -> Item] /\ L \in SUBSET Line /\ q \in Nat
      /\ order[o].status # "NONE" /\ Unpaid(o)
  BY <1>1, OwnTicket DEF OnShift, Creates
<1>3. line' = [line EXCEPT ![o] = items] /\ order' = [order EXCEPT ![o].total = BillOf(items)]
      /\ UNCHANGED <<drawer, shift>>
  BY DEF AddItem, Rebilled
<1> HIDE DEF o, L, q
<1>4. items \in [Line -> Item]
  <2>1. ASSUME NEW l \in Line PROVE line[o][l] \in Item /\ grown(l) \in Item /\ new(l) \in Item
    <3>1. line[o][l] \in Item
      BY <1>2
    <3> QED BY <1>2, <3>1 DEF Item
  <2> HIDE DEF grown, new
  <2> QED BY <2>1
<1> HIDE DEF items
<1>5. BillOf(items) \in Nat
  BY <1>4, BillIsNat
<1> DEFINE n == BillOf(items)
<1> HIDE DEF n
<1>6. order' = [order EXCEPT ![o] =
        [order[o] EXCEPT !.total = n, !.status = order[o].status, !.deleted = order[o].deleted]]
  <2>1. order' = [order EXCEPT ![o].total = n]
    BY <1>3 DEF n
  <2>2. [order[o] EXCEPT !.total = n, !.status = order[o].status, !.deleted = order[o].deleted]
          = [order[o] EXCEPT !.total = n]
    BY <1>2 DEF Ticket
  <2> QED BY <2>1, <2>2
<1>7. order[o].status \in Status \ {"NONE"} /\ order[o].deleted \in BOOLEAN
  BY <1>2 DEF Ticket
<1>8. Writes(o) /\ Edited(o)
  BY <1>2, <1>3, <1>4, <1>5, <1>6, <1>7, RebilledMoves DEF n
<1> QED BY <1>8 DEF Moves, o

LEMMA SetMoves ==
  ASSUME TypeOK, TicketInv, NEW t \in Task, SetQuantity(t)
  PROVE  Moves(t, task[t].order)
<1> DEFINE o == task[t].order
           L == task[t].lines
           q == task[t].qty
           items == [l \in Line |-> IF l \in L THEN [line[o][l] EXCEPT !.qty = q] ELSE line[o][l]]
<1>1. task[t].op = "set" /\ task[t].stage = "looked"
  BY DEF SetQuantity, Committing
<1>2. /\ o \in Order /\ order[o] \in Ticket /\ line[o] \in [Line -> Item] /\ L \in SUBSET Line /\ q \in Nat
      /\ order[o].status # "NONE" /\ Unpaid(o)
  BY <1>1, OwnTicket DEF OnShift, Creates
<1>3. line' = [line EXCEPT ![o] = items] /\ order' = [order EXCEPT ![o].total = BillOf(items)]
      /\ UNCHANGED <<drawer, shift>>
  BY DEF SetQuantity, Rebilled
<1> HIDE DEF o, L, q
<1>4. items \in [Line -> Item]
  BY <1>2 DEF Item
<1> HIDE DEF items
<1>5. BillOf(items) \in Nat
  BY <1>4, BillIsNat
<1> DEFINE n == BillOf(items)
<1> HIDE DEF n
<1>6. order' = [order EXCEPT ![o] =
        [order[o] EXCEPT !.total = n, !.status = order[o].status, !.deleted = order[o].deleted]]
  <2>1. order' = [order EXCEPT ![o].total = n]
    BY <1>3 DEF n
  <2>2. [order[o] EXCEPT !.total = n, !.status = order[o].status, !.deleted = order[o].deleted]
          = [order[o] EXCEPT !.total = n]
    BY <1>2 DEF Ticket
  <2> QED BY <2>1, <2>2
<1>7. order[o].status \in Status \ {"NONE"} /\ order[o].deleted \in BOOLEAN
  BY <1>2 DEF Ticket
<1>8. Writes(o) /\ Edited(o)
  BY <1>2, <1>3, <1>4, <1>5, <1>6, <1>7, RebilledMoves DEF n
<1> QED BY <1>8 DEF Moves, o

LEMMA RemoveMoves ==
  ASSUME TypeOK, TicketInv, NEW t \in Task, RemoveItem(t) \/ RemoveItemByWaiter(t)
  PROVE  Moves(t, task[t].order)
<1> DEFINE o == task[t].order
           L == task[t].lines
           items == Without(line[o], L)
           gone == \A l \in Line : ~items[l].live
<1>1. PICK readies \in BOOLEAN : Removes(t, readies)
  <2>1. task[t].all \in BOOLEAN
    BY DEF TypeOK, Request
  <2> QED BY <2>1 DEF RemoveItem, RemoveItemByWaiter
<1>2. task[t].op = "remove" /\ task[t].stage = "counted"
  BY <1>1 DEF Removes, Committing
<1>3. /\ o \in Order /\ order[o] \in Ticket /\ line[o] \in [Line -> Item] /\ L \in SUBSET Line
      /\ order[o].status # "NONE" /\ Unpaid(o)
  BY <1>2, OwnTicket DEF OnShift, Creates
<1>4. /\ line' = [line EXCEPT ![o] = items] /\ UNCHANGED <<drawer, shift>>
      /\ order' = IF gone
              THEN [order EXCEPT ![o].deleted = TRUE]
              ELSE [[order EXCEPT ![o].total = BillOf(items)] EXCEPT ![o].status = IF readies THEN "READY" ELSE @]
  BY <1>1 DEF Removes, Rebilled
<1> HIDE DEF o, L
<1>5. items \in [Line -> Item]
  BY <1>3 DEF Item, Without
<1> HIDE DEF items
<1>6. BillOf(items) \in Nat
  BY <1>5, BillIsNat
<1> DEFINE n == BillOf(items)
<1> HIDE DEF n
<1>7. order[o].status \in Status \ {"NONE"} /\ order[o].total \in Nat
  BY <1>3 DEF Ticket
<1>8. CASE gone
  <2>1. order' = [order EXCEPT ![o] =
          [order[o] EXCEPT !.total = order[o].total, !.status = order[o].status, !.deleted = TRUE]]
    <3>1. order' = [order EXCEPT ![o].deleted = TRUE]
      BY <1>4, <1>8
    <3>2. [order[o] EXCEPT !.total = order[o].total, !.status = order[o].status, !.deleted = TRUE]
            = [order[o] EXCEPT !.deleted = TRUE]
      BY <1>3 DEF Ticket
    <3> QED BY <3>1, <3>2
  <2> HIDE DEF gone
  <2>2. Writes(o) /\ Edited(o)
    BY <1>3, <1>4, <1>5, <1>7, <2>1, RebilledMoves
  <2> QED BY <2>2 DEF Moves, o
<1>9. CASE ~gone
  <2> DEFINE st == IF readies THEN "READY" ELSE order[o].status
  <2>1. st \in Status \ {"NONE"}
    BY <1>7 DEF Status
  <2>2. order' = [[order EXCEPT ![o].total = n] EXCEPT ![o].status = IF readies THEN "READY" ELSE @]
    BY <1>4, <1>9 DEF n
  <2> HIDE DEF gone
  <2>3. order' = [order EXCEPT ![o] = [[order[o] EXCEPT !.total = n] EXCEPT !.status = st]]
    <3>1. [order EXCEPT ![o].total = n] = [order EXCEPT ![o] = [order[o] EXCEPT !.total = n]]
      OBVIOUS
    <3>2. [order EXCEPT ![o].total = n][o] = [order[o] EXCEPT !.total = n]
      BY <1>3 DEF TypeOK
    <3>3. [order[o] EXCEPT !.total = n].status = order[o].status
      BY <1>3 DEF Ticket
    <3> QED BY <1>3, <2>2, <3>1, <3>2, <3>3 DEF TypeOK
  <2> HIDE DEF st
  <2>4. [[order[o] EXCEPT !.total = n] EXCEPT !.status = st]
          = [order[o] EXCEPT !.total = n, !.status = st, !.deleted = order[o].deleted]
    BY <1>3 DEF Ticket
  <2>5. order' = [order EXCEPT ![o] =
          [order[o] EXCEPT !.total = n, !.status = st, !.deleted = order[o].deleted]]
    BY <2>3, <2>4
  <2>6. order[o].deleted \in BOOLEAN
    BY <1>3 DEF Ticket
  <2>7. Writes(o) /\ Edited(o)
    BY <1>3, <1>4, <1>5, <1>6, <2>1, <2>5, <2>6, RebilledMoves DEF n
  <2> QED BY <2>7 DEF Moves, o
<1> QED BY <1>8, <1>9

\* The kitchen writes the status of a ticket and the readiness of its lines.
LEMMA KitchenMoves ==
  ASSUME TypeOK, TicketInv, NEW t \in Task,
         Prepare(t) \/ SetReady(t) \/ MarkReady(t) \/ MarkItem(t) \/ UnmarkItem(t)
  PROVE  Moves(t, task[t].order)
<1> DEFINE o == task[t].order
<1>1. task[t].op \in {"prepare", "ready", "mark", "unmark"}
  BY DEF Prepare, SetReady, MarkReady, MarkItem, UnmarkItem, Committing
<1>2. /\ o \in Order /\ order[o] \in Ticket /\ line[o] \in [Line -> Item] /\ order[o].status # "NONE"
      /\ task[t].lines \in SUBSET Line
  BY <1>1, OwnTicket DEF OnShift, Creates
<1>3. \E st \in Status \ {"NONE"}, items \in [Line -> Item] :
        /\ order' = [order EXCEPT ![o].status = st] /\ line' = [line EXCEPT ![o] = items]
        /\ BillOf(items) = BillOf(line[o]) /\ UNCHANGED <<drawer, shift>>
  <2>1. ASSUME NEW ready \in BOOLEAN
        PROVE  /\ Stamped(line[o], task[t].lines, ready) \in [Line -> Item]
               /\ BillOf(Stamped(line[o], task[t].lines, ready)) = BillOf(line[o])
    <3> DEFINE items == Stamped(line[o], task[t].lines, ready)
    <3>1. items \in [Line -> Item]
      BY <1>2 DEF Stamped, Item
    <3>2. \A l \in Line : items[l].qty = line[o][l].qty /\ items[l].live = line[o][l].live
      BY <1>2 DEF Stamped, Item
    <3> HIDE DEF items
    <3>3. BillOf(items) = BillOf(line[o])
      BY <3>2, BillSame
    <3> QED BY <3>1, <3>3 DEF items
  <2>2. order[o].status \in Status \ {"NONE"} /\ "READY" \in Status \ {"NONE"} /\ "PREPARING" \in Status \ {"NONE"}
    BY <1>2 DEF Ticket, Status
  <2>3. CASE Prepare(t)
    <3>1. line' = [line EXCEPT ![o] = line[o]]
      BY <1>2, <2>3 DEF Prepare, TypeOK
    <3> QED BY <1>2, <2>2, <2>3, <3>1 DEF Prepare
  <2>4. CASE SetReady(t) \/ MarkReady(t)
    <3>1. SetReady(t)
      BY <2>4 DEF MarkReady
    <3>2. line' = [line EXCEPT ![o] = Stamped(line[o], task[t].lines, TRUE)]
      BY <3>1 DEF SetReady
    <3>3. order' = [order EXCEPT ![o].status = "READY"] /\ UNCHANGED <<drawer, shift>>
      BY <3>1 DEF SetReady
    <3> QED BY <2>1, <2>2, <3>2, <3>3
  <2>5. CASE MarkItem(t)
    <3> DEFINE st == IF task[t].all THEN "READY" ELSE order[o].status
    <3>1. line' = [line EXCEPT ![o] = Stamped(line[o], task[t].lines, TRUE)]
      BY <2>5 DEF MarkItem
    <3>2. order' = [order EXCEPT ![o].status = st] /\ UNCHANGED <<drawer, shift>>
      BY <1>2, <2>5 DEF MarkItem, TypeOK
    <3>3. st \in Status \ {"NONE"}
      BY <2>2
    <3> HIDE DEF st
    <3> QED BY <2>1, <3>1, <3>2, <3>3
  <2>6. CASE UnmarkItem(t)
    <3> DEFINE st == IF task[t].seen = "READY" THEN "PREPARING" ELSE order[o].status
    <3>1. line' = [line EXCEPT ![o] = Stamped(line[o], task[t].lines, FALSE)]
      BY <2>6 DEF UnmarkItem
    <3>2. order' = [order EXCEPT ![o].status = st] /\ UNCHANGED <<drawer, shift>>
      BY <1>2, <2>6 DEF UnmarkItem, TypeOK
    <3>3. st \in Status \ {"NONE"}
      BY <2>2
    <3> HIDE DEF st
    <3> QED BY <2>1, <3>1, <3>2, <3>3
  <2> QED BY <2>3, <2>4, <2>5, <2>6
<1>4. PICK st \in Status \ {"NONE"}, items \in [Line -> Item] :
        /\ order' = [order EXCEPT ![o].status = st] /\ line' = [line EXCEPT ![o] = items]
        /\ BillOf(items) = BillOf(line[o]) /\ UNCHANGED <<drawer, shift>>
  BY <1>3
<1> DEFINE r == [order[o] EXCEPT !.status = st]
<1>5. /\ r \in Ticket /\ r.status = st
      /\ \A x \in {"deleted", "paid", "refunded", "cashier", "total", "discount", "cash"} : r[x] = order[o][x]
  BY <1>2 DEF Ticket
<1>6. order' = [order EXCEPT ![o] = r]
  BY <1>4
<1> HIDE DEF r, o
<1>7. order'[o] = r /\ line'[o] = items
  BY <1>2, <1>4, <1>6 DEF TypeOK
<1>8. Writes(o)
  <2>1. drawer' \in Int
    BY <1>4 DEF TypeOK
  <2> QED BY <1>2, <1>4, <1>5, <1>6, <1>7, <2>1 DEF Writes
<1>9. Calm(o)
  BY <1>2, <1>4, <1>5, <1>7 DEF Calm, Same
<1> QED BY <1>8, <1>9 DEF Moves, o

LEMMA CancelMoves ==
  ASSUME TypeOK, TicketInv, NEW t \in Task, Cancel(t)
  PROVE  Moves(t, task[t].order)
<1> DEFINE o == task[t].order
           back == Refund(o)
           r == [order[o] EXCEPT !.status = "CANCELED", !.refunded = @ \/ back]
<1>1. task[t].op = "cancel"
  BY DEF Cancel, Committing
<1>2. o \in Order /\ order[o] \in Ticket /\ line[o] \in [Line -> Item] /\ order[o].status # "NONE"
  BY <1>1, OwnTicket DEF OnShift, Creates
<1>3. /\ order' = [order EXCEPT ![o] = r] /\ UNCHANGED <<line, shift>>
      /\ drawer' = IF back THEN drawer - order[o].cash ELSE drawer
  BY DEF Cancel
<1>4. back \in BOOLEAN /\ (back <=> order[o].paid /\ ~order[o].refunded)
  BY DEF Refund
<1>5. /\ r \in Ticket /\ r.status = "CANCELED"
      /\ \A x \in {"deleted", "paid", "cashier", "total", "discount", "cash"} : r[x] = order[o][x]
  <2>1. (order[o].refunded \/ back) \in BOOLEAN
    BY <1>2, <1>4 DEF Ticket
  <2> HIDE DEF back
  <2> QED BY <1>2, <2>1 DEF Ticket, Status
<1>6. r.refunded <=> order[o].refunded \/ back
  BY <1>2 DEF Ticket
<1> HIDE DEF r, o
<1>7. order'[o] = r /\ line' = [line EXCEPT ![o] = line'[o]] /\ line'[o] = line[o]
  BY <1>2, <1>3 DEF TypeOK
<1>8. Writes(o)
  <2>1. order[o].cash \in Int
    BY <1>2 DEF Ticket
  <2>2. drawer' \in Int
    BY <1>3, <2>1 DEF TypeOK
  <2>3. order' = [order EXCEPT ![o] = order'[o]] /\ order'[o] \in Ticket /\ order'[o].status # "NONE"
    BY <1>3, <1>5, <1>7
  <2> QED BY <1>2, <1>3, <1>7, <2>2, <2>3 DEF Writes
<1>9. CASE back
  <2>1. Refunded(o)
    <3>1. /\ order[o].paid /\ ~order[o].refunded /\ order'[o].refunded
          /\ order[o].status # "NONE" /\ BillOf(line'[o]) = BillOf(line[o])
          /\ drawer' = drawer - order[o].cash
      BY <1>2, <1>3, <1>4, <1>6, <1>7, <1>9
    <3>2. Same(o, {"deleted", "paid", "cashier", "total", "discount", "cash"})
      BY <1>5, <1>7 DEF Same
    <3> QED BY <3>1, <3>2 DEF Refunded
  <2> QED BY <1>8, <2>1 DEF Moves, o
<1>10. CASE ~back
  <2>1. r.refunded = order[o].refunded
    BY <1>2, <1>5, <1>6, <1>10 DEF Ticket
  <2>2. Same(o, {"deleted", "paid", "refunded", "cashier", "total", "discount", "cash"})
    BY <1>5, <1>7, <2>1 DEF Same
  <2>3. Calm(o)
    BY <1>2, <1>3, <1>7, <1>10, <2>2 DEF Calm
  <2> QED BY <1>8, <2>3 DEF Moves, o
<1> QED BY <1>9, <1>10

LEMMA PayMoves ==
  ASSUME TypeOK, TicketInv, NEW t \in Task, Pay(t)
  PROVE  Moves(t, task[t].order)
<1> DEFINE o == task[t].order
           u == task[t].by
<1>0. u \in Staff \union {Nobody}
  BY DEF TypeOK, Request
<1>1. task[t].op = "pay" /\ task[t].stage = "looked"
  BY DEF Pay, Committing
<1>2. /\ o \in Order /\ order[o] \in Ticket /\ line[o] \in [Line -> Item] /\ order[o].status # "NONE"
      /\ Unpaid(o) /\ OrderLock(o) \in task[t].held
  BY <1>1, OwnTicket DEF OnShift, Creates, OnOrder
<1>3. UNCHANGED <<line, shift>>
  BY DEF Pay
<1>4. PICK d \in 0 .. order[o].total : \E c \in 0 .. order[o].total - d :
       /\ order' = [order EXCEPT ![o].paid = TRUE, ![o].cashier = task[t].by, ![o].discount = d,
                                 ![o].total = @ - d, ![o].cash = c]
       /\ drawer' = drawer + c
  BY DEF Pay
<1>5. PICK c \in 0 .. order[o].total - d :
       /\ order' = [order EXCEPT ![o].paid = TRUE, ![o].cashier = task[t].by, ![o].discount = d,
                                 ![o].total = @ - d, ![o].cash = c]
       /\ drawer' = drawer + c
  BY <1>4
<1> DEFINE n == order[o].total - d
<1>6. order[o].total \in Nat
  BY <1>2 DEF Ticket
<1>7. n \in Nat /\ d \in Nat /\ c \in Nat /\ n + d = order[o].total
  BY <1>6
<1> HIDE DEF n, o, u
<1> DEFINE r == [order[o] EXCEPT !.paid = TRUE, !.cashier = u, !.discount = d, !.total = n, !.cash = c]
<1>8. order' = [order EXCEPT ![o] = r]
  <2>1. order' = [order EXCEPT ![o].paid = TRUE, ![o].cashier = u, ![o].discount = d,
                                 ![o].total = order[o].total - d, ![o].cash = c]
    BY <1>2, <1>5 DEF TypeOK, Ticket, u
  <2>2. order' = [order EXCEPT ![o].paid = TRUE, ![o].cashier = u, ![o].discount = d,
                                 ![o].total = n, ![o].cash = c]
    BY <2>1 DEF n
  <2> QED BY <2>2
<1>9. /\ r \in Ticket /\ r.paid /\ r.discount = d /\ r.total = n /\ r.cash = c
      /\ r.status = order[o].status /\ r.deleted = order[o].deleted /\ r.refunded = order[o].refunded
  BY <1>0, <1>2, <1>7 DEF Ticket
<1> HIDE DEF r
<1>10. order'[o] = r /\ line' = [line EXCEPT ![o] = line'[o]] /\ line'[o] = line[o]
  BY <1>2, <1>3, <1>8 DEF TypeOK
<1>11. Writes(o)
  <2>1. drawer' \in Int
    BY <1>5, <1>7 DEF TypeOK
  <2> QED BY <1>2, <1>3, <1>8, <1>9, <1>10, <2>1 DEF Writes
<1>12. Paid(t, o)
  <2>1. Same(o, {"deleted", "refunded"})
    BY <1>9, <1>10 DEF Same
  <2>2. order'[o].paid /\ order'[o].total + order'[o].discount = order[o].total /\ drawer' = drawer + order'[o].cash
    BY <1>5, <1>7, <1>9, <1>10
  <2> QED BY <1>2, <1>10, <2>1, <2>2 DEF Paid
<1> QED BY <1>11, <1>12 DEF Moves, o

\* A shift opens, or closes with no unpaid ticket of its user, under its lock.
ShiftMoves(t) ==
  /\ UNCHANGED <<order, line, drawer>> /\ shift' \in [Staff -> BOOLEAN]
  /\ \A u \in Staff : shift[u] /\ ~shift'[u] => Blocking(u) = {} /\ ShiftLock(u) \in task[t].held

LEMMA CommitMoves ==
  ASSUME TypeOK, TicketInv, NEW t \in Task, Commit(t)
  PROVE  Moves(t, task[t].order) \/ ShiftMoves(t)
<1>1. CASE OpenShift(t)
  BY <1>1 DEF OpenShift, ShiftMoves, TypeOK
<1>2. CASE CloseShift(t)
  <2>1. task[t].op = "close" /\ task[t].stage = "looked" /\ Ordered(task[t])
    BY <1>2 DEF CloseShift, Committing, TicketInv, LocksInOrder
  <2>2. ShiftLock(task[t].by) \in task[t].held
    BY <2>1 DEF Ordered
  <2>3. shift' = [shift EXCEPT ![task[t].by] = FALSE] /\ shift \in [Staff -> BOOLEAN]
    BY <1>2 DEF CloseShift, TypeOK
  <2>4. shift' \in [Staff -> BOOLEAN] /\ \A u \in Staff : u # task[t].by => shift'[u] = shift[u]
    BY <2>3
  <2> QED BY <1>2, <2>2, <2>4 DEF CloseShift, ShiftMoves
<1> QED BY <1>1, <1>2, BornMoves, AddMoves, SetMoves, RemoveMoves, KitchenMoves,
          CancelMoves, PayMoves DEF Commit

\* The rows change at commits only.
LEMMA RowStep ==
  ASSUME TypeOK, TicketInv, [Next]_vars
  PROVE  \/ UNCHANGED rows
         \/ \E t \in Task : /\ Moves(t, task[t].order) \/ ShiftMoves(t)
                            /\ task' = [task EXCEPT ![t] = Idle]
<1>1. CASE UNCHANGED vars
  BY <1>1 DEF vars, rows
<1>2. ASSUME NEW t \in Task, Begin(t) \/ Acquire(t) \/ Look(t) \/ Count(t) \/ Abort(t) PROVE UNCHANGED rows
  BY <1>2 DEF Begin, Acquire, Look, Count, Abort
<1>3. ASSUME NEW t \in Task, Commit(t)
      PROVE  (Moves(t, task[t].order) \/ ShiftMoves(t)) /\ task' = [task EXCEPT ![t] = Idle]
  BY <1>3, CommitMoves, CommitEnds
<1> QED BY <1>1, <1>2, <1>3, Steps

-----------------------------------------------------------------------------
(* The inductive invariant. *)

LEMMA TaskTypes ==
  ASSUME TypeOK, TicketInv, [Next]_vars
  PROVE  task' \in [Task -> Request]
<1>1. ASSUME NEW t \in Task, task' = [task EXCEPT ![t] = task'[t]], task'[t] \in Request
      PROVE  task' \in [Task -> Request]
  BY <1>1 DEF TypeOK
<1>2. CASE UNCHANGED vars
  BY <1>2 DEF vars, TypeOK
<1>3. ASSUME NEW t \in Task, Begin(t) PROVE task' \in [Task -> Request]
  BY <1>1, <1>3, BeginWrites DEF TypeOK
<1>4. ASSUME NEW t \in Task, Acquire(t) PROVE task' \in [Task -> Request]
  BY <1>1, <1>4, AcquireWrites DEF TypeOK
<1>5. ASSUME NEW t \in Task, Look(t) PROVE task' \in [Task -> Request]
  <2> DEFINE o == task[t].order
  <2>1. PICK L \in SUBSET Line :
          /\ Allowed(t, L)
          /\ task' = [task EXCEPT
              ![t].stage = "looked", ![t].lines = L, ![t].want = MoreLocks(t, L),
              ![t].seen = IF task[t].op \in OnShift THEN "NONE" ELSE order[task[t].order].status]
    BY <1>5 DEF Look
  <2>2. task[t].op # "idle" /\ task[t] \in Request
    BY <1>5 DEF Look, TypeOK
  <2> DEFINE w == MoreLocks(t, L)
             e == IF task[t].op \in OnShift THEN "NONE" ELSE order[task[t].order].status
  <2>3. w \in Seq(Lock)
    <3>1. CASE task[t].op \in OnShift
      <4>1. L = {}
        BY <2>1, <3>1 DEF Allowed, OnShift, Creates
      <4>2. task[t].op \notin {"pay", "cancel"} \union Creates
        BY <3>1 DEF OnShift, Creates
      <4>3. w = SetToSeq({LineLock(o, l) : l \in {}})
        BY <4>1, <4>2 DEF MoreLocks
      <4>4. w = <<>>
        BY <4>3, NoLines
      <4> HIDE DEF w
      <4> QED BY <4>4
    <3>2. CASE task[t].op \notin OnShift
      <4>1. o \in Order
        BY <2>2, <3>2, OwnTicket
      <4>2. \/ w = <<ShiftLock(task[t].by)>> /\ task[t].op \in {"pay", "cancel"}
            \/ w = <<>> \/ w \in Seq(OrderLines(o))
        BY MoreLocksAre
      <4>5. task[t].op \in {"pay", "cancel"} => task[t].by \in Staff
        <5>1. task[t].op \in {"pay", "cancel"} => task[t].by \in Senders(task[t].op)
          BY DEF TicketInv, Sent
        <5> QED BY <5>1 DEF Senders, Staff
      <4> HIDE DEF w
      <4>3. w \in Seq(OrderLines(o)) => w \in Seq(Lock)
        BY <4>1, LocksAre
      <4>4. <<>> \in Seq(Lock) /\ (task[t].by \in Staff => <<ShiftLock(task[t].by)>> \in Seq(Lock))
        BY LocksAre
      <4> QED BY <4>2, <4>3, <4>4, <4>5
    <3> QED BY <3>1, <3>2
  <2>4. e \in Status
    <3>1. task[t].op \notin OnShift => order[o] \in Ticket
      BY <2>2, OwnTicket
    <3> QED BY <3>1 DEF Ticket, Status
  <2>5. task' = [task EXCEPT ![t].stage = "looked", ![t].lines = L, ![t].want = w, ![t].seen = e]
    BY <2>1
  <2> HIDE DEF w, e
  <2> DEFINE k == [task[t] EXCEPT !.stage = "looked", !.lines = L, !.want = w, !.seen = e]
  <2>6. k \in Request
    BY <2>2, <2>3, <2>4 DEF Request
  <2>7. task' = [task EXCEPT ![t] = k]
    BY <2>5
  <2> HIDE DEF k
  <2> QED BY <2>6, <2>7 DEF TypeOK
<1>6. ASSUME NEW t \in Task, Count(t) PROVE task' \in [Task -> Request]
  <2>1. /\ task' = [task EXCEPT ![t] = task'[t]]
        /\ task'[t] = [task[t] EXCEPT !.stage = "counted", !.all = task'[t].all, !.want = task'[t].want]
        /\ task'[t].want = <<>> \/ (task'[t].want = <<OrderLock(task[t].order)>> /\ task[t].op \in Taps)
    BY <1>6, CountWrites
  <2>2. task'[t].all \in BOOLEAN
    <3>1. \A items : AllReady(items) \in BOOLEAN
      BY DEF AllReady
    <3>2. PICK b \in BOOLEAN : \E w :
            task' = [task EXCEPT ![t].stage = "counted", ![t].all = b, ![t].want = w]
      BY <1>6, <3>1 DEF Count
    <3>3. PICK w : task' = [task EXCEPT ![t].stage = "counted", ![t].all = b, ![t].want = w]
      BY <3>2
    <3>4. task'[t] = [task[t] EXCEPT !.stage = "counted", !.all = b, !.want = w] /\ task[t] \in Request
      BY <3>3 DEF TypeOK
    <3> QED BY <3>4 DEF Request
  <2>3. task'[t].want \in Seq(Lock)
    <3>1. task[t].op \in Taps => task[t].order \in Order
      BY OwnTicket DEF Taps, OnShift
    <3>2. task[t].op \in Taps => <<OrderLock(task[t].order)>> \in Seq(Lock)
      BY <3>1, LocksAre
    <3>3. <<>> \in Seq(Lock)
      OBVIOUS
    <3> QED BY <2>1, <3>2, <3>3
  <2> DEFINE b == task'[t].all
             w == task'[t].want
  <2>4. task[t] \in Request
    BY DEF TypeOK
  <2>5. b \in BOOLEAN /\ w \in Seq(Lock) /\ task'[t] = [task[t] EXCEPT !.stage = "counted", !.all = b, !.want = w]
    BY <2>1, <2>2, <2>3
  <2> HIDE DEF b, w
  <2>6. task'[t] \in Request
    BY <2>4, <2>5 DEF Request
  <2> QED BY <1>1, <2>1, <2>6
<1>7. ASSUME NEW t \in Task, Abort(t) \/ Commit(t) PROVE task' \in [Task -> Request]
  <2>1. task' = [task EXCEPT ![t] = Idle]
    BY <1>7, CommitEnds
  <2> QED BY <2>1, IdleIs DEF TypeOK
<1> QED BY <1>2, <1>3, <1>4, <1>5, <1>6, <1>7, Steps

LEMMA TypesStep ==
  ASSUME TypeOK, TicketInv, [Next]_vars
  PROVE  TypeOK'
<1>1. CASE UNCHANGED rows
  BY <1>1, TaskTypes DEF TypeOK, rows
<1>2. ASSUME NEW t \in Task, Moves(t, task[t].order) PROVE TypeOK'
  <2>1. Writes(task[t].order)
    BY <1>2 DEF Moves
  <2>2. order' \in [Order -> Ticket]
    BY <2>1 DEF Writes, TypeOK
  <2>3. line' \in [Order -> [Line -> Item]]
    BY <2>1 DEF Writes, TypeOK
  <2>4. drawer' \in Int /\ shift' \in [Staff -> BOOLEAN]
    BY <2>1 DEF Writes, TypeOK
  <2> QED BY <2>2, <2>3, <2>4, TaskTypes DEF TypeOK
<1>3. ASSUME NEW t \in Task, ShiftMoves(t) PROVE TypeOK'
  BY <1>3, TaskTypes DEF ShiftMoves, TypeOK
<1> QED BY <1>1, <1>2, <1>3, RowStep

\* A request keeps its kind, its sender and its ticket until it ends.
LEMMA TaskMoves ==
  ASSUME TypeOK, NEW t \in Task, Acquire(t) \/ Look(t) \/ Count(t)
  PROVE  /\ task' = [task EXCEPT ![t] = task'[t]]
         /\ task'[t].op = task[t].op /\ task'[t].order = task[t].order /\ task'[t].by = task[t].by
<1>1. CASE Acquire(t)
  BY <1>1, AcquireWrites DEF TypeOK
<1>2. CASE Look(t)
  BY <1>2, LookWrites
<1>3. CASE Count(t)
  BY <1>3, CountWrites
<1> QED BY <1>1, <1>2, <1>3

\* A ticket that is there stays, and only its creation brings one about.
LEMMA Arrival ==
  ASSUME TypeOK, TicketInv, NEW t \in Task, Moves(t, task[t].order)
  PROVE  /\ \A o \in Order : o # task[t].order => order'[o] = order[o] /\ line'[o] = line[o]
         /\ order'[task[t].order].status # "NONE"
         /\ task[t].order \in Order
         /\ order[task[t].order].status = "NONE" => task[t].op \in Creates
<1>1. Writes(task[t].order)
  BY DEF Moves
<1>2. \A o \in Order : o # task[t].order => order'[o] = order[o] /\ line'[o] = line[o]
  BY <1>1 DEF Writes, TypeOK
<1>3. order[task[t].order].status = "NONE" => task[t].op \in Creates
  BY DEF Moves, Arrives, Calm, Edited, Paid, Refunded
<1> QED BY <1>1, <1>2, <1>3 DEF Writes

LEMMA OwnStep ==
  ASSUME TypeOK, TicketInv, [Next]_vars
  PROVE  OwnTickets'
<1> DEFINE Owns(k) == k.op \notin OnShift \union {"idle"} =>
             k.order \in Order /\ (order[k.order].status = "NONE" <=> k.op \in Creates)
           Apart(k, m) == k.op \in Creates /\ m.op \in Creates => k.order # m.order
<1>1. (\A t \in Task : Owns(task[t])) /\ (\A t, u \in Task : t # u => Apart(task[t], task[u]))
  BY DEF TicketInv, OwnTickets
<1>2. CASE UNCHANGED vars
  BY <1>1, <1>2 DEF vars, OwnTickets
<1>3. ASSUME NEW t \in Task, Begin(t) PROVE OwnTickets'
  <2>1. PICK op \in Op, o \in Order :
          /\ task' = [task EXCEPT ![t] = task'[t]]
          /\ task'[t].op = op /\ task'[t].order = IF op \in OnShift THEN NoOrder ELSE o
          /\ op \in Creates =>
               order[o].status = "NONE" /\ \A u \in Task : task[u].op \in Creates => task[u].order # o
          /\ op \notin Creates \union OnShift => order[o].status # "NONE"
    BY <1>3, BeginWrites DEF TypeOK
  <2>2. UNCHANGED order
    BY <1>3 DEF Begin, rows
  <2>3. task'[t].order = o \/ task'[t].op \in OnShift
    BY <2>1
  <2>4. \A u \in Task \ {t} : task'[u] = task[u]
    BY <2>1 DEF TypeOK
  <2>5. Creates \intersect OnShift = {}
    BY DEF Creates, OnShift
  <2>6. Owns(task'[t])
    BY <2>1, <2>3, <2>5
  <2>7. \A u \in Task \ {t} : Apart(task'[t], task[u]) /\ Apart(task[u], task'[t])
    BY <2>1, <2>3, <2>5
  <2>8. \A u \in Task : Owns(task'[u])
    BY <1>1, <2>4, <2>6
  <2>9. \A u, v \in Task : u # v => Apart(task'[u], task'[v])
    BY <1>1, <2>4, <2>7
  <2> QED BY <2>2, <2>8, <2>9 DEF OwnTickets
<1>4. ASSUME NEW t \in Task, Acquire(t) \/ Look(t) \/ Count(t) PROVE OwnTickets'
  <2>1. /\ task' = [task EXCEPT ![t] = task'[t]]
        /\ task'[t].op = task[t].op /\ task'[t].order = task[t].order
    BY <1>4, TaskMoves
  <2>2. UNCHANGED order
    BY <1>4 DEF Acquire, Look, Count, rows
  <2>3. \A u \in Task : task'[u].op = task[u].op /\ task'[u].order = task[u].order
    BY <2>1 DEF TypeOK
  <2> QED BY <1>1, <2>2, <2>3 DEF OwnTickets
<1>5. ASSUME NEW t \in Task, task' = [task EXCEPT ![t] = Idle], UNCHANGED order PROVE OwnTickets'
  <2>1. task'[t] = Idle /\ \A u \in Task \ {t} : task'[u] = task[u]
    BY <1>5 DEF TypeOK
  <2>2. Idle.op = "idle" /\ "idle" \notin Creates
    BY IdleIs DEF Creates
  <2>3. \A u \in Task : Owns(task'[u])
    BY <1>1, <2>1, <2>2
  <2>4. \A u, v \in Task : u # v => Apart(task'[u], task'[v])
    BY <1>1, <2>1, <2>2
  <2> QED BY <1>5, <2>3, <2>4 DEF OwnTickets
<1>6. ASSUME NEW t \in Task, task' = [task EXCEPT ![t] = Idle], Moves(t, task[t].order) PROVE OwnTickets'
  <2> DEFINE o == task[t].order
  <2>1. task'[t] = Idle /\ \A u \in Task \ {t} : task'[u] = task[u]
    BY <1>6 DEF TypeOK
  <2>2. Idle.op = "idle" /\ "idle" \notin Creates
    BY IdleIs DEF Creates
  <2>3. /\ \A p \in Order : p # o => order'[p] = order[p]
        /\ order'[o].status # "NONE" /\ o \in Order
        /\ order[o].status = "NONE" => task[t].op \in Creates
    BY <1>6, Arrival
  <2> HIDE DEF o
  <2>4. ASSUME NEW u \in Task, u # t, task[u].op \notin OnShift \union {"idle"}
        PROVE  task[u].order \in Order /\ (order'[task[u].order].status = "NONE" <=> task[u].op \in Creates)
    <3>1. CASE task[u].order # o
      BY <1>1, <2>3, <2>4, <3>1
    <3>2. CASE task[u].order = o
      <4>1. task[u].op \notin Creates
        BY <1>1, <2>3, <2>4, <3>2 DEF o
      <4> QED BY <2>3, <3>2, <4>1
    <3> QED BY <3>1, <3>2
  <2>5. \A u \in Task : task'[u].op \notin OnShift \union {"idle"} =>
          task'[u].order \in Order /\ (order'[task'[u].order].status = "NONE" <=> task'[u].op \in Creates)
    BY <2>1, <2>2, <2>4
  <2>6. \A u, v \in Task : u # v => Apart(task'[u], task'[v])
    BY <1>1, <2>1, <2>2
  <2> QED BY <2>5, <2>6 DEF OwnTickets
<1>7. ASSUME NEW t \in Task, Abort(t) PROVE UNCHANGED order /\ task' = [task EXCEPT ![t] = Idle]
  BY <1>7 DEF Abort, rows
<1>8. ASSUME NEW t \in Task, Commit(t)
      PROVE  \E u \in Task : /\ Moves(u, task[u].order) \/ UNCHANGED order
                             /\ task' = [task EXCEPT ![u] = Idle]
  BY <1>8, CommitEnds, CommitMoves DEF ShiftMoves
<1> QED BY <1>2, <1>3, <1>4, <1>5, <1>6, <1>7, <1>8, Steps

\* A commit leaves a ticket unpaid that it found unpaid, unless it pays it, under its lock.
LEMMA UnpaidStays ==
  ASSUME TypeOK, NEW t \in Task, NEW o \in Order, Moves(t, o)
  PROVE  /\ order'[o].paid \/ (~order'[o].refunded /\ order'[o].discount = 0)
              \/ ~(order[o].status = "NONE" \/ ~order[o].paid => Unpaid(o))
         /\ Unpaid(o) => \/ ~order'[o].paid /\ ~order'[o].refunded /\ order'[o].discount = 0
                         \/ OrderLock(o) \in task[t].held
<1>1. CASE Arrives(t, o)
  BY <1>1 DEF Arrives
<1>2. CASE Calm(o)
  BY <1>2 DEF Calm, Same, Unpaid
<1>3. CASE Edited(o)
  BY <1>3 DEF Edited, Same, Unpaid
<1>4. CASE Paid(t, o)
  BY <1>4 DEF Paid
<1>5. CASE Refunded(o)
  BY <1>5 DEF Refunded, Same, Unpaid
<1> QED BY <1>1, <1>2, <1>3, <1>4, <1>5 DEF Moves

LEMMA LookGuards ==
  ASSUME TypeOK, NEW t \in Task, Look(t)
  PROVE  /\ task[t].op \in {"add", "set", "remove", "pay"} => ~order[task[t].order].paid
         /\ task[t].op = "create" => shift[task[t].by]
<1>1. PICK L \in SUBSET Line : Allowed(t, L)
  BY LookWrites
<1>2. CASE task[t].op \in {"add", "set", "remove"}
  BY <1>1, <1>2 DEF Allowed, Editable, OnShift
<1>3. CASE task[t].op = "pay"
  BY <1>1, <1>3 DEF Allowed, Payable, OnShift
<1>4. CASE task[t].op = "create"
  BY <1>1, <1>4 DEF Allowed, OnShift
<1> QED BY <1>2, <1>3, <1>4

LEMMA LooksStep ==
  ASSUME TypeOK, TicketInv, [Next]_vars
  PROVE  LooksHold'
<1> DEFINE Edits == {"add", "set", "remove", "pay"}
<1>1. /\ \A o \in Order : order[o].status = "NONE" \/ ~order[o].paid => Unpaid(o)
      /\ \A t \in Task : task[t].op \in Edits /\ task[t].stage # "begun" => Unpaid(task[t].order)
      /\ \A t \in Task : task[t].op = "create" /\ task[t].stage # "begun" => shift[task[t].by]
  BY DEF TicketInv, LooksHold
<1>2. \A t \in Task : task[t].op \in Edits => task[t].order \in Order
  <2>1. \A t \in Task : task[t].op \in Edits => task[t].op \notin OnShift \union {"idle"}
    BY DEF OnShift
  <2> QED BY <2>1 DEF TicketInv, OwnTickets
<1>3. ASSUME NEW t \in Task, UNCHANGED rows, task' = [task EXCEPT ![t] = task'[t]],
             task'[t].op \in Edits /\ task'[t].stage # "begun" => Unpaid(task'[t].order),
             task'[t].op = "create" /\ task'[t].stage # "begun" => shift[task'[t].by]
      PROVE  LooksHold'
  <2>1. \A u \in Task \ {t} : task'[u] = task[u]
    BY <1>3 DEF TypeOK
  <2>2. order' = order /\ shift' = shift
    BY <1>3 DEF rows
  <2>3. \A u \in Task : task'[u].op \in Edits /\ task'[u].stage # "begun" => Unpaid(task'[u].order)
    BY <1>1, <1>3, <2>1
  <2>4. \A u \in Task : task'[u].op = "create" /\ task'[u].stage # "begun" => shift[task'[u].by]
    BY <1>1, <1>3, <2>1
  <2> QED BY <1>1, <2>2, <2>3, <2>4 DEF LooksHold, Unpaid
<1>4. CASE UNCHANGED vars
  BY <1>1, <1>4 DEF vars, LooksHold, Unpaid
<1>5. ASSUME NEW t \in Task, Begin(t) PROVE LooksHold'
  <2>1. task' = [task EXCEPT ![t] = task'[t]] /\ task'[t].stage = "begun"
    BY <1>5, BeginWrites DEF TypeOK
  <2>2. UNCHANGED rows
    BY <1>5 DEF Begin
  <2> QED BY <1>3, <2>1, <2>2
<1>6. ASSUME NEW t \in Task, Acquire(t) PROVE LooksHold'
  <2>1. /\ task' = [task EXCEPT ![t] = task'[t]] /\ task'[t].stage = task[t].stage
        /\ task'[t].op = task[t].op /\ task'[t].order = task[t].order /\ task'[t].by = task[t].by
    BY <1>6, AcquireWrites DEF TypeOK
  <2>2. UNCHANGED rows
    BY <1>6 DEF Acquire
  <2> QED BY <1>1, <1>3, <2>1, <2>2
<1>7. ASSUME NEW t \in Task, Look(t) PROVE LooksHold'
  <2>1. /\ task' = [task EXCEPT ![t] = task'[t]]
        /\ task'[t].op = task[t].op /\ task'[t].order = task[t].order /\ task'[t].by = task[t].by
    BY <1>7, TaskMoves
  <2>2. UNCHANGED rows
    BY <1>7 DEF Look
  <2>3. task[t].op \in Edits => Unpaid(task[t].order)
    BY <1>1, <1>2, <1>7, LookGuards
  <2>4. task[t].op = "create" => shift[task[t].by]
    BY <1>7, LookGuards
  <2> QED BY <1>3, <2>1, <2>2, <2>3, <2>4
<1>8. ASSUME NEW t \in Task, Count(t) PROVE LooksHold'
  <2>1. /\ task' = [task EXCEPT ![t] = task'[t]]
        /\ task'[t].op = task[t].op /\ task'[t].order = task[t].order /\ task'[t].by = task[t].by
        /\ task[t].stage # "begun"
    BY <1>8, CountWrites
  <2>2. UNCHANGED rows
    BY <1>8 DEF Count
  <2> QED BY <1>1, <1>3, <2>1, <2>2
<1>9. ASSUME NEW t \in Task, Abort(t) PROVE LooksHold'
  <2>1. task' = [task EXCEPT ![t] = Idle] /\ UNCHANGED rows
    BY <1>9 DEF Abort
  <2>2. task'[t] = Idle
    BY <2>1 DEF TypeOK
  <2> QED BY <1>3, <2>1, <2>2, IdleIs
<1>10. ASSUME NEW t \in Task, Commit(t) PROVE LooksHold'
  <2>1. /\ task' = [task EXCEPT ![t] = Idle]
        /\ Moves(t, task[t].order) \/ ShiftMoves(t)
    BY <1>10, CommitEnds, CommitMoves
  <2>2. task'[t] = Idle /\ \A u \in Task \ {t} : task'[u] = task[u]
    BY <2>1 DEF TypeOK
  <2>3. Idle.op \notin Edits \union {"create"}
    BY IdleIs
  <2>4. CASE Moves(t, task[t].order)
    <3> DEFINE o == task[t].order
    <3>1. /\ \A p \in Order : p # o => order'[p] = order[p]
          /\ order'[o].status # "NONE" /\ o \in Order
      BY <2>4, Arrival
    <3>2. shift' = shift
      BY <2>4 DEF Moves, Writes
    <3>3. /\ order'[o].paid \/ (~order'[o].refunded /\ order'[o].discount = 0)
          /\ Unpaid(o) => \/ ~order'[o].paid /\ ~order'[o].refunded /\ order'[o].discount = 0
                          \/ OrderLock(o) \in task[t].held
      BY <1>1, <2>4, <3>1, UnpaidStays
    <3> HIDE DEF o
    <3>4. \A p \in Order : order'[p].status = "NONE" \/ ~order'[p].paid =>
            ~order'[p].paid /\ ~order'[p].refunded /\ order'[p].discount = 0
      BY <1>1, <3>1, <3>3 DEF Unpaid
    <3>5. ASSUME NEW u \in Task, u # t, task[u].op \in Edits, task[u].stage # "begun"
          PROVE  LET p == task[u].order IN
                 ~order'[p].paid /\ ~order'[p].refunded /\ order'[p].discount = 0
      <4>1. Unpaid(task[u].order) /\ task[u].order \in Order
        BY <1>1, <1>2, <3>5
      <4>2. OrderLock(task[u].order) \in task[u].held
        <5>1. task[u].op \notin OnShift \union {"idle"} /\ task[u].op \in OnOrder
          BY <3>5 DEF OnShift, OnOrder
        <5> QED BY <3>5, <5>1, OwnTicket
      <4>3. task[u].order = o => OrderLock(o) \notin task[t].held
        BY <3>5, <4>2 DEF TicketInv, LocksExclude
      <4>4. CASE task[u].order = o
        BY <3>3, <4>1, <4>3, <4>4
      <4>5. CASE task[u].order # o
        BY <3>1, <4>1, <4>5 DEF Unpaid
      <4> QED BY <4>4, <4>5
    <3>6. \A u \in Task : task'[u].op \in Edits /\ task'[u].stage # "begun" =>
            LET p == task'[u].order IN
            ~order'[p].paid /\ ~order'[p].refunded /\ order'[p].discount = 0
      BY <2>2, <2>3, <3>5
    <3>7. \A u \in Task : task'[u].op = "create" /\ task'[u].stage # "begun" => shift'[task'[u].by]
      BY <1>1, <2>2, <2>3, <3>2
    <3> QED BY <3>4, <3>6, <3>7 DEF LooksHold, Unpaid
  <2>5. CASE ShiftMoves(t)
    <3>1. order' = order
      BY <2>5 DEF ShiftMoves
    <3>2. ASSUME NEW u \in Task, u # t, task[u].op = "create", task[u].stage # "begun"
          PROVE  shift'[task[u].by]
      <4>1. Ordered(task[u])
        BY DEF TicketInv, LocksInOrder
      <4>2. ShiftLock(task[u].by) \in task[u].held
        BY <3>2, <4>1 DEF Ordered
      <4>3. ShiftLock(task[u].by) \notin task[t].held
        BY <3>2, <4>2 DEF TicketInv, LocksExclude
      <4>4. task[u].by \in Staff
        <5>1. task[u].by \in Senders("create")
          BY <3>2 DEF TicketInv, Sent
        <5> QED BY <5>1 DEF Senders, Staff
      <4> QED BY <1>1, <2>5, <3>2, <4>3, <4>4 DEF ShiftMoves
    <3>3. \A u \in Task : task'[u].op \in Edits /\ task'[u].stage # "begun" => Unpaid(task'[u].order)
      BY <1>1, <2>2, <2>3
    <3>4. \A u \in Task : task'[u].op = "create" /\ task'[u].stage # "begun" => shift'[task'[u].by]
      BY <2>2, <2>3, <3>2
    <3> QED BY <1>1, <3>1, <3>3, <3>4 DEF LooksHold, Unpaid
  <2> QED BY <2>1, <2>4, <2>5
<1> QED BY <1>4, <1>5, <1>6, <1>7, <1>8, <1>9, <1>10, Steps

LEMMA SentStep ==
  ASSUME TypeOK, TicketInv, [Next]_vars
  PROVE  Sent'
<1> DEFINE Good(k) == k.op # "idle" => k.by \in Senders(k.op)
<1>1. \A t \in Task : Good(task[t])
  BY DEF TicketInv, Sent
<1>2. ASSUME NEW t \in Task, task' = [task EXCEPT ![t] = task'[t]], Good(task'[t]) PROVE Sent'
  <2>1. \A u \in Task \ {t} : task'[u] = task[u]
    BY <1>2 DEF TypeOK
  <2>2. \A u \in Task : Good(task'[u])
    BY <1>1, <1>2, <2>1
  <2> QED BY <2>2 DEF Sent, Senders
<1>3. CASE UNCHANGED vars
  BY <1>1, <1>3 DEF vars, Sent, Senders
<1>4. ASSUME NEW t \in Task, Begin(t) PROVE Sent'
  <2>1. task' = [task EXCEPT ![t] = task'[t]] /\ task'[t].by \in Senders(task'[t].op)
    BY <1>4, BeginWrites DEF TypeOK
  <2> QED BY <1>2, <2>1
<1>5. ASSUME NEW t \in Task, Acquire(t) \/ Look(t) \/ Count(t) PROVE Sent'
  <2>1. task' = [task EXCEPT ![t] = task'[t]] /\ task'[t].op = task[t].op /\ task'[t].by = task[t].by
    BY <1>5, TaskMoves
  <2>2. Good(task'[t])
    BY <1>1, <2>1
  <2> QED BY <1>2, <2>1, <2>2
<1>6. ASSUME NEW t \in Task, Abort(t) \/ Commit(t) PROVE Sent'
  <2>1. task' = [task EXCEPT ![t] = Idle]
    BY <1>6, CommitEnds
  <2>2. task'[t] = Idle /\ task' = [task EXCEPT ![t] = task'[t]]
    BY <2>1 DEF TypeOK
  <2>3. Good(task'[t])
    BY <2>2, IdleIs
  <2> QED BY <1>2, <2>2, <2>3
<1> QED BY <1>3, <1>4, <1>5, <1>6, Steps

\* The initial state, and the invariant of the types and the requests.
LEMMA Start ==
  ASSUME Init
  PROVE  TypeOK /\ TicketInv
<1>1. TypeOK
  <2>1. NoTicket \in Ticket /\ NoItem \in Item
    BY DEF NoTicket, Ticket, NoItem, Item, Status
  <2> QED BY <2>1, IdleIs DEF Init, TypeOK
<1>2. \A t \in Task : task[t] = Idle
  BY DEF Init
<1>3. Ordered(Idle)
  BY IdleIs DEF Ordered, OnOrder
<1>4. \A o \in Order : order[o] = NoTicket
  BY DEF Init
<1>5. LooksHold
  BY <1>2, <1>4, IdleIs DEF LooksHold, Unpaid, NoTicket
<1>6. OwnTickets
  BY <1>2, IdleIs DEF OwnTickets, Creates
<1>7. LocksExclude
  BY <1>2, IdleIs DEF LocksExclude
<1>8. Sent
  BY <1>2, IdleIs DEF Sent
<1> QED BY <1>1, <1>2, <1>3, <1>5, <1>6, <1>7, <1>8 DEF TicketInv, LocksInOrder

LEMMA InvStep ==
  ASSUME TypeOK, TicketInv, [Next]_vars
  PROVE  TypeOK' /\ TicketInv'
<1>1. LocksExclude' /\ LocksInOrder'
  BY LocksStep DEF TicketInv
<1> QED BY <1>1, TypesStep, SentStep, OwnStep, LooksStep DEF TicketInv

-----------------------------------------------------------------------------
(* The bill. *)

LEMMA BillsStep ==
  ASSUME TypeOK, TicketInv, BillMatchesLines, [Next]_vars
  PROVE  BillMatchesLines'
<1> DEFINE Good(o) == order'[o].status # "NONE" /\ ~order'[o].deleted =>
                        order'[o].total + order'[o].discount = BillOf(line'[o])
<1>1. CASE UNCHANGED rows
  <2>1. order' = order /\ line' = line
    BY <1>1 DEF rows
  <2> QED BY <2>1 DEF BillMatchesLines, Exists, BillOf
<1>2. ASSUME NEW t \in Task, ShiftMoves(t) PROVE BillMatchesLines'
  <2>1. order' = order /\ line' = line
    BY <1>2 DEF ShiftMoves
  <2> QED BY <2>1 DEF BillMatchesLines, Exists, BillOf
<1>3. ASSUME NEW t \in Task, Moves(t, task[t].order) PROVE BillMatchesLines'
  <2> DEFINE o == task[t].order
  <2>1. o \in Order /\ \A p \in Order : p # o => order'[p] = order[p] /\ line'[p] = line[p]
    BY <1>3, Arrival
  <2>2. \A p \in Order : p # o => Good(p)
    BY <2>1 DEF BillMatchesLines, Exists
  <2>3. order[o].total \in Int /\ order'[o].total \in Int
    <3>1. order[o] \in Ticket /\ order'[o] \in Ticket
      BY <1>3, <2>1 DEF TypeOK, Moves, Writes
    <3> QED BY <3>1 DEF Ticket
  <2>4. order[o].status # "NONE" /\ ~order[o].deleted =>
          order[o].total + order[o].discount = BillOf(line[o])
    BY <2>1 DEF BillMatchesLines, Exists
  <2> HIDE DEF o
  <2>5. ASSUME Arrives(t, o) PROVE Good(o)
    BY <2>3, <2>5 DEF Arrives
  <2>6. ASSUME Calm(o) PROVE Good(o)
    BY <2>4, <2>6 DEF Calm, Same
  <2>7. ASSUME Edited(o) PROVE Good(o)
    <3>1. order'[o].discount = 0 /\ (order'[o].deleted \/ order'[o].total = BillOf(line'[o]))
      BY <2>7 DEF Edited, Same, Unpaid
    <3> QED BY <2>3, <3>1
  <2>8. ASSUME Paid(t, o) PROVE Good(o)
    <3>1. /\ order[o].status # "NONE" /\ order'[o].deleted = order[o].deleted
          /\ order'[o].total + order'[o].discount = order[o].total
          /\ BillOf(line'[o]) = BillOf(line[o]) /\ order[o].discount = 0
      BY <2>8 DEF Paid, Same, Unpaid
    <3> QED BY <2>3, <2>4, <3>1
  <2>9. ASSUME Refunded(o) PROVE Good(o)
    BY <2>4, <2>9 DEF Refunded, Same
  <2>10. Good(o)
    BY <1>3, <2>5, <2>6, <2>7, <2>8, <2>9 DEF Moves, o
  <2>11. \A p \in Order : Good(p)
    BY <2>2, <2>10
  <2> QED BY <2>11 DEF BillMatchesLines, Exists, BillOf
<1> QED BY <1>1, <1>2, <1>3, RowStep

\* What is paid for stays what was paid for.
LEMMA FrozenStep ==
  ASSUME TypeOK, TicketInv, [Next]_vars, NEW o \in Order, order[o].paid
  PROVE  order'[o].paid /\ order'[o].total = order[o].total /\ BillOf(line'[o]) = BillOf(line[o])
<1>1. CASE UNCHANGED rows
  BY <1>1 DEF rows
<1>2. ASSUME NEW t \in Task, ShiftMoves(t) PROVE order' = order /\ line' = line
  BY <1>2 DEF ShiftMoves
<1>3. ASSUME NEW t \in Task, Moves(t, task[t].order)
      PROVE  order'[o].paid /\ order'[o].total = order[o].total /\ BillOf(line'[o]) = BillOf(line[o])
  <2>1. CASE o # task[t].order
    BY <1>3, <2>1, Arrival
  <2>2. CASE o = task[t].order
    <3>1. ~Unpaid(o) /\ order[o].status # "NONE"
      BY DEF Unpaid, TicketInv, LooksHold
    <3>2. Calm(o) \/ Refunded(o)
      BY <1>3, <2>2, <3>1 DEF Moves, Arrives, Edited, Paid
    <3> QED BY <3>2 DEF Calm, Refunded, Same
  <2> QED BY <2>1, <2>2
<1> QED BY <1>1, <1>2, <1>3, RowStep

-----------------------------------------------------------------------------
(* The drawer. *)

LEMMA DrawerStep ==
  ASSUME TypeOK, TicketInv, DrawerIsSales, [Next]_vars
  PROVE  DrawerIsSales'
<1> DEFINE f == [o \in Order |-> order[o].cash]
           S == {o \in Order : order[o].paid /\ ~order[o].refunded}
           g == [o \in Order |-> order'[o].cash]
           T == {o \in Order : order'[o].paid /\ ~order'[o].refunded}
<1>1. drawer = SumFunctionOnSet(f, S)
  BY DEF DrawerIsSales
<1>2. IsFiniteSet(S) /\ IsFiniteSet(T)
  BY TicketConstants, FS_Subset
<1>3. \A o \in Order : f[o] \in Int /\ g[o] \in Int
  <2>1. \A o \in Order : order[o] \in Ticket /\ order'[o] \in Ticket
    BY TypesStep DEF TypeOK
  <2> QED BY <2>1 DEF Ticket
<1>4. ASSUME drawer' = SumFunctionOnSet(g, T) PROVE DrawerIsSales'
  BY <1>4 DEF DrawerIsSales
<1>5. CASE UNCHANGED <<order, drawer>>
  BY <1>1, <1>4, <1>5
<1>6. ASSUME NEW t \in Task, Moves(t, task[t].order) PROVE drawer' = SumFunctionOnSet(g, T)
  <2> DEFINE o == task[t].order
  <2>1. o \in Order /\ \A p \in Order : p # o => order'[p] = order[p]
    BY <1>6, Arrival
  <2>2. \A p \in Order : p # o => g[p] = f[p] /\ (p \in T <=> p \in S)
    BY <2>1
  <2>3. f[o] = order[o].cash /\ g[o] = order'[o].cash
    BY <2>1
  <2>4. /\ o \in S <=> order[o].paid /\ ~order[o].refunded
        /\ o \in T <=> order'[o].paid /\ ~order'[o].refunded
    BY <2>1
  <2>5. S \subseteq Order /\ T \subseteq Order
    OBVIOUS
  <2>6. order[o].status = "NONE" => Unpaid(o)
    BY <2>1 DEF TicketInv, LooksHold
  <2> HIDE DEF f, g, S, T, o
  <2>7. ASSUME o \in T <=> o \in S, o \in S => g[o] = f[o], drawer' = drawer
        PROVE  drawer' = SumFunctionOnSet(g, T)
    <3>1. S = T /\ \A p \in S : f[p] = g[p]
      BY <2>2, <2>5, <2>7
    <3> QED BY <1>1, <1>2, <2>7, <3>1, SumSame
  <2>8. CASE Arrives(t, o)
    <3>1. o \notin S /\ o \notin T /\ drawer' = drawer
      BY <2>4, <2>6, <2>8 DEF Arrives, Unpaid
    <3> QED BY <2>7, <3>1
  <2>9. CASE Calm(o) \/ Edited(o)
    <3>1. (o \in T <=> o \in S) /\ g[o] = f[o] /\ drawer' = drawer
      BY <2>3, <2>4, <2>9 DEF Calm, Edited, Same
    <3> QED BY <2>7, <3>1
  <2>10. CASE Paid(t, o)
    <3>1. o \notin S /\ o \in T /\ drawer' = drawer + g[o]
      BY <2>3, <2>4, <2>10 DEF Paid, Same, Unpaid
    <3>2. T = S \union {o} /\ \A p \in S : f[p] = g[p]
      BY <2>1, <2>2, <2>5, <3>1
    <3>3. SumFunctionOnSet(f, S) = SumFunctionOnSet(g, S)
      BY <1>2, <3>2, SumSame
    <3>4. \A p \in S : g[p] \in Int
      BY <1>3, <2>5
    <3>5. g[o] \in Int
      BY <1>3, <2>1
    <3>6. SumFunctionOnSet(g, S \union {o}) = g[o] + SumFunctionOnSet(g, S)
      BY <1>2, <3>1, <3>4, <3>5, SumAdd
    <3>7. drawer \in Int
      BY DEF TypeOK
    <3> QED BY <1>1, <3>1, <3>2, <3>3, <3>5, <3>6, <3>7
  <2>11. CASE Refunded(o)
    <3>1. o \in S /\ o \notin T /\ drawer' = drawer - f[o]
      BY <2>3, <2>4, <2>11 DEF Refunded
    <3>2. T = S \ {o} /\ \A p \in T : f[p] = g[p]
      BY <2>1, <2>2, <2>5, <3>1
    <3>3. SumFunctionOnSet(f, T) = SumFunctionOnSet(g, T)
      BY <1>2, <3>2, SumSame
    <3>4. \A p \in S : f[p] \in Int
      BY <1>3, <2>5
    <3>5. SumFunctionOnSet(f, S) = f[o] + SumFunctionOnSet(f, S \ {o})
      BY <1>2, <3>1, <3>4, SumRemove
    <3>6. \A p \in T : f[p] \in Int
      BY <3>2, <3>4
    <3>7. SumFunctionOnSet(f, T) \in Int /\ f[o] \in Int
      BY <1>2, <1>3, <2>1, <3>6, SumRemove
    <3> QED BY <1>1, <3>1, <3>2, <3>3, <3>5, <3>7
  <2> QED BY <1>6, <2>8, <2>9, <2>10, <2>11 DEF Moves, o
<1>7. UNCHANGED <<order, drawer>> \/ \E t \in Task : Moves(t, task[t].order)
  BY RowStep DEF rows, ShiftMoves
<1> QED BY <1>4, <1>5, <1>6, <1>7

-----------------------------------------------------------------------------
(* The shifts. *)

\* What makes a ticket an unpaid one of a closed shift.
LEMMA CleanStep ==
  ASSUME TypeOK, TicketInv, [Next]_vars, NEW o \in Order, ~Orphan(o), Orphan(o)'
  PROVE  \/ order[o].status = "NONE" /\ order'[o].cashier \in Waiter
         \/ order[o].status = "CANCELED"
<1> DEFINE Open(r) == r.status # "NONE" /\ ~r.deleted /\ r.status # "CANCELED" /\ ~r.paid
           r == order[o]
           n == order'[o]
<1>1. /\ Orphan(o) <=> Open(r) /\ r.cashier \in Staff /\ ~shift[r.cashier]
      /\ Orphan(o)' <=> Open(n) /\ n.cashier \in Staff /\ ~shift'[n.cashier]
  BY DEF Orphan, Payable, Exists
<1>2. CASE UNCHANGED rows
  BY <1>1, <1>2 DEF rows
<1>3. ASSUME NEW t \in Task, ShiftMoves(t) PROVE FALSE
  <2>1. n = r
    BY <1>3 DEF ShiftMoves
  <2>2. o \in Blocking(n.cashier)
    BY <1>1, <2>1 DEF Blocking, Payable, Exists
  <2>3. ~shift[n.cashier]
    BY <1>1, <1>3, <2>2 DEF ShiftMoves
  <2> QED BY <1>1, <2>1, <2>3
<1>4. ASSUME NEW t \in Task, Moves(t, task[t].order), r.status # "CANCELED"
      PROVE  r.status = "NONE" /\ n.cashier \in Waiter
  <2>1. /\ shift' = shift
        /\ o # task[t].order => n = r
    BY <1>4, Arrival DEF Moves, Writes
  <2>2. o = task[t].order
    BY <1>1, <2>1
  <2>3. Arrives(t, o) \/ Calm(o) \/ Edited(o) \/ Paid(t, o) \/ Refunded(o)
    BY <1>4, <2>2 DEF Moves
  <2>4. CASE Arrives(t, o)
    BY <1>1, <2>1, <2>4 DEF Arrives
  <2>5. CASE Calm(o)
    BY <1>1, <1>4, <2>1, <2>5 DEF Calm, Same
  <2>6. CASE Edited(o)
    BY <1>1, <1>4, <2>1, <2>6 DEF Edited, Same
  <2>7. CASE Paid(t, o)
    BY <1>1, <2>7 DEF Paid
  <2>8. CASE Refunded(o)
    BY <1>1, <2>8 DEF Refunded, Same
  <2> QED BY <2>3, <2>4, <2>5, <2>6, <2>7, <2>8
<1> QED BY <1>1, <1>2, <1>3, <1>4, RowStep

-----------------------------------------------------------------------------
(* The theorems. *)

\* The types, and what the open requests hold, relied on by everything below: a row is
\* locked by one request, in one order, and what a request saw under a lock still holds.
THEOREM TypeCorrect == Spec => [](TypeOK /\ TicketInv)
<1>1. Init => TypeOK /\ TicketInv
  BY Start
<1>2. TypeOK /\ TicketInv /\ [Next]_vars => (TypeOK /\ TicketInv)'
  BY InvStep
<1> QED BY <1>1, <1>2, PTL DEF Spec

\* The bill of a ticket is the sum of its live lines less its discount
\* (_recalculate_total, mark_as_paid), for any number of requests on any tickets.
THEOREM BillsMatch == Spec => []BillMatchesLines
<1>1. Init => BillMatchesLines
  BY DEF Init, BillMatchesLines, Exists, NoTicket
<1>2. TypeOK /\ TicketInv /\ BillMatchesLines /\ [Next]_vars => BillMatchesLines'
  BY BillsStep
<1> QED BY <1>1, <1>2, TypeCorrect, PTL DEF Spec

\* No request changes the lines or the bill of a paid ticket.
THEOREM BillsFrozen == Spec => PaidBillFrozen
<1>1. TypeOK /\ TicketInv /\ [Next]_vars =>
        [\A o \in Order : order[o].paid =>
           /\ order'[o].paid /\ order'[o].total = order[o].total
           /\ BillOf(line'[o]) = BillOf(line[o])]_vars
  BY FrozenStep
<1> QED BY <1>1, TypeCorrect, PTL DEF Spec, PaidBillFrozen

\* The drawer holds the cash of every sale that was not given back, each once
\* (mark_as_paid, record_paid_order_refund).
THEOREM DrawerHoldsSales == Spec => []DrawerIsSales
<1>1. Init => DrawerIsSales
  <2> SUFFICES ASSUME Init PROVE DrawerIsSales
    OBVIOUS
  <2>1. {o \in Order : order[o].paid /\ ~order[o].refunded} = {}
    BY DEF Init, NoTicket
  <2>2. drawer = 0
    BY DEF Init
  <2> QED BY <2>1, <2>2, SumEmpty DEF DrawerIsSales
<1>2. TypeOK /\ TicketInv /\ DrawerIsSales /\ [Next]_vars => DrawerIsSales'
  BY DrawerStep
<1> QED BY <1>1, <1>2, TypeCorrect, PTL DEF Spec

\* Requests that wait for each other in a circle have a line tap among them: every other
\* handler locks ticket, lines and shift in one order.
THEOREM CirclesNeedTaps == Spec => []OnlyTapsWaitInCircles
<1>1. TypeOK /\ TicketInv => OnlyTapsWaitInCircles
  BY NoCircle DEF TicketInv
<1> QED BY <1>1, TypeCorrect, PTL

\* However many requests race, an unpaid ticket comes to belong to a closed shift in two
\* ways only (create_order, end_shift): the waiter app bears it off shift, or a line tap that
\* reads its ticket without a lock brings a cancelled one back.
THEOREM OrphansHaveTwoWaysIn == Spec => ShiftsCloseClean
<1>1. TypeOK /\ TicketInv /\ [Next]_vars =>
        [\A o \in Order : ~Orphan(o) /\ Orphan(o)' =>
           \/ order[o].status = "NONE" /\ order'[o].cashier \in Waiter
           \/ order[o].status = "CANCELED"]_vars
  BY CleanStep
<1> QED BY <1>1, TypeCorrect, PTL DEF Spec, ShiftsCloseClean

=============================================================================

------------------------- MODULE CourierLedgerProofs -------------------------
(***************************************************************************)
(* Theorems about CourierLedger.  The inductive invariant is built in the  *)
(* order its parts need each other: rows and requests (RowInv), locks      *)
(* (LockInv), the order of the stamps (StampInv), the money (MoneyInv) and *)
(* the windows (WindowInv).                                                *)
(***************************************************************************)
EXTENDS CourierLedger, FiniteSums, SequenceTheorems

-----------------------------------------------------------------------------
(* The ascending list of branches a settlement locks. *)

LEMMA InOrderSorts ==
  ASSUME NEW S, Numbers(S), IsFiniteSet(S)
  PROVE  /\ InOrder(S) \in Seq(S) /\ Len(InOrder(S)) = Cardinality(S)
         /\ \A i, j \in 1 .. Cardinality(S) : i < j => InOrder(S)[i] < InOrder(S)[j]
         /\ \A b \in S : \E i \in 1 .. Cardinality(S) : InOrder(S)[i] = b
<1>1. Sorted(InOrder(S), S)
  <2>1. \E s \in [1 .. Cardinality(S) -> S] : \A i, j \in 1 .. Cardinality(S) : i < j => s[i] < s[j]
    BY SortedExists DEF Sorted
  <2> QED BY <2>1 DEF InOrder, Sorted
<1> DEFINE n == Cardinality(S)
           s == InOrder(S)
<1>2. n \in Nat
  BY FS_CardinalityType
<1>3. s \in [1 .. n -> S] /\ \A i, j \in 1 .. n : i < j => s[i] < s[j]
  BY <1>1 DEF Sorted
<1>4. IsFiniteSet(1 .. n) /\ Cardinality(1 .. n) = n
  BY <1>2, FS_Interval
<1> HIDE DEF n, s
<1>5. \A i, j \in 1 .. n : s[i] = s[j] => i = j
  <2>1. \A i, j \in 1 .. n : i < j => s[i] < s[j] /\ s[i] \in Nat /\ s[j] \in Nat
    BY <1>3 DEF Numbers
  <2>2. \A i, j \in 1 .. n : i < j => s[i] # s[j]
    BY <2>1
  <2> QED BY <1>2, <2>2
<1>6. s \in Injection(1 .. n, S)
  BY <1>3, <1>5 DEF Injection, IsInjective
<1>7. s \in Surjection(1 .. n, S)
  BY <1>4, <1>6, FS_Injection DEF n
<1>8. \A b \in S : \E i \in 1 .. n : s[i] = b
  BY <1>7 DEF Surjection
<1>9. s \in Seq(S) /\ Len(s) = n
  BY <1>2, <1>3
<1> QED BY <1>3, <1>8, <1>9 DEF n, s

-----------------------------------------------------------------------------
(* Rows and requests *)

\* A request carries what its operation needs.
Fits(op, k, o, a) ==
  /\ op \in Op /\ k \in Key \union {Nothing} /\ o \in Order \union {Nothing} /\ a \in 0 .. Due
  /\ op # "settle" => o \in Order
  /\ op = "create" => k \in Key /\ a \in Amount
  /\ op \in {"confirm", "fail", "refund"} =>
       k \in Key /\ pay[k].status # "none" /\ pay[k].order = o

RowsNamed ==
  \A k \in Key : pay[k].status # "none" => pay[k].order \in Order /\ pay[k].amount \in Amount

RequestsFit ==
  \A t \in Task : /\ task[t].op = "idle" => task[t] = Idle
                  /\ task[t].op # "idle" =>
                       Fits(task[t].op, task[t].key, task[t].order, task[t].amount)

RowInv == RowsNamed /\ RequestsFit

Opening(t) == Collect(t) \/ Answer(t) \/ Work(t) \/ HandOver(t)

Committing(t) ==
  \/ Create(t) \/ Confirm(t) \/ Fail(t) \/ RefundPayment(t)
  \/ Cancel(t) \/ Till(t) \/ Deliver(t) \/ Settle(t)

LEMMA OpIsNotIdle == "idle" \notin Op
BY LedgerOps

LEMMA OpeningFits ==
  ASSUME TypeOK, RowInv, NEW t \in Task, Opening(t)
  PROVE  \E op, k, o, a : Fits(op, k, o, a) /\ Open(t, op, k, o, a)
<1> USE DEF Fits, Amount
<1>1. CASE Collect(t)
  <2>1. PICK k \in Key, o \in Order, a \in Amount : Open(t, "create", k, o, a)
    BY <1>1 DEF Collect
  <2>2. Fits("create", k, o, a)
    BY <2>1, LedgerBounds DEF Open
  <2> QED BY <2>1, <2>2
<1>2. CASE Answer(t)
  <2>1. PICK op \in {"confirm", "fail", "refund"}, k \in Key :
          pay[k].status # "none" /\ Open(t, op, k, pay[k].order, 0)
    BY <1>2 DEF Answer
  <2>2. Fits(op, k, pay[k].order, 0)
    BY <2>1, LedgerBounds DEF Open, RowInv, RowsNamed
  <2> QED BY <2>1, <2>2
<1>3. CASE Work(t)
  <2>1. PICK op \in {"cancel", "till", "deliver"}, o \in Order : Open(t, op, Nothing, o, 0)
    BY <1>3 DEF Work
  <2>2. Fits(op, Nothing, o, 0)
    BY <2>1, LedgerBounds DEF Open
  <2> QED BY <2>1, <2>2
<1>4. CASE HandOver(t)
  <2>1. Fits("settle", Nothing, Nothing, 0)
    BY <1>4, LedgerBounds DEF HandOver, Open
  <2> QED BY <2>1, <1>4 DEF HandOver
<1> QED BY <1>1, <1>2, <1>3, <1>4 DEF Opening

\* What a commit of t that collects a amount under key k does.
Pays(t, k, a) ==
  /\ task[t].op \in {"create", "confirm"} /\ task[t].order \in Order
  /\ k \in Key /\ a \in Amount
  /\ Lands(k, task[t].order, a)
  /\ Land(k, task[t].order, a, task[t].at)

\* The request of t ends with its locks taken and its stamp read.
Ends(t) ==
  /\ task[t].op # "idle" /\ task[t].want = <<>> /\ task[t].at # 0
  /\ task' = [task EXCEPT ![t] = Idle]
  /\ now' = now

LEMMA CommittingEnds ==
  ASSUME NEW t \in Task, Committing(t)
  PROVE  Ends(t)
BY DEF Committing, Ends, Create, Confirm, Fail, RefundPayment, Cancel, Till, Deliver, Settle, Finishing

LEMMA CollectionPays ==
  ASSUME TypeOK, RowInv, NEW t \in Task, Create(t) \/ Confirm(t)
  PROVE  UNCHANGED ledger \/ \E k \in Key, a \in Amount : Pays(t, k, a)
<1>1. CASE Create(t)
  <2>1. task[t].op = "create" /\ Fits("create", task[t].key, task[t].order, task[t].amount)
    BY <1>1 DEF Create, Finishing, RowInv, RequestsFit
  <2>2. task[t].key \in Key /\ task[t].order \in Order /\ task[t].amount \in Amount
    BY <2>1 DEF Fits
  <2>3. CASE Lands(task[t].key, task[t].order, task[t].amount)
    <3>1. Pays(t, task[t].key, task[t].amount)
      BY <1>1, <2>1, <2>2, <2>3 DEF Create, Pays
    <3> QED BY <2>2, <3>1
  <2>4. CASE ~ Lands(task[t].key, task[t].order, task[t].amount)
    BY <1>1, <2>4 DEF Create
  <2> QED BY <2>3, <2>4
<1>2. CASE Confirm(t)
  <2> DEFINE k == task[t].key
  <2>1. task[t].op = "confirm" /\ Fits("confirm", k, task[t].order, task[t].amount)
    BY <1>2 DEF Confirm, Finishing, RowInv, RequestsFit
  <2>2. k \in Key /\ pay[k].status # "none" /\ pay[k].order = task[t].order
        /\ task[t].order \in Order /\ pay[k].amount \in Amount
    BY <2>1 DEF Fits, RowInv, RowsNamed
  <2>3. CASE Confirmable(k) /\ HasRoom(pay[k].order, pay[k].amount)
    <3>1. Land(k, task[t].order, pay[k].amount, task[t].at)
      BY <1>2, <2>2, <2>3 DEF Confirm
    <3>2. Lands(k, task[t].order, pay[k].amount)
      BY <2>2, <2>3 DEF Lands, Confirmable
    <3>3. Pays(t, k, pay[k].amount)
      BY <2>1, <2>2, <3>1, <3>2 DEF Pays
    <3> QED BY <2>2, <3>3
  <2>4. CASE ~ (Confirmable(k) /\ HasRoom(pay[k].order, pay[k].amount))
    BY <1>2, <2>4 DEF Confirm
  <2> QED BY <2>3, <2>4
<1> QED BY <1>1, <1>2

\* A row keeps its order and amount once it exists, and everything once it is paid.
RowsKept ==
  \A k \in Key :
    pay[k].status # "none" =>
      /\ pay'[k].status # "none" /\ pay'[k].order = pay[k].order /\ pay'[k].amount = pay[k].amount
      /\ pay[k].status = "paid" => pay'[k] = pay[k]

LEMMA PaysKeeps ==
  ASSUME TypeOK, RowInv, NEW t \in Task, NEW k \in Key, NEW a \in Amount, Pays(t, k, a)
  PROVE  /\ RowsKept /\ RowsNamed'
         /\ pay[k].status # "paid"
         /\ pay'[k] = [status |-> "paid", order |-> task[t].order, amount |-> a, at |-> task[t].at]
         /\ \A j \in Key \ {k} : pay'[j] = pay[j]
<1>1. pay' = [pay EXCEPT ![k] = [status |-> "paid", order |-> task[t].order, amount |-> a,
                                 at |-> task[t].at]]
  BY DEF Pays, Land
<1>2. /\ pay'[k] = [status |-> "paid", order |-> task[t].order, amount |-> a, at |-> task[t].at]
      /\ \A j \in Key \ {k} : pay'[j] = pay[j]
  BY <1>1 DEF TypeOK
<1>3. \/ pay[k].status = "none"
      \/ pay[k].status = "pending" /\ pay[k].order = task[t].order /\ pay[k].amount = a
  <2>1. Lands(k, task[t].order, a)
    BY DEF Pays
  <2> QED BY <2>1 DEF Lands
<1>4. RowsKept
  BY <1>2, <1>3 DEF RowsKept
<1>5. RowsNamed'
  BY <1>2 DEF RowsNamed, RowInv, Pays
<1> QED BY <1>2, <1>3, <1>4, <1>5

LEMMA RowsStay ==
  ASSUME TypeOK, RowInv, [Next]_vars
  PROVE  RowsKept /\ RowsNamed'
<1>1. CASE pay' = pay
  BY <1>1 DEF RowsKept, RowsNamed, RowInv
<1>2. CASE GatewayOpens
  <2>1. PICK k \in Key, o \in Order, a \in Amount :
          /\ pay[k].status = "none"
          /\ pay' = [pay EXCEPT ![k] = [status |-> "pending", order |-> o, amount |-> a, at |-> 0]]
    BY <1>2 DEF GatewayOpens
  <2> QED BY <2>1 DEF RowsKept, RowsNamed, RowInv, TypeOK
<1>3. ASSUME NEW t \in Task, Create(t) \/ Confirm(t)
      PROVE  RowsKept /\ RowsNamed'
  <2>1. CASE UNCHANGED ledger
    BY <2>1, <1>1 DEF ledger
  <2>2. CASE \E k \in Key, a \in Amount : Pays(t, k, a)
    BY <2>2, PaysKeeps
  <2> QED BY <1>3, <2>1, <2>2, CollectionPays
<1>4. ASSUME NEW t \in Task, Fail(t)
      PROVE  RowsKept /\ RowsNamed'
  <2>1. \/ pay' = pay
        \/ /\ pay[task[t].key].status = "pending"
           /\ pay' = [pay EXCEPT ![task[t].key].status = "failed"]
    <3>1. CASE pay[task[t].key].status = "pending"
      BY <1>4, <3>1 DEF Fail
    <3>2. CASE pay[task[t].key].status # "pending"
      BY <1>4, <3>2 DEF Fail
    <3> QED BY <3>1, <3>2
  <2>2. CASE pay' = [pay EXCEPT ![task[t].key].status = "failed"]
             /\ pay[task[t].key].status = "pending"
    <3>1. \A k \in Key :
            /\ pay'[k].order = pay[k].order /\ pay'[k].amount = pay[k].amount
            /\ pay'[k].status = IF k = task[t].key THEN "failed" ELSE pay[k].status
            /\ k # task[t].key => pay'[k] = pay[k]
      BY <2>2 DEF TypeOK, Row
    <3> QED BY <2>2, <3>1 DEF RowsKept, RowsNamed, RowInv
  <2> QED BY <2>1, <2>2, <1>1
<1>5. ASSUME NEW t \in Task, Opening(t) \/ Acquire(t) \/ Stamp(t) \/ Abort(t)
             \/ RefundPayment(t) \/ Cancel(t) \/ Till(t) \/ Deliver(t) \/ Settle(t)
      PROVE  pay' = pay
  BY <1>5 DEF Opening, Collect, Answer, Work, HandOver, Open, Acquire, Stamp, Abort, RefundPayment,
              Cancel, Till, Deliver, Settle, ledger
<1>6. CASE Tick \/ UNCHANGED vars
  BY <1>6, <1>1 DEF Tick, vars, ledger
<1> QED BY <1>1, <1>2, <1>3, <1>4, <1>5, <1>6 DEF Next, Opening

LEMMA FitsStay ==
  ASSUME RowsKept, NEW op, NEW k, NEW o, NEW a, Fits(op, k, o, a)
  PROVE  Fits(op, k, o, a)'
BY DEF Fits, RowsKept

LEMMA RowStep ==
  ASSUME TypeOK, RowInv, [Next]_vars
  PROVE  RowInv'
<1>1. RowsKept /\ RowsNamed'
  BY RowsStay
<1> DEFINE Fit(t) == /\ task[t].op = "idle" => task[t] = Idle
                     /\ task[t].op # "idle" =>
                          Fits(task[t].op, task[t].key, task[t].order, task[t].amount)
<1>2. \A t \in Task : Fit(t)
  BY DEF RowInv, RequestsFit
<1>3. ASSUME NEW t \in Task, task'[t] = task[t] PROVE Fit(t)'
  <2>1. CASE task[t].op = "idle"
    BY <1>2, <1>3, <2>1
  <2>2. CASE task[t].op # "idle"
    <3>1. Fits(task[t].op, task[t].key, task[t].order, task[t].amount)
      BY <1>2, <2>2
    <3>2. Fits(task[t].op, task[t].key, task[t].order, task[t].amount)'
      BY <3>1, <1>1, <1>3 DEF RowsKept, Fits
    <3> QED BY <3>2, <2>2, <1>3
  <2> QED BY <2>1, <2>2
<1>4. ASSUME NEW t \in Task, task' = [task EXCEPT ![t] = Idle] PROVE RequestsFit'
  <2>1. task'[t] = Idle /\ \A u \in Task \ {t} : task'[u] = task[u]
    BY <1>4 DEF TypeOK
  <2>2. Idle.op = "idle"
    BY DEF Idle
  <2> QED BY <2>1, <2>2, <1>3 DEF RequestsFit
<1>5. ASSUME NEW t \in Task, Opening(t) PROVE RequestsFit'
  <2>1. PICK op, k, o, a : Fits(op, k, o, a) /\ Open(t, op, k, o, a)
    BY <1>5, OpeningFits
  <2>2. /\ task'[t].op = op /\ task'[t].key = k /\ task'[t].order = o /\ task'[t].amount = a
        /\ \A u \in Task \ {t} : task'[u] = task[u]
    BY <2>1 DEF Open, TypeOK, Idle
  <2>3. Fits(op, k, o, a)' /\ op # "idle"
    BY <2>1, <1>1, FitsStay, OpIsNotIdle DEF Fits, RowsKept
  <2>4. Fit(t)'
    BY <2>2, <2>3 DEF Fits
  <2> QED BY <2>2, <2>4, <1>3 DEF RequestsFit
<1>6. ASSUME NEW t \in Task, Acquire(t) \/ Stamp(t) PROVE RequestsFit'
  <2>1. /\ task'[t].op = task[t].op /\ task'[t].key = task[t].key
        /\ task'[t].order = task[t].order /\ task'[t].amount = task[t].amount
        /\ \A u \in Task \ {t} : task'[u] = task[u]
    BY <1>6 DEF Acquire, Stamp, TypeOK, Request
  <2>2. task[t].op # "idle"
    BY <1>6, <1>2 DEF Acquire, Stamp, Idle
  <2>3. Fits(task[t].op, task[t].key, task[t].order, task[t].amount)
    BY <1>2, <2>2
  <2>4. Fit(t)'
    BY <2>1, <2>2, <2>3, <1>1 DEF Fits, RowsKept
  <2> QED BY <2>1, <2>4, <1>3 DEF RequestsFit
<1>7. ASSUME NEW t \in Task, Abort(t) \/ Committing(t) PROVE RequestsFit'
  BY <1>7, <1>4, CommittingEnds DEF Abort, Ends
<1>8. CASE task' = task
  <2>1. \A t \in Task : Fit(t)'
    BY <1>8, <1>3
  <2> QED BY <2>1, <1>1 DEF RequestsFit, RowInv
<1>9. CASE Tick \/ GatewayOpens \/ UNCHANGED vars
  BY <1>9, <1>8 DEF Tick, GatewayOpens, vars
<1> QED BY <1>1, <1>5, <1>6, <1>7, <1>9 DEF RowInv, Next, Opening, Committing

-----------------------------------------------------------------------------
(* Locks *)

\* The order of the locks but for payments: orders, branches by number, courier.
Before(l, m) ==
  \/ l[1] = "order" /\ m[1] # "order"
  \/ l[1] = "branch" /\ m[1] = "branch" /\ l[2] < m[2]
  \/ l[1] = "branch" /\ m[1] = "courier"

\* The order an operation takes its locks in: its payment comes after the order, for a
\* collection after everything and for the others before the branch and the courier.
InLine(op, l, m) ==
  \/ Before(l, m)
  \/ l[1] # "payment" /\ m[1] = "payment"
  \/ l[1] = "payment" /\ m[1] \in {"branch", "courier"} /\ op # "create"

Ascending(op, s) == \A i, j \in 1 .. Len(s) : i < j => InLine(op, s[i], s[j])

Elements(s) == {s[i] : i \in 1 .. Len(s)}

\* The locks the writes of an operation rely on.
Needs(op, o) ==
  {l \in {OrderLock(o)} : op \notin {"idle", "settle"}}
  \union {l \in {BranchLock(BranchOf[o])} : op \in {"create", "confirm", "refund", "cancel", "till"}}
  \union {l \in {CourierLock} : op \in {"create", "confirm", "refund", "deliver", "settle"}}

Asked(t) == task[t].held \union Elements(task[t].want)

Exclusive == \A t, u \in Task : t # u => task[t].held \intersect task[u].held = {}
InTurn ==
  \A t \in Task : /\ Ascending(task[t].op, task[t].want)
                  /\ \A l \in task[t].held, m \in Elements(task[t].want) : InLine(task[t].op, l, m)
Covered == \A t \in Task : Needs(task[t].op, task[t].order) \subseteq Asked(t)
StampedLast == \A t \in Task : task[t].at # 0 => task[t].want = <<>> \/ task[t].want = AtStamp(t)
\* The only payment a request locks is the one it is about.
KeyedLocks(op, k, locks) ==
  \A j : PaymentLock(j) \in locks => j = k /\ op \in {"create", "confirm", "fail", "refund"}
OwnKey == \A t \in Task : KeyedLocks(task[t].op, task[t].key, Asked(t))

LockInv == Exclusive /\ InTurn /\ Covered /\ StampedLast /\ OwnKey

LEMMA LockKinds ==
  /\ \A o : OrderLock(o)[1] = "order" /\ OrderLock(o)[2] = o
  /\ \A b : BranchLock(b)[1] = "branch" /\ BranchLock(b)[2] = b
  /\ CourierLock[1] = "courier"
  /\ \A k : PaymentLock(k)[1] = "payment" /\ PaymentLock(k)[2] = k
  /\ \A l \in Lock : \/ l[1] = "order"
                     \/ l[1] = "branch" /\ l[2] \in Nat
                     \/ l[1] = "courier"
                     \/ l[1] = "payment" /\ l = PaymentLock(l[2])
BY LedgerBranch DEF OrderLock, BranchLock, CourierLock, PaymentLock, Lock

LEMMA BeforeIsAnOrder ==
  /\ \A l \in Lock : ~ Before(l, l)
  /\ \A l, m, n \in Lock : Before(l, m) /\ Before(m, n) => Before(l, n)
BY LockKinds DEF Before

LEMMA BranchesPaidFinite ==
  ASSUME TypeOK, RowInv
  PROVE  BranchesPaid \subseteq Branch /\ IsFiniteSet(BranchesPaid) /\ Numbers(BranchesPaid)
<1> DEFINE K == {j \in Key : pay[j].status # "none"}
           f == [k \in K |-> BranchOf[pay[k].order]]
<1>1. BranchesPaid \subseteq Branch
  BY LedgerBranch DEF BranchesPaid, RowInv, RowsNamed
<1>2. IsFiniteSet(K)
  BY LedgerRows, FS_Subset
<1>3. f \in Surjection(K, BranchesPaid)
  BY DEF BranchesPaid, Surjection
<1>4. IsFiniteSet(BranchesPaid)
  BY <1>2, <1>3, FS_Surjection
<1> QED BY <1>1, <1>4, LedgerBranch DEF Numbers

LEMMA SettleLocksList ==
  ASSUME TypeOK, RowInv
  PROVE  /\ SettleLocks \in Seq(Lock) /\ Ascending("settle", SettleLocks)
         /\ \A j : PaymentLock(j) \notin Elements(SettleLocks)
         /\ CourierLock \in Elements(SettleLocks)
         /\ \A b \in BranchesPaid : BranchLock(b) \in Elements(SettleLocks)
<1> DEFINE bs == InOrder(BranchesPaid)
           n == Cardinality(BranchesPaid)
           ls == [i \in 1 .. Len(bs) |-> BranchLock(bs[i])]
<1>1. /\ bs \in Seq(BranchesPaid) /\ Len(bs) = n
      /\ \A i, j \in 1 .. n : i < j => bs[i] < bs[j]
      /\ \A b \in BranchesPaid : \E i \in 1 .. n : bs[i] = b
  BY BranchesPaidFinite, InOrderSorts
<1>2. SettleLocks = Append(ls, CourierLock)
  BY DEF SettleLocks
<1> HIDE DEF bs
<1>3. n \in Nat /\ \A i \in 1 .. n : bs[i] \in Branch
  BY <1>1, BranchesPaidFinite, LenProperties
<1> HIDE DEF n
<1>4. \A i \in 1 .. n : ls[i] = BranchLock(bs[i]) /\ ls[i] \in Lock
  BY <1>1, <1>3 DEF Lock
<1>5. ls \in Seq(Lock) /\ Len(ls) = n
  BY <1>1, <1>3, <1>4
<1> HIDE DEF ls
<1>6. CourierLock \in Lock
  BY DEF Lock
<1> DEFINE s == Append(ls, CourierLock)
<1>7. /\ s \in Seq(Lock) /\ Len(s) = n + 1 /\ s[n + 1] = CourierLock
      /\ \A i \in 1 .. n : s[i] = BranchLock(bs[i])
  BY <1>4, <1>5, <1>6, AppendProperties
<1> HIDE DEF s
<1>8. \A i, j \in 1 .. n + 1 : i < j => Before(s[i], s[j])
  <2> SUFFICES ASSUME NEW i \in 1 .. n + 1, NEW j \in 1 .. n + 1, i < j
               PROVE  Before(s[i], s[j])
    OBVIOUS
  <2>1. i \in 1 .. n /\ s[i][1] = "branch" /\ s[i][2] = bs[i]
    BY <1>3, <1>7, LockKinds
  <2>2. CASE j = n + 1
    BY <2>1, <2>2, <1>7, LockKinds DEF Before
  <2>3. CASE j # n + 1
    <3>1. j \in 1 .. n /\ s[j][1] = "branch" /\ s[j][2] = bs[j]
      BY <1>3, <1>7, <2>3, LockKinds
    <3> QED BY <2>1, <3>1, <1>1 DEF Before
  <2> QED BY <2>2, <2>3
<1>9. Ascending("settle", s)
  BY <1>7, <1>8 DEF Ascending, InLine
<1>10. CourierLock \in Elements(s)
  BY <1>3, <1>7 DEF Elements
<1>11. \A b \in BranchesPaid : BranchLock(b) \in Elements(s)
  BY <1>1, <1>3, <1>7 DEF Elements
<1>12. \A j : PaymentLock(j) \notin Elements(s)
  <2> SUFFICES ASSUME NEW j, NEW i \in 1 .. n + 1, PaymentLock(j) = s[i] PROVE FALSE
    BY <1>7 DEF Elements
  <2>1. i = n + 1 \/ i \in 1 .. n
    BY <1>3
  <2> QED BY <2>1, <1>7, LockKinds
<1> QED BY <1>2, <1>7, <1>9, <1>10, <1>11, <1>12 DEF s

LEMMA LocksList ==
  ASSUME TypeOK, RowInv, NEW op, NEW k, NEW o, NEW a, Fits(op, k, o, a)
  PROVE  /\ Locks(op, k, o) \in Seq(Lock) /\ Ascending(op, Locks(op, k, o))
         /\ Needs(op, o) \subseteq Elements(Locks(op, k, o))
         /\ KeyedLocks(op, k, Elements(Locks(op, k, o)))
<1>1. CASE op = "settle"
  <2>1. Locks(op, k, o) = SettleLocks
    BY <1>1 DEF Locks
  <2> QED BY <1>1, <2>1, SettleLocksList DEF Needs, KeyedLocks
<1>2. CASE op # "settle"
  <2> DEFINE x == OrderLock(o)  y == BranchLock(BranchOf[o])  z == CourierLock  p == PaymentLock(k)
  <2>1. o \in Order /\ op \in Op
    BY <1>2 DEF Fits
  <2>2. x \in Lock /\ y \in Lock /\ z \in Lock
    BY <2>1, LedgerBranch DEF Lock
  <2>3. op \in {"create", "confirm", "fail", "refund"} => p \in Lock
    BY DEF Fits, Lock
  <2>4. x[1] = "order" /\ y[1] = "branch" /\ z[1] = "courier" /\ p[1] = "payment"
    BY LockKinds
  <2>5. \A j : PaymentLock(j)[1] = "payment" /\ (PaymentLock(j) = p => j = k)
    BY LockKinds
  <2>6. \/ Locks(op, k, o) = <<x, y, z, p>> /\ op = "create"
        \/ Locks(op, k, o) = <<x, p, y, z>> /\ op \in {"confirm", "refund"}
        \/ Locks(op, k, o) = <<x, y>> /\ op \in {"cancel", "till"}
        \/ Locks(op, k, o) = <<x, z>> /\ op = "deliver"
        \/ Locks(op, k, o) = <<x, p>> /\ op = "fail"
    BY <1>2, <2>1, LedgerOps DEF Locks
  <2>7. Needs(op, o) = {l \in {x} : op \notin {"idle", "settle"}}
          \union {l \in {y} : op \in {"create", "confirm", "refund", "cancel", "till"}}
          \union {l \in {z} : op \in {"create", "confirm", "refund", "deliver", "settle"}}
    BY DEF Needs
  <2> DEFINE Good(s) == /\ s \in Seq(Lock) /\ Ascending(op, s) /\ Needs(op, o) \subseteq Elements(s)
                        /\ KeyedLocks(op, k, Elements(s))
  <2> HIDE DEF x, y, z, p
  <2>8. CASE Locks(op, k, o) = <<x, y, z, p>> /\ op = "create"
    <3>1. Len(<<x, y, z, p>>) = 4 /\ 1 .. 4 = {1, 2, 3, 4}
      OBVIOUS
    <3>2. Elements(<<x, y, z, p>>) = {x, y, z, p}
      BY <3>1 DEF Elements
    <3>3. Ascending(op, <<x, y, z, p>>)
      BY <2>4, <2>8, <3>1 DEF Ascending, InLine, Before
    <3>4. Good(<<x, y, z, p>>)
      BY <2>2, <2>3, <2>4, <2>5, <2>7, <2>8, <3>2, <3>3 DEF KeyedLocks
    <3> QED BY <2>8, <3>4
  <2>9. CASE Locks(op, k, o) = <<x, p, y, z>> /\ op \in {"confirm", "refund"}
    <3>1. Len(<<x, p, y, z>>) = 4 /\ 1 .. 4 = {1, 2, 3, 4}
      OBVIOUS
    <3>2. Elements(<<x, p, y, z>>) = {x, p, y, z}
      BY <3>1 DEF Elements
    <3>3. Ascending(op, <<x, p, y, z>>)
      BY <2>4, <2>9, <3>1 DEF Ascending, InLine, Before
    <3>4. Good(<<x, p, y, z>>)
      BY <2>2, <2>3, <2>4, <2>5, <2>7, <2>9, <3>2, <3>3 DEF KeyedLocks
    <3> QED BY <2>9, <3>4
  <2>10. CASE Locks(op, k, o) = <<x, y>> /\ op \in {"cancel", "till"}
    <3>1. Len(<<x, y>>) = 2 /\ 1 .. 2 = {1, 2}
      OBVIOUS
    <3>2. Elements(<<x, y>>) = {x, y}
      BY <3>1 DEF Elements
    <3>3. Ascending(op, <<x, y>>)
      BY <2>4, <3>1 DEF Ascending, InLine, Before
    <3>4. Good(<<x, y>>)
      BY <2>2, <2>4, <2>5, <2>7, <2>10, <3>2, <3>3 DEF KeyedLocks
    <3> QED BY <2>10, <3>4
  <2>11. CASE Locks(op, k, o) = <<x, z>> /\ op = "deliver"
    <3>1. Len(<<x, z>>) = 2 /\ 1 .. 2 = {1, 2}
      OBVIOUS
    <3>2. Elements(<<x, z>>) = {x, z}
      BY <3>1 DEF Elements
    <3>3. Ascending(op, <<x, z>>)
      BY <2>4, <3>1 DEF Ascending, InLine, Before
    <3>4. Good(<<x, z>>)
      BY <2>2, <2>4, <2>5, <2>7, <2>11, <3>2, <3>3 DEF KeyedLocks
    <3> QED BY <2>11, <3>4
  <2>12. CASE Locks(op, k, o) = <<x, p>> /\ op = "fail"
    <3>1. Len(<<x, p>>) = 2 /\ 1 .. 2 = {1, 2}
      OBVIOUS
    <3>2. Elements(<<x, p>>) = {x, p}
      BY <3>1 DEF Elements
    <3>3. Ascending(op, <<x, p>>)
      BY <2>4, <3>1 DEF Ascending, InLine, Before
    <3>4. Good(<<x, p>>)
      BY <2>2, <2>3, <2>4, <2>5, <2>7, <2>12, <3>2, <3>3 DEF KeyedLocks
    <3> QED BY <2>12, <3>4
  <2> QED BY <2>6, <2>8, <2>9, <2>10, <2>11, <2>12
<1> QED BY <1>1, <1>2

LEMMA HeadIsFirst ==
  ASSUME NEW S, NEW s \in Seq(S), s # <<>>
  PROVE  /\ Head(s) \in S /\ Tail(s) \in Seq(S)
         /\ Len(s) \in Nat \ {0} /\ Head(s) = s[1]
         /\ \A i \in 1 .. Len(Tail(s)) : i + 1 \in 1 .. Len(s) /\ Tail(s)[i] = s[i + 1]
         /\ Elements(s) = {Head(s)} \union Elements(Tail(s))
<1> DEFINE n == Len(s)  h == Head(s)  r == Tail(s)
<1>1. h \in S /\ r \in Seq(S) /\ Len(r) = n - 1 /\ \A i \in 1 .. Len(r) : r[i] = s[i + 1]
  BY HeadTailProperties
<1>2. n \in Nat \ {0} /\ h = s[1]
  BY EmptySeq
<1> HIDE DEF n, h, r
<1>3. \A i \in 1 .. Len(r) : i + 1 \in 1 .. n
  BY <1>1, <1>2
<1>4. \A i \in 1 .. n : i = 1 \/ (i - 1 \in 1 .. Len(r) /\ s[i] = r[i - 1])
  BY <1>1, <1>2
<1>5. Elements(s) = {h} \union Elements(r)
  <2>1. Elements(s) \subseteq {h} \union Elements(r)
    BY <1>2, <1>4 DEF Elements, n
  <2>2. Elements(r) \subseteq Elements(s)
    BY <1>1, <1>3 DEF Elements, n
  <2>3. h \in Elements(s)
    BY <1>2 DEF Elements, n
  <2> QED BY <2>1, <2>2, <2>3
<1> QED BY <1>1, <1>2, <1>3, <1>5 DEF h, n, r

LEMMA FirstAndRest ==
  ASSUME NEW S, NEW op, NEW s \in Seq(S), s # <<>>, Ascending(op, s)
  PROVE  /\ Head(s) \in S /\ Tail(s) \in Seq(S)
         /\ Elements(s) = {Head(s)} \union Elements(Tail(s))
         /\ Ascending(op, Tail(s))
         /\ \A m \in Elements(Tail(s)) : InLine(op, Head(s), m)
<1> DEFINE n == Len(s)  h == Head(s)  r == Tail(s)
<1>1. /\ h \in S /\ r \in Seq(S) /\ n \in Nat \ {0} /\ h = s[1]
      /\ \A i \in 1 .. Len(r) : i + 1 \in 1 .. n /\ r[i] = s[i + 1]
      /\ Elements(s) = {h} \union Elements(r)
  BY HeadIsFirst
<1>2. \A i, j \in 1 .. n : i < j => InLine(op, s[i], s[j])
  BY DEF Ascending
<1>3. Len(r) \in Nat
  BY <1>1
<1> HIDE DEF n, h, r
<1>4. Ascending(op, r)
  BY <1>1, <1>2, <1>3 DEF Ascending
<1>5. \A m \in Elements(r) : InLine(op, h, m)
  BY <1>1, <1>2, <1>3 DEF Elements
<1> QED BY <1>1, <1>4, <1>5 DEF h, r

\* What a request is after its operation, its locks and its stamp have changed.
LEMMA LockInvLocal ==
  ASSUME LockInv, NEW t \in Task, \A u \in Task \ {t} : task'[u] = task[u],
         \A u \in Task \ {t} : task'[t].held \intersect task[u].held = {},
         Ascending(task'[t].op, task'[t].want),
         \A l \in task'[t].held, m \in Elements(task'[t].want) : InLine(task'[t].op, l, m),
         Needs(task'[t].op, task'[t].order) \subseteq task'[t].held \union Elements(task'[t].want),
         task'[t].at # 0 => task'[t].want = <<>> \/ task'[t].want = AtStamp(t)',
         KeyedLocks(task'[t].op, task'[t].key, task'[t].held \union Elements(task'[t].want))
  PROVE  LockInv'
<1>1. Exclusive'
  <2> SUFFICES ASSUME NEW u \in Task, NEW v \in Task, u # v
               PROVE  task'[u].held \intersect task'[v].held = {}
    BY DEF Exclusive
  <2>1. CASE u = t
    BY <2>1
  <2>2. CASE v = t
    BY <2>2
  <2>3. CASE u # t /\ v # t
    BY <2>3 DEF LockInv, Exclusive
  <2> QED BY <2>1, <2>2, <2>3
<1>2. InTurn'
  <2> SUFFICES ASSUME NEW u \in Task
               PROVE  /\ Ascending(task'[u].op, task'[u].want)
                      /\ \A l \in task'[u].held, m \in Elements(task'[u].want) :
                           InLine(task'[u].op, l, m)
    BY DEF InTurn, Ascending, Elements, InLine, Before
  <2>1. CASE u = t
    BY <2>1
  <2>2. CASE u # t
    BY <2>2 DEF LockInv, InTurn
  <2> QED BY <2>1, <2>2
<1>3. Covered'
  <2> SUFFICES ASSUME NEW u \in Task
               PROVE  Needs(task'[u].op, task'[u].order) \subseteq
                        task'[u].held \union Elements(task'[u].want)
    BY DEF Covered, Asked, Needs, Elements
  <2>1. CASE u = t
    BY <2>1
  <2>2. CASE u # t
    BY <2>2 DEF LockInv, Covered, Asked
  <2> QED BY <2>1, <2>2
<1>4. StampedLast'
  BY DEF LockInv, StampedLast, AtStamp
<1>5. OwnKey'
  <2> SUFFICES ASSUME NEW u \in Task
               PROVE  KeyedLocks(task'[u].op, task'[u].key,
                                 task'[u].held \union Elements(task'[u].want))
    BY DEF OwnKey, Asked, KeyedLocks, Elements, PaymentLock
  <2>1. CASE u = t
    BY <2>1
  <2>2. CASE u # t
    BY <2>2 DEF LockInv, OwnKey, Asked
  <2> QED BY <2>1, <2>2
<1> QED BY <1>1, <1>2, <1>3, <1>4, <1>5 DEF LockInv

LEMMA EmptyWant ==
  /\ Elements(<<>>) = {} /\ \A op : Ascending(op, <<>>)
BY DEF Elements, Ascending

LEMMA LockStep ==
  ASSUME TypeOK, RowInv, LockInv, [Next]_vars
  PROVE  LockInv'
<1>1. ASSUME NEW t \in Task, Opening(t) PROVE LockInv'
  <2>1. PICK op, k, o, a : Fits(op, k, o, a) /\ Open(t, op, k, o, a)
    BY <1>1, OpeningFits
  <2>2. /\ task'[t].op = op /\ task'[t].order = o /\ task'[t].want = Locks(op, k, o)
        /\ task'[t].key = k /\ task'[t].held = {} /\ task'[t].at = 0
        /\ \A u \in Task \ {t} : task'[u] = task[u]
    BY <2>1 DEF Open, TypeOK, Idle
  <2> DEFINE w == Locks(op, k, o)
  <2>3. /\ Ascending(op, w) /\ Needs(op, o) \subseteq Elements(w) /\ KeyedLocks(op, k, Elements(w))
    BY <2>1, LocksList
  <2> HIDE DEF w
  <2>4. /\ Ascending(task'[t].op, task'[t].want)
        /\ Needs(task'[t].op, task'[t].order) \subseteq task'[t].held \union Elements(task'[t].want)
    BY <2>2, <2>3 DEF w
  <2>5. KeyedLocks(task'[t].op, task'[t].key, task'[t].held \union Elements(task'[t].want))
    BY <2>2, <2>3 DEF w, KeyedLocks
  <2> QED BY <2>2, <2>4, <2>5, LockInvLocal
<1>2. ASSUME NEW t \in Task, Acquire(t) PROVE LockInv'
  <2> DEFINE w == task[t].want
             op == task[t].op
  <2>1. w \in Seq(Lock) /\ w # <<>> /\ Free(Head(w))
    BY <1>2 DEF Acquire, TypeOK, Request
  <2>2. /\ task'[t].held = task[t].held \union {Head(w)} /\ task'[t].want = Tail(w)
        /\ task'[t].op = op /\ task'[t].order = task[t].order
        /\ task'[t].at = task[t].at /\ task'[t].key = task[t].key
        /\ \A u \in Task \ {t} : task'[u] = task[u]
    BY <1>2, <2>1 DEF Acquire, TypeOK, Request
  <2>3. Ascending(op, w) /\ \A l \in task[t].held, m \in Elements(w) : InLine(op, l, m)
    BY DEF LockInv, InTurn
  <2>4. task[t].at # 0 => Tail(w) = <<>>
    <3>1. task[t].at # 0 => w = <<PaymentLock(task[t].key)>>
      BY <2>1 DEF LockInv, StampedLast, AtStamp
    <3>2. Tail(<<PaymentLock(task[t].key)>>) = <<>>
      OBVIOUS
    <3> QED BY <3>1, <3>2
  <2>5. KeyedLocks(op, task[t].key, task[t].held \union Elements(w))
    BY DEF LockInv, OwnKey, Asked
  <2> HIDE DEF w, op
  <2>6. /\ Elements(w) = {Head(w)} \union Elements(Tail(w)) /\ Ascending(op, Tail(w))
        /\ \A m \in Elements(Tail(w)) : InLine(op, Head(w), m)
    BY <2>1, <2>3, FirstAndRest
  <2>7. \A u \in Task \ {t} : task'[t].held \intersect task[u].held = {}
    BY <2>1, <2>2 DEF LockInv, Exclusive, Free
  <2>8. Needs(task'[t].op, task'[t].order) \subseteq task'[t].held \union Elements(task'[t].want)
    BY <2>2, <2>6 DEF LockInv, Covered, Asked, w, op
  <2>9. \A l \in task'[t].held, m \in Elements(task'[t].want) : InLine(task'[t].op, l, m)
    BY <2>2, <2>3, <2>6
  <2>10. task'[t].at # 0 => task'[t].want = <<>> \/ task'[t].want = AtStamp(t)'
    BY <2>2, <2>4
  <2>11. Ascending(task'[t].op, task'[t].want) /\ \A u \in Task \ {t} : task'[u] = task[u]
    BY <2>2, <2>6
  <2>12. KeyedLocks(task'[t].op, task'[t].key, task'[t].held \union Elements(task'[t].want))
    BY <2>2, <2>5, <2>6 DEF KeyedLocks
  <2> QED BY <2>7, <2>8, <2>9, <2>10, <2>11, <2>12, LockInvLocal
<1>3. ASSUME NEW t \in Task, Stamp(t) PROVE LockInv'
  <2>1. /\ task'[t].held = task[t].held /\ task'[t].want = task[t].want
        /\ task'[t].op = task[t].op /\ task'[t].order = task[t].order /\ task'[t].key = task[t].key
        /\ \A u \in Task \ {t} : task'[u] = task[u]
    BY <1>3 DEF Stamp, TypeOK, Request
  <2>2. task'[t].want = AtStamp(t)'
    BY <1>3, <2>1 DEF Stamp, AtStamp, PaymentLock
  <2>3. /\ Ascending(task[t].op, task[t].want)
        /\ \A l \in task[t].held, m \in Elements(task[t].want) : InLine(task[t].op, l, m)
        /\ \A u \in Task \ {t} : task[t].held \intersect task[u].held = {}
    BY DEF LockInv, InTurn, Exclusive
  <2>4. /\ Needs(task[t].op, task[t].order) \subseteq task[t].held \union Elements(task[t].want)
        /\ KeyedLocks(task[t].op, task[t].key, task[t].held \union Elements(task[t].want))
    BY DEF LockInv, Covered, OwnKey, Asked
  <2> QED BY <2>1, <2>2, <2>3, <2>4, LockInvLocal
<1>4. ASSUME NEW t \in Task, Abort(t) \/ Committing(t) PROVE LockInv'
  <2>1. task' = [task EXCEPT ![t] = Idle]
    BY <1>4, CommittingEnds DEF Abort, Ends
  <2>2. /\ task'[t].held = {} /\ task'[t].want = <<>> /\ task'[t].op = "idle" /\ task'[t].at = 0
        /\ \A u \in Task \ {t} : task'[u] = task[u]
    BY <2>1 DEF TypeOK, Idle
  <2>3. Needs("idle", task'[t].order) = {} /\ KeyedLocks("idle", task'[t].key, {})
    BY DEF Needs, KeyedLocks
  <2> QED BY <2>2, <2>3, EmptyWant, LockInvLocal
<1>5. CASE Tick \/ GatewayOpens \/ UNCHANGED vars
  <2>1. task' = task
    BY <1>5 DEF Tick, GatewayOpens, vars
  <2>2. Exclusive' /\ InTurn' /\ Covered'
    BY <2>1 DEF LockInv, Exclusive, InTurn, Covered, Asked, Needs, Elements, Ascending, InLine, Before
  <2>3. StampedLast' /\ OwnKey'
    BY <2>1 DEF LockInv, StampedLast, AtStamp, OwnKey, KeyedLocks, Asked, Elements, PaymentLock
  <2> QED BY <2>2, <2>3 DEF LockInv
<1> QED BY <1>1, <1>2, <1>3, <1>4, <1>5 DEF Next, Opening, Committing

\* A payment row is asked for under the lock of the request's order.
LEMMA OrderBeforePayment ==
  ASSUME TypeOK, RowInv, LockInv, NEW t \in Task, NEW k, PaymentLock(k) \in Asked(t),
         \/ PaymentLock(k) \in task[t].held
         \/ task[t].want # <<>> /\ Head(task[t].want) = PaymentLock(k)
  PROVE  /\ task[t].key = k /\ OrderLock(task[t].order) \in task[t].held
         /\ task[t].op \in {"create", "confirm", "fail", "refund"}
<1> DEFINE o == task[t].order
           w == task[t].want
           op == task[t].op
<1>1. task[t].key = k /\ op \in {"create", "confirm", "fail", "refund"}
  BY DEF LockInv, OwnKey, KeyedLocks
<1>2. OrderLock(o) \in task[t].held \union Elements(w)
  BY <1>1 DEF LockInv, Covered, Needs, Asked
<1>3. ~ InLine(op, PaymentLock(k), OrderLock(o)) /\ PaymentLock(k) # OrderLock(o)
  BY LockKinds DEF InLine, Before
<1>4. /\ w \in Seq(Lock) /\ Ascending(op, w)
      /\ \A l \in task[t].held, m \in Elements(w) : InLine(op, l, m)
  BY DEF TypeOK, Request, LockInv, InTurn
<1>5. CASE PaymentLock(k) \in task[t].held
  BY <1>1, <1>2, <1>3, <1>4, <1>5
<1>6. CASE w # <<>> /\ Head(w) = PaymentLock(k)
  <2>1. OrderLock(o) \in Elements(w) => InLine(op, PaymentLock(k), OrderLock(o))
    <3> HIDE DEF w, op, o
    <3>1. Elements(w) = {Head(w)} \union Elements(Tail(w))
          /\ \A m \in Elements(Tail(w)) : InLine(op, Head(w), m)
      BY <1>4, <1>6, FirstAndRest
    <3> QED BY <1>3, <1>6, <3>1
  <2> QED BY <1>1, <1>2, <1>3, <2>1
<1> QED BY <1>5, <1>6

\* Whoever holds a payment row that a request of a circle wants is a request of its order,
\* which shares the order's lock, unless the key is foreign; so only orders, branches and
\* the courier are left to wait for, and the request that wants the last of them in their
\* order would wait for one that wants a later one.
LEMMA OrderedLocksDoNotCircle ==
  ASSUME TypeOK, RowInv, LockInv
  PROVE  CirclesNeedForeignKeys
<1> SUFFICES ASSUME NEW S \in (SUBSET Task) \ {{}}, \A t \in S : Waits(t, S),
                    \A t \in S : ~ ForeignKey(t)
             PROVE  FALSE
  BY Zenon DEF CirclesNeedForeignKeys
<1> DEFINE wanted(t) == Head(task[t].want)
           After(t) == {u \in S : Before(wanted(t), wanted(u))}
           Afters == {After(t) : t \in S}
<1>1. \A t \in S : wanted(t) \in Lock /\ wanted(t) \in Elements(task[t].want)
  <2> SUFFICES ASSUME NEW t \in S
               PROVE  wanted(t) \in Lock /\ wanted(t) \in Elements(task[t].want)
    OBVIOUS
  <2>1. task[t].want \in Seq(Lock) /\ task[t].want # <<>> /\ Ascending(task[t].op, task[t].want)
    BY DEF Waits, TypeOK, Request, LockInv, InTurn
  <2> QED BY <2>1, HeadIsFirst
<1>2. \A t \in S : wanted(t)[1] # "payment"
  <2> SUFFICES ASSUME NEW t \in S, wanted(t)[1] = "payment" PROVE FALSE
    OBVIOUS
  <2> DEFINE k == wanted(t)[2]
  <2>1. wanted(t) = PaymentLock(k) /\ task[t].want # <<>>
    BY <1>1, LockKinds DEF Waits
  <2>2. PICK u \in S \ {t} : PaymentLock(k) \in task[u].held
    BY <2>1 DEF Waits
  <2>3. PaymentLock(k) \in Asked(t) /\ PaymentLock(k) \in Asked(u)
    BY <1>1, <2>1, <2>2 DEF Asked
  <2> HIDE DEF k
  <2>4. /\ task[t].key = k /\ OrderLock(task[t].order) \in task[t].held
        /\ task[t].op \in {"create", "confirm", "fail", "refund"}
    BY <2>1, <2>3, OrderBeforePayment
  <2>5. /\ task[u].key = k /\ OrderLock(task[u].order) \in task[u].held
        /\ task[u].op \in {"create", "confirm", "fail", "refund"}
    BY <2>2, <2>3, OrderBeforePayment
  <2>6. task[t].order # task[u].order
    BY <2>2, <2>4, <2>5 DEF LockInv, Exclusive
  <2>7. task[u].op # "create"
    <3>1. wanted(u) \in Lock /\ InLine(task[u].op, PaymentLock(k), wanted(u))
      BY <1>1, <2>2 DEF LockInv, InTurn
    <3> QED BY <3>1, LockKinds DEF InLine, Before
  <2>8. pay[k].status # "none" /\ pay[k].order = task[u].order
    BY <2>5, <2>7, OpIsNotIdle DEF RowInv, RequestsFit, Fits
  <2>9. task[t].op = "create"
    BY <2>4, <2>6, <2>8 DEF RowInv, RequestsFit, Fits
  <2>10. task[t].want = <<PaymentLock(k)>>
    <3> DEFINE w == task[t].want
    <3>1. w \in Seq(Lock) /\ Ascending("create", w)
      BY <2>9 DEF TypeOK, Request, LockInv, InTurn
    <3>2. w # <<>> /\ Head(w) = PaymentLock(k)
      BY <2>1
    <3>3. \A m \in Elements(w) : m = PaymentLock(k) \/ InLine("create", PaymentLock(k), m)
      <4> HIDE DEF w
      <4>1. /\ Elements(w) = {Head(w)} \union Elements(Tail(w))
            /\ \A m \in Elements(Tail(w)) : InLine("create", Head(w), m)
        BY <3>1, <3>2, FirstAndRest
      <4> QED BY <3>2, <4>1
    <3>4. \A m \in Elements(w) : m = PaymentLock(k)
      BY <3>3, LockKinds DEF InLine, Before
    <3> HIDE DEF w
    <3>5. Len(w) \in Nat \ {0} /\ \A i \in 1 .. Len(w) : w[i] = PaymentLock(k)
      BY <3>1, <3>2, <3>4, HeadIsFirst DEF Elements
    <3>6. Len(w) < 2
      <4> SUFFICES ASSUME Len(w) >= 2 PROVE FALSE
        BY <3>5
      <4>1. InLine("create", w[1], w[2])
        BY <3>1, <3>5 DEF Ascending
      <4> QED BY <3>5, <4>1, LockKinds DEF InLine, Before
    <3>7. Len(w) = 1
      <4> DEFINE n == Len(w)
      <4>1. n \in Nat \ {0} /\ n < 2
        BY <3>5, <3>6
      <4> HIDE DEF n
      <4>2. n = 1
        BY <4>1
      <4> QED BY <4>2 DEF n
    <3>8. w[1] = PaymentLock(k)
      BY <3>5, <3>7
    <3> QED BY <3>1, <3>7, <3>8 DEF w
  <2> QED BY <2>4, <2>6, <2>8, <2>9, <2>10 DEF ForeignKey
<1>3. \A t \in S : \E u \in S : Before(wanted(t), wanted(u))
  <2> SUFFICES ASSUME NEW t \in S PROVE \E u \in S : Before(wanted(t), wanted(u))
    OBVIOUS
  <2>1. PICK u \in S \ {t} : wanted(t) \in task[u].held
    BY DEF Waits
  <2>2. InLine(task[u].op, wanted(t), wanted(u))
    BY <2>1, <1>1 DEF LockInv, InTurn
  <2> QED BY <2>2, <1>2 DEF InLine
<1> HIDE DEF wanted
<1>4. Afters \in SUBSET SUBSET S /\ Afters # {}
  OBVIOUS
<1>5. IsFiniteSet(S)
  BY LedgerRows, FS_Subset
<1>6. PICK T \in Afters : \A U \in Afters : U \subseteq T => U = T
  <2> HIDE DEF Afters
  <2> QED BY <1>4, <1>5, SmallestSubset
<1>7. PICK t \in S : T = After(t)
  BY <1>6
<1>8. PICK u \in S : Before(wanted(t), wanted(u))
  BY <1>3
<1>9. After(u) \subseteq After(t) /\ u \in After(t) /\ u \notin After(u)
  BY <1>1, <1>8, BeforeIsAnOrder
<1>10. After(u) \in Afters
  OBVIOUS
<1> QED BY <1>6, <1>7, <1>9, <1>10

-----------------------------------------------------------------------------
(* Sums over payments and over refunds *)

\* The sums of the model as one function of the rows.
Amounts(p) == [k \in Key |-> p[k].amount]
Owed(p, S) == SumFunctionOnSet(Amounts(p), S)
PaidRows(p, o) == {k \in Key : p[k].status = "paid" /\ p[k].order = o}
Face(R) == [rf \in R |-> rf.amount]
OfOrder(R, o) == {rf \in R : rf.order = o}

LEMMA SumsOfRows ==
  /\ \A S : PaidSum(S) = Owed(pay, S)
  /\ \A S : PaidSum(S)' = Owed(pay', S)
  /\ \A o : PaidOn(o) = PaidRows(pay, o) /\ PaidOn(o)' = PaidRows(pay', o)
  /\ \A o : Collected(o) = Owed(pay, PaidRows(pay, o))
  /\ \A o : Collected(o)' = Owed(pay', PaidRows(pay', o))
BY DEF PaidSum, Owed, Amounts, PaidOn, PaidRows, Collected

LEMMA SumsOfRefunds ==
  /\ \A o : RefundsOf(o) = OfOrder(refunds, o) /\ RefundsOf(o)' = OfOrder(refunds', o)
  /\ \A o : Refunded(o) = SumFunctionOnSet(Face(refunds), OfOrder(refunds, o))
  /\ \A o : Refunded(o)' = SumFunctionOnSet(Face(refunds'), OfOrder(refunds', o))
BY DEF RefundsOf, OfOrder, Refunded, Face

LEMMA OwedGrows ==
  ASSUME NEW p \in [Key -> Row], NEW S \in SUBSET Key
  PROVE  /\ Owed(p, S) \in Nat
         /\ \A T \in SUBSET S : Owed(p, T) <= Owed(p, S)
         /\ \A k \in S : Owed(p, S) = p[k].amount + Owed(p, S \ {k})
<1> DEFINE f == Amounts(p)
<1>1. IsFiniteSet(S)
  BY LedgerRows, FS_Subset
<1>2. \A k \in S : f[k] = p[k].amount /\ f[k] \in Nat
  BY LedgerBounds DEF Amounts, Row
<1> HIDE DEF f
<1>3. \A k \in S : f[k] \in Int
  BY <1>2
<1>4. SumFunctionOnSet(f, S) \in Nat /\ \A T \in SUBSET S : SumFunctionOnSet(f, T) <= SumFunctionOnSet(f, S)
  BY <1>1, <1>2, SumPart
<1>5. \A k \in S : SumFunctionOnSet(f, S) = f[k] + SumFunctionOnSet(f, S \ {k})
  BY <1>1, <1>3, SumRemove
<1> QED BY <1>2, <1>4, <1>5 DEF Owed, f

LEMMA OwedNothing == \A p : Owed(p, {}) = 0
BY SumEmpty DEF Owed

LEMMA OwedSame ==
  ASSUME NEW p, NEW q, NEW S \in SUBSET Key, \A k \in S : q[k].amount = p[k].amount
  PROVE  Owed(q, S) = Owed(p, S)
<1> DEFINE f == Amounts(p)  g == Amounts(q)
<1>1. IsFiniteSet(S)
  BY LedgerRows, FS_Subset
<1>2. \A k \in S : g[k] = f[k]
  BY DEF Amounts
<1> HIDE DEF f, g
<1>3. SumFunctionOnSet(g, S) = SumFunctionOnSet(f, S)
  BY <1>1, <1>2, SumSame
<1> QED BY <1>3 DEF Owed, f, g

\* A sum over refunds when one refund is added.
LEMMA SumGrown ==
  ASSUME NEW R, IsFiniteSet(R), NEW x, x \notin R, NEW f, NEW g,
         \A y \in R : f[y] \in Nat /\ g[y] = f[y], g[x] \in Nat
  PROVE  \A S \in SUBSET R :
           /\ SumFunctionOnSet(f, S) \in Nat
           /\ SumFunctionOnSet(g, S) = SumFunctionOnSet(f, S)
           /\ SumFunctionOnSet(g, S \union {x}) = g[x] + SumFunctionOnSet(f, S)
<1> SUFFICES ASSUME NEW S \in SUBSET R
             PROVE  /\ SumFunctionOnSet(f, S) \in Nat
                    /\ SumFunctionOnSet(g, S) = SumFunctionOnSet(f, S)
                    /\ SumFunctionOnSet(g, S \union {x}) = g[x] + SumFunctionOnSet(f, S)
  OBVIOUS
<1>1. IsFiniteSet(S) /\ x \notin S
  BY FS_Subset
<1>2. \A y \in S : f[y] \in Nat
  OBVIOUS
<1>3. \A y \in S : f[y] = g[y] /\ g[y] \in Int
  BY <1>2
<1>4. SumFunctionOnSet(f, S) \in Nat
  BY <1>1, <1>2, SumPart
<1>5. SumFunctionOnSet(g, S) = SumFunctionOnSet(f, S)
  BY <1>1, <1>3, SumSame
<1>6. g[x] \in Int
  OBVIOUS
<1>7. SumFunctionOnSet(g, S \union {x}) = g[x] + SumFunctionOnSet(g, S)
  BY <1>1, <1>3, <1>6, SumAdd
<1> QED BY <1>4, <1>5, <1>7

LEMMA SumOverSame ==
  ASSUME NEW R, IsFiniteSet(R), NEW f, NEW g, \A y \in R : g[y] = f[y]
  PROVE  \A S \in SUBSET R : SumFunctionOnSet(g, S) = SumFunctionOnSet(f, S)
<1> SUFFICES ASSUME NEW S \in SUBSET R
             PROVE  SumFunctionOnSet(g, S) = SumFunctionOnSet(f, S)
  OBVIOUS
<1>1. IsFiniteSet(S) /\ \A y \in S : g[y] = f[y]
  BY FS_Subset
<1> QED BY <1>1, SumSame

\* The sums of an order when row k lands on order o, and when no paid row changes.
LEMMA OwedLands ==
  ASSUME NEW p \in [Key -> Row], NEW q \in [Key -> Row], NEW k \in Key, NEW o, NEW a,
         p[k].status # "paid", q[k].status = "paid", q[k].order = o, q[k].amount = a,
         \A j \in Key \ {k} : q[j] = p[j]
  PROVE  /\ PaidRows(q, o) = PaidRows(p, o) \union {k} /\ k \notin PaidRows(p, o)
         /\ Owed(q, PaidRows(q, o)) = Owed(p, PaidRows(p, o)) + a
         /\ \A x : x # o => /\ PaidRows(q, x) = PaidRows(p, x)
                            /\ Owed(q, PaidRows(q, x)) = Owed(p, PaidRows(p, x))
<1>1. PaidRows(q, o) = PaidRows(p, o) \union {k} /\ k \notin PaidRows(p, o)
  BY DEF PaidRows
<1>2. \A x : PaidRows(p, x) \in SUBSET Key /\ PaidRows(q, x) \in SUBSET Key
  BY DEF PaidRows
<1>3. \A x : \A j \in PaidRows(p, x) : q[j].amount = p[j].amount
  BY DEF PaidRows
<1>4. \A x : Owed(q, PaidRows(p, x)) = Owed(p, PaidRows(p, x))
  BY <1>2, <1>3, OwedSame
<1>5. PaidRows(q, o) \ {k} = PaidRows(p, o) /\ k \in PaidRows(q, o)
  BY <1>1
<1>6. Owed(q, PaidRows(q, o)) = q[k].amount + Owed(q, PaidRows(q, o) \ {k})
  BY <1>2, <1>5, OwedGrows
<1>7. Owed(p, PaidRows(p, o)) \in Nat /\ a \in Int
  BY <1>2, OwedGrows, LedgerBounds DEF Row
<1>8. Owed(q, PaidRows(q, o)) = Owed(p, PaidRows(p, o)) + a
  <2>1. Owed(q, PaidRows(q, o)) = a + Owed(p, PaidRows(p, o))
    BY <1>4, <1>5, <1>6, Zenon
  <2> QED BY <2>1, <1>7
<1>9. \A x : x # o => PaidRows(q, x) = PaidRows(p, x)
  BY DEF PaidRows
<1> QED BY <1>1, <1>4, <1>8, <1>9

LEMMA OwedRests ==
  ASSUME NEW p, NEW q,
         \A j \in Key : p[j].status = "paid" \/ q[j].status = "paid" => q[j] = p[j]
  PROVE  \A x : /\ PaidRows(q, x) = PaidRows(p, x)
                /\ \A S \in SUBSET PaidRows(p, x) : Owed(q, S) = Owed(p, S)
<1>1. \A x : PaidRows(q, x) = PaidRows(p, x)
  BY DEF PaidRows
<1>2. \A x : \A S \in SUBSET PaidRows(p, x) :
        S \in SUBSET Key /\ \A j \in S : q[j].amount = p[j].amount
  BY DEF PaidRows
<1>3. \A x : \A S \in SUBSET PaidRows(p, x) : Owed(q, S) = Owed(p, S)
  BY <1>2, OwedSame
<1> QED BY <1>1, <1>3

-----------------------------------------------------------------------------
(* What a step does to the ledger. *)

PaidRowsRest ==
  \A j \in Key : pay[j].status = "paid" \/ pay'[j].status = "paid" => pay'[j] = pay[j]

Rests == PaidRowsRest /\ UNCHANGED <<till, header, canceled, delivered, refunds, windows>>

ProviderRefund(t) ==
  [source |-> "provider", key |-> task[t].key, order |-> task[t].order,
   amount |-> pay[task[t].key].amount, at |-> task[t].at]
CancelRefund(t) ==
  [source |-> "cancel", key |-> task[t].order, order |-> task[t].order,
   amount |-> Refundable(task[t].order), at |-> task[t].at]

Refunds(t) ==
  /\ task[t].op = "refund" /\ task[t].order \in Order /\ task[t].key \in Key
  /\ pay[task[t].key].status = "paid" /\ pay[task[t].key].order = task[t].order
  /\ ~ AlreadyRefunded(task[t].key)
  /\ pay[task[t].key].amount <= Refundable(task[t].order)
  /\ refunds' = refunds \union {ProviderRefund(t)}
  /\ UNCHANGED <<pay, till, header, canceled, delivered, windows>>

Reverses(t) ==
  /\ task[t].op = "cancel" /\ task[t].order \in header \ canceled
  /\ refunds' = refunds \union {CancelRefund(t)}
  /\ canceled' = canceled \union {task[t].order}
  /\ UNCHANGED <<pay, till, header, delivered, windows>>

Withdraws(t) ==
  /\ task[t].op = "cancel" /\ task[t].order \in Order
  /\ canceled' = canceled \union {task[t].order}
  /\ UNCHANGED <<pay, till, header, delivered, refunds, windows>>

Takes(t) ==
  /\ task[t].op = "till" /\ task[t].order \in Order /\ TakesFull(task[t].order)
  /\ till' = till \union {task[t].order} /\ header' = header \union {task[t].order}
  /\ UNCHANGED <<pay, canceled, delivered, refunds, windows>>

Arrives(t) ==
  /\ task[t].op = "deliver" /\ task[t].order \in Order /\ delivered[task[t].order] = 0
  /\ delivered' = [delivered EXCEPT ![task[t].order] = task[t].at]
  /\ UNCHANGED <<pay, till, header, canceled, refunds, windows>>

Closes(t) ==
  /\ task[t].op = "settle"
  /\ windows' = Append(windows, [from |-> UnsettledStart, to |-> task[t].at,
                                 counted |-> Counted(UnsettledStart, task[t].at)])
  /\ UNCHANGED <<pay, till, header, canceled, delivered, refunds>>

Effect(t) ==
  \/ \E k \in Key, a \in Amount : Pays(t, k, a)
  \/ Refunds(t) \/ Reverses(t) \/ Withdraws(t) \/ Takes(t) \/ Arrives(t) \/ Closes(t)

LEMMA CommittingEffect ==
  ASSUME TypeOK, RowInv, NEW t \in Task, Committing(t)
  PROVE  Rests \/ Effect(t)
<1> DEFINE k == task[t].key  o == task[t].order
<1>1. task[t].op # "idle" => Fits(task[t].op, k, o, task[t].amount)
  BY DEF RowInv, RequestsFit
<1>2. UNCHANGED ledger => Rests
  BY DEF ledger, Rests, PaidRowsRest
<1>3. CASE Create(t) \/ Confirm(t)
  BY <1>2, <1>3, CollectionPays DEF Effect
<1>4. CASE Fail(t)
  <2>1. CASE pay[k].status = "pending"
    <3>1. pay' = [pay EXCEPT ![k].status = "failed"]
      BY <1>4, <2>1 DEF Fail
    <3>2. PaidRowsRest
      BY <2>1, <3>1 DEF PaidRowsRest, TypeOK, Row
    <3> QED BY <3>2, <1>4 DEF Fail, Rests
  <2>2. CASE pay[k].status # "pending"
    BY <1>4, <2>2 DEF Fail, Rests, PaidRowsRest
  <2> QED BY <2>1, <2>2
<1>5. CASE RefundPayment(t)
  <2>1. task[t].op = "refund" /\ k \in Key /\ o \in Order /\ pay[k].order = o
    BY <1>1, <1>5 DEF RefundPayment, Finishing, Fits
  <2>2. CASE /\ pay[k].status = "paid" /\ ~AlreadyRefunded(k)
             /\ pay[k].amount <= Refundable(o)
    BY <1>5, <2>1, <2>2 DEF RefundPayment, Effect, Refunds, ProviderRefund
  <2>3. CASE ~ (/\ pay[k].status = "paid" /\ ~AlreadyRefunded(k)
                /\ pay[k].amount <= Refundable(o))
    <3>1. UNCHANGED ledger
      BY <1>5, <2>3 DEF RefundPayment, ledger
    <3> QED BY <3>1, <1>2
  <2> QED BY <2>2, <2>3
<1>6. CASE Cancel(t)
  <2>1. task[t].op = "cancel" /\ o \in Order
    BY <1>1, <1>6 DEF Cancel, Finishing, Fits
  <2>2. CASE o \in header \ canceled
    BY <1>6, <2>1, <2>2 DEF Cancel, Effect, Reverses, CancelRefund
  <2>3. CASE o \notin header \ canceled
    BY <1>6, <2>1, <2>3 DEF Cancel, Effect, Withdraws
  <2> QED BY <2>2, <2>3
<1>7. CASE Till(t)
  <2>1. task[t].op = "till" /\ o \in Order
    BY <1>1, <1>7 DEF Till, Finishing, Fits
  <2>2. CASE TakesFull(o)
    BY <1>7, <2>1, <2>2 DEF Till, Effect, Takes
  <2>3. CASE ~ TakesFull(o)
    <3>1. UNCHANGED ledger
      BY <1>7, <2>3 DEF Till, ledger
    <3> QED BY <3>1, <1>2
  <2> QED BY <2>2, <2>3
<1>8. CASE Deliver(t)
  <2>1. task[t].op = "deliver" /\ o \in Order
    BY <1>1, <1>8 DEF Deliver, Finishing, Fits
  <2>2. CASE delivered[o] = 0
    BY <1>8, <2>1, <2>2 DEF Deliver, Effect, Arrives
  <2>3. CASE delivered[o] # 0
    <3>1. UNCHANGED ledger
      BY <1>8, <2>3 DEF Deliver, ledger
    <3> QED BY <3>1, <1>2
  <2> QED BY <2>2, <2>3
<1>9. CASE Settle(t)
  BY <1>9 DEF Settle, Finishing, Effect, Closes
<1> QED BY <1>3, <1>4, <1>5, <1>6, <1>7, <1>8, <1>9 DEF Committing

\* Every step leaves the ledger's events alone, or is the commit of one request.
LEMMA StepEffect ==
  ASSUME TypeOK, RowInv, [Next]_vars
  PROVE  Rests \/ \E t \in Task : Ends(t) /\ Effect(t)
<1>1. CASE \E t \in Task : Committing(t)
  BY <1>1, CommittingEnds, CommittingEffect
<1>2. UNCHANGED ledger => Rests
  BY DEF ledger, Rests, PaidRowsRest
<1>3. CASE GatewayOpens
  <2>1. PICK k \in Key, o \in Order, a \in Amount :
          /\ pay[k].status = "none"
          /\ pay' = [pay EXCEPT ![k] = [status |-> "pending", order |-> o, amount |-> a, at |-> 0]]
    BY <1>3 DEF GatewayOpens
  <2>2. PaidRowsRest
    BY <2>1 DEF PaidRowsRest, TypeOK
  <2> QED BY <2>2, <1>3 DEF GatewayOpens, Rests
<1>4. ASSUME NEW t \in Task, Opening(t) \/ Acquire(t) \/ Stamp(t) \/ Abort(t)
      PROVE  UNCHANGED ledger
  BY <1>4 DEF Opening, Collect, Answer, Work, HandOver, Open, Acquire, Stamp, Abort
<1>5. CASE Tick \/ UNCHANGED vars
  BY <1>5, <1>2 DEF Tick, vars
<1> QED BY <1>1, <1>2, <1>3, <1>4, <1>5 DEF Next, Opening, Committing

LEMMA PayTyped ==
  ASSUME TypeOK, RowInv, [Next]_vars
  PROVE  pay' \in [Key -> Row]
<1>1. CASE pay' = pay
  BY <1>1 DEF TypeOK
<1>2. CASE GatewayOpens
  <2>1. PICK k \in Key, o \in Order, a \in Amount :
          /\ pay[k].status = "none"
          /\ pay' = [pay EXCEPT ![k] = [status |-> "pending", order |-> o, amount |-> a, at |-> 0]]
    BY <1>2 DEF GatewayOpens
  <2>2. [status |-> "pending", order |-> o, amount |-> a, at |-> 0] \in Row
    BY LedgerBounds DEF Row, Amount, Time
  <2> QED BY <2>1, <2>2 DEF TypeOK
<1>3. ASSUME NEW t \in Task, NEW k \in Key, NEW a \in Amount, Pays(t, k, a)
      PROVE  pay' \in [Key -> Row]
  <2>1. [status |-> "paid", order |-> task[t].order, amount |-> a, at |-> task[t].at] \in Row
    BY <1>3, LedgerBounds DEF Pays, Row, Amount, Time, TypeOK, Request
  <2> QED BY <1>3, <2>1 DEF Pays, Land, TypeOK
<1>4. ASSUME NEW t \in Task, Fail(t)
      PROVE  pay' \in [Key -> Row]
  <2> DEFINE k == task[t].key
  <2>1. CASE pay[k].status = "pending"
    <3>1. pay' = [pay EXCEPT ![k].status = "failed"]
      BY <1>4, <2>1 DEF Fail
    <3> QED BY <3>1 DEF TypeOK, Row
  <2>2. CASE pay[k].status # "pending"
    BY <1>1, <1>4, <2>2 DEF Fail
  <2> QED BY <2>1, <2>2
<1>5. ASSUME NEW t \in Task, Opening(t) \/ Acquire(t) \/ Stamp(t) \/ Abort(t)
             \/ RefundPayment(t) \/ Cancel(t) \/ Till(t) \/ Deliver(t) \/ Settle(t)
      PROVE  pay' = pay
  BY <1>5 DEF Opening, Collect, Answer, Work, HandOver, Open, Acquire, Stamp, Abort, RefundPayment,
              Cancel, Till, Deliver, Settle, ledger
<1>6. CASE Tick \/ UNCHANGED vars
  BY <1>6, <1>1 DEF Tick, vars, ledger
<1>7. ASSUME NEW t \in Task, Create(t) \/ Confirm(t)
      PROVE  pay' \in [Key -> Row]
  BY <1>7, <1>1, <1>3, CollectionPays DEF ledger
<1> QED BY <1>1, <1>2, <1>4, <1>5, <1>6, <1>7 DEF Next, Opening

-----------------------------------------------------------------------------
(* The money of an order *)

IsCanceled(o) == \E rf \in refunds : rf.source = "cancel" /\ rf.order = o
Left(o) == {k \in PaidOn(o) : ~ AlreadyRefunded(k)}
Charged(o) == SumFunctionOnSet([rf \in refunds |-> Attributed(rf)], RefundsOf(o))

\* A refund stands for a payment that landed before it, or for a canceled order.
RefundsFollow ==
  \A rf \in refunds :
    /\ rf.source = "provider" =>
         /\ rf.key \in Key /\ pay[rf.key].status = "paid" /\ pay[rf.key].order = rf.order
         /\ pay[rf.key].amount = rf.amount /\ pay[rf.key].at <= rf.at
    /\ rf.source = "cancel" => rf.key = rf.order /\ rf.order \in header \intersect canceled

RefundedOnce == \A x, y \in refunds : x.source = y.source /\ x.key = y.key => x = y

\* The refunds of an order fit its tender, and a cancellation leaves nothing to refund.
RefundsFit ==
  \A o \in Order : /\ Refunded(o) <= Exact(o)
                   /\ IsCanceled(o) => Refunded(o) = Exact(o)

\* Nothing of an order is dated after its cancellation.
CancelIsLast ==
  \A rf \in refunds :
    rf.source = "cancel" =>
      /\ \A x \in RefundsOf(rf.order) : x.at <= rf.at
      /\ \A k \in PaidOn(rf.order) : pay[k].at <= rf.at

\* What may still be charged back fits what was collected.
ChargesFit ==
  \A o \in Order : /\ Charged(o) <= Collected(o)
                   /\ ~ IsCanceled(o) => Charged(o) + PaidSum(Left(o)) <= Collected(o)

BillInv == CourierWithinBill /\ HeaderTellsTruth
RefundInv == IsFiniteSet(refunds) /\ RefundsFollow /\ RefundedOnce /\ RefundsFit /\ CancelIsLast
MoneyInv == BillInv /\ RefundInv /\ ChargesFit

-----------------------------------------------------------------------------
(* The order of the stamps *)

ClockAhead ==
  /\ \A k \in Key : pay[k].status = "paid" => pay[k].at <= now
  /\ \A rf \in refunds : rf.at <= now
  /\ \A o \in Order : delivered[o] <= now
  /\ \A i \in 1 .. Len(windows) : windows[i].to <= now
  /\ \A t \in Task : task[t].at <= now

\* A stamp read under an order's lock is after everything committed on that order.
OrderBehind ==
  \A t \in Task, o \in Order :
    task[t].at # 0 /\ OrderLock(o) \in task[t].held =>
      /\ \A k \in PaidOn(o) : pay[k].at <= task[t].at
      /\ \A rf \in RefundsOf(o) : rf.at <= task[t].at

\* A stamp read under the courier's lock is after every collection, delivery and settlement.
CourierBehind ==
  \A t \in Task :
    task[t].at # 0 /\ CourierLock \in task[t].held =>
      /\ \A k \in Key : pay[k].status = "paid" => pay[k].at <= task[t].at
      /\ \A o \in Order : delivered[o] <= task[t].at
      /\ \A i \in 1 .. Len(windows) : windows[i].to <= task[t].at

StampInv == ClockAhead /\ OrderBehind /\ CourierBehind

-----------------------------------------------------------------------------
(* The windows *)

WindowsInOrder ==
  /\ \A i \in 1 .. Len(windows) : windows[i].from <= windows[i].to
  /\ \A i, j \in 1 .. Len(windows) : i < j => windows[i].to <= windows[j].from

InSomeWindow(at) == \E i \in 1 .. Len(windows) : Within(at, windows[i].from, windows[i].to)

WindowsTouch ==
  windows # <<>> =>
    \A at \in Time :
      windows[1].from <= at /\ at < windows[Len(windows)].to => InSomeWindow(at)

NothingBefore ==
  windows # <<>> =>
    /\ \A k \in Key : pay[k].status = "paid" => windows[1].from <= pay[k].at
    /\ \A o \in Order : delivered[o] # 0 => windows[1].from <= delivered[o]

WindowInv == WindowsInOrder /\ WindowsTouch /\ NothingBefore /\ OnlyCancellationsAreLate

Inv == TypeOK /\ RowInv /\ LockInv /\ MoneyInv /\ StampInv /\ WindowInv

\* The sums of one step, for the state before and after it.
LEMMA ExactIsNat ==
  ASSUME TypeOK, NEW o \in Order
  PROVE  Collected(o) \in Nat /\ Exact(o) \in Nat
<1>1. PaidRows(pay, o) \in SUBSET Key /\ pay \in [Key -> Row]
  BY DEF PaidRows, TypeOK
<1>2. Collected(o) \in Nat
  BY <1>1, OwedGrows, SumsOfRows
<1> QED BY <1>2, LedgerBounds DEF Exact

\* A landing raises one order's collections, a rest none.
LEMMA CollectedAfter ==
  ASSUME TypeOK, RowInv, pay' \in [Key -> Row], NEW o \in Order
  PROVE  /\ PaidRowsRest => Collected(o)' = Collected(o)
         /\ \A t \in Task, k \in Key, a \in Amount :
              Pays(t, k, a) =>
                Collected(o)' = Collected(o) + (IF o = task[t].order THEN a ELSE 0)
<1>1. ASSUME PaidRowsRest PROVE Collected(o)' = Collected(o)
  <2>1. PaidRows(pay', o) = PaidRows(pay, o)
        /\ \A S \in SUBSET PaidRows(pay, o) : Owed(pay', S) = Owed(pay, S)
    BY <1>1, OwedRests DEF PaidRowsRest
  <2> QED BY <2>1, SumsOfRows
<1>2. ASSUME NEW t \in Task, NEW k \in Key, NEW a \in Amount, Pays(t, k, a)
      PROVE  Collected(o)' = Collected(o) + (IF o = task[t].order THEN a ELSE 0)
  <2>1. /\ pay[k].status # "paid" /\ pay'[k].status = "paid"
        /\ pay'[k].order = task[t].order /\ pay'[k].amount = a
        /\ \A j \in Key \ {k} : pay'[j] = pay[j]
    BY <1>2, PaysKeeps
  <2>2. /\ Owed(pay', PaidRows(pay', task[t].order)) = Owed(pay, PaidRows(pay, task[t].order)) + a
        /\ \A x : x # task[t].order => Owed(pay', PaidRows(pay', x)) = Owed(pay, PaidRows(pay, x))
    BY <2>1, OwedLands DEF TypeOK
  <2>3. Collected(o) \in Nat
    BY ExactIsNat
  <2> QED BY <2>2, <2>3, SumsOfRows
<1> QED BY <1>1, <1>2

\* The bill of an order after each effect.
LEMMA BillStep ==
  ASSUME TypeOK, RowInv, BillInv, [Next]_vars
  PROVE  BillInv'
<1>1. pay' \in [Key -> Row]
  BY PayTyped
<1>2. \A o \in Order : Collected(o) \in Nat /\ Exact(o) \in Nat
                       /\ Exact(o) = Collected(o) + (IF o \in till THEN Due ELSE 0)
                       /\ Exact(o)' = Collected(o)' + (IF o \in till' THEN Due ELSE 0)
  BY ExactIsNat DEF Exact
<1>3. \A o \in Order : Collected(o) <= Due /\ (o \in header <=> Exact(o) >= Due)
  BY DEF BillInv, CourierWithinBill, HeaderTellsTruth
<1>4. SUFFICES \A o \in Order : Collected(o)' <= Due /\ (o \in header' <=> Exact(o)' >= Due)
  BY DEF BillInv, CourierWithinBill, HeaderTellsTruth
<1>5. ASSUME PaidRowsRest, till' = till, header' = header
      PROVE  \A o \in Order : Collected(o)' <= Due /\ (o \in header' <=> Exact(o)' >= Due)
  BY <1>1, <1>2, <1>3, <1>5, CollectedAfter
<1>6. ASSUME NEW t \in Task, NEW k \in Key, NEW a \in Amount, Pays(t, k, a)
      PROVE  \A o \in Order : Collected(o)' <= Due /\ (o \in header' <=> Exact(o)' >= Due)
  <2> DEFINE x == task[t].order
  <2>1. \A o \in Order : Collected(o)' = Collected(o) + (IF o = x THEN a ELSE 0)
    BY <1>1, <1>6, CollectedAfter
  <2>2. x \in Order /\ a <= Due - Exact(x) /\ till' = till /\ a \in Nat
        /\ header' = IF Exact(x) + a >= Due THEN header \union {x} ELSE header
    BY <1>6, LedgerBounds DEF Pays, Lands, HasRoom, Land, Recomputed, Amount
  <2> HIDE DEF x
  <2>3. ASSUME NEW o \in Order PROVE Exact(o)' = Exact(o) + (IF o = x THEN a ELSE 0)
    <3>1. /\ Collected(o)' = Collected(o) + (IF o = x THEN a ELSE 0)
          /\ Exact(o) = Collected(o) + (IF o \in till THEN Due ELSE 0)
          /\ Exact(o)' = Collected(o)' + (IF o \in till THEN Due ELSE 0)
          /\ Collected(o) \in Nat /\ a \in Nat /\ Due \in Nat
      BY <1>2, <2>1, <2>2, LedgerBounds
    <3> QED BY <3>1
  <2>4. ASSUME NEW o \in Order PROVE Collected(o)' <= Due
    BY <1>2, <1>3, <2>1, <2>2, LedgerBounds
  <2>5. ASSUME NEW o \in Order PROVE o \in header' <=> Exact(o)' >= Due
    <3>1. CASE o = x
      BY <1>2, <1>3, <2>2, <2>3, <3>1, LedgerBounds
    <3>2. CASE o # x
      BY <1>2, <1>3, <2>2, <2>3, <3>2, LedgerBounds
    <3> QED BY <3>1, <3>2
  <2> QED BY <2>4, <2>5
<1>7. ASSUME NEW t \in Task, Takes(t)
      PROVE  \A o \in Order : Collected(o)' <= Due /\ (o \in header' <=> Exact(o)' >= Due)
  <2>1. PaidRowsRest
    BY <1>7 DEF Takes, PaidRowsRest
  <2>2. \A o \in Order : Collected(o)' = Collected(o)
    BY <1>1, <2>1, CollectedAfter
  <2> DEFINE x == task[t].order
  <2>3. x \in Order /\ x \notin header /\ till' = till \union {x} /\ header' = header \union {x}
    BY <1>7 DEF Takes, TakesFull
  <2> HIDE DEF x
  <2> QED BY <1>2, <1>3, <2>2, <2>3, LedgerBounds
<1>8. ASSUME NEW t \in Task, Refunds(t) \/ Reverses(t) \/ Withdraws(t) \/ Arrives(t) \/ Closes(t)
      PROVE  PaidRowsRest /\ till' = till /\ header' = header
  BY <1>8 DEF Refunds, Reverses, Withdraws, Arrives, Closes, PaidRowsRest
<1> QED BY <1>5, <1>6, <1>7, <1>8, StepEffect DEF Rests, Effect

\* A commit holds every lock its writes rely on, and nobody else does.
LEMMA CommitHolds ==
  ASSUME LockInv, NEW t \in Task, Ends(t)
  PROVE  /\ Needs(task[t].op, task[t].order) \subseteq task[t].held
         /\ \A u \in Task \ {t} : task'[u] = task[u] /\ task[u].held \intersect task[t].held = {}
         /\ task[t].at # 0 /\ now' = now
<1>1. task[t].want = <<>> /\ task[t].at # 0 /\ now' = now /\ task' = [task EXCEPT ![t] = Idle]
  BY DEF Ends
<1>2. Elements(task[t].want) = {}
  BY <1>1, EmptyWant
<1> QED BY <1>1, <1>2 DEF LockInv, Covered, Asked, Exclusive

LEMMA RefundedAfter ==
  ASSUME TypeOK, IsFiniteSet(refunds), NEW o \in Order
  PROVE  /\ Refunded(o) \in Nat
         /\ refunds' = refunds => Refunded(o)' = Refunded(o)
         /\ \A x : x \notin refunds /\ x.amount \in Nat /\ refunds' = refunds \union {x} =>
              Refunded(o)' = Refunded(o) + (IF x.order = o THEN x.amount ELSE 0)
<1> DEFINE f == Face(refunds)
<1>1. \A y \in refunds : f[y] = y.amount /\ f[y] \in Nat
  BY LedgerBounds DEF Face, TypeOK, Refund
<1>2. OfOrder(refunds, o) \in SUBSET refunds /\ IsFiniteSet(OfOrder(refunds, o))
  BY FS_Subset DEF OfOrder
<1>3. Refunded(o) = SumFunctionOnSet(f, OfOrder(refunds, o))
  BY SumsOfRefunds
<1> HIDE DEF f
<1>4. Refunded(o) \in Nat
  <2>1. \A y \in OfOrder(refunds, o) : f[y] \in Nat
    BY <1>1, <1>2
  <2> QED BY <1>2, <1>3, <2>1, SumPart
<1>5. refunds' = refunds => Refunded(o)' = Refunded(o)
  BY DEF Refunded, RefundsOf
<1>6. ASSUME NEW x, x \notin refunds, x.amount \in Nat, refunds' = refunds \union {x}
      PROVE  Refunded(o)' = Refunded(o) + (IF x.order = o THEN x.amount ELSE 0)
  <2> DEFINE g == Face(refunds')
  <2>1. g[x] = x.amount /\ \A y \in refunds : g[y] = f[y]
    BY <1>1, <1>6 DEF Face
  <2>2. Refunded(o)' = SumFunctionOnSet(g, OfOrder(refunds', o))
    BY SumsOfRefunds
  <2> HIDE DEF g
  <2>3. /\ SumFunctionOnSet(g, OfOrder(refunds, o)) = SumFunctionOnSet(f, OfOrder(refunds, o))
        /\ SumFunctionOnSet(g, OfOrder(refunds, o) \union {x})
             = g[x] + SumFunctionOnSet(f, OfOrder(refunds, o))
    <3>1. g[x] \in Nat /\ \A y \in refunds : f[y] \in Nat /\ g[y] = f[y]
      BY <1>1, <1>6, <2>1
    <3> QED BY <1>2, <1>6, <3>1, SumGrown
  <2>4. OfOrder(refunds', o) = IF x.order = o THEN OfOrder(refunds, o) \union {x}
                               ELSE OfOrder(refunds, o)
    BY <1>6 DEF OfOrder
  <2> QED BY <1>3, <1>4, <1>6, <2>1, <2>2, <2>3, <2>4
<1> QED BY <1>4, <1>5, <1>6

LEMMA ExactAfter ==
  ASSUME TypeOK, RowInv, pay' \in [Key -> Row], NEW o \in Order
  PROVE  /\ PaidRowsRest /\ till' = till => Exact(o)' = Exact(o)
         /\ \A t \in Task, k \in Key, a \in Amount :
              Pays(t, k, a) =>
                Exact(o)' = Exact(o) + (IF o = task[t].order THEN a ELSE 0)
         /\ \A t \in Task : Takes(t) =>
              Exact(o)' >= Exact(o) /\ (o # task[t].order => Exact(o)' = Exact(o))
<1>1. /\ Collected(o) \in Nat /\ Exact(o) \in Nat /\ Due \in Nat
      /\ Exact(o) = Collected(o) + (IF o \in till THEN Due ELSE 0)
      /\ Exact(o)' = Collected(o)' + (IF o \in till' THEN Due ELSE 0)
  BY ExactIsNat, LedgerBounds DEF Exact
<1>2. ASSUME PaidRowsRest, till' = till PROVE Exact(o)' = Exact(o)
  <2>1. Collected(o)' = Collected(o)
    BY <1>2, CollectedAfter
  <2> QED BY <1>1, <1>2, <2>1
<1>3. ASSUME NEW t \in Task, NEW k \in Key, NEW a \in Amount, Pays(t, k, a)
      PROVE  Exact(o)' = Exact(o) + (IF o = task[t].order THEN a ELSE 0)
  <2>1. Collected(o)' = Collected(o) + (IF o = task[t].order THEN a ELSE 0)
    BY <1>3, CollectedAfter
  <2>2. till' = till /\ a \in Nat
    BY <1>3, LedgerBounds DEF Pays, Land, Amount
  <2> QED BY <1>1, <2>1, <2>2
<1>4. ASSUME NEW t \in Task, Takes(t)
      PROVE  Exact(o)' >= Exact(o) /\ (o # task[t].order => Exact(o)' = Exact(o))
  <2>1. PaidRowsRest /\ till' = till \union {task[t].order}
    BY <1>4 DEF Takes, PaidRowsRest
  <2>2. Collected(o)' = Collected(o)
    BY <2>1, CollectedAfter
  <2> QED BY <1>1, <2>1, <2>2
<1> QED BY <1>2, <1>3, <1>4

\* What a collection, a reversal and a provider refund find of the order they work on.
LEMMA NotCanceledYet ==
  ASSUME TypeOK, RowInv, BillInv, RefundInv, NEW t \in Task
  PROVE  /\ \A k \in Key, a \in Amount : Pays(t, k, a) => task[t].order \notin header
         /\ Refunds(t) => ~ IsCanceled(task[t].order)
         /\ Reverses(t) \/ Takes(t) => ~ IsCanceled(task[t].order)
         /\ \A o : IsCanceled(o) => o \in header \intersect canceled
<1> DEFINE o == task[t].order
<1>1. \A x : IsCanceled(x) => x \in header \intersect canceled
  BY DEF IsCanceled, RefundInv, RefundsFollow
<1>2. ASSUME NEW k \in Key, NEW a \in Amount, Pays(t, k, a) PROVE o \notin header
  <2>1. o \in Order /\ a <= Due - Exact(o) /\ a \in Nat /\ a > 0 /\ Due \in Nat
    BY <1>2, LedgerBounds DEF Pays, Lands, HasRoom, Amount
  <2>2. Exact(o) \in Nat /\ (o \in header <=> Exact(o) >= Due)
    BY <2>1, ExactIsNat DEF BillInv, HeaderTellsTruth
  <2> QED BY <2>1, <2>2
<1>3. ASSUME Refunds(t) PROVE ~ IsCanceled(o)
  <2>1. o \in Order /\ task[t].key \in Key /\ pay[task[t].key].status = "paid"
        /\ pay[task[t].key].amount <= Exact(o) - Refunded(o)
    BY <1>3 DEF Refunds, Refundable
  <2>2. pay[task[t].key].amount \in Nat \ {0}
    BY <2>1, LedgerBounds DEF RowInv, RowsNamed, Amount
  <2>3. Exact(o) \in Nat /\ Refunded(o) \in Nat /\ (IsCanceled(o) => Refunded(o) = Exact(o))
    BY <2>1, ExactIsNat, RefundedAfter DEF RefundInv, RefundsFit
  <2> QED BY <2>1, <2>2, <2>3
<1>4. ASSUME Reverses(t) \/ Takes(t) PROVE ~ IsCanceled(o)
  BY <1>1, <1>4 DEF Reverses, Takes, TakesFull
<1> QED BY <1>1, <1>2, <1>3, <1>4

\* The new refund of a provider or of a cancellation.
LEMMA NewRefund ==
  ASSUME TypeOK, RowInv, BillInv, RefundInv, NEW t \in Task
  PROVE  /\ Refunds(t) => ProviderRefund(t) \in Refund \ refunds
         /\ Reverses(t) => CancelRefund(t) \in Refund \ refunds
<1> DEFINE o == task[t].order
<1>1. task[t].at \in Time
  BY DEF TypeOK, Request
<1>2. ASSUME Refunds(t) PROVE ProviderRefund(t) \in Refund \ refunds
  <2>1. o \in Order /\ task[t].key \in Key /\ ~ AlreadyRefunded(task[t].key)
    BY <1>2 DEF Refunds
  <2>2. pay[task[t].key].amount \in 0 .. 2 * Due
    BY <2>1, LedgerBounds DEF TypeOK, Row
  <2>3. ProviderRefund(t) \in Refund
    BY <1>1, <2>1, <2>2 DEF ProviderRefund, Refund
  <2>4. ProviderRefund(t) \notin refunds
    BY <2>1 DEF AlreadyRefunded, ProviderRefund
  <2> QED BY <2>3, <2>4
<1>3. ASSUME Reverses(t) PROVE CancelRefund(t) \in Refund \ refunds
  <2>1. o \in Order /\ ~ IsCanceled(o)
    BY <1>3, NotCanceledYet DEF Reverses, TypeOK
  <2>2. /\ Exact(o) \in Nat /\ Refunded(o) \in Nat /\ Refunded(o) <= Exact(o)
        /\ Collected(o) \in Nat /\ Collected(o) <= Due /\ Due \in Nat
        /\ Exact(o) = Collected(o) + (IF o \in till THEN Due ELSE 0)
    BY <2>1, ExactIsNat, RefundedAfter, LedgerBounds
    DEF BillInv, CourierWithinBill, RefundInv, RefundsFit, Exact
  <2>3. Refundable(o) \in 0 .. 2 * Due
    <3> HIDE DEF o
    <3> QED BY <2>2 DEF Refundable
  <2>4. CancelRefund(t) \in Refund
    BY <1>1, <2>1, <2>3 DEF CancelRefund, Refund
  <2>5. CancelRefund(t) \notin refunds
    BY <2>1 DEF IsCanceled, CancelRefund
  <2> QED BY <2>4, <2>5
<1> QED BY <1>2, <1>3

\* After its cancellation nothing is collected, taken or refunded for an order.
LEMMA AfterCancellation ==
  ASSUME TypeOK, RowInv, BillInv, RefundInv, [Next]_vars, NEW o, IsCanceled(o)
  PROVE  /\ PaidOn(o)' = PaidOn(o)
         /\ \A k \in PaidOn(o) : pay'[k] = pay[k]
         /\ \A y \in refunds' \ refunds : y.order # o /\ (y.source = "provider" => y.key \notin PaidOn(o))
         /\ refunds \subseteq refunds'
         /\ o \in Order => Exact(o)' = Exact(o)
<1>1. pay' \in [Key -> Row]
  BY PayTyped
<1>2. o \in header \intersect canceled
  BY NotCanceledYet DEF RefundInv, RefundsFollow, IsCanceled
<1>3. CASE PaidRowsRest /\ refunds' = refunds /\ till' = till
  BY <1>1, <1>3, ExactAfter DEF PaidRowsRest, PaidOn
<1>4. ASSUME NEW t \in Task, NEW k \in Key, NEW a \in Amount, Pays(t, k, a)
      PROVE  /\ PaidOn(o)' = PaidOn(o) /\ \A j \in PaidOn(o) : pay'[j] = pay[j]
             /\ refunds' = refunds
             /\ o \in Order => Exact(o)' = Exact(o)
  <2>1. task[t].order # o
    BY <1>2, <1>4, NotCanceledYet
  <2>5. /\ pay[k].status # "paid" /\ \A j \in Key \ {k} : pay'[j] = pay[j]
        /\ pay'[k] = [status |-> "paid", order |-> task[t].order, amount |-> a, at |-> task[t].at]
    BY <1>4, PaysKeeps
  <2>2. /\ pay[k].status # "paid" /\ pay'[k].status = "paid" /\ pay'[k].order = task[t].order
        /\ \A j \in Key \ {k} : pay'[j] = pay[j]
    BY <2>5
  <2>3. refunds' = refunds
    BY <1>4 DEF Pays, Land
  <2>4. o \in Order => Exact(o)' = Exact(o) + 0 /\ Exact(o) \in Nat
    BY <1>1, <1>4, <2>1, ExactAfter, ExactIsNat
  <2> QED BY <2>1, <2>2, <2>3, <2>4 DEF PaidOn
<1>5. ASSUME NEW t \in Task, Refunds(t) \/ Reverses(t)
      PROVE  /\ PaidRowsRest /\ till' = till
             /\ \E x : /\ refunds' = refunds \union {x} /\ x.order # o
                       /\ x.source = "provider" => x.key \notin PaidOn(o)
  <2>1. task[t].order # o
    BY <1>5, NotCanceledYet
  <2>2. CASE Refunds(t)
    <3>1. PICK x : x = ProviderRefund(t)
      OBVIOUS
    <3>2. x.order = task[t].order /\ x.key = task[t].key
      BY <3>1 DEF ProviderRefund
    <3>3. /\ refunds' = refunds \union {x} /\ PaidRowsRest /\ till' = till
          /\ x.key \notin PaidOn(o)
      BY <2>1, <2>2, <3>1, <3>2 DEF Refunds, PaidRowsRest, PaidOn
    <3> QED BY <2>1, <3>2, <3>3
  <2>3. CASE Reverses(t)
    <3>1. PICK x : x = CancelRefund(t)
      OBVIOUS
    <3>2. x.order = task[t].order /\ x.source # "provider"
      BY <3>1 DEF CancelRefund
    <3>3. refunds' = refunds \union {x} /\ PaidRowsRest /\ till' = till
      BY <2>3, <3>1 DEF Reverses, PaidRowsRest
    <3> QED BY <2>1, <3>2, <3>3
  <2> QED BY <1>5, <2>2, <2>3
<1>6. ASSUME NEW t \in Task, Takes(t)
      PROVE  PaidRowsRest /\ refunds' = refunds /\ (o \in Order => Exact(o)' = Exact(o))
  <2>1. task[t].order # o
    BY <1>6, NotCanceledYet
  <2> QED BY <1>1, <1>6, <2>1, ExactAfter DEF Takes, PaidRowsRest
<1>7. ASSUME NEW t \in Task, Withdraws(t) \/ Arrives(t) \/ Closes(t)
      PROVE  PaidRowsRest /\ refunds' = refunds /\ till' = till
  BY <1>7 DEF Withdraws, Arrives, Closes, PaidRowsRest
<1>8. CASE \E t \in Task : Refunds(t) \/ Reverses(t)
  <2>1. PICK x : /\ PaidRowsRest /\ till' = till /\ refunds' = refunds \union {x} /\ x.order # o
                 /\ x.source = "provider" => x.key \notin PaidOn(o)
    BY <1>5, <1>8
  <2>2. o \in Order => Exact(o)' = Exact(o)
    BY <1>1, <2>1, ExactAfter
  <2> QED BY <2>1, <2>2 DEF PaidRowsRest, PaidOn
<1>9. CASE \E t \in Task : Takes(t)
  BY <1>6, <1>9 DEF PaidRowsRest, PaidOn
<1> QED BY <1>3, <1>4, <1>7, <1>8, <1>9, StepEffect DEF Rests, Effect

\* Refunds that stay follow what they followed.
LEMMA RefundsStay ==
  ASSUME TypeOK, RowInv, BillInv, RefundInv, [Next]_vars,
         refunds' = refunds, header \subseteq header', canceled \subseteq canceled'
  PROVE  RefundInv'
<1>1. RowsKept
  BY RowsStay
<1>2. IsFiniteSet(refunds)' /\ RefundedOnce'
  BY DEF RefundInv, RefundedOnce
<1>3. RefundsFollow'
  BY <1>1 DEF RefundInv, RefundsFollow, RowsKept
<1>4. \A o : IsCanceled(o)' <=> IsCanceled(o)
  BY DEF IsCanceled
<1>5. CancelIsLast'
  <2> SUFFICES ASSUME NEW rf \in refunds, rf.source = "cancel"
               PROVE  /\ \A x \in RefundsOf(rf.order)' : x.at <= rf.at
                      /\ \A k \in PaidOn(rf.order)' : pay'[k].at <= rf.at
    BY DEF CancelIsLast, RefundsOf, PaidOn
  <2>1. IsCanceled(rf.order)
    BY DEF IsCanceled
  <2>2. PaidOn(rf.order)' = PaidOn(rf.order) /\ \A k \in PaidOn(rf.order) : pay'[k] = pay[k]
    BY <2>1, AfterCancellation
  <2> QED BY <2>2 DEF RefundInv, CancelIsLast, RefundsOf
<1>6. RefundsFit'
  <2> SUFFICES ASSUME NEW o \in Order
               PROVE  Refunded(o)' <= Exact(o)' /\ (IsCanceled(o)' => Refunded(o)' = Exact(o)')
    BY DEF RefundsFit, IsCanceled, Refunded, Exact
  <2>1. Refunded(o)' = Refunded(o) /\ Refunded(o) \in Nat /\ Exact(o) \in Nat
    BY RefundedAfter, ExactIsNat DEF RefundInv
  <2>2. Refunded(o) <= Exact(o) /\ (IsCanceled(o) => Refunded(o) = Exact(o))
    BY DEF RefundInv, RefundsFit
  <2>3. IsCanceled(o) => Exact(o)' = Exact(o)
    BY AfterCancellation
  <2>4. Exact(o)' >= Exact(o)
    <3>1. pay' \in [Key -> Row]
      BY PayTyped
    <3>2. CASE PaidRowsRest /\ till' = till
      BY <2>1, <3>1, <3>2, ExactAfter
    <3>3. ASSUME NEW t \in Task, NEW k \in Key, NEW a \in Amount, Pays(t, k, a)
          PROVE  Exact(o)' >= Exact(o)
      <4>1. Exact(o)' = Exact(o) + (IF o = task[t].order THEN a ELSE 0) /\ a \in Nat
        BY <3>1, <3>3, ExactAfter, LedgerBounds DEF Amount
      <4> QED BY <2>1, <4>1
    <3>4. ASSUME NEW t \in Task, Takes(t) PROVE Exact(o)' >= Exact(o)
      BY <3>1, <3>4, ExactAfter
    <3>5. ASSUME NEW t \in Task,
                 Refunds(t) \/ Reverses(t) \/ Withdraws(t) \/ Arrives(t) \/ Closes(t)
          PROVE  PaidRowsRest /\ till' = till
      BY <3>5 DEF Refunds, Reverses, Withdraws, Arrives, Closes, PaidRowsRest
    <3> QED BY <3>2, <3>3, <3>4, <3>5, StepEffect DEF Rests, Effect
  <2>5. Exact(o)' \in Nat
    <3>1. pay' \in [Key -> Row]
      BY PayTyped
    <3>2. Collected(o)' \in Nat
      BY <3>1, OwedGrows, SumsOfRows DEF PaidRows
    <3> QED BY <3>2, LedgerBounds DEF Exact
  <2>6. Refunded(o)' <= Exact(o)'
    BY <2>1, <2>2, <2>4, <2>5
  <2> QED BY <1>4, <2>1, <2>2, <2>3, <2>6
<1> QED BY <1>2, <1>3, <1>5, <1>6 DEF RefundInv

\* One refund more: what it follows, and where it stands among the others.
LEMMA RefundJoins ==
  ASSUME TypeOK, RowInv, BillInv, RefundInv, [Next]_vars,
         NEW x \in Refund \ refunds, refunds' = refunds \union {x},
         pay' = pay, till' = till, header' = header, canceled \subseteq canceled',
         x.order \in Order, ~ IsCanceled(x.order), Refunded(x.order) + x.amount <= Exact(x.order),
         \A y \in refunds : y.source = x.source => y.key # x.key,
         x.source = "provider" =>
           /\ x.key \in Key /\ pay[x.key].status = "paid" /\ pay[x.key].order = x.order
           /\ pay[x.key].amount = x.amount /\ pay[x.key].at <= x.at,
         x.source = "cancel" =>
           /\ x.key = x.order /\ x.order \in header \intersect canceled'
           /\ Refunded(x.order) + x.amount = Exact(x.order)
           /\ \A y \in RefundsOf(x.order) : y.at <= x.at
           /\ \A k \in PaidOn(x.order) : pay[k].at <= x.at
  PROVE  RefundInv'
<1>1. IsFiniteSet(refunds')
  BY FS_AddElement DEF RefundInv
<1>2. RefundsFollow'
  BY DEF RefundInv, RefundsFollow
<1>3. RefundedOnce'
  BY DEF RefundInv, RefundedOnce
<1>4. x.source \in {"provider", "cancel"} /\ x.at \in Nat /\ x.amount \in Nat
  BY LedgerBounds DEF Refund, Time
<1>5. CancelIsLast'
  <2> SUFFICES ASSUME NEW rf \in refunds', rf.source = "cancel"
               PROVE  /\ \A y \in RefundsOf(rf.order)' : y.at <= rf.at
                      /\ \A k \in PaidOn(rf.order)' : pay'[k].at <= rf.at
    BY DEF CancelIsLast, RefundsOf, PaidOn
  <2>1. PaidOn(rf.order)' = PaidOn(rf.order)
    BY DEF PaidOn
  <2>2. CASE rf = x
    BY <1>4, <2>1, <2>2 DEF RefundsOf
  <2>3. CASE rf # x
    <3>1. rf \in refunds /\ IsCanceled(rf.order) /\ rf.order # x.order
      BY <2>3 DEF IsCanceled
    <3>2. RefundsOf(rf.order)' = RefundsOf(rf.order)
      BY <3>1 DEF RefundsOf
    <3> QED BY <2>1, <3>1, <3>2 DEF RefundInv, CancelIsLast
  <2> QED BY <2>2, <2>3
<1>6. RefundsFit'
  <2> SUFFICES ASSUME NEW o \in Order
               PROVE  Refunded(o)' <= Exact(o)' /\ (IsCanceled(o)' => Refunded(o)' = Exact(o)')
    BY DEF RefundsFit, IsCanceled, Refunded, Exact
  <2>1. Refunded(o) <= Exact(o) /\ (IsCanceled(o) => Refunded(o) = Exact(o))
    BY DEF RefundInv, RefundsFit
  <2>2. Refunded(o)' = Refunded(o) + (IF x.order = o THEN x.amount ELSE 0) /\ Refunded(o) \in Nat
    BY <1>4, RefundedAfter DEF RefundInv
  <2>3. Exact(o)' = Exact(o) /\ Exact(o) \in Nat
    BY ExactAfter, ExactIsNat DEF PaidRowsRest, TypeOK
  <2>4. IsCanceled(o)' => IsCanceled(o) \/ (x.source = "cancel" /\ x.order = o)
    BY DEF IsCanceled
  <2>5. CASE x.order = o
    BY <1>4, <2>1, <2>2, <2>3, <2>4, <2>5
  <2>6. CASE x.order # o
    BY <2>1, <2>2, <2>3, <2>4, <2>6
  <2> QED BY <2>5, <2>6
<1> QED BY <1>1, <1>2, <1>3, <1>5, <1>6 DEF RefundInv

LEMMA RefundStep ==
  ASSUME TypeOK, RowInv, LockInv, BillInv, RefundInv, StampInv, [Next]_vars
  PROVE  RefundInv'
<1>1. CASE Rests
  BY <1>1, RefundsStay DEF Rests
<1>2. ASSUME NEW t \in Task, Ends(t), Effect(t) PROVE RefundInv'
  <2> DEFINE o == task[t].order
  <2>1. task[t].at # 0 /\ Needs(task[t].op, o) \subseteq task[t].held
    BY <1>2, CommitHolds
  <2>2. task[t].op \in {"refund", "cancel"} /\ o \in Order =>
          /\ \A k \in PaidOn(o) : pay[k].at <= task[t].at
          /\ \A rf \in RefundsOf(o) : rf.at <= task[t].at
    <3> SUFFICES ASSUME task[t].op \in {"refund", "cancel"}, o \in Order
                 PROVE  OrderLock(o) \in task[t].held
      BY <2>1 DEF StampInv, OrderBehind
    <3> QED BY <2>1 DEF Needs
  <2>3. o \in Order => Exact(o) \in Nat /\ Refunded(o) \in Nat
    BY ExactIsNat, RefundedAfter DEF RefundInv
  <2>4. CASE Refunds(t)
    <3>1. PICK x : x = ProviderRefund(t)
      OBVIOUS
    <3>2. x \in Refund \ refunds
      BY <2>4, <3>1, NewRefund
    <3>3. /\ x.source = "provider" /\ x.key = task[t].key /\ x.order = o
          /\ x.amount = pay[x.key].amount /\ x.at = task[t].at
      BY <3>1 DEF ProviderRefund
    <3>4. /\ refunds' = refunds \union {x} /\ pay' = pay /\ till' = till /\ header' = header
          /\ canceled' = canceled /\ o \in Order
          /\ x.key \in Key /\ pay[x.key].status = "paid" /\ pay[x.key].order = x.order
          /\ x.amount <= Exact(o) - Refunded(o) /\ task[t].op = "refund"
          /\ \A y \in refunds : y.source = "provider" => y.key # x.key
      BY <2>4, <3>1, <3>3 DEF Refunds, Refundable, AlreadyRefunded
    <3>5. x.key \in PaidOn(o) /\ pay[x.key].at <= x.at
      BY <2>2, <3>3, <3>4 DEF PaidOn
    <3>6. ~ IsCanceled(o)
      BY <2>4, NotCanceledYet
    <3>7. x.amount \in Nat
      BY <3>2 DEF Refund
    <3>8. Refunded(x.order) + x.amount <= Exact(x.order)
      BY <2>3, <3>3, <3>4, <3>7
    <3> HIDE DEF o
    <3> QED BY <3>2, <3>3, <3>4, <3>5, <3>6, <3>8, RefundJoins
  <2>5. CASE Reverses(t)
    <3>1. PICK x : x = CancelRefund(t)
      OBVIOUS
    <3>2. x \in Refund \ refunds
      BY <2>5, <3>1, NewRefund
    <3>3. /\ x.source = "cancel" /\ x.key = o /\ x.order = o
          /\ x.amount = Exact(o) - Refunded(o) /\ x.at = task[t].at
      BY <3>1 DEF CancelRefund, Refundable
    <3>4. /\ refunds' = refunds \union {x} /\ pay' = pay /\ till' = till /\ header' = header
          /\ canceled' = canceled \union {o} /\ o \in Order /\ o \in header
          /\ task[t].op = "cancel"
      BY <2>5, <3>1 DEF Reverses, TypeOK
    <3>5. ~ IsCanceled(o)
      BY <2>5, NotCanceledYet
    <3>6. \A y \in refunds : y.source = x.source => y.key # x.key
      BY <3>3, <3>5 DEF IsCanceled, RefundInv, RefundsFollow
    <3>7. Refunded(x.order) + x.amount = Exact(x.order) /\ Exact(x.order) \in Nat
      BY <2>3, <3>3, <3>4
    <3>8. /\ \A k \in PaidOn(o) : pay[k].at <= x.at
          /\ \A rf \in RefundsOf(o) : rf.at <= x.at
      BY <2>2, <3>3, <3>4
    <3>9. Refunded(x.order) + x.amount <= Exact(x.order)
      BY <3>7
    <3> HIDE DEF o
    <3> QED BY <3>2, <3>3, <3>4, <3>5, <3>6, <3>7, <3>8, <3>9, RefundJoins
  <2>6. ASSUME (\E k \in Key, a \in Amount : Pays(t, k, a)) \/ Takes(t) \/ Withdraws(t)
               \/ Arrives(t) \/ Closes(t)
        PROVE  refunds' = refunds /\ header \subseteq header' /\ canceled \subseteq canceled'
    <3>1. (\E k \in Key, a \in Amount : Pays(t, k, a)) =>
            refunds' = refunds /\ header \subseteq header' /\ canceled \subseteq canceled'
      BY DEF Pays, Land, Recomputed
    <3>2. Takes(t) \/ Withdraws(t) \/ Arrives(t) \/ Closes(t) =>
            refunds' = refunds /\ header \subseteq header' /\ canceled \subseteq canceled'
      BY DEF Takes, Withdraws, Arrives, Closes
    <3> QED BY <2>6, <3>1, <3>2
  <2> QED BY <1>2, <2>4, <2>5, <2>6, RefundsStay DEF Effect
<1> QED BY <1>1, <1>2, StepEffect

-----------------------------------------------------------------------------
(* What is charged back *)

\* What a cancellation of rf's order may still take from the courier.
Unreversed(rf) == {k \in PaidOn(rf.order) : ~ Reversed(k, rf)}

LEMMA AttributedBounds ==
  ASSUME TypeOK, NEW rf \in Refund
  PROVE  /\ Attributed(rf) \in 0 .. 2 * Due
         /\ rf.source = "provider" => Attributed(rf) = rf.amount
         /\ rf.source = "cancel" =>
              /\ Attributed(rf) <= PaidSum(Unreversed(rf))
              /\ Attributed(rf) > 0 => \E k \in PaidOn(rf.order) : TRUE
<1>1. rf.amount \in 0 .. 2 * Due /\ rf.source \in {"provider", "cancel"} /\ Due \in Nat
  BY LedgerBounds DEF Refund
<1>2. CASE rf.source = "provider"
  BY <1>1, <1>2 DEF Attributed
<1>3. CASE rf.source = "cancel"
  <2>1. Attributed(rf) = Minimum(rf.amount, PaidSum(Unreversed(rf)))
    BY <1>3 DEF Attributed, Unreversed
  <2>2. Unreversed(rf) \in SUBSET Key /\ Unreversed(rf) \in SUBSET PaidOn(rf.order)
    BY DEF Unreversed, PaidOn
  <2>3. PaidSum(Unreversed(rf)) \in Nat
    BY <2>2, OwedGrows, SumsOfRows DEF TypeOK
  <2>4. Unreversed(rf) = {} => PaidSum(Unreversed(rf)) = 0
    BY OwedNothing, SumsOfRows
  <2>5. Attributed(rf) > 0 => Unreversed(rf) # {}
    BY <1>1, <2>1, <2>3, <2>4 DEF Minimum
  <2>6. Attributed(rf) > 0 => \E k \in PaidOn(rf.order) : TRUE
    BY <2>2, <2>5
  <2>7. Attributed(rf) \in 0 .. 2 * Due /\ Attributed(rf) <= PaidSum(Unreversed(rf))
    BY <1>1, <2>1, <2>3 DEF Minimum
  <2> QED BY <1>3, <2>6, <2>7
<1> QED BY <1>1, <1>2, <1>3

\* No step changes what a refund that exists was of the courier.
LEMMA AttributedStays ==
  ASSUME TypeOK, RowInv, BillInv, RefundInv, [Next]_vars, NEW rf \in refunds
  PROVE  Attributed(rf)' = Attributed(rf)
<1>1. CASE rf.source = "provider"
  BY <1>1 DEF Attributed
<1>2. CASE rf.source # "provider"
  <2> DEFINE S == Unreversed(rf)
  <2>1. IsCanceled(rf.order)
    BY <1>2 DEF TypeOK, Refund, IsCanceled
  <2>2. /\ PaidOn(rf.order)' = PaidOn(rf.order)
        /\ \A k \in PaidOn(rf.order) : pay'[k] = pay[k]
        /\ refunds \subseteq refunds'
        /\ \A y \in refunds' \ refunds : y.source = "provider" => y.key \notin PaidOn(rf.order)
    BY <2>1, AfterCancellation
  <2>3. \A k \in PaidOn(rf.order) : Reversed(k, rf)' <=> Reversed(k, rf)
    BY <2>2 DEF Reversed
  <2>4. Unreversed(rf)' = S
    BY <2>2, <2>3 DEF Unreversed
  <2>5. S \in SUBSET Key /\ \A k \in S : pay'[k].amount = pay[k].amount
    BY <2>2 DEF Unreversed, PaidOn
  <2>6. Owed(pay', S) = Owed(pay, S)
    BY <2>5, OwedSame
  <2>7. PaidSum(Unreversed(rf))' = PaidSum(Unreversed(rf))
    BY <2>4, <2>6, SumsOfRows
  <2>8. /\ Attributed(rf) = Minimum(rf.amount, PaidSum(Unreversed(rf)))
        /\ Attributed(rf)' = Minimum(rf.amount, PaidSum(Unreversed(rf))')
    BY <1>2 DEF Attributed, Unreversed, Minimum
  <2> QED BY <2>7, <2>8
<1> QED BY <1>1, <1>2

LEMMA ChargedAfter ==
  ASSUME TypeOK, IsFiniteSet(refunds), NEW o, \A rf \in refunds : Attributed(rf)' = Attributed(rf)
  PROVE  /\ Charged(o) \in Nat
         /\ refunds' = refunds => Charged(o)' = Charged(o)
         /\ \A x : x \notin refunds /\ Attributed(x)' \in Nat /\ refunds' = refunds \union {x} =>
              Charged(o)' = Charged(o) + (IF x.order = o THEN Attributed(x)' ELSE 0)
<1> DEFINE f == [rf \in refunds |-> Attributed(rf)]
           g == [rf \in refunds' |-> Attributed(rf)']
<1>1. \A y \in refunds : f[y] \in Nat
  <2> SUFFICES ASSUME NEW y \in refunds PROVE Attributed(y) \in Nat
    OBVIOUS
  <2>1. y \in Refund
    BY DEF TypeOK
  <2> QED BY <2>1, AttributedBounds, LedgerBounds
<1>2. OfOrder(refunds, o) \in SUBSET refunds /\ IsFiniteSet(OfOrder(refunds, o))
  BY FS_Subset DEF OfOrder
<1>3. /\ Charged(o) = SumFunctionOnSet(f, OfOrder(refunds, o))
      /\ Charged(o)' = SumFunctionOnSet(g, OfOrder(refunds', o))
  BY DEF Charged, RefundsOf, OfOrder
<1>4. \A y \in refunds : y \in refunds' => g[y] = f[y]
  OBVIOUS
<1>5. \A y \in refunds' : g[y] = Attributed(y)'
  OBVIOUS
<1> HIDE DEF f, g
<1>6. Charged(o) \in Nat
  <2>1. \A y \in OfOrder(refunds, o) : f[y] \in Nat
    BY <1>1, <1>2
  <2> QED BY <1>2, <1>3, <2>1, SumPart
<1>7. ASSUME refunds' = refunds PROVE Charged(o)' = Charged(o)
  <2>1. \A y \in refunds : g[y] = f[y]
    BY <1>4, <1>7
  <2>2. SumFunctionOnSet(g, OfOrder(refunds, o)) = SumFunctionOnSet(f, OfOrder(refunds, o))
    BY <1>2, <2>1, SumOverSame
  <2> QED BY <1>3, <1>7, <2>2
<1>8. ASSUME NEW x, x \notin refunds, Attributed(x)' \in Nat, refunds' = refunds \union {x}
      PROVE  Charged(o)' = Charged(o) + (IF x.order = o THEN Attributed(x)' ELSE 0)
  <2>1. g[x] \in Nat /\ \A y \in refunds : f[y] \in Nat /\ g[y] = f[y]
    BY <1>1, <1>4, <1>5, <1>8
  <2>2. /\ SumFunctionOnSet(g, OfOrder(refunds, o)) = SumFunctionOnSet(f, OfOrder(refunds, o))
        /\ SumFunctionOnSet(g, OfOrder(refunds, o) \union {x})
             = g[x] + SumFunctionOnSet(f, OfOrder(refunds, o))
    <3>1. IsFiniteSet(refunds) /\ x \notin refunds
      BY <1>8
    <3>2. \A S \in SUBSET refunds :
            /\ SumFunctionOnSet(g, S) = SumFunctionOnSet(f, S)
            /\ SumFunctionOnSet(g, S \union {x}) = g[x] + SumFunctionOnSet(f, S)
      BY <2>1, <3>1, SumGrown
    <3> QED BY <1>2, <3>2
  <2>3. g[x] = Attributed(x)'
    BY <1>5, <1>8
  <2>4. OfOrder(refunds', o) = IF x.order = o THEN OfOrder(refunds, o) \union {x}
                               ELSE OfOrder(refunds, o)
    BY <1>8 DEF OfOrder
  <2>5. CASE x.order = o
    <3>1. Charged(o)' = g[x] + Charged(o)
      BY <1>3, <2>2, <2>4, <2>5
    <3> QED BY <1>6, <1>8, <2>3, <2>5, <3>1
  <2>6. CASE x.order # o
    <3>1. Charged(o)' = Charged(o)
      BY <1>3, <2>2, <2>4, <2>6
    <3> QED BY <1>6, <2>6, <3>1
  <2> QED BY <2>5, <2>6
<1> QED BY <1>6, <1>7, <1>8

LEMMA ChargesStep ==
  ASSUME TypeOK, RowInv, LockInv, BillInv, RefundInv, ChargesFit, StampInv, [Next]_vars,
         NEW o \in Order
  PROVE  /\ Charged(o)' <= Collected(o)'
         /\ ~ IsCanceled(o)' => Charged(o)' + PaidSum(Left(o))' <= Collected(o)'
<1> DEFINE Fit == /\ Charged(o)' <= Collected(o)'
                  /\ ~ IsCanceled(o)' => Charged(o)' + Owed(pay', Left(o)') <= Collected(o)'
           L == Left(o)
<1>1. /\ pay' \in [Key -> Row] /\ IsFiniteSet(refunds)
      /\ \A rf \in refunds : Attributed(rf)' = Attributed(rf)
  BY PayTyped, AttributedStays DEF RefundInv
<1>2. /\ Charged(o) \in Nat /\ Collected(o) \in Nat
      /\ Charged(o) <= Collected(o)
      /\ ~ IsCanceled(o) => Charged(o) + Owed(pay, L) <= Collected(o)
  BY <1>1, ChargedAfter, ExactIsNat, SumsOfRows DEF ChargesFit
<1>3. L \in SUBSET Key /\ L \in SUBSET PaidRows(pay, o)
  BY DEF Left, PaidOn, PaidRows
<1>4. Owed(pay, L) \in Nat
  BY <1>3, OwedGrows DEF TypeOK
<1>5. SUFFICES Fit
  BY SumsOfRows
<1>6. ASSUME PaidRowsRest
      PROVE  /\ Collected(o)' = Collected(o) /\ Owed(pay', L) = Owed(pay, L)
             /\ PaidOn(o)' = PaidOn(o)
  <2>1. PaidRows(pay', o) = PaidRows(pay, o)
        /\ \A S \in SUBSET PaidRows(pay, o) : Owed(pay', S) = Owed(pay, S)
    BY <1>6, OwedRests DEF PaidRowsRest
  <2> QED BY <1>1, <1>3, <1>6, <2>1, CollectedAfter, SumsOfRows
<1>7. ASSUME PaidRowsRest, refunds' = refunds PROVE Fit
  <2>1. Left(o)' = L
    BY <1>6, <1>7 DEF Left, AlreadyRefunded
  <2>2. IsCanceled(o)' <=> IsCanceled(o)
    BY <1>7 DEF IsCanceled
  <2>3. Charged(o)' = Charged(o)
    BY <1>1, <1>7, ChargedAfter
  <2> QED BY <1>2, <1>6, <1>7, <2>1, <2>2, <2>3
<1>8. ASSUME NEW t \in Task, NEW k \in Key, NEW a \in Amount, Pays(t, k, a) PROVE Fit
  <2> DEFINE x == task[t].order
  <2>1. refunds' = refunds
    BY <1>8 DEF Pays, Land
  <2>2. Charged(o)' = Charged(o) /\ (IsCanceled(o)' <=> IsCanceled(o))
    BY <1>1, <2>1, ChargedAfter DEF IsCanceled
  <2>3. a \in Nat /\ Collected(o)' = Collected(o) + (IF o = x THEN a ELSE 0)
    BY <1>1, <1>8, CollectedAfter, LedgerBounds DEF Amount
  <2>4. /\ pay[k].status # "paid" /\ \A j \in Key \ {k} : pay'[j] = pay[j]
        /\ pay'[k] = [status |-> "paid", order |-> x, amount |-> a, at |-> task[t].at]
    BY <1>8, PaysKeeps
  <2>5. pay'[k].status = "paid" /\ pay'[k].order = x /\ pay'[k].amount = a
    BY <2>4
  <2>6. ~ AlreadyRefunded(k) /\ k \notin L /\ (\A j : AlreadyRefunded(j)' <=> AlreadyRefunded(j))
    BY <2>1, <2>4 DEF RefundInv, RefundsFollow, AlreadyRefunded, Left, PaidOn
  <2> HIDE DEF L
  <2>7. \A j \in L : pay'[j].amount = pay[j].amount
    BY <1>3, <2>4, <2>6
  <2>8. Owed(pay', L) = Owed(pay, L)
    BY <1>3, <2>7, OwedSame
  <2>9. CASE o = x
    <3>1. Left(o)' = L \union {k}
      BY <2>4, <2>5, <2>6, <2>9 DEF Left, PaidOn, L
    <3>2. (L \union {k}) \ {k} = L /\ L \union {k} \in SUBSET Key
      BY <1>3, <2>6
    <3>3. Owed(pay', L \union {k}) = pay'[k].amount + Owed(pay', (L \union {k}) \ {k})
      BY <1>1, <3>2, OwedGrows
    <3>4. Owed(pay', Left(o)') = a + Owed(pay, L)
      BY <2>5, <2>8, <3>1, <3>2, <3>3
    <3> QED BY <1>2, <1>4, <2>2, <2>3, <2>9, <3>4
  <2>10. CASE o # x
    <3>1. Left(o)' = L
      BY <2>4, <2>5, <2>6, <2>10 DEF Left, PaidOn, L
    <3> QED BY <1>2, <1>4, <2>2, <2>3, <2>8, <2>10, <3>1
  <2> QED BY <2>9, <2>10
<1>9. ASSUME NEW t \in Task, Refunds(t) PROVE Fit
  <2> DEFINE k == task[t].key
  <2>1. PICK x : x = ProviderRefund(t)
    OBVIOUS
  <2>2. x \in Refund \ refunds
    BY <1>9, <2>1, NewRefund
  <2>3. x.source = "provider" /\ x.key = k /\ x.order = task[t].order /\ x.amount = pay[k].amount
    BY <2>1 DEF ProviderRefund
  <2>4. /\ refunds' = refunds \union {x} /\ pay' = pay /\ PaidRowsRest /\ k \in Key
        /\ pay[k].status = "paid" /\ pay[k].order = task[t].order /\ ~ AlreadyRefunded(k)
    BY <1>9, <2>1 DEF Refunds, PaidRowsRest
  <2>5. Attributed(x)' = x.amount /\ x.amount \in Nat
    BY <2>2, <2>3, LedgerBounds DEF Attributed, Refund
  <2>6. Charged(o)' = Charged(o) + (IF x.order = o THEN x.amount ELSE 0)
    BY <1>1, <2>2, <2>4, <2>5, ChargedAfter
  <2>7. Left(o)' = L \ {k} /\ (IsCanceled(o)' <=> IsCanceled(o)) /\ (k \in L <=> x.order = o)
    BY <2>3, <2>4 DEF Left, PaidOn, AlreadyRefunded, IsCanceled
  <2>8. x.order = o => ~ IsCanceled(o)
    BY <1>9, <2>3, NotCanceledYet
  <2> HIDE DEF L, k
  <2>9. CASE x.order = o
    <3>1. Owed(pay, L) = pay[k].amount + Owed(pay, L \ {k})
      BY <1>3, <2>7, <2>9, OwedGrows DEF TypeOK
    <3>2. Owed(pay, L \ {k}) \in Nat
      <4>1. L \ {k} \in SUBSET Key
        BY <1>3
      <4> QED BY <4>1, OwedGrows DEF TypeOK
    <3>3. Owed(pay', Left(o)') = Owed(pay, L \ {k})
      BY <2>4, <2>7
    <3> QED BY <1>2, <1>6, <2>3, <2>4, <2>5, <2>6, <2>8, <2>9, <3>1, <3>2, <3>3
  <2>10. CASE x.order # o
    <3>1. L \ {k} = L
      BY <2>7, <2>10
    <3> QED BY <1>2, <1>6, <2>4, <2>6, <2>7, <2>10, <3>1
  <2> QED BY <2>9, <2>10
<1>10. ASSUME NEW t \in Task, Ends(t), Reverses(t) PROVE Fit
  <2>1. PICK x : x = CancelRefund(t)
    OBVIOUS
  <2>2. x \in Refund \ refunds
    BY <1>10, <2>1, NewRefund
  <2>3. x.source = "cancel" /\ x.order = task[t].order /\ x.at = task[t].at
    BY <2>1 DEF CancelRefund
  <2>4. refunds' = refunds \union {x} /\ pay' = pay /\ PaidRowsRest /\ task[t].op = "cancel"
    BY <1>10, <2>1 DEF Reverses, PaidRowsRest
  <2>5. Left(o)' = L /\ (x.order # o => (IsCanceled(o)' <=> IsCanceled(o)))
    BY <2>3, <2>4 DEF Left, PaidOn, AlreadyRefunded, IsCanceled
  <2>6. x.order = o => Unreversed(x)' = L
    <3> SUFFICES ASSUME x.order = o PROVE Unreversed(x)' = L
      OBVIOUS
    <3>1. PaidOn(o)' = PaidOn(o)
      BY <1>6, <2>4
    <3>2. OrderLock(o) \in task[t].held /\ task[t].at # 0
      BY <1>10, <2>3, <2>4, CommitHolds DEF Needs
    <3>3. \A y \in refunds : y.order = o => y.at <= x.at
      BY <2>3, <3>2 DEF StampInv, OrderBehind, RefundsOf
    <3>4. \A k \in PaidOn(o) : Reversed(k, x)' <=> AlreadyRefunded(k)
      <4>1. \A y \in refunds, k \in PaidOn(o) : y.source = "provider" /\ y.key = k => y.order = o
        BY DEF RefundInv, RefundsFollow, PaidOn
      <4> QED BY <2>3, <2>4, <3>3, <4>1 DEF Reversed, AlreadyRefunded
    <3> QED BY <3>1, <3>4 DEF Unreversed, Left
  <2>7. /\ Attributed(x)' \in Nat
        /\ x.order = o => Attributed(x)' <= Owed(pay, L)
    <3> DEFINE S == Unreversed(x)'
    <3>1. /\ S \in SUBSET Key
          /\ Attributed(x)' = Minimum(x.amount, Owed(pay', S))
      BY <2>3, SumsOfRows DEF Attributed, Unreversed, PaidOn, Minimum
    <3> HIDE DEF S
    <3>2. Owed(pay', S) \in Nat
      BY <1>1, <3>1, OwedGrows
    <3>3. x.amount \in Nat
      BY <2>2, LedgerBounds DEF Refund
    <3>4. x.order = o => Owed(pay', S) = Owed(pay, L)
      BY <2>4, <2>6 DEF S
    <3> QED BY <3>1, <3>2, <3>3, <3>4 DEF Minimum
  <2>8. Charged(o)' = Charged(o) + (IF x.order = o THEN Attributed(x)' ELSE 0)
    BY <1>1, <2>2, <2>4, <2>7, ChargedAfter
  <2>9. x.order = o => ~ IsCanceled(o) /\ IsCanceled(o)'
    BY <1>10, <2>3, <2>4, NotCanceledYet DEF IsCanceled
  <2> HIDE DEF L
  <2> QED BY <1>2, <1>4, <1>6, <2>4, <2>5, <2>7, <2>8, <2>9
<1>11. ASSUME NEW t \in Task, Withdraws(t) \/ Takes(t) \/ Arrives(t) \/ Closes(t)
       PROVE  PaidRowsRest /\ refunds' = refunds
  BY <1>11 DEF Withdraws, Takes, Arrives, Closes, PaidRowsRest
<1> HIDE DEF Fit
<1> QED BY <1>7, <1>8, <1>9, <1>10, <1>11, StepEffect DEF Rests, Effect

-----------------------------------------------------------------------------
(* The stamps keep their order *)

\* A commit dates what it writes with its stamp, under the locks it needs.
DatedBy(t) ==
  /\ \A k \in Key :
       pay'[k].status = "paid" =>
         \/ pay[k].status = "paid" /\ pay'[k] = pay[k]
         \/ /\ task[t].op \in {"create", "confirm"}
            /\ pay'[k].order = task[t].order /\ pay'[k].at = task[t].at
  /\ \A rf \in refunds' :
       \/ rf \in refunds
       \/ /\ rf.order = task[t].order /\ rf.at = task[t].at
          /\ task[t].op = "refund" \/ (task[t].op = "cancel" /\ rf.source = "cancel")
  /\ \A o \in Order :
       \/ delivered'[o] = delivered[o]
       \/ task[t].op = "deliver" /\ delivered'[o] = task[t].at
  /\ \A i \in 1 .. Len(windows') :
       \/ i \in 1 .. Len(windows) /\ windows'[i] = windows[i]
       \/ task[t].op = "settle" /\ windows'[i].to = task[t].at

LEMMA LastWindow ==
  ASSUME TypeOK, NEW w, windows' = Append(windows, w)
  PROVE  /\ Len(windows) \in Nat /\ Len(windows') = Len(windows) + 1
         /\ windows'[Len(windows')] = w
         /\ \A i \in 1 .. Len(windows') :
              (i \in 1 .. Len(windows) /\ windows'[i] = windows[i]) \/ i = Len(windows')
<1> DEFINE n == Len(windows)
           S == Window \union {w}
<1>1. windows \in Seq(S) /\ w \in S
  BY DEF TypeOK
<1> HIDE DEF S
<1>2. /\ Len(windows') = n + 1 /\ windows'[n + 1] = w
      /\ \A i \in 1 .. n : windows'[i] = windows[i]
  BY <1>1, AppendProperties
<1>3. n \in Nat
  BY <1>1
<1> QED BY <1>2, <1>3

LEMMA EffectDates ==
  ASSUME TypeOK, RowInv, NEW t \in Task, Effect(t)
  PROVE  DatedBy(t)
<1> DEFINE PayDated == \A k \in Key :
             pay'[k].status = "paid" =>
               \/ pay[k].status = "paid" /\ pay'[k] = pay[k]
               \/ /\ task[t].op \in {"create", "confirm"}
                  /\ pay'[k].order = task[t].order /\ pay'[k].at = task[t].at
           Same == refunds' = refunds /\ delivered' = delivered /\ windows' = windows
<1>1. pay' = pay => PayDated
  OBVIOUS
<1>2. ASSUME NEW k \in Key, NEW a \in Amount, Pays(t, k, a) PROVE PayDated /\ Same
  <2>1. /\ \A j \in Key \ {k} : pay'[j] = pay[j]
        /\ pay'[k] = [status |-> "paid", order |-> task[t].order, amount |-> a, at |-> task[t].at]
    BY <1>2, PaysKeeps
  <2>2. task[t].op \in {"create", "confirm"} /\ Same
    BY <1>2 DEF Pays, Land
  <2>3. pay'[k].order = task[t].order /\ pay'[k].at = task[t].at
    BY <2>1
  <2> QED BY <2>1, <2>2, <2>3
<1>3. CASE Refunds(t)
  BY <1>3 DEF Refunds, ProviderRefund, DatedBy
<1>4. CASE Reverses(t)
  BY <1>4 DEF Reverses, CancelRefund, DatedBy
<1>5. CASE Withdraws(t) \/ Takes(t)
  BY <1>5 DEF Withdraws, Takes, DatedBy
<1>6. CASE Arrives(t)
  BY <1>6 DEF Arrives, DatedBy, TypeOK
<1>7. CASE Closes(t)
  <2>1. PICK w : /\ w = [from |-> UnsettledStart, to |-> task[t].at,
                         counted |-> Counted(UnsettledStart, task[t].at)]
                 /\ windows' = Append(windows, w)
    BY <1>7 DEF Closes
  <2>2. w.to = task[t].at
    BY <2>1
  <2>3. \A i \in 1 .. Len(windows') :
          (i \in 1 .. Len(windows) /\ windows'[i] = windows[i]) \/ windows'[i].to = task[t].at
    BY <2>1, <2>2, LastWindow
  <2> QED BY <1>7, <2>3 DEF Closes, DatedBy
<1>8. PayDated /\ Same => DatedBy(t)
  BY DEF DatedBy
<1> HIDE DEF PayDated
<1> QED BY <1>2, <1>3, <1>4, <1>5, <1>6, <1>7, <1>8 DEF Effect

LEMMA RestsDates ==
  ASSUME TypeOK, Rests, NEW t \in Task
  PROVE  DatedBy(t)
BY DEF Rests, PaidRowsRest, DatedBy

\* A collection with its stamp takes the payment row, its last lock.
Collects(u) ==
  /\ task[u].op = "create" /\ task'[u].op = task[u].op /\ task'[u].at = task[u].at
  /\ task'[u].held = task[u].held \union {PaymentLock(task[u].key)}
  /\ now' = now /\ UNCHANGED ledger

\* A stamp is new, gone or as it was.
LEMMA StampsMove ==
  ASSUME TypeOK, LockInv, [Next]_vars
  PROVE  /\ now' \in Time \ {0} /\ now <= now'
         /\ \A u \in Task : \/ task'[u].at = 0
                            \/ task'[u] = task[u]
                            \/ /\ task'[u].at = now /\ task'[u].held = task[u].held
                               /\ now' = now /\ UNCHANGED ledger
                            \/ Collects(u)
<1>1. CASE Tick
  BY <1>1, LedgerBounds DEF Tick, TypeOK, Time
<1>2. CASE GatewayOpens \/ UNCHANGED vars
  BY <1>2, LedgerBounds DEF GatewayOpens, vars, TypeOK, Time
<1>3. ASSUME NEW t \in Task, Opening(t) PROVE now' = now /\ task'[t].at = 0
                                               /\ \A u \in Task \ {t} : task'[u] = task[u]
  <2>1. PICK op, k, o, a : Open(t, op, k, o, a)
    BY <1>3 DEF Opening, Collect, Answer, Work, HandOver
  <2> QED BY <2>1 DEF Open, TypeOK, Idle
<1>4. ASSUME NEW t \in Task, Acquire(t)
      PROVE  /\ now' = now /\ (task'[t].at = 0 \/ Collects(t))
             /\ \A u \in Task \ {t} : task'[u] = task[u]
  <2> DEFINE l == Head(task[t].want)
  <2>1. /\ task'[t].at = task[t].at /\ task'[t].op = task[t].op
        /\ task'[t].held = task[t].held \union {l} /\ now' = now /\ UNCHANGED ledger
        /\ \A u \in Task \ {t} : task'[u] = task[u]
    BY <1>4 DEF Acquire, TypeOK, Request
  <2>2. task[t].at # 0 => task[t].op = "create" /\ task[t].want = <<PaymentLock(task[t].key)>>
    BY <1>4 DEF Acquire, LockInv, StampedLast, AtStamp
  <2>3. task[t].at # 0 => task[t].op = "create" /\ l = PaymentLock(task[t].key)
    BY <2>2
  <2> HIDE DEF l
  <2> QED BY <2>1, <2>3 DEF Collects
<1>5. ASSUME NEW t \in Task, Stamp(t)
      PROVE  /\ task'[t].at = now /\ task'[t].held = task[t].held
             /\ now' = now /\ UNCHANGED ledger
             /\ \A u \in Task \ {t} : task'[u] = task[u]
  BY <1>5 DEF Stamp, TypeOK, Request
<1>6. ASSUME NEW t \in Task, Abort(t) \/ Committing(t)
      PROVE  now' = now /\ task'[t].at = 0 /\ \A u \in Task \ {t} : task'[u] = task[u]
  <2>1. task' = [task EXCEPT ![t] = Idle] /\ now' = now
    BY <1>6, CommittingEnds DEF Abort, Ends
  <2> QED BY <2>1 DEF TypeOK, Idle
<1>7. now' = now => now' \in Time \ {0} /\ now <= now'
  BY LedgerBounds DEF TypeOK, Time
<1> QED BY <1>1, <1>2, <1>3, <1>4, <1>5, <1>6, <1>7 DEF Next, Opening, Committing

LEMMA StampStep ==
  ASSUME TypeOK, RowInv, LockInv, StampInv, [Next]_vars
  PROVE  StampInv'
<1>1. /\ now \in Nat /\ now' \in Nat /\ now <= now'
      /\ \A u \in Task : \/ task'[u].at = 0
                         \/ task'[u] = task[u]
                         \/ /\ task'[u].at = now /\ task'[u].held = task[u].held
                            /\ now' = now /\ UNCHANGED ledger
                         \/ Collects(u)
  BY StampsMove, LedgerBounds DEF TypeOK, Time
<1>2. ASSUME NEW u \in Task, task'[u] # task[u], task'[u].at # 0
      PROVE  /\ now' = now /\ UNCHANGED ledger
             /\ \/ task'[u].at = now
                \/ /\ task'[u].at = task[u].at
                   /\ \A o : OrderLock(o) \in task'[u].held => OrderLock(o) \in task[u].held
                   /\ CourierLock \in task'[u].held => CourierLock \in task[u].held
  BY <1>1, <1>2, LockKinds DEF Collects
<1>3. /\ \A k \in Key : pay[k].at \in Nat
      /\ \A rf \in refunds : rf.at \in Nat
      /\ \A o \in Order : delivered[o] \in Nat
      /\ \A i \in 1 .. Len(windows) : windows[i].to \in Nat
      /\ \A t \in Task : task[t].at \in Nat
  <2>1. \A x \in Time : x \in Nat
    BY LedgerBounds DEF Time
  <2>2. \A k \in Key : pay[k].at \in Nat
    BY <2>1 DEF TypeOK, Row
  <2>3. \A rf \in refunds : rf.at \in Nat
    BY <2>1 DEF TypeOK, Refund
  <2>4. \A o \in Order : delivered[o] \in Nat
    BY <2>1 DEF TypeOK
  <2>5. \A i \in 1 .. Len(windows) : windows[i].to \in Nat
    <3>1. \A i \in 1 .. Len(windows) : windows[i] \in Window
      BY ElementOfSeq DEF TypeOK
    <3> QED BY <2>1, <3>1 DEF Window
  <2>6. \A t \in Task : task[t].at \in Nat
    BY <2>1 DEF TypeOK, Request
  <2> QED BY <2>2, <2>3, <2>4, <2>5, <2>6
<1>4. ASSUME NEW t \in Task, DatedBy(t) PROVE ClockAhead'
  <2>1. task[t].at <= now
    BY <1>4 DEF StampInv, ClockAhead
  <2>2. \A k \in Key : pay'[k].status = "paid" => pay'[k].at <= now'
    BY <1>1, <1>3, <1>4, <2>1 DEF StampInv, ClockAhead, DatedBy
  <2>3. \A rf \in refunds' : rf.at <= now'
    BY <1>1, <1>3, <1>4, <2>1 DEF StampInv, ClockAhead, DatedBy
  <2>4. \A o \in Order : delivered'[o] <= now'
    BY <1>1, <1>3, <1>4, <2>1 DEF StampInv, ClockAhead, DatedBy
  <2>5. \A i \in 1 .. Len(windows') : windows'[i].to <= now'
    BY <1>1, <1>3, <1>4, <2>1 DEF StampInv, ClockAhead, DatedBy
  <2>6. \A u \in Task : task'[u].at <= now'
    BY <1>1, <1>3 DEF StampInv, ClockAhead, Collects
  <2> QED BY <2>2, <2>3, <2>4, <2>5, <2>6 DEF ClockAhead
<1>5. ASSUME NEW t \in Task, DatedBy(t),
             \A u \in Task \ {t} : task[u].held \intersect task[t].held = {},
             Needs(task[t].op, task[t].order) \subseteq task[t].held,
             task'[t].at = 0
      PROVE  OrderBehind' /\ CourierBehind'
  <2>1. ASSUME NEW u \in Task, task'[u].at # 0
        PROVE  u # t
    BY <1>5, <2>1
  <2>2. ASSUME NEW u \in Task, NEW o \in Order, task'[u].at # 0, OrderLock(o) \in task'[u].held
        PROVE  /\ \A k \in PaidOn(o)' : pay'[k].at <= task'[u].at
               /\ \A rf \in RefundsOf(o)' : rf.at <= task'[u].at
    <3>1. CASE task'[u] # task[u]
      <4>1. pay' = pay /\ refunds' = refunds /\ PaidOn(o)' = PaidOn(o) /\ RefundsOf(o)' = RefundsOf(o)
        BY <1>2, <2>2, <3>1 DEF ledger, PaidOn, RefundsOf
      <4>2. CASE task'[u].at = now
        BY <4>1, <4>2 DEF StampInv, ClockAhead, PaidOn, RefundsOf
      <4>3. CASE task'[u].at = task[u].at /\ OrderLock(o) \in task[u].held
        BY <2>2, <4>1, <4>3 DEF StampInv, OrderBehind
      <4> QED BY <1>2, <2>2, <3>1, <4>2, <4>3
    <3>2. CASE task'[u] = task[u]
      <4>1. OrderLock(o) \notin task[t].held
        BY <1>5, <2>1, <2>2, <3>2
      <4>2. task[t].op \in {"create", "confirm", "refund", "cancel"} => task[t].order # o
        BY <1>5, <4>1 DEF Needs
      <4>3. \A k \in PaidOn(o)' : k \in PaidOn(o) /\ pay'[k] = pay[k]
        BY <1>5, <4>2 DEF DatedBy, PaidOn
      <4>4. \A rf \in RefundsOf(o)' : rf \in RefundsOf(o)
        BY <1>5, <4>2 DEF DatedBy, RefundsOf
      <4> QED BY <2>2, <3>2, <4>3, <4>4 DEF StampInv, OrderBehind
    <3> QED BY <3>1, <3>2
  <2>3. ASSUME NEW u \in Task, task'[u].at # 0, CourierLock \in task'[u].held
        PROVE  /\ \A k \in Key : pay'[k].status = "paid" => pay'[k].at <= task'[u].at
               /\ \A o \in Order : delivered'[o] <= task'[u].at
               /\ \A i \in 1 .. Len(windows') : windows'[i].to <= task'[u].at
    <3>1. CASE task'[u] # task[u]
      <4>1. pay' = pay /\ delivered' = delivered /\ windows' = windows
        BY <1>2, <2>3, <3>1 DEF ledger
      <4>2. CASE task'[u].at = now
        BY <4>1, <4>2 DEF StampInv, ClockAhead
      <4>3. CASE task'[u].at = task[u].at /\ CourierLock \in task[u].held
        BY <2>3, <4>1, <4>3 DEF StampInv, CourierBehind
      <4> QED BY <1>2, <2>3, <3>1, <4>2, <4>3
    <3>2. CASE task'[u] = task[u]
      <4>1. CourierLock \notin task[t].held
        BY <1>5, <2>1, <2>3, <3>2
      <4>2. task[t].op \notin {"create", "confirm", "deliver", "settle"}
        BY <1>5, <4>1 DEF Needs
      <4>3. /\ \A k \in Key : pay'[k].status = "paid" => pay[k].status = "paid" /\ pay'[k] = pay[k]
            /\ \A o \in Order : delivered'[o] = delivered[o]
            /\ \A i \in 1 .. Len(windows') : i \in 1 .. Len(windows) /\ windows'[i] = windows[i]
        BY <1>5, <4>2 DEF DatedBy
      <4> QED BY <2>3, <3>2, <4>3 DEF StampInv, CourierBehind
    <3> QED BY <3>1, <3>2
  <2> QED BY <2>2, <2>3 DEF OrderBehind, CourierBehind, PaidOn, RefundsOf
<1>6. CASE \E t \in Task : Ends(t) /\ Effect(t)
  <2>1. PICK t \in Task : Ends(t) /\ Effect(t)
    BY <1>6
  <2>2. DatedBy(t)
    BY <2>1, EffectDates
  <2>3. /\ Needs(task[t].op, task[t].order) \subseteq task[t].held
        /\ \A u \in Task \ {t} : task[u].held \intersect task[t].held = {}
    BY <2>1, CommitHolds
  <2>4. task'[t].at = 0
    BY <2>1 DEF Ends, TypeOK, Idle
  <2> QED BY <1>4, <1>5, <2>2, <2>3, <2>4 DEF StampInv
<1>7. CASE Rests
  <2>1. /\ \A k \in Key : pay'[k].status = "paid" => pay[k].status = "paid" /\ pay'[k] = pay[k]
        /\ refunds' = refunds /\ delivered' = delivered /\ windows' = windows
    BY <1>7 DEF Rests, PaidRowsRest
  <2>2. ClockAhead'
    BY <1>1, <1>3, <2>1 DEF StampInv, ClockAhead, Collects
  <2>3. OrderBehind'
    <3> SUFFICES ASSUME NEW u \in Task, NEW o \in Order, task'[u].at # 0,
                        OrderLock(o) \in task'[u].held
                 PROVE  /\ \A k \in PaidOn(o)' : pay'[k].at <= task'[u].at
                        /\ \A rf \in RefundsOf(o)' : rf.at <= task'[u].at
      BY DEF OrderBehind, PaidOn, RefundsOf
    <3>1. CASE task'[u] # task[u]
      <4>1. pay' = pay /\ refunds' = refunds /\ PaidOn(o)' = PaidOn(o) /\ RefundsOf(o)' = RefundsOf(o)
        BY <1>2, <3>1 DEF ledger, PaidOn, RefundsOf
      <4>2. CASE task'[u].at = now
        BY <4>1, <4>2 DEF StampInv, ClockAhead, PaidOn, RefundsOf
      <4>3. CASE task'[u].at = task[u].at /\ OrderLock(o) \in task[u].held
        BY <4>1, <4>3 DEF StampInv, OrderBehind
      <4> QED BY <1>2, <3>1, <4>2, <4>3
    <3>2. CASE task'[u] = task[u]
      <4>1. (\A k \in PaidOn(o)' : k \in PaidOn(o) /\ pay'[k] = pay[k]) /\ RefundsOf(o)' = RefundsOf(o)
        BY <2>1 DEF PaidOn, RefundsOf
      <4> QED BY <3>2, <4>1 DEF StampInv, OrderBehind
    <3> QED BY <3>1, <3>2
  <2>4. CourierBehind'
    <3> SUFFICES ASSUME NEW u \in Task, task'[u].at # 0, CourierLock \in task'[u].held
                 PROVE  /\ \A k \in Key : pay'[k].status = "paid" => pay'[k].at <= task'[u].at
                        /\ \A o \in Order : delivered'[o] <= task'[u].at
                        /\ \A i \in 1 .. Len(windows') : windows'[i].to <= task'[u].at
      BY DEF CourierBehind
    <3>1. CASE task'[u] # task[u]
      <4>1. pay' = pay /\ delivered' = delivered /\ windows' = windows
        BY <1>2, <3>1 DEF ledger
      <4>2. CASE task'[u].at = now
        BY <4>1, <4>2 DEF StampInv, ClockAhead
      <4>3. CASE task'[u].at = task[u].at /\ CourierLock \in task[u].held
        BY <4>1, <4>3 DEF StampInv, CourierBehind
      <4> QED BY <1>2, <3>1, <4>2, <4>3
    <3>2. CASE task'[u] = task[u]
      BY <2>1, <3>2 DEF StampInv, CourierBehind
    <3> QED BY <3>1, <3>2
  <2> QED BY <2>2, <2>3, <2>4 DEF StampInv
<1> QED BY <1>6, <1>7, StepEffect

-----------------------------------------------------------------------------
(* What a window counts *)

\* New events that a window [from, to) does not reach, and cancellations, which it may.
LEMMA CountedMoves ==
  ASSUME NEW from, NEW to,
         \A k \in Key : pay[k].status = "paid" => pay'[k] = pay[k],
         \A k \in Key : pay'[k].status = "paid" => pay[k].status = "paid" \/ ~ (pay'[k].at < to),
         refunds \subseteq refunds',
         \A rf \in refunds : Attributed(rf)' = Attributed(rf),
         \A rf \in refunds' : rf \in refunds \/ rf.source = "cancel" \/ ~ (rf.at < to),
         \A o \in Order : \/ delivered'[o] = delivered[o]
                          \/ delivered[o] = 0 /\ ~ (delivered'[o] < to)
  PROVE  /\ Counted(from, to) \subseteq Counted(from, to)'
         /\ \A e \in Counted(from, to)' \ Counted(from, to) :
              /\ e.kind = "cancel"
              /\ \E rf \in refunds' \ refunds : rf.source = "cancel" /\ rf.at < to
<1> DEFINE P(k) == [kind |-> "payment", key |-> k, amount |-> pay[k].amount]
           Q(k) == [kind |-> "payment", key |-> k, amount |-> pay'[k].amount]
           R(rf) == [kind |-> rf.source, key |-> rf.key, amount |-> Attributed(rf)]
           S(rf) == [kind |-> rf.source, key |-> rf.key, amount |-> Attributed(rf)']
           D(o) == [kind |-> "delivery", key |-> o, amount |-> 0]
<1>1. \A e : e \in Counted(from, to) <=>
        \/ \E k \in Key : pay[k].status = "paid" /\ Within(pay[k].at, from, to) /\ e = P(k)
        \/ \E rf \in refunds : Within(rf.at, from, to) /\ Attributed(rf) > 0 /\ e = R(rf)
        \/ \E o \in Order : delivered[o] # 0 /\ Within(delivered[o], from, to) /\ e = D(o)
  BY Zenon DEF Counted
<1>2. \A e : e \in Counted(from, to)' <=>
        \/ \E k \in Key : pay'[k].status = "paid" /\ Within(pay'[k].at, from, to) /\ e = Q(k)
        \/ \E rf \in refunds' : Within(rf.at, from, to) /\ Attributed(rf)' > 0 /\ e = S(rf)
        \/ \E o \in Order : delivered'[o] # 0 /\ Within(delivered'[o], from, to) /\ e = D(o)
  BY Zenon DEF Counted, Within
<1>3. \A k \in Key : pay[k].status = "paid" => Q(k) = P(k)
  OBVIOUS
<1>4. \A rf \in refunds : S(rf) = R(rf)
  OBVIOUS
<1>5. \A rf : rf.source = "cancel" => S(rf).kind = "cancel"
  OBVIOUS
<1> HIDE DEF P, Q, R, S, D
<1>6. ASSUME NEW e \in Counted(from, to) PROVE e \in Counted(from, to)'
  <2>1. CASE \E k \in Key : pay[k].status = "paid" /\ Within(pay[k].at, from, to) /\ e = P(k)
    <3>1. PICK k \in Key : pay[k].status = "paid" /\ Within(pay[k].at, from, to) /\ e = P(k)
      BY <2>1
    <3>2. pay'[k].status = "paid" /\ Within(pay'[k].at, from, to) /\ e = Q(k)
      BY <1>3, <3>1
    <3> QED BY <1>2, <3>2
  <2>2. CASE \E rf \in refunds : Within(rf.at, from, to) /\ Attributed(rf) > 0 /\ e = R(rf)
    <3>1. PICK rf \in refunds : Within(rf.at, from, to) /\ Attributed(rf) > 0 /\ e = R(rf)
      BY <2>2
    <3>2. rf \in refunds' /\ Attributed(rf)' > 0 /\ e = S(rf)
      BY <1>4, <3>1
    <3> QED BY <1>2, <3>1, <3>2
  <2>3. CASE \E o \in Order : delivered[o] # 0 /\ Within(delivered[o], from, to) /\ e = D(o)
    <3>1. PICK o \in Order : delivered[o] # 0 /\ Within(delivered[o], from, to) /\ e = D(o)
      BY <2>3
    <3>2. delivered'[o] = delivered[o]
      BY <3>1
    <3> QED BY <1>2, <3>1, <3>2
  <2> QED BY <1>1, <2>1, <2>2, <2>3
<1>7. ASSUME NEW e \in Counted(from, to)', e \notin Counted(from, to)
      PROVE  /\ e.kind = "cancel"
             /\ \E rf \in refunds' \ refunds : rf.source = "cancel" /\ rf.at < to
  <2>1. CASE \E k \in Key : pay'[k].status = "paid" /\ Within(pay'[k].at, from, to) /\ e = Q(k)
    <3>1. PICK k \in Key : pay'[k].status = "paid" /\ Within(pay'[k].at, from, to) /\ e = Q(k)
      BY <2>1
    <3>2. pay[k].status = "paid" /\ pay'[k] = pay[k]
      BY <3>1 DEF Within
    <3>3. e \in Counted(from, to)
      BY <1>1, <1>3, <3>1, <3>2
    <3> QED BY <1>7, <3>3
  <2>2. CASE \E rf \in refunds' : Within(rf.at, from, to) /\ Attributed(rf)' > 0 /\ e = S(rf)
    <3>1. PICK rf \in refunds' : Within(rf.at, from, to) /\ Attributed(rf)' > 0 /\ e = S(rf)
      BY <2>2
    <3>2. rf \notin refunds
      BY <1>1, <1>4, <1>7, <3>1
    <3>3. rf.source = "cancel" /\ rf.at < to
      BY <3>1, <3>2 DEF Within
    <3> QED BY <1>5, <3>1, <3>2, <3>3
  <2>3. CASE \E o \in Order : delivered'[o] # 0 /\ Within(delivered'[o], from, to) /\ e = D(o)
    <3>1. PICK o \in Order : delivered'[o] # 0 /\ Within(delivered'[o], from, to) /\ e = D(o)
      BY <2>3
    <3>2. delivered'[o] = delivered[o]
      BY <3>1 DEF Within
    <3>3. e \in Counted(from, to)
      BY <1>1, <3>1, <3>2
    <3> QED BY <1>7, <3>3
  <2> QED BY <1>2, <2>1, <2>2, <2>3
<1> QED BY <1>6, <1>7

LEMMA CountedTyped ==
  ASSUME TypeOK, NEW from, NEW to
  PROVE  Counted(from, to) \subseteq Entry
<1>1. \A k \in Key : [kind |-> "payment", key |-> k, amount |-> pay[k].amount] \in Entry
  BY LedgerBounds DEF TypeOK, Row, Entry
<1>2. \A rf \in refunds : [kind |-> rf.source, key |-> rf.key, amount |-> Attributed(rf)] \in Entry
  <2> SUFFICES ASSUME NEW rf \in refunds
               PROVE  [kind |-> rf.source, key |-> rf.key, amount |-> Attributed(rf)] \in Entry
    OBVIOUS
  <2>1. rf \in Refund
    BY DEF TypeOK
  <2>2. Attributed(rf) \in 0 .. 2 * Due
    BY <2>1, AttributedBounds
  <2> QED BY <2>1, <2>2 DEF Refund, Entry
<1>3. \A o \in Order : [kind |-> "delivery", key |-> o, amount |-> 0] \in Entry
  BY LedgerBounds DEF Entry
<1> QED BY <1>1, <1>2, <1>3 DEF Counted

\* Where the next window starts.
LEMMA NextStart ==
  ASSUME TypeOK, WindowsInOrder
  PROVE  /\ UnsettledStart \in Time
         /\ windows # <<>> => UnsettledStart = windows[Len(windows)].to
         /\ windows = <<>> =>
              /\ \A k \in Key : pay[k].status = "paid" => UnsettledStart <= pay[k].at
              /\ \A o \in Order : delivered[o] # 0 => UnsettledStart <= delivered[o]
              /\ \/ UnsettledStart = 0
                 \/ \E k \in Key : pay[k].status = "paid" /\ UnsettledStart = pay[k].at
                 \/ \E o \in Order : UnsettledStart = delivered[o]
<1>1. \A x \in Time : x \in Nat
  BY LedgerBounds DEF Time
<1>2. 0 \in Time
  BY LedgerBounds DEF Time
<1>3. CASE windows # <<>>
  <2> DEFINE n == Len(windows)
             S == {windows[i].to : i \in 1 .. n}
             m == windows[n].to
  <2>1. n \in Nat /\ n > 0
    BY <1>3, EmptySeq DEF TypeOK
  <2>2. \A i \in 1 .. n : windows[i].to \in Time /\ windows[i].from \in Time
    <3>1. \A i \in 1 .. n : windows[i] \in Window
      BY ElementOfSeq DEF TypeOK
    <3> QED BY <3>1 DEF Window
  <2>3. m \in S /\ m \in Time
    BY <2>1, <2>2
  <2>4. \A y \in S : m >= y
    <3> SUFFICES ASSUME NEW i \in 1 .. n PROVE m >= windows[i].to
      OBVIOUS
    <3>1. windows[i].to \in Nat /\ windows[n].from \in Nat /\ m \in Nat
      BY <1>1, <2>1, <2>2
    <3>2. i < n => windows[i].to <= windows[n].from /\ windows[n].from <= m
      BY <2>1 DEF WindowsInOrder
    <3>3. i < n \/ i = n
      BY <2>1
    <3> QED BY <3>1, <3>2, <3>3
  <2>5. UnsettledStart = Max(S)
    BY <1>3 DEF UnsettledStart
  <2>6. \A y \in S : y \in Nat
    BY <1>1, <2>2
  <2> HIDE DEF S, m
  <2>7. Max(S) \in S /\ \A y \in S : Max(S) >= y
    BY <2>3, <2>4 DEF Max
  <2>8. Max(S) = m
    BY <2>3, <2>4, <2>6, <2>7
  <2> QED BY <1>3, <2>3, <2>5, <2>8 DEF m
<1>4. CASE windows = <<>>
  <2> DEFINE S == {pay[k].at : k \in {j \in Key : pay[j].status = "paid"}}
                    \union {delivered[o] : o \in {x \in Order : delivered[x] # 0}}
  <2>1. UnsettledStart = IF S = {} THEN 0 ELSE Min(S)
    BY <1>4 DEF UnsettledStart
  <2>2. /\ \A k \in Key : pay[k].status = "paid" => pay[k].at \in S
        /\ \A o \in Order : delivered[o] # 0 => delivered[o] \in S
    OBVIOUS
  <2>3. \A x \in S : \/ \E k \in Key : pay[k].status = "paid" /\ x = pay[k].at
                     \/ \E o \in Order : x = delivered[o]
    OBVIOUS
  <2>4. \A x \in S : x \in Time
    BY DEF TypeOK, Row
  <2> HIDE DEF S
  <2>5. S # {} => Min(S) \in S /\ \A y \in S : Min(S) <= y
    <3>1. Numbers(S)
      BY <1>1, <2>4 DEF Numbers
    <3> QED BY <3>1, NatMinimum
  <2>6. CASE S = {}
    BY <1>2, <1>4, <2>1, <2>2, <2>6
  <2>7. CASE S # {}
    <3>1. UnsettledStart = Min(S)
      BY <2>1, <2>7
    <3> QED BY <1>4, <2>2, <2>3, <2>4, <2>5, <2>7, <3>1
  <2> QED BY <2>6, <2>7
<1> QED BY <1>3, <1>4

\* An event of the courier is dated after every window that is closed.
NotBeforeWindows(at) == \A i \in 1 .. Len(windows) : windows[i].to <= at

LEMMA CommitsAfterWindows ==
  ASSUME LockInv, StampInv, NEW t \in Task, Ends(t),
         task[t].op \in {"create", "confirm", "refund", "deliver", "settle"}
  PROVE  /\ NotBeforeWindows(task[t].at)
         /\ \A k \in Key : pay[k].status = "paid" => pay[k].at <= task[t].at
         /\ \A o \in Order : delivered[o] <= task[t].at
<1>1. CourierLock \in task[t].held /\ task[t].at # 0
  BY CommitHolds DEF Needs
<1> QED BY <1>1 DEF StampInv, CourierBehind, NotBeforeWindows

LEMMA WindowTimes ==
  ASSUME TypeOK
  PROVE  /\ Len(windows) \in Nat
         /\ \A i \in 1 .. Len(windows) :
              /\ windows[i] \in Window
              /\ windows[i].from \in Time /\ windows[i].to \in Time
              /\ windows[i].from \in Nat /\ windows[i].to \in Nat
         /\ windows # <<>> => Len(windows) > 0
<1>1. Len(windows) \in Nat /\ (windows # <<>> => Len(windows) > 0)
  BY EmptySeq DEF TypeOK
<1>2. \A i \in 1 .. Len(windows) : windows[i] \in Window
  BY ElementOfSeq DEF TypeOK
<1>3. \A i \in 1 .. Len(windows) : windows[i].from \in Time /\ windows[i].to \in Time
  BY <1>2 DEF Window
<1>4. \A x \in Time : x \in Nat
  BY LedgerBounds DEF Time
<1> QED BY <1>1, <1>2, <1>3, <1>4

\* What every step but a settlement brings to the windows it finds.
LEMMA NewEvents ==
  ASSUME TypeOK, RowInv, LockInv, StampInv, BillInv, RefundInv, [Next]_vars
  PROVE  /\ \A k \in Key : pay[k].status = "paid" => pay'[k] = pay[k]
         /\ \A k \in Key : pay'[k].status = "paid" =>
                             pay[k].status = "paid" \/ NotBeforeWindows(pay'[k].at)
         /\ refunds \subseteq refunds'
         /\ \A rf \in refunds : Attributed(rf)' = Attributed(rf)
         /\ \A rf \in refunds' : rf \in refunds \/ rf.source = "cancel" \/ NotBeforeWindows(rf.at)
         /\ \A o \in Order : \/ delivered'[o] = delivered[o]
                             \/ delivered[o] = 0 /\ NotBeforeWindows(delivered'[o])
<1>1. \A rf \in refunds : Attributed(rf)' = Attributed(rf)
  BY AttributedStays
<1>2. \A k \in Key : pay[k].status = "paid" => pay'[k] = pay[k]
  BY RowsStay DEF RowsKept
<1>3. CASE Rests
  BY <1>1, <1>2, <1>3 DEF Rests, PaidRowsRest
<1>4. ASSUME NEW t \in Task, Ends(t), Effect(t)
      PROVE  /\ \A k \in Key : pay'[k].status = "paid" =>
                             pay[k].status = "paid" \/ NotBeforeWindows(pay'[k].at)
             /\ refunds \subseteq refunds'
             /\ \A rf \in refunds' : rf \in refunds \/ rf.source = "cancel" \/ NotBeforeWindows(rf.at)
             /\ \A o \in Order : \/ delivered'[o] = delivered[o]
                                 \/ delivered[o] = 0 /\ NotBeforeWindows(delivered'[o])
  <2>1. DatedBy(t)
    BY <1>4, EffectDates
  <2>2. task[t].op \in {"create", "confirm", "refund", "deliver", "settle"} =>
          NotBeforeWindows(task[t].at)
    BY <1>4, CommitsAfterWindows
  <2>3. refunds \subseteq refunds'
    BY <1>4 DEF Effect, Pays, Land, Refunds, Reverses, Withdraws, Takes, Arrives, Closes
  <2>4. \A o \in Order : delivered'[o] # delivered[o] => delivered[o] = 0
    <3>1. CASE Arrives(t)
      BY <3>1 DEF Arrives, TypeOK
    <3>2. CASE delivered' = delivered
      BY <3>2
    <3> QED BY <1>4, <3>1, <3>2 DEF Effect, Pays, Land, Refunds, Reverses, Withdraws, Takes, Closes
  <2> QED BY <2>1, <2>2, <2>3, <2>4 DEF DatedBy
<1> QED BY <1>1, <1>2, <1>3, <1>4, StepEffect

LEMMA LateOnlyCancellations ==
  ASSUME TypeOK, RowInv, LockInv, StampInv, BillInv, RefundInv, [Next]_vars,
         NEW i \in 1 .. Len(windows), NEW from, NEW to, to = windows[i].to
  PROVE  /\ Counted(from, to) \subseteq Counted(from, to)'
         /\ \A e \in Counted(from, to)' \ Counted(from, to) :
              /\ e.kind = "cancel"
              /\ \E rf \in refunds' \ refunds : rf.source = "cancel" /\ rf.at < to
<1>1. to \in Nat
  BY WindowTimes
<1>2. pay' \in [Key -> Row]
  BY PayTyped
<1>3. \A x \in Time : x \in Nat
  BY LedgerBounds DEF Time
<1>4. \A at \in Nat : NotBeforeWindows(at) => ~ (at < to)
  BY <1>1 DEF NotBeforeWindows
<1>5. \A k \in Key : pay'[k].at \in Nat
  BY <1>2, <1>3 DEF Row
<1>6. (\E t \in Task : Effect(t)) \/ Rests
  BY StepEffect
<1>7. /\ \A rf \in refunds' : rf \in refunds \/ rf.at \in Nat
      /\ \A o \in Order : delivered'[o] = delivered[o] \/ delivered'[o] \in Nat
  <2>1. \A t \in Task : task[t].at \in Nat
    BY <1>3 DEF TypeOK, Request
  <2>2. CASE \E t \in Task : Effect(t)
    BY <2>1, <2>2, EffectDates DEF DatedBy
  <2>3. CASE Rests
    BY <2>3 DEF Rests
  <2> QED BY <1>6, <2>2, <2>3
<1>8. /\ \A k \in Key : pay[k].status = "paid" => pay'[k] = pay[k]
      /\ \A k \in Key : pay'[k].status = "paid" => pay[k].status = "paid" \/ ~ (pay'[k].at < to)
      /\ refunds \subseteq refunds'
      /\ \A rf \in refunds : Attributed(rf)' = Attributed(rf)
      /\ \A rf \in refunds' : rf \in refunds \/ rf.source = "cancel" \/ ~ (rf.at < to)
      /\ \A o \in Order : \/ delivered'[o] = delivered[o]
                          \/ delivered[o] = 0 /\ ~ (delivered'[o] < to)
  BY <1>4, <1>5, <1>7, NewEvents
<1> QED BY <1>8, CountedMoves

\* A settlement puts its window behind the others and counts what is there.
LEMMA WindowCloses ==
  ASSUME TypeOK, RowInv, LockInv, StampInv, WindowInv, NEW t \in Task, Ends(t), Closes(t)
  PROVE  WindowInv'
<1> DEFINE n == Len(windows)
<1>1. PICK w : /\ w = [from |-> UnsettledStart, to |-> task[t].at,
                       counted |-> Counted(UnsettledStart, task[t].at)]
               /\ windows' = Append(windows, w)
  BY DEF Closes
<1>2. w.from = UnsettledStart /\ w.to = task[t].at /\ w.counted = Counted(w.from, w.to)
  BY <1>1
<1>3. /\ n \in Nat /\ Len(windows') = n + 1 /\ windows'[n + 1] = w /\ windows' # <<>>
      /\ \A i \in 1 .. n + 1 : (i \in 1 .. n /\ windows'[i] = windows[i]) \/ i = n + 1
  <2>1. /\ n \in Nat /\ Len(windows') = n + 1 /\ windows'[n + 1] = w
        /\ \A i \in 1 .. n + 1 : (i \in 1 .. n /\ windows'[i] = windows[i]) \/ i = n + 1
    BY <1>1, LastWindow
  <2>2. windows' # <<>>
    <3>1. n \in Nat /\ Len(windows') = n + 1
      BY <2>1
    <3>2. Len(<<>>) = 0
      OBVIOUS
    <3> HIDE DEF n
    <3>3. Len(windows') # 0
      BY <3>1
    <3> QED BY <3>2, <3>3, Zenon
  <2> QED BY <2>1, <2>2
<1>4. /\ \A i \in 1 .. n : windows[i].from \in Nat /\ windows[i].to \in Nat
      /\ windows # <<>> => n > 0
      /\ n = 0 => windows = <<>>
  BY WindowTimes, EmptySeq DEF TypeOK
<1>5. /\ \A i \in 1 .. n : windows[i].from <= windows[i].to
      /\ \A i, j \in 1 .. n : i < j => windows[i].to <= windows[j].from
  BY DEF WindowInv, WindowsInOrder
<1>6. \A x \in Time : x \in Nat
  BY LedgerBounds DEF Time
<1>7. /\ w.from \in Nat /\ w.to \in Nat
      /\ n > 0 => w.from = windows[n].to
      /\ n = 0 => /\ \A k \in Key : pay[k].status = "paid" => w.from <= pay[k].at
                  /\ \A o \in Order : delivered[o] # 0 => w.from <= delivered[o]
                  /\ \/ w.from = 0
                     \/ \E k \in Key : pay[k].status = "paid" /\ w.from = pay[k].at
                     \/ \E o \in Order : w.from = delivered[o]
  <2>1. task[t].at \in Nat
    BY <1>6 DEF TypeOK, Request
  <2>2. n > 0 => windows # <<>>
    OBVIOUS
  <2> QED BY <1>2, <1>4, <1>6, <2>1, <2>2, NextStart DEF WindowInv
<1>8. /\ NotBeforeWindows(w.to)
      /\ \A k \in Key : pay[k].status = "paid" => pay[k].at <= w.to
      /\ \A o \in Order : delivered[o] <= w.to
  BY <1>2, CommitsAfterWindows DEF Closes
<1> HIDE DEF n
<1>9. w.from <= w.to
  <2>1. CASE n > 0
    BY <1>3, <1>4, <1>7, <1>8, <2>1 DEF NotBeforeWindows, n
  <2>2. CASE n = 0
    BY <1>7, <1>8, <2>2
  <2> QED BY <1>3, <2>1, <2>2
<1>10. \A i \in 1 .. n : windows[i].to <= w.from
  <2> SUFFICES ASSUME NEW i \in 1 .. n PROVE windows[i].to <= w.from
    OBVIOUS
  <2>1. i = n \/ i < n
    BY <1>3
  <2>2. i < n => windows[i].to <= windows[n].from /\ windows[n].from <= windows[n].to
    BY <1>3, <1>5
  <2> QED BY <1>3, <1>4, <1>7, <2>1, <2>2
<1>11. WindowsInOrder'
  <2>1. \A i \in 1 .. n + 1 : windows'[i].from <= windows'[i].to
    BY <1>3, <1>5, <1>9
  <2>2. \A i, j \in 1 .. n + 1 : i < j => windows'[i].to <= windows'[j].from
    <3> SUFFICES ASSUME NEW i \in 1 .. n + 1, NEW j \in 1 .. n + 1, i < j
                 PROVE  windows'[i].to <= windows'[j].from
      OBVIOUS
    <3>1. i \in 1 .. n /\ windows'[i] = windows[i]
      BY <1>3
    <3> QED BY <1>3, <1>5, <1>10, <3>1
  <2> QED BY <1>3, <2>1, <2>2 DEF WindowsInOrder
<1>12. WindowsTouch'
  <2> SUFFICES ASSUME NEW at \in Time, windows'[1].from <= at, at < w.to
               PROVE  \E i \in 1 .. n + 1 : Within(at, windows'[i].from, windows'[i].to)
    BY <1>3 DEF WindowsTouch, InSomeWindow, Within
  <2>1. at \in Nat
    BY <1>6
  <2>2. CASE w.from <= at
    BY <1>3, <2>2 DEF Within
  <2>3. CASE ~ (w.from <= at)
    <3>1. n > 0
      BY <1>3, <2>3
    <3>2. windows'[1] = windows[1] /\ windows # <<>> /\ at < windows[n].to
      BY <1>3, <1>7, <2>1, <2>3, <3>1 DEF n
    <3>3. PICK i \in 1 .. n : Within(at, windows[i].from, windows[i].to)
      BY <3>2 DEF WindowInv, WindowsTouch, InSomeWindow, n
    <3>4. i \in 1 .. n + 1 /\ windows'[i] = windows[i]
      BY <1>3
    <3> QED BY <3>3, <3>4
  <2> QED BY <2>2, <2>3
<1>13. NothingBefore'
  <2>1. pay' = pay /\ delivered' = delivered
    BY DEF Closes
  <2>2. CASE n = 0
    BY <1>3, <1>7, <2>1, <2>2 DEF NothingBefore
  <2>3. CASE n > 0
    <3>1. windows'[1] = windows[1] /\ windows # <<>>
      BY <1>3, <2>3 DEF n
    <3> QED BY <2>1, <3>1 DEF WindowInv, NothingBefore
  <2> QED BY <1>3, <2>2, <2>3
<1>14. OnlyCancellationsAreLate'
  <2>1. \A from, to : Counted(from, to)' = Counted(from, to)
    BY DEF Closes, Counted, Attributed, PaidSum, PaidOn, Reversed, Within, Minimum
  <2>2. \A i \in 1 .. n + 1 :
          /\ windows'[i].counted \subseteq Counted(windows'[i].from, windows'[i].to)
          /\ \A e \in Counted(windows'[i].from, windows'[i].to) \ windows'[i].counted : e.kind = "cancel"
    <3> SUFFICES ASSUME NEW i \in 1 .. n + 1
                 PROVE  /\ windows'[i].counted \subseteq Counted(windows'[i].from, windows'[i].to)
                        /\ \A e \in Counted(windows'[i].from, windows'[i].to) \ windows'[i].counted :
                             e.kind = "cancel"
      OBVIOUS
    <3>1. CASE i = n + 1
      BY <1>2, <1>3, <3>1
    <3>2. CASE i # n + 1
      <4>1. i \in 1 .. n /\ windows'[i] = windows[i]
        BY <1>3, <3>2
      <4> QED BY <4>1 DEF WindowInv, OnlyCancellationsAreLate, n
    <3> QED BY <3>1, <3>2
  <2> QED BY <1>3, <2>1, <2>2 DEF OnlyCancellationsAreLate
<1> QED BY <1>11, <1>12, <1>13, <1>14 DEF WindowInv

LEMMA WindowStep ==
  ASSUME TypeOK, RowInv, LockInv, BillInv, RefundInv, StampInv, WindowInv, [Next]_vars
  PROVE  WindowInv'
<1>1. ASSUME windows' = windows PROVE WindowInv'
  <2>1. WindowsInOrder' /\ WindowsTouch'
    BY <1>1 DEF WindowInv, WindowsInOrder, WindowsTouch, InSomeWindow, Within
  <2>2. NothingBefore'
    <3> SUFFICES ASSUME windows # <<>>
                 PROVE  /\ \A k \in Key : pay'[k].status = "paid" => windows[1].from <= pay'[k].at
                        /\ \A o \in Order : delivered'[o] # 0 => windows[1].from <= delivered'[o]
      BY <1>1 DEF NothingBefore
    <3>1. 1 \in 1 .. Len(windows) /\ windows[1].from \in Nat /\ windows[1].to \in Nat
          /\ windows[1].from <= windows[1].to
      BY WindowTimes DEF WindowInv, WindowsInOrder
    <3>2. \A at \in Nat : NotBeforeWindows(at) => windows[1].from <= at
      BY <3>1 DEF NotBeforeWindows
    <3>3. pay' \in [Key -> Row] /\ \A x \in Time : x \in Nat
      BY PayTyped, LedgerBounds DEF Time
    <3>4. \A k \in Key : pay'[k].at \in Nat
      BY <3>3 DEF Row
    <3>5. \A o \in Order : delivered'[o] = delivered[o] \/ delivered'[o] \in Nat
      <4>1. \A t \in Task : task[t].at \in Nat
        BY <3>3 DEF TypeOK, Request
      <4> QED BY <4>1, StepEffect, EffectDates DEF DatedBy, Rests
    <3> QED BY <3>2, <3>4, <3>5, NewEvents DEF WindowInv, NothingBefore
  <2>3. OnlyCancellationsAreLate'
    <3> SUFFICES ASSUME NEW i \in 1 .. Len(windows),
                        NEW from, NEW to, from = windows[i].from, to = windows[i].to
                 PROVE  /\ windows[i].counted \subseteq Counted(from, to)'
                        /\ \A e \in Counted(from, to)' \ windows[i].counted : e.kind = "cancel"
      BY <1>1 DEF OnlyCancellationsAreLate, Counted, Within
    <3>1. /\ windows[i].counted \subseteq Counted(from, to)
          /\ \A e \in Counted(from, to) \ windows[i].counted : e.kind = "cancel"
      BY DEF WindowInv, OnlyCancellationsAreLate
    <3>2. /\ Counted(from, to) \subseteq Counted(from, to)'
          /\ \A e \in Counted(from, to)' \ Counted(from, to) : e.kind = "cancel"
      <4>1. /\ Counted(from, to) \subseteq Counted(from, to)'
            /\ \A e \in Counted(from, to)' \ Counted(from, to) :
                 /\ e.kind = "cancel"
                 /\ \E rf \in refunds' \ refunds : rf.source = "cancel" /\ rf.at < to
        BY LateOnlyCancellations, SMTT(30)
      <4> QED BY <4>1
    <3> QED BY <3>1, <3>2
  <2> QED BY <2>1, <2>2, <2>3 DEF WindowInv
<1>2. ASSUME NEW t \in Task, Ends(t), Effect(t) PROVE windows' = windows \/ Closes(t)
  BY <1>2 DEF Effect, Pays, Land, Refunds, Reverses, Withdraws, Takes, Arrives
<1> QED BY <1>1, <1>2, WindowCloses, StepEffect DEF Rests

-----------------------------------------------------------------------------
(* Types *)

LEMMA RequestsTyped ==
  ASSUME TypeOK, RowInv, [Next]_vars
  PROVE  task' \in [Task -> Request]
<1>1. CASE task' = task
  BY <1>1 DEF TypeOK
<1>2. Idle \in Request
  BY LedgerBounds DEF Idle, Request, Time
<1>3. ASSUME NEW t \in Task, NEW r \in Request, task' = [task EXCEPT ![t] = r]
      PROVE  task' \in [Task -> Request]
  BY <1>3 DEF TypeOK
<1>4. ASSUME NEW t \in Task, Opening(t) PROVE task' \in [Task -> Request]
  <2>1. PICK op, k, o, a : Fits(op, k, o, a) /\ Open(t, op, k, o, a)
    BY <1>4, OpeningFits
  <2> DEFINE w == Locks(op, k, o)
             r == [Idle EXCEPT !.op = op, !.key = k, !.order = o, !.amount = a, !.want = w]
  <2>2. w \in Seq(Lock)
    BY <2>1, LocksList
  <2>3. task' = [task EXCEPT ![t] = r]
    BY <2>1 DEF Open
  <2> HIDE DEF w
  <2>4. [Idle EXCEPT !.op = op, !.key = k, !.order = o] \in Request
    BY <1>2, <2>1 DEF Fits, Request
  <2>5. r \in Request
    BY <2>1, <2>2, <2>4, LedgerBounds DEF Fits, Request, Idle
  <2> HIDE DEF r
  <2> QED BY <1>3, <2>3, <2>5
<1>5. ASSUME NEW t \in Task, Acquire(t) PROVE task' \in [Task -> Request]
  <2>1. task[t].want \in Seq(Lock) /\ task[t].want # <<>> /\ task[t].held \subseteq Lock
    BY <1>5 DEF Acquire, TypeOK, Request
  <2>2. Head(task[t].want) \in Lock /\ Tail(task[t].want) \in Seq(Lock)
    BY <2>1, HeadTailProperties
  <2>3. task' = [task EXCEPT ![t].held = task[t].held \union {Head(task[t].want)},
                             ![t].want = Tail(task[t].want)]
    BY <1>5 DEF Acquire
  <2> QED BY <2>1, <2>2, <2>3 DEF TypeOK, Request
<1>6. ASSUME NEW t \in Task, Stamp(t) PROVE task' \in [Task -> Request]
  <2>1. task[t] \in Request /\ now \in Time
    BY DEF TypeOK
  <2>2. [task[t] EXCEPT !.at = now] \in Request
    BY <2>1 DEF Request
  <2>3. task' = [task EXCEPT ![t] = [task[t] EXCEPT !.at = now]]
    BY <1>6 DEF Stamp, TypeOK
  <2> QED BY <1>3, <2>2, <2>3
<1>7. ASSUME NEW t \in Task, Abort(t) \/ Committing(t) PROVE task' \in [Task -> Request]
  BY <1>2, <1>3, <1>7, CommittingEnds DEF Abort, Ends
<1>8. CASE Tick \/ GatewayOpens \/ UNCHANGED vars
  BY <1>1, <1>8 DEF Tick, GatewayOpens, vars
<1> QED BY <1>4, <1>5, <1>6, <1>7, <1>8 DEF Next, Opening, Committing

LEMMA TypeStep ==
  ASSUME TypeOK, RowInv, LockInv, BillInv, RefundInv, WindowInv, [Next]_vars
  PROVE  TypeOK'
<1>1. now' \in Time \ {0} /\ pay' \in [Key -> Row] /\ task' \in [Task -> Request]
  BY StampsMove, PayTyped, RequestsTyped
<1>2. CASE Rests
  BY <1>1, <1>2 DEF Rests, TypeOK
<1>3. ASSUME NEW t \in Task, Effect(t) PROVE TypeOK'
  <2> DEFINE Sets == /\ till' \subseteq Order /\ header' \subseteq Order /\ canceled' \subseteq Order
                     /\ delivered' \in [Order -> Time] /\ refunds' \subseteq Refund
                     /\ windows' \in Seq(Window)
  <2>1. SUFFICES Sets
    BY <1>1 DEF TypeOK
  <2>2. CASE \E k \in Key, a \in Amount : Pays(t, k, a)
    BY <2>2 DEF Pays, Land, Recomputed, TypeOK
  <2>3. CASE Refunds(t)
    <3>1. ProviderRefund(t) \in Refund
      BY <2>3, NewRefund
    <3> QED BY <2>3, <3>1 DEF Refunds, TypeOK
  <2>4. CASE Reverses(t)
    <3>1. CancelRefund(t) \in Refund
      BY <2>4, NewRefund
    <3> QED BY <2>4, <3>1 DEF Reverses, TypeOK
  <2>5. CASE Withdraws(t) \/ Takes(t)
    BY <2>5 DEF Withdraws, Takes, TypeOK
  <2>6. CASE Arrives(t)
    BY <2>6 DEF Arrives, TypeOK, Request
  <2>7. CASE Closes(t)
    <3>1. PICK w : /\ w = [from |-> UnsettledStart, to |-> task[t].at,
                           counted |-> Counted(UnsettledStart, task[t].at)]
                   /\ windows' = Append(windows, w)
      BY <2>7 DEF Closes
    <3>2. UnsettledStart \in Time /\ task[t].at \in Time
      BY NextStart DEF WindowInv, TypeOK, Request
    <3>3. Counted(UnsettledStart, task[t].at) \subseteq Entry
      BY CountedTyped
    <3>4. w \in Window
      BY <3>1, <3>2, <3>3 DEF Window
    <3>5. windows' \in Seq(Window)
      BY <3>1, <3>4, AppendProperties DEF TypeOK
    <3> QED BY <2>7, <3>5 DEF Closes, TypeOK
  <2> HIDE DEF Sets
  <2> QED BY <1>3, <2>2, <2>3, <2>4, <2>5, <2>6, <2>7 DEF Effect
<1> QED BY <1>2, <1>3, StepEffect

-----------------------------------------------------------------------------
(* The start *)

LEMMA RowsAtTheStart ==
  ASSUME Init
  PROVE  \A k \in Key :
           /\ pay[k].at = 0 /\ pay[k].status \in {"none", "paid"}
           /\ pay[k].status = "paid" => pay[k].amount = 1 /\ pay[k].order \in Order
<1> SUFFICES ASSUME NEW k \in Key
             PROVE  /\ pay[k].at = 0 /\ pay[k].status \in {"none", "paid"}
                    /\ pay[k].status = "paid" => pay[k].amount = 1 /\ pay[k].order \in Order
  OBVIOUS
<1>1. CASE pay[k] = NoPayment
  BY <1>1 DEF NoPayment
<1>2. ASSUME NEW o \in Order, pay[k] = [status |-> "paid", order |-> o, amount |-> 1, at |-> 0]
      PROVE  /\ pay[k].at = 0 /\ pay[k].status = "paid"
             /\ pay[k].amount = 1 /\ pay[k].order \in Order
  BY <1>2
<1>3. \/ pay[k] = NoPayment
      \/ \E o \in Order : pay[k] = [status |-> "paid", order |-> o, amount |-> 1, at |-> 0]
  BY DEF Init
<1> QED BY <1>1, <1>2, <1>3

LEMMA InitTyped ==
  ASSUME Init
  PROVE  TypeOK /\ \A k \in Key : pay[k].at = 0
<1> DEFINE Opened(o) == [status |-> "paid", order |-> o, amount |-> 1, at |-> 0]
<1>1. NoPayment \in Row /\ \A o \in Order : Opened(o) \in Row
  BY LedgerBounds DEF NoPayment, Row, Time
<1>2. pay \in [Key -> {NoPayment} \union {Opened(o) : o \in Order}]
  BY DEF Init
<1>3. \A k \in Key : pay[k] = NoPayment \/ \E o \in Order : pay[k] = Opened(o)
  BY <1>2
<1>4. pay \in [Key -> Row]
  BY <1>1, <1>2, <1>3
<1>5. \A k \in Key : pay[k].at = 0 /\ (pay[k].status = "paid" => pay[k].order \in Order)
  BY RowsAtTheStart
<1>6. now \in Time \ {0} /\ delivered \in [Order -> Time]
  BY LedgerBounds DEF Init, Time
<1>8. header \subseteq Order
  BY <1>5, LedgerPaid DEF Init
<1>9. Idle \in Request
  BY LedgerBounds DEF Idle, Request, Time
<1>10. task \in [Task -> Request]
  BY <1>9 DEF Init
<1>11. windows \in Seq(Window) /\ refunds \subseteq Refund /\ till \subseteq Order /\ canceled \subseteq Order
  BY DEF Init
<1> QED BY <1>4, <1>5, <1>6, <1>8, <1>10, <1>11 DEF TypeOK

LEMMA InitBill ==
  ASSUME Init
  PROVE  BillInv
<1>1. TypeOK
  BY InitTyped
<1>2. \A k \in Key : pay[k].status = "paid" => pay[k].amount = 1 /\ pay[k].order \in Order
  BY RowsAtTheStart
<1>3. \A k \in Key : pay[k].status = "paid" <=> k \in Paid
  BY DEF Init
<1>4. ASSUME NEW o \in Order
      PROVE  Exact(o) = Collected(o) /\ Collected(o) = IF PaidOn(o) = {} THEN 0 ELSE 1
  <2>1. Collected(o) \in Nat /\ Exact(o) = Collected(o) + 0
    BY <1>1, ExactIsNat DEF Exact, Init
  <2>2. CASE PaidOn(o) = {}
    BY <2>1, <2>2, SumsOfRows, OwedNothing DEF Collected
  <2>3. CASE PaidOn(o) # {}
    <3>1. PICK k \in PaidOn(o) : TRUE
      BY <2>3
    <3>2. \A j \in PaidOn(o) : j = k
      BY <1>3, <3>1 DEF Init, PaidOn
    <3>3. PaidRows(pay, o) \in SUBSET Key /\ k \in PaidRows(pay, o) /\ PaidRows(pay, o) \ {k} = {}
          /\ pay[k].amount = 1
      BY <1>2, <3>1, <3>2, SumsOfRows DEF PaidOn
    <3>4. Owed(pay, PaidRows(pay, o)) = pay[k].amount + Owed(pay, PaidRows(pay, o) \ {k})
      BY <1>1, <3>3, OwedGrows DEF TypeOK
    <3>5. Collected(o) = 1
      BY <3>3, <3>4, OwedNothing, SumsOfRows
    <3> QED BY <2>1, <2>3, <3>5
  <2> QED BY <2>2, <2>3
<1>5. \A o \in Order : o \in header <=> Due = 1 /\ PaidOn(o) # {}
  BY <1>3, LedgerPaid DEF Init, PaidOn
<1>6. \A o \in Order : Collected(o) <= Due /\ (o \in header <=> Exact(o) >= Due)
  BY <1>4, <1>5, LedgerBounds
<1> QED BY <1>6 DEF BillInv, CourierWithinBill, HeaderTellsTruth

LEMMA InitRefunds ==
  ASSUME Init
  PROVE  RefundInv /\ ChargesFit
<1>1. refunds = {} /\ TypeOK
  BY InitTyped DEF Init
<1>2. IsFiniteSet(refunds) /\ RefundsFollow /\ RefundedOnce /\ CancelIsLast
  BY <1>1, FS_EmptySet DEF RefundsFollow, RefundedOnce, CancelIsLast
<1>3. \A o : ~ IsCanceled(o) /\ RefundsOf(o) = {} /\ Left(o) = PaidOn(o)
  BY <1>1 DEF IsCanceled, RefundsOf, Left, AlreadyRefunded, PaidOn
<1>4. \A o : Refunded(o) = 0 /\ Charged(o) = 0
  BY <1>3, SumEmpty DEF Refunded, Charged
<1>5. \A o \in Order : Collected(o) \in Nat /\ Exact(o) \in Nat /\ PaidSum(Left(o)) = Collected(o)
  BY <1>1, <1>3, ExactIsNat DEF Collected
<1> QED BY <1>2, <1>3, <1>4, <1>5 DEF RefundInv, RefundsFit, ChargesFit

LEMMA InitInv == Init => Inv
<1> SUFFICES ASSUME Init PROVE Inv
  OBVIOUS
<1>1. TypeOK /\ \A k \in Key : pay[k].at = 0
  BY InitTyped
<1>2. \A t \in Task : task[t].op = "idle" /\ task[t] = Idle /\ task[t].held = {} /\ task[t].want = <<>>
                      /\ task[t].at = 0
  BY DEF Init, Idle
<1>3. RowInv
  <2>2. RowsNamed
    BY RowsAtTheStart, LedgerBounds DEF RowsNamed, Amount
  <2> QED BY <1>2, <2>2 DEF RowInv, RequestsFit
<1>4. LockInv
  <2>1. \A o : Needs("idle", o) = {}
    BY DEF Needs
  <2>2. Covered
    BY <1>2, <2>1 DEF Covered
  <2>3. Exclusive /\ InTurn /\ StampedLast
    BY <1>2, EmptyWant DEF Exclusive, InTurn, StampedLast
  <2>4. OwnKey
    BY <1>2, EmptyWant DEF OwnKey, KeyedLocks, Asked
  <2> QED BY <2>2, <2>3, <2>4 DEF LockInv
<1>5. StampInv
  <2>1. now = 1 /\ refunds = {} /\ windows = <<>> /\ \A o \in Order : delivered[o] = 0
    BY DEF Init
  <2>2. \A k \in Key : pay[k].at <= now
    BY <1>1, <2>1
  <2>3. ClockAhead
    BY <1>2, <2>1, <2>2 DEF ClockAhead
  <2> QED BY <1>2, <2>3 DEF StampInv, OrderBehind, CourierBehind
<1>6. WindowInv
  <2>1. windows = <<>> /\ Len(windows) = 0
    BY DEF Init
  <2> QED BY <2>1 DEF WindowInv, WindowsInOrder, WindowsTouch, NothingBefore, OnlyCancellationsAreLate
<1> QED BY <1>1, <1>3, <1>4, <1>5, <1>6, InitBill, InitRefunds DEF Inv, MoneyInv

-----------------------------------------------------------------------------
(* The invariant *)

LEMMA InvStep == Inv /\ [Next]_vars => Inv'
<1> SUFFICES ASSUME Inv, [Next]_vars PROVE Inv'
  OBVIOUS
<1>1. /\ TypeOK /\ RowInv /\ LockInv /\ StampInv /\ WindowInv
      /\ BillInv /\ RefundInv /\ ChargesFit
  BY DEF Inv, MoneyInv
<1>2. RowInv'
  BY <1>1, RowStep
<1>3. LockInv'
  BY <1>1, LockStep
<1>4. BillInv'
  BY <1>1, BillStep
<1>5. RefundInv'
  BY <1>1, RefundStep
<1>6. ChargesFit'
  <2>1. \A o \in Order : /\ Charged(o)' <= Collected(o)'
                         /\ ~ IsCanceled(o)' => Charged(o)' + PaidSum(Left(o))' <= Collected(o)'
    BY <1>1, ChargesStep
  <2> QED BY <2>1 DEF ChargesFit
<1>7. StampInv'
  BY <1>1, StampStep
<1>8. WindowInv'
  BY <1>1, WindowStep
<1>9. TypeOK'
  BY <1>1, TypeStep
<1> QED BY <1>2, <1>3, <1>4, <1>5, <1>6, <1>7, <1>8, <1>9 DEF Inv, MoneyInv

LEMMA InvHolds == Spec => []Inv
BY InitInv, InvStep, PTL DEF Spec

\* Every variable keeps its type: no operation writes a row, a refund or a settlement of
\* another shape, a refund never exceeds two bills and a lock list only names locks.
THEOREM LedgerTypes == Spec => []TypeOK
<1>1. Inv => TypeOK
  BY DEF Inv
<1> QED BY <1>1, InvHolds, PTL

\* Requests take orders before branches by number before the courier, and a payment row
\* under the lock of its order; so however many requests, orders and branches there are, a
\* circle of them needs a collection under the key of another order's payment.
THEOREM OnlyForeignKeysCircle == Spec => []CirclesNeedForeignKeys
<1>1. Inv => CirclesNeedForeignKeys
  BY OrderedLocksDoNotCircle DEF Inv
<1> QED BY <1>1, InvHolds, PTL

\* Couriers never collect more than the bill of an order (_capacity_error).
THEOREM CollectionsFitTheBill == Spec => []CourierWithinBill
<1>1. Inv => CourierWithinBill
  BY DEF Inv, MoneyInv, BillInv
<1> QED BY <1>1, InvHolds, PTL

\* An order is reported paid exactly when courier and till together cover its bill.
THEOREM HeaderIsCoverage == Spec => []HeaderTellsTruth
<1>1. Inv => HeaderTellsTruth
  BY DEF Inv, MoneyInv, BillInv
<1> QED BY <1>1, InvHolds, PTL

\* Provider refunds and the cancellation together charge a courier at most what it collected.
THEOREM NothingChargedTwice == Spec => []ChargedBackOnce
<1>1. Inv => ChargedBackOnce
  BY DEF Inv, MoneyInv, ChargesFit, ChargedBackOnce, Charged
<1> QED BY <1>1, InvHolds, PTL

\* What settlements have shown stays: nothing is taken back, only a cancellation joins.
THEOREM SettlementsKeepTheirEntries == Spec => []OnlyCancellationsAreLate
<1>1. Inv => OnlyCancellationsAreLate
  BY DEF Inv, WindowInv
<1> QED BY <1>1, InvHolds, PTL

\* An event that counts is not dated before the first window.
LEMMA StampsAfterStart ==
  ASSUME Inv, windows # <<>>, NEW at \in Stamps
  PROVE  at \in Time /\ windows[1].from <= at
<1>1. TypeOK /\ NothingBefore /\ RefundInv
  BY DEF Inv, WindowInv, MoneyInv
<1>2. \A x \in Time : x \in Nat
  BY LedgerBounds DEF Time
<1>3. windows[1].from \in Nat
  BY <1>1, WindowTimes
<1>4. CASE \E k \in Key : pay[k].status = "paid" /\ at = pay[k].at
  BY <1>1, <1>4 DEF NothingBefore, TypeOK, Row
<1>5. CASE \E o \in Order : delivered[o] # 0 /\ at = delivered[o]
  BY <1>1, <1>5 DEF NothingBefore, TypeOK
<1>6. ASSUME NEW rf \in refunds, Attributed(rf) > 0, at = rf.at
      PROVE  at \in Time /\ windows[1].from <= at
  <2>1. rf \in Refund /\ rf.at \in Time /\ rf.source \in {"provider", "cancel"}
    BY <1>1 DEF TypeOK, Refund
  <2>2. \E k \in Key : pay[k].status = "paid" /\ pay[k].at <= rf.at
    <3>1. CASE rf.source = "provider"
      BY <1>1, <3>1 DEF RefundInv, RefundsFollow
    <3>2. CASE rf.source = "cancel"
      <4>1. PICK k \in PaidOn(rf.order) : TRUE
        BY <1>1, <1>6, <2>1, <3>2, AttributedBounds
      <4> QED BY <1>1, <3>2, <4>1 DEF RefundInv, CancelIsLast, PaidOn
    <3> QED BY <2>1, <3>1, <3>2
  <2>3. PICK k \in Key : pay[k].status = "paid" /\ pay[k].at <= rf.at
    BY <2>2
  <2>4. windows[1].from <= pay[k].at /\ pay[k].at \in Time
    BY <1>1, <2>3 DEF NothingBefore, TypeOK, Row
  <2> QED BY <1>2, <1>3, <1>6, <2>1, <2>3, <2>4
<1> QED BY <1>4, <1>5, <1>6 DEF Stamps

\* Every counted event the settlements have reached lies in exactly one window.
THEOREM SettledExactlyOnce == Spec => []SettledOnce
<1>1. ASSUME Inv PROVE SettledOnce
  <2> SUFFICES ASSUME windows # <<>>, NEW at \in Stamps, at < windows[Len(windows)].to
               PROVE  \E i \in 1 .. Len(windows) : \A j \in 1 .. Len(windows) :
                        Within(at, windows[j].from, windows[j].to) <=> j = i
    BY DEF SettledOnce
  <2>1. at \in Time /\ windows[1].from <= at
    BY <1>1, StampsAfterStart
  <2>2. PICK i \in 1 .. Len(windows) : Within(at, windows[i].from, windows[i].to)
    BY <1>1, <2>1 DEF Inv, WindowInv, WindowsTouch, InSomeWindow
  <2>3. ASSUME NEW j \in 1 .. Len(windows), Within(at, windows[j].from, windows[j].to)
        PROVE  j = i
    <3>1. /\ Len(windows) \in Nat /\ at \in Nat
          /\ windows[i].from \in Nat /\ windows[i].to \in Nat
          /\ windows[j].from \in Nat /\ windows[j].to \in Nat
      BY <1>1, <2>1, WindowTimes, LedgerBounds DEF Inv, Time
    <3>2. /\ i < j => windows[i].to <= windows[j].from
          /\ j < i => windows[j].to <= windows[i].from
      BY <1>1 DEF Inv, WindowInv, WindowsInOrder
    <3>3. i < j \/ j < i \/ i = j
      BY <3>1
    <3> QED BY <2>2, <2>3, <3>1, <3>2, <3>3 DEF Within
  <2> QED BY <2>2, <2>3
<1>2. Inv => SettledOnce
  BY <1>1
<1> QED BY <1>2, InvHolds, PTL

-----------------------------------------------------------------------------
(* Closed windows are final once every branch has had a payment *)

\* settle reads the branches of the payments there are: with this it locks them all.
KnownBranches == \A o \in Order : BranchOf[o] \in BranchesPaid

SettlesAskBranches ==
  \A t \in Task : task[t].op = "settle" => \A o \in Order : BranchLock(BranchOf[o]) \in Asked(t)

CancelsBehind ==
  \A t \in Task : task[t].op = "cancel" /\ task[t].at # 0 => NotBeforeWindows(task[t].at)

FinalInv == KnownBranches /\ SettlesAskBranches /\ CancelsBehind /\ WindowsAreFinal

LEMMA BranchesStayKnown ==
  ASSUME TypeOK, RowInv, [Next]_vars, KnownBranches
  PROVE  KnownBranches'
<1>1. RowsKept
  BY RowsStay
<1> QED BY <1>1 DEF RowsKept, KnownBranches, BranchesPaid

LEMMA SettlesStillAsk ==
  ASSUME TypeOK, RowInv, KnownBranches, SettlesAskBranches, [Next]_vars
  PROVE  SettlesAskBranches'
<1> DEFINE Asks(t) == task[t].op = "settle" =>
                        \A o \in Order : BranchLock(BranchOf[o]) \in Asked(t)
<1>1. ASSUME NEW t \in Task, task'[t] = task[t] PROVE Asks(t)'
  BY <1>1 DEF SettlesAskBranches, Asked, Elements
<1>2. ASSUME NEW t \in Task, Opening(t) PROVE Asks(t)' /\ \A u \in Task \ {t} : task'[u] = task[u]
  <2>1. PICK op, k, o, a : Fits(op, k, o, a) /\ Open(t, op, k, o, a)
    BY <1>2, OpeningFits
  <2>2. /\ task'[t].op = op /\ task'[t].want = Locks(op, k, o)
        /\ \A u \in Task \ {t} : task'[u] = task[u]
    BY <2>1 DEF Open, TypeOK, Idle
  <2>3. op = "settle" => Locks(op, k, o) = SettleLocks
    BY DEF Locks
  <2>4. \A x \in Order : BranchLock(BranchOf[x]) \in Elements(SettleLocks)
    BY SettleLocksList DEF KnownBranches
  <2>5. Asked(t)' = task'[t].held \union Elements(task'[t].want)
    BY DEF Asked, Elements
  <2> QED BY <2>2, <2>3, <2>4, <2>5
<1>3. ASSUME NEW t \in Task, Acquire(t) PROVE Asks(t)' /\ \A u \in Task \ {t} : task'[u] = task[u]
  <2> DEFINE w == task[t].want
  <2>1. w \in Seq(Lock) /\ w # <<>>
    BY <1>3 DEF Acquire, TypeOK, Request
  <2>2. /\ task'[t].held = task[t].held \union {Head(w)} /\ task'[t].want = Tail(w)
        /\ task'[t].op = task[t].op /\ \A u \in Task \ {t} : task'[u] = task[u]
    BY <1>3 DEF Acquire, TypeOK, Request
  <2> HIDE DEF w
  <2>3. Elements(w) = {Head(w)} \union Elements(Tail(w))
    BY <2>1, HeadIsFirst
  <2>4. Asked(t)' = task'[t].held \union Elements(task'[t].want)
    BY DEF Asked, Elements
  <2>5. Asked(t) = task[t].held \union Elements(w)
    BY DEF Asked, w
  <2> QED BY <2>2, <2>3, <2>4, <2>5 DEF SettlesAskBranches
<1>4. ASSUME NEW t \in Task, Stamp(t) PROVE Asks(t)' /\ \A u \in Task \ {t} : task'[u] = task[u]
  <2>1. /\ task'[t].held = task[t].held /\ task'[t].want = task[t].want
        /\ task'[t].op = task[t].op /\ \A u \in Task \ {t} : task'[u] = task[u]
    BY <1>4 DEF Stamp, TypeOK, Request
  <2> QED BY <2>1 DEF SettlesAskBranches, Asked, Elements
<1>5. ASSUME NEW t \in Task, Abort(t) \/ Committing(t)
      PROVE  Asks(t)' /\ \A u \in Task \ {t} : task'[u] = task[u]
  <2>1. task' = [task EXCEPT ![t] = Idle]
    BY <1>5, CommittingEnds DEF Abort, Ends
  <2> QED BY <2>1 DEF TypeOK, Idle
<1>6. ASSUME NEW t \in Task, Asks(t)', \A u \in Task \ {t} : task'[u] = task[u]
      PROVE  SettlesAskBranches'
  <2>1. \A u \in Task : Asks(u)'
    BY <1>1, <1>6
  <2> QED BY <2>1 DEF SettlesAskBranches
<1>7. CASE Tick \/ GatewayOpens \/ UNCHANGED vars
  <2>1. \A u \in Task : Asks(u)'
    BY <1>1, <1>7 DEF Tick, GatewayOpens, vars
  <2> QED BY <2>1 DEF SettlesAskBranches
<1> HIDE DEF Asks
<1> QED BY <1>2, <1>3, <1>4, <1>5, <1>6, <1>7 DEF Next, Opening, Committing

LEMMA CancelsStayBehind ==
  ASSUME TypeOK, RowInv, LockInv, StampInv, SettlesAskBranches, CancelsBehind, [Next]_vars
  PROVE  CancelsBehind'
<1> SUFFICES ASSUME NEW u \in Task, task'[u].op = "cancel", task'[u].at # 0,
                    NEW i \in 1 .. Len(windows')
             PROVE  windows'[i].to <= task'[u].at
  BY DEF CancelsBehind, NotBeforeWindows
<1>1. CASE task'[u] # task[u]
  <2>1. task'[u].at = now /\ windows' = windows
    BY <1>1, StampsMove DEF ledger, Collects
  <2> QED BY <2>1 DEF StampInv, ClockAhead
<1>2. CASE task'[u] = task[u] /\ windows' = windows
  BY <1>2 DEF CancelsBehind, NotBeforeWindows
<1>3. ASSUME NEW t \in Task, Ends(t), Closes(t), task'[u] = task[u] PROVE FALSE
  <2> DEFINE l == BranchLock(BranchOf[task[u].order])
  <2>1. task[u].op = "cancel" /\ task[u].at # 0 /\ task[u].order \in Order
    BY <1>3 DEF RowInv, RequestsFit, Fits
  <2>2. task[u].want = <<>> /\ task[t].want = <<>> /\ task[t].op = "settle"
    BY <1>3, <2>1 DEF LockInv, StampedLast, AtStamp, Ends, Closes
  <2>3. Elements(task[u].want) = {} /\ Elements(task[t].want) = {}
    BY <2>2, EmptyWant
  <2>4. l \in Asked(t) /\ l \in Asked(u)
    BY <2>1, <2>2 DEF SettlesAskBranches, LockInv, Covered, Needs
  <2>5. l \in task[t].held /\ l \in task[u].held
    BY <2>3, <2>4 DEF Asked
  <2>6. t # u
    BY <2>1, <2>2
  <2> QED BY <2>5, <2>6 DEF LockInv, Exclusive
<1>4. ASSUME NEW t \in Task, Ends(t), Effect(t) PROVE windows' = windows \/ Closes(t)
  BY <1>4 DEF Effect, Pays, Land, Refunds, Reverses, Withdraws, Takes, Arrives
<1> QED BY <1>1, <1>2, <1>3, <1>4, StepEffect DEF Rests

LEMMA WindowsStayFinal ==
  ASSUME Inv, CancelsBehind, WindowsAreFinal, [Next]_vars
  PROVE  WindowsAreFinal'
<1>1. TypeOK /\ RowInv /\ LockInv /\ StampInv /\ BillInv /\ RefundInv /\ WindowInv
  BY DEF Inv, MoneyInv
<1>2. ASSUME windows' = windows PROVE WindowsAreFinal'
  <2> SUFFICES ASSUME NEW i \in 1 .. Len(windows),
                      NEW from, NEW to, from = windows[i].from, to = windows[i].to
               PROVE  windows[i].counted = Counted(from, to)'
    BY <1>2 DEF WindowsAreFinal, Counted, Within
  <2>1. windows[i].counted = Counted(from, to)
    BY DEF WindowsAreFinal
  <2>2. /\ Counted(from, to) \subseteq Counted(from, to)'
        /\ \A e \in Counted(from, to)' \ Counted(from, to) :
             \E rf \in refunds' \ refunds : rf.source = "cancel" /\ rf.at < to
    BY <1>1, LateOnlyCancellations
  <2>3. ASSUME NEW rf \in refunds' \ refunds, rf.source = "cancel" PROVE ~ (rf.at < to)
    <3>1. PICK t \in Task : Ends(t) /\ (Refunds(t) \/ Reverses(t))
      BY <1>1, <2>3, StepEffect DEF Rests, Effect, Pays, Land, Withdraws, Takes, Arrives, Closes
    <3>2. CASE Refunds(t)
      BY <2>3, <3>2 DEF Refunds, ProviderRefund
    <3>3. CASE Reverses(t)
      <4>1. rf.at = task[t].at /\ task[t].op = "cancel" /\ task[t].at # 0
        BY <2>3, <3>1, <3>3 DEF Reverses, CancelRefund, Ends
      <4>2. to <= rf.at
        BY <4>1 DEF CancelsBehind, NotBeforeWindows
      <4>3. to \in Nat /\ rf.at \in Nat
        BY <1>1, <4>1, WindowTimes, LedgerBounds DEF TypeOK, Request, Time
      <4> QED BY <4>2, <4>3
    <3> QED BY <3>1, <3>2, <3>3
  <2> QED BY <2>1, <2>2, <2>3
<1>3. ASSUME NEW t \in Task, Closes(t) PROVE WindowsAreFinal'
  <2>1. PICK w : /\ w = [from |-> UnsettledStart, to |-> task[t].at,
                         counted |-> Counted(UnsettledStart, task[t].at)]
                 /\ windows' = Append(windows, w)
    BY <1>3 DEF Closes
  <2>2. w.from = UnsettledStart /\ w.to = task[t].at /\ w.counted = Counted(w.from, w.to)
    BY <2>1
  <2>3. \A from, to : Counted(from, to)' = Counted(from, to)
    BY <1>3 DEF Closes, Counted, Attributed, PaidSum, PaidOn, Reversed, Within, Minimum
  <2>4. \A i \in 1 .. Len(windows') :
          windows'[i].counted = Counted(windows'[i].from, windows'[i].to)
    <3> SUFFICES ASSUME NEW i \in 1 .. Len(windows')
                 PROVE  windows'[i].counted = Counted(windows'[i].from, windows'[i].to)
      OBVIOUS
    <3>1. (i \in 1 .. Len(windows) /\ windows'[i] = windows[i]) \/ windows'[i] = w
      BY <1>1, <2>1, LastWindow
    <3> QED BY <2>2, <3>1 DEF WindowsAreFinal
  <2> QED BY <2>3, <2>4 DEF WindowsAreFinal
<1>4. ASSUME NEW t \in Task, Ends(t), Effect(t) PROVE windows' = windows \/ Closes(t)
  BY <1>4 DEF Effect, Pays, Land, Refunds, Reverses, Withdraws, Takes, Arrives
<1> QED BY <1>1, <1>2, <1>3, <1>4, StepEffect DEF Rests

\* Once every branch of the courier's orders has had a payment, a closed window is final:
\* counting it again finds exactly the entries its settlement froze (settle: "one serial
\* order").  Without the first payment it is not: settle has no branch to lock yet.
THEOREM KnownBranchesAreFinal ==
  Init /\ KnownBranches /\ [][Next]_vars => []WindowsAreFinal
<1>1. Init /\ KnownBranches => Inv /\ FinalInv
  <2> SUFFICES ASSUME Init, KnownBranches PROVE Inv /\ FinalInv
    OBVIOUS
  <2>1. \A t \in Task : task[t].op = "idle" /\ task[t].at = 0
    BY DEF Init, Idle
  <2>2. SettlesAskBranches /\ CancelsBehind
    BY <2>1 DEF SettlesAskBranches, CancelsBehind
  <2>3. WindowsAreFinal
    BY DEF Init, WindowsAreFinal
  <2> QED BY <2>2, <2>3, InitInv DEF FinalInv
<1>2. Inv /\ FinalInv /\ [Next]_vars => Inv' /\ FinalInv'
  <2> SUFFICES ASSUME Inv, FinalInv, [Next]_vars PROVE Inv' /\ FinalInv'
    OBVIOUS
  <2>1. /\ TypeOK /\ RowInv /\ LockInv /\ StampInv
        /\ KnownBranches /\ SettlesAskBranches /\ CancelsBehind /\ WindowsAreFinal
    BY DEF Inv, FinalInv
  <2>2. KnownBranches'
    BY <2>1, BranchesStayKnown
  <2>3. SettlesAskBranches'
    BY <2>1, SettlesStillAsk
  <2>4. CancelsBehind'
    BY <2>1, CancelsStayBehind
  <2>5. WindowsAreFinal'
    BY <2>1, WindowsStayFinal
  <2> QED BY <2>2, <2>3, <2>4, <2>5, InvStep DEF FinalInv
<1>3. FinalInv => WindowsAreFinal
  BY DEF FinalInv
<1> QED BY <1>1, <1>2, <1>3, PTL
=============================================================================

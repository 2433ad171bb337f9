--------------------------- MODULE CourierLedger ---------------------------
(***************************************************************************)
(* The money of one courier (couriers/payments.py and the settlement half  *)
(* of couriers/services.py): what is collected at the door under an        *)
(* idempotency key, what a gateway confirms, what is refunded by the       *)
(* provider or by cancelling the order, what the till takes for the same   *)
(* order, and the settlements that close half-open windows over all of it. *)
(*                                                                         *)
(* A request is a transaction that takes its row locks one at a time       *)
(* (order, branch accounting, courier, payment), stamps its event with the *)
(* clock, and commits.  Nothing it read under its locks can move before the       *)
(* commit, so the handler's decision and its writes are one step, at the   *)
(* commit; its stamp is an earlier one.  A request may die at any point    *)
(* and be sent again.                                                      *)
(***************************************************************************)
EXTENDS Integers, Sequences, FiniteSets, FiniteSetsExt

CONSTANTS
  Order,       \* delivery orders of this courier
  Branch,      \* branch identifiers, in sort order
  BranchOf,    \* BranchOf[o]: Order.branch_id
  Key,         \* external ids of payments
  Due,         \* Order.total_amount
  Task,        \* requests the server works on at once
  Op,          \* the operations requested
  Paid,        \* keys already PAID when the model starts, 1 each, one per order
  MaxClock,    \* bound: last tick of the clock
  MaxWindow,   \* bound: settlements
  MaxRecords   \* bound: rows there are, and open requests that may add one, when another starts

Nothing == "nothing"   \* the key, order or lock a request does not have

ASSUME LedgerBranch == Branch \subseteq Nat /\ BranchOf \in [Order -> Branch]
ASSUME LedgerBounds == Due \in Nat \ {0} /\ MaxClock \in Nat \ {0} /\ MaxWindow \in Nat
                       /\ MaxRecords \in Nat
ASSUME LedgerOps ==
  Op \subseteq {"create", "confirm", "fail", "refund", "cancel", "till", "deliver", "settle"}
ASSUME LedgerRows == IsFiniteSet(Order) /\ IsFiniteSet(Key) /\ IsFiniteSet(Task)
ASSUME LedgerPaid == Paid \subseteq Key /\ Cardinality(Paid) <= Cardinality(Order)

VARIABLES
  now,        \* timezone.now()
  pay,        \* CourierPayment, by external_id
  till,       \* orders the till has taken in full (OrderPayment, non-cash)
  header,     \* orders with is_paid
  canceled,   \* orders with status CANCELED
  delivered,  \* DeliveryAssignment.delivered_at, 0 while null
  refunds,    \* OrderRefund
  windows,    \* CourierSettlement, oldest first
  task        \* the open transactions

ledger == <<pay, till, header, canceled, delivered, refunds, windows>>
vars == <<now, ledger, task>>

OrderLock(o)  == <<"order", o>>
BranchLock(b) == <<"branch", b>>
CourierLock   == <<"courier", 0>>
\* The payment row; to create one holds the key in the unique index just the same.
PaymentLock(k) == <<"payment", k>>
Lock == {OrderLock(o) : o \in Order} \union {BranchLock(b) : b \in Branch} \union {CourierLock}
          \union {PaymentLock(k) : k \in Key}

Time   == 0 .. MaxClock
Amount == 1 .. Due
Row    == [status : {"none", "pending", "paid", "failed"},
           order : Order \union {Nothing}, amount : 0 .. Due, at : Time]
Refund == [source : {"provider", "cancel"}, key : Key \union Order, order : Order,
           amount : 0 .. 2 * Due, at : Time]
Entry  == [kind : {"payment", "provider", "cancel", "delivery"}, key : Key \union Order,
           amount : 0 .. 2 * Due]
Window == [from : Time, to : Time, counted : SUBSET Entry]
Request == [op : Op \union {"idle"}, key : Key \union {Nothing}, order : Order \union {Nothing},
            amount : 0 .. Due, want : Seq(Lock), held : SUBSET Lock, at : Time]
Idle   == [op |-> "idle", key |-> Nothing, order |-> Nothing, amount |-> 0,
           want |-> <<>>, held |-> {}, at |-> 0]

TypeOK ==
  /\ now \in Time \ {0}
  /\ pay \in [Key -> Row]
  /\ till \subseteq Order
  /\ header \subseteq Order
  /\ canceled \subseteq Order
  /\ delivered \in [Order -> Time]
  /\ refunds \subseteq Refund
  /\ windows \in Seq(Window)
  /\ task \in [Task -> Request]

NoPayment == [status |-> "none", order |-> Nothing, amount |-> 0, at |-> 0]

Init ==
  /\ now = 1
  /\ till = {} /\ canceled = {} /\ refunds = {} /\ windows = <<>>
  /\ delivered = [o \in Order |-> 0]
  /\ pay \in [Key -> {NoPayment} \union
                     {[status |-> "paid", order |-> o, amount |-> 1, at |-> 0] : o \in Order}]
  /\ \A k \in Key : pay[k].status = "paid" <=> k \in Paid
  /\ \A j, k \in Paid : pay[j].order = pay[k].order => j = k
  /\ header = {pay[k].order : k \in {j \in Paid : Due = 1}}
  /\ task = [t \in Task |-> Idle]

-----------------------------------------------------------------------------
(* What the rows say. *)

PaidSum(S) == SumFunctionOnSet([k \in Key |-> pay[k].amount], S)

\* Courier payments that count for an order, each once: its ExternalOrderPayment
\* mirror is written in the same transaction.
PaidOn(o) == {k \in Key : pay[k].status = "paid" /\ pay[k].order = o}

\* _payment_evidence.
Collected(o) == PaidSum(PaidOn(o))
Exact(o) == Collected(o) + (IF o \in till THEN Due ELSE 0)

\* Mutant: only the courier's own rows are looked at one by one.
HasRoomEach(o, a) == a <= Due
\* _capacity_error.
HasRoom(o, a) == a <= Due - Exact(o)

\* Mutant: a provider refund is not taken off what a cancellation reverses.
ReversedNever(k, rf) == FALSE
\* The provider refund that a cancellation must not count again.
Reversed(k, rf) ==
  \E x \in refunds : x.source = "provider" /\ x.key = k /\ x.at <= rf.at

Minimum(a, b) == IF a <= b THEN a ELSE b

\* courier_refund_entries: the part of a refund that was the courier's.
Attributed(rf) ==
  IF rf.source = "provider" THEN rf.amount
  ELSE Minimum(rf.amount, PaidSum({k \in PaidOn(rf.order) : ~Reversed(k, rf)}))

Within(at, from, to) == from <= at /\ at < to

\* reconciliation_snapshot: what a window counts, as entries and not yet summed.
Counted(from, to) ==
  {[kind |-> "payment", key |-> k, amount |-> pay[k].amount] :
     k \in {j \in Key : pay[j].status = "paid" /\ Within(pay[j].at, from, to)}}
  \union
  {[kind |-> rf.source, key |-> rf.key, amount |-> Attributed(rf)] :
     rf \in {x \in refunds : Within(x.at, from, to) /\ Attributed(x) > 0}}
  \union
  {[kind |-> "delivery", key |-> o, amount |-> 0] :
     o \in {x \in Order : delivered[x] # 0 /\ Within(delivered[x], from, to)}}

\* Mutant: only deliveries anchor the first window.
UnsettledStartAtDelivery ==
  IF windows # <<>> THEN Max({windows[i].to : i \in 1 .. Len(windows)})
  ELSE LET events == {delivered[o] : o \in {x \in Order : delivered[x] # 0}}
       IN  IF events = {} THEN 0 ELSE Min(events)
\* unsettled_start: the end of the last settlement, else the first payment or delivery.
UnsettledStart ==
  IF windows # <<>> THEN Max({windows[i].to : i \in 1 .. Len(windows)})
  ELSE LET events == {pay[k].at : k \in {j \in Key : pay[j].status = "paid"}}
                       \union {delivered[o] : o \in {x \in Order : delivered[x] # 0}}
       IN  IF events = {} THEN 0 ELSE Min(events)

\* order_refund, as its callers describe it: what an order's tender has not refunded yet.
RefundsOf(o) == {rf \in refunds : rf.order = o}
Refunded(o) == SumFunctionOnSet([rf \in refunds |-> rf.amount], RefundsOf(o))
Refundable(o) == Exact(o) - Refunded(o)

-----------------------------------------------------------------------------
(* Requests and their locks. *)

Free(l) == \A t \in Task : l \notin task[t].held

\* settle: the branches of the payments committed so far, read without a lock.
BranchesPaid == {BranchOf[pay[k].order] : k \in {j \in Key : pay[j].status # "none"}}
InOrder(S) ==
  CHOOSE s \in [1 .. Cardinality(S) -> S] :
    \A i, j \in 1 .. Cardinality(S) : i < j => s[i] < s[j]
\* Mutant: the courier is locked before the branches.
SettleLocksCourierFirst ==
  LET branches == InOrder(BranchesPaid)
  IN  <<CourierLock>> \o [i \in 1 .. Len(branches) |-> BranchLock(branches[i])]
SettleLocks ==
  LET branches == InOrder(BranchesPaid)
  IN  Append([i \in 1 .. Len(branches) |-> BranchLock(branches[i])], CourierLock)

\* The locks of an operation, in the order its code takes them.
Locks(op, k, o) ==
  CASE op = "create" ->
         <<OrderLock(o), BranchLock(BranchOf[o]), CourierLock, PaymentLock(k)>>
    [] op \in {"confirm", "refund"} ->
         <<OrderLock(o), PaymentLock(k), BranchLock(BranchOf[o]), CourierLock>>
    [] op \in {"cancel", "till"} -> <<OrderLock(o), BranchLock(BranchOf[o])>>
    [] op = "deliver" -> <<OrderLock(o), CourierLock>>
    [] op = "fail"    -> <<OrderLock(o), PaymentLock(k)>>
    [] op = "settle"  -> SettleLocks

Records == Cardinality({k \in Key : pay[k] # NoPayment}) + Cardinality(refunds) + Len(windows)
             + Cardinality(till) + Cardinality(canceled)
             + Cardinality({o \in Order : delivered[o] # 0})
             + Cardinality({t \in Task : task[t] # Idle})

Open(t, op, k, o, a) ==
  /\ op \in Op /\ task[t] = Idle /\ Records < MaxRecords
  /\ task' = [task EXCEPT ![t] = [Idle EXCEPT !.op = op, !.key = k, !.order = o, !.amount = a,
                                              !.want = Locks(op, k, o)]]
  /\ UNCHANGED <<now, ledger>>

\* A courier or a gateway reports a collection: any key, order and amount.
Collect(t) == \E k \in Key, o \in Order, a \in Amount : Open(t, "create", k, o, a)

\* A gateway or the courier answers for a row it found, without a lock.
Answer(t) ==
  \E op \in {"confirm", "fail", "refund"}, k \in Key :
    pay[k].status # "none" /\ Open(t, op, k, pay[k].order, 0)

\* The till takes or cancels an order; the courier delivers one.
Work(t) == \E op \in {"cancel", "till", "deliver"}, o \in Order : Open(t, op, Nothing, o, 0)

HandOver(t) ==
  /\ Len(windows) + Cardinality({x \in Task : task[x].op = "settle"}) < MaxWindow
  /\ Open(t, "settle", Nothing, Nothing, 0)

\* What a request has yet to lock when it reads the clock: create_payment reads it
\* before it looks for the payment, the others read it last.
AtStamp(t) == IF task[t].op = "create" THEN <<PaymentLock(task[t].key)>> ELSE <<>>

Acquire(t) ==
  /\ task[t].want # <<>>
  /\ task[t].want = AtStamp(t) => task[t].at # 0
  /\ Free(Head(task[t].want))
  /\ task' = [task EXCEPT ![t].held = @ \union {Head(task[t].want)}, ![t].want = Tail(@)]
  /\ UNCHANGED <<now, ledger>>

\* Mutant: the time is read before the locks are held.
StampEarly(t) ==
  /\ task[t].op # "idle" /\ task[t].at = 0
  /\ task' = [task EXCEPT ![t].at = now]
  /\ UNCHANGED <<now, ledger>>
\* timezone.now(), read with every accounting lock held.
Stamp(t) ==
  /\ task[t].op # "idle" /\ task[t].want = AtStamp(t) /\ task[t].at = 0
  /\ task' = [task EXCEPT ![t].at = now]
  /\ UNCHANGED <<now, ledger>>

\* The process dies, a statement fails, or the client goes away: nothing is written.
Abort(t) ==
  /\ task[t].op # "idle"
  /\ task' = [task EXCEPT ![t] = Idle]
  /\ UNCHANGED <<now, ledger>>

Finishing(t, op) ==
  /\ task[t].op = op /\ task[t].want = <<>> /\ task[t].at # 0
  /\ task' = [task EXCEPT ![t] = Idle]
  /\ now' = now

-----------------------------------------------------------------------------
(* The handlers. *)

\* Mutant: a header is only set by a payment that covers the whole bill.
RecomputedByOne(o, more) == IF more >= Due THEN header \union {o} ELSE header
\* _recompute_order_paid with payment k counted: an order once paid stays paid.
Recomputed(o, more) == IF Exact(o) + more >= Due THEN header \union {o} ELSE header

Land(k, o, a, at) ==
  /\ pay' = [pay EXCEPT ![k] = [status |-> "paid", order |-> o, amount |-> a, at |-> at]]
  /\ header' = Recomputed(o, a)
  /\ UNCHANGED <<till, canceled, delivered, refunds, windows>>

\* create_payment: a new key or a pending row with room; a replay changes nothing.
Lands(k, o, a) ==
  /\ \/ pay[k].status = "none"
     \/ pay[k].status = "pending" /\ pay[k].order = o /\ pay[k].amount = a
  /\ HasRoom(o, a)

Create(t) ==
  LET k == task[t].key  o == task[t].order  a == task[t].amount IN
  /\ Finishing(t, "create")
  /\ IF Lands(k, o, a) THEN Land(k, o, a, task[t].at) ELSE UNCHANGED ledger

\* apply_webhook with a paid word and a row: only a pending row can land.
Confirmable(k) == pay[k].status = "pending"

Confirm(t) ==
  LET k == task[t].key IN
  /\ Finishing(t, "confirm")
  /\ IF Confirmable(k) /\ HasRoom(pay[k].order, pay[k].amount)
     THEN Land(k, pay[k].order, pay[k].amount, task[t].at)
     ELSE UNCHANGED ledger

\* apply_webhook with a failure word.
Fail(t) ==
  LET k == task[t].key IN
  /\ Finishing(t, "fail")
  /\ pay' = IF pay[k].status = "pending" THEN [pay EXCEPT ![k].status = "failed"] ELSE pay
  /\ UNCHANGED <<till, header, canceled, delivered, refunds, windows>>

\* refund_payment: one provider refund per payment, while the order's tender covers it.
AlreadyRefunded(k) == \E rf \in refunds : rf.source = "provider" /\ rf.key = k

RefundPayment(t) ==
  LET k == task[t].key
      rf == [source |-> "provider", key |-> k, order |-> task[t].order,
             amount |-> pay[k].amount, at |-> task[t].at] IN
  /\ Finishing(t, "refund")
  /\ refunds' = IF /\ pay[k].status = "paid" /\ ~AlreadyRefunded(k)
                   /\ pay[k].amount <= Refundable(task[t].order)
                THEN refunds \union {rf} ELSE refunds
  /\ UNCHANGED <<pay, till, header, canceled, delivered, windows>>

\* update_order_status to CANCELED: a paid order is refunded as the dated event it is.
Cancel(t) ==
  LET o == task[t].order
      rf == [source |-> "cancel", key |-> o, order |-> o, amount |-> Refundable(o),
             at |-> task[t].at] IN
  /\ Finishing(t, "cancel")
  /\ canceled' = canceled \union {o}
  /\ refunds' = IF o \in header \ canceled THEN refunds \union {rf} ELSE refunds
  /\ UNCHANGED <<pay, till, header, delivered, windows>>

\* mark_as_paid with one non-cash line for the whole bill.
TakesFull(o) == o \notin header \union canceled

Till(t) ==
  LET o == task[t].order IN
  /\ Finishing(t, "till")
  /\ till' = IF TakesFull(o) THEN till \union {o} ELSE till
  /\ header' = IF TakesFull(o) THEN header \union {o} ELSE header
  /\ UNCHANGED <<pay, canceled, delivered, refunds, windows>>

\* advance_status to DELIVERED.
Deliver(t) ==
  LET o == task[t].order IN
  /\ Finishing(t, "deliver")
  /\ delivered' = IF delivered[o] = 0 THEN [delivered EXCEPT ![o] = task[t].at] ELSE delivered
  /\ UNCHANGED <<pay, till, header, canceled, refunds, windows>>

\* settle: freeze what the window up to this stamp counts.
Settle(t) ==
  /\ Finishing(t, "settle")
  /\ windows' = Append(windows, [from |-> UnsettledStart, to |-> task[t].at,
                                 counted |-> Counted(UnsettledStart, task[t].at)])
  /\ UNCHANGED <<pay, till, header, canceled, delivered, refunds>>

\* A gateway flow opens a row; nothing in this repository does.
GatewayOpens ==
  /\ "confirm" \in Op /\ Records < MaxRecords
  /\ \E k \in Key, o \in Order, a \in Amount :
       /\ pay[k].status = "none"
       /\ pay' = [pay EXCEPT ![k] = [status |-> "pending", order |-> o, amount |-> a, at |-> 0]]
  /\ UNCHANGED <<now, till, header, canceled, delivered, refunds, windows, task>>

Tick ==
  /\ now < MaxClock
  /\ now' = now + 1
  /\ UNCHANGED <<ledger, task>>

Next ==
  \/ Tick
  \/ GatewayOpens
  \/ \E t \in Task :
       \/ Collect(t) \/ Answer(t) \/ Work(t) \/ HandOver(t)
       \/ Acquire(t) \/ Stamp(t) \/ Abort(t)
       \/ Create(t) \/ Confirm(t) \/ Fail(t) \/ RefundPayment(t) \/ Cancel(t)
       \/ Till(t) \/ Deliver(t) \/ Settle(t)

Spec == Init /\ [][Next]_vars

-----------------------------------------------------------------------------
(* Properties. *)

\* A closed window stays what the courier was shown: counting it again from today's
\* rows finds the entries the settlement froze, so no event commits into a window
\* that is closed already (couriers/services.py, settle: "one serial order").  A
\* settlement keeps the promise for the branches it knew when it took its locks.
WindowsAreFinal ==
  \A i \in 1 .. Len(windows) :
    windows[i].counted = Counted(windows[i].from, windows[i].to)

\* Whatever the settlement knew: nothing it has shown the courier is taken back or
\* changes its amount, and only a cancellation may still commit into a closed window.
OnlyCancellationsAreLate ==
  \A i \in 1 .. Len(windows) :
    LET today == Counted(windows[i].from, windows[i].to) IN
    /\ windows[i].counted \subseteq today
    /\ \A e \in today \ windows[i].counted : e.kind = "cancel"

\* Every entry of the ledger that a settlement has reached lies in exactly one window:
\* no money is handed over twice and none falls between two settlements.
Stamps ==
  {pay[k].at : k \in {j \in Key : pay[j].status = "paid"}}
    \union {rf.at : rf \in {x \in refunds : Attributed(x) > 0}}
    \union {delivered[o] : o \in {x \in Order : delivered[x] # 0}}
SettledOnce ==
  windows # <<>> =>
    \A at \in Stamps :
      at < windows[Len(windows)].to =>
        \E i \in 1 .. Len(windows) : \A j \in 1 .. Len(windows) :
          Within(at, windows[j].from, windows[j].to) <=> j = i

\* Couriers alone never collect an order beyond its bill, under any mixture of keys,
\* retries, late callbacks and refunds (couriers/payments.py, _capacity_error).
CourierWithinBill == \A o \in Order : Collected(o) <= Due

\* An order's paid header says what the evidence says: nothing covered is left open for
\* another collection, and nothing uncovered is reported as a sale.
HeaderTellsTruth == \A o \in Order : o \in header <=> Exact(o) >= Due

\* What is charged back to the courier for an order never exceeds what it collected.
ChargedBackOnce ==
  \A o \in Order :
    SumFunctionOnSet([rf \in refunds |-> Attributed(rf)], RefundsOf(o)) <= Collected(o)

\* Requests wait for each other in a circle only if one of them collects under a key that
\* is the payment of another order: it holds the branch and the courier by then, and the
\* refund or the paid callback of that payment takes them after the payment row.
Waits(t, S) ==
  /\ task[t].want # <<>>
  /\ \E u \in S \ {t} : Head(task[t].want) \in task[u].held
ForeignKey(t) ==
  /\ task[t].op = "create" /\ task[t].want = <<PaymentLock(task[t].key)>>
  /\ pay[task[t].key].status # "none" /\ pay[task[t].key].order # task[t].order
CirclesNeedForeignKeys ==
  \A S \in (SUBSET Task) \ {{}} : (\A t \in S : Waits(t, S)) => \E t \in S : ForeignKey(t)
=============================================================================

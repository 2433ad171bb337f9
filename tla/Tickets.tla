------------------------------ MODULE Tickets ------------------------------
(***************************************************************************)
(* The tickets of one till (customers/services/order_service.py and its    *)
(* waiter twin, waiters/services/order_service.py): their lines, their     *)
(* bill, the readiness the kitchen reports line by line, the payment that  *)
(* fills the drawer, the cancellation that empties it, and the shifts of   *)
(* the staff, which must not close over an unpaid ticket.                  *)
(*                                                                         *)
(* A request is a transaction under READ COMMITTED.  It begins, locks its  *)
(* rows one at a time, LOOKS (reads what it decides on), may lock more,    *)
(* the line taps and removals COUNT the lines, and it commits.  Everything *)
(* but a line tap holds the order row from its look to its commit.  A      *)
(* refused request writes nothing and ends as an aborted one.              *)
(***************************************************************************)
EXTENDS Integers, Sequences, FiniteSets, Functions, SequencesExt

CONSTANTS
  Order,     \* tickets
  Line,      \* slots for the lines of a ticket
  Instant,   \* the slots of an instant product; the others hold one kitchen product
  Cashier,   \* users with the role CASHIER or MANAGER
  Waiter,    \* users with the role WAITER, who have shifts of their own
  Task,      \* requests the server works on at once
  Op,        \* the operations requested
  MaxQty     \* bound: units on one line

Staff  == Cashier \union Waiter
Nobody == "nobody"   \* the cashier of a customer's ticket

ASSUME TicketStaff == Nobody \notin Staff
ASSUME TicketConstants ==
  /\ IsFiniteSet(Order) /\ IsFiniteSet(Line)
  /\ Instant \subseteq Line
  /\ MaxQty \in Nat \ {0}
  /\ Op \subseteq {"create", "remote", "add", "set", "remove", "prepare", "ready", "cancel",
                   "pay", "mark", "unmark", "open", "close"}

VARIABLES
  order,     \* Order: status, is_paid, refunded, cashier, bill
  line,      \* OrderItem: quantity, ready (ready_at), live (not is_deleted)
  drawer,    \* the cash register
  shift,     \* shift[u]: has u an ACTIVE shift
  task       \* the open transactions

rows == <<order, line, drawer, shift>>
vars == <<order, line, drawer, shift, task>>

Status == {"NONE", "PREPARING", "READY", "CANCELED"}
Ticket == [status : Status, deleted : BOOLEAN, paid : BOOLEAN, refunded : BOOLEAN,
           cashier : Staff \union {Nobody}, total : Nat, discount : Nat, cash : Nat]
Item   == [qty : Nat, ready : BOOLEAN, live : BOOLEAN]
NoOrder  == "none"
NoTicket == [status |-> "NONE", deleted |-> FALSE, paid |-> FALSE, refunded |-> FALSE,
             cashier |-> Nobody, total |-> 0, discount |-> 0, cash |-> 0]
NoItem   == [qty |-> 0, ready |-> FALSE, live |-> FALSE]

OrderLock(o)   == <<"order", o>>
LineLock(o, l) == <<"line", <<o, l>>>>
ShiftLock(u)   == <<"shift", u>>
Lock == {OrderLock(o) : o \in Order} \union {LineLock(o, l) : o \in Order, l \in Line}
          \union {ShiftLock(u) : u \in Staff}

Request == [op : Op \union {"idle"}, by : Staff \union {Nobody}, stage : {"begun", "looked", "counted"},
            order : Order \union {NoOrder}, lines : SUBSET Line, qty : Nat,
            seen : Status, all : BOOLEAN, want : Seq(Lock), held : SUBSET Lock]
Idle == [op |-> "idle", by |-> Nobody, stage |-> "begun", order |-> NoOrder, lines |-> {}, qty |-> 0,
         seen |-> "NONE", all |-> FALSE, want |-> <<>>, held |-> {}]

TypeOK ==
  /\ order \in [Order -> Ticket]
  /\ line \in [Order -> [Line -> Item]]
  /\ drawer \in Int
  /\ shift \in [Staff -> BOOLEAN]
  /\ task \in [Task -> Request]

Init ==
  /\ order = [o \in Order |-> NoTicket]
  /\ line = [o \in Order |-> [l \in Line |-> NoItem]]
  /\ drawer = 0
  /\ shift \in [Staff -> BOOLEAN]
  /\ task = [t \in Task |-> Idle]

-----------------------------------------------------------------------------
(* What the rows say.  A unit of any product costs 1. *)

Live(o) == {l \in Line : line[o][l].live}
Unready(o) == {l \in Live(o) : ~line[o][l].ready}

\* _recalculate_total: the sum over the live lines.
BillOf(items) == SumFunctionOnSet([l \in Line |-> items[l].qty], {l \in Line : items[l].live})

AllReady(items) ==
  LET live == {l \in Line : items[l].live}
  IN  live # {} /\ \A l \in live : items[l].ready

Exists(o) == order[o].status # "NONE" /\ ~order[o].deleted
\* Mutant: a paid ticket can be edited.
EditablePaid(o) == Exists(o) /\ order[o].status = "PREPARING"
\* The guards shared by the edits of a ticket.
Editable(o) == Exists(o) /\ order[o].status = "PREPARING" /\ ~order[o].paid
\* Mutant: a paid ticket is taken again.
PayableAgain(o) == Exists(o) /\ order[o].status # "CANCELED"
Payable(o) == Exists(o) /\ order[o].status # "CANCELED" /\ ~order[o].paid

\* ShiftService.end_shift: the unpaid tickets that keep a shift open.
Blocking(u) == {o \in Order : Payable(o) /\ order[o].cashier = u}

-----------------------------------------------------------------------------
(* Requests and their locks. *)

\* A row that no other transaction has locked.
Free(t, k) == \A u \in Task \ {t} : k \notin task[u].held

Creates == {"create", "remote"}
Taps    == {"mark", "unmark"}
OnLine  == Creates \union Taps \union {"add", "set", "remove"}
OnShift == {"open", "close"}

\* Who sends it, where the code makes a difference by that: a ticket without a cashier comes
\* from a customer, or from a user of another role at the till.
Senders(op) ==
  CASE op = "create" -> Cashier
    [] op = "remote" -> Waiter \union {Nobody}
    [] op \in {"pay", "cancel"} \union OnShift -> Staff
    [] OTHER -> {Nobody}

\* Mutant: a ticket is created with a look at the shift and no lock on it.
FirstLocksUnguarded(op, o, u) ==
  CASE op \in Creates \union Taps -> <<>>
    [] op \in OnShift -> <<ShiftLock(u)>>
    [] OTHER -> <<OrderLock(o)>>
\* Mutant: a removal locks the lines before their ticket.
FirstLocksLinesFirst(op, o, u) ==
  CASE op \in {"remote"} \union Taps -> <<>>
    [] op \in {"create"} \union OnShift -> <<ShiftLock(u)>>
    [] op = "remove" -> Append(SetToSeq({LineLock(o, l) : l \in Live(o)}), OrderLock(o))
    [] OTHER -> <<OrderLock(o)>>
\* The row a request locks first; a line tap reads its ticket without a lock, and the waiter
\* app and a customer create theirs without a look at any shift.
FirstLocks(op, o, u) ==
  CASE op \in {"remote"} \union Taps -> <<>>
    [] op \in {"create"} \union OnShift -> <<ShiftLock(u)>>
    [] OTHER -> <<OrderLock(o)>>

\* A client sends a request; a new ticket gets an identifier of its own.
Begin(t) ==
  \E op \in Op, u \in Staff \union {Nobody}, o \in Order, L \in SUBSET Line, q \in 1 .. MaxQty :
    /\ task[t] = Idle /\ u \in Senders(op)
    /\ op \in OnLine <=> L # {}
    /\ op \notin Creates => Cardinality(L) <= 1
    /\ op \in Creates =>
         order[o].status = "NONE" /\ \A v \in Task : task[v].op \in Creates => task[v].order # o
    /\ op \notin Creates \union OnShift => order[o].status # "NONE"
    /\ task' = [task EXCEPT ![t] = [Idle EXCEPT
                  !.op = op, !.by = u, !.want = FirstLocks(op, o, u),
                  !.order = IF op \in OnShift THEN NoOrder ELSE o,
                  !.lines = L,
                  !.qty = IF op \in Creates \union {"add", "set"} THEN q ELSE 0]]
    /\ UNCHANGED rows

Acquire(t) ==
  /\ task[t].want # <<>>
  /\ Free(t, Head(task[t].want))
  /\ task' = [task EXCEPT ![t].held = @ \union {Head(task[t].want)}, ![t].want = Tail(@)]
  /\ UNCHANGED rows

\* The request is refused, a stock change fails, the process dies or a deadlock is broken.
Abort(t) ==
  /\ task[t].op # "idle"
  /\ task' = [task EXCEPT ![t] = Idle]
  /\ UNCHANGED rows

-----------------------------------------------------------------------------
(* The looks: the guards of the handlers, and the lines each one writes. *)

\* An addition goes to the unready line of its product, else to a line of its own.
Target(o, l, q) ==
  LET same == IF l \in Instant THEN Instant ELSE Line \ Instant
      open == {x \in Unready(o) : x \in same}
  IN  IF l \notin Instant /\ open # {}
      THEN {x \in open : line[o][x].qty + q <= MaxQty}
      ELSE {x \in same : line[o][x].qty = 0}

\* The lines that mark_order_ready, and mark_ready of the waiter app, stamp with their ticket.
Readied(o) == Unready(o)

Standing(o) == Exists(o) /\ order[o].status # "CANCELED"

Allowed(t, L) ==
  LET op == task[t].op  o == task[t].order  own == task[t].lines IN
  \/ op = "create" /\ shift[task[t].by] /\ L = own
  \/ op = "remote" /\ L = own
  \/ op = "add" /\ Editable(o) /\ \E l \in own, x \in Line : x \in Target(o, l, task[t].qty) /\ L = {x}
  \/ op \in {"set", "remove"} /\ Editable(o) /\ own \subseteq Live(o) /\ L = own
  \/ op \in {"prepare", "cancel"} /\ Standing(o) /\ L = {}
  \/ op = "ready" /\ Standing(o) /\ L = Readied(o)
  \/ op = "pay" /\ Payable(o) /\ L = {}
  \/ op = "mark" /\ Standing(o) /\ order[o].status # "READY" /\ own \subseteq Unready(o) /\ L = own
  \/ op = "unmark" /\ Standing(o) /\ L = own
  \/ op \in OnShift /\ L = {}

\* The rest of the locks: the lines as they are written, the shift under the money.
MoreLocks(t, L) ==
  LET o == task[t].order  op == task[t].op IN
  IF op = "pay" \/ (op = "cancel" /\ order[o].paid) THEN <<ShiftLock(task[t].by)>>
  ELSE IF op \in Creates THEN <<>>
  ELSE SetToSeq({LineLock(o, l) : l \in L})

Look(t) ==
  /\ task[t].op # "idle" /\ task[t].stage = "begun" /\ task[t].want = <<>>
  /\ \E L \in SUBSET Line :
       /\ Allowed(t, L)
       /\ task' = [task EXCEPT
            ![t].stage = "looked", ![t].lines = L, ![t].want = MoreLocks(t, L),
            ![t].seen = IF task[t].op \in OnShift THEN "NONE" ELSE order[task[t].order].status]
  /\ UNCHANGED rows

\* What a request writes to its lines.
Stamped(items, L, ready) ==
  [l \in Line |-> IF l \in L THEN [items[l] EXCEPT !.ready = ready] ELSE items[l]]
Without(items, L) ==
  [l \in Line |-> IF l \in L THEN [items[l] EXCEPT !.live = FALSE] ELSE items[l]]

\* mark_item_ready and remove_item count the lines, their own change in;
\* unmark_item_ready finds its line under the lock.
Count(t) ==
  LET op == task[t].op  o == task[t].order  L == task[t].lines
      items == CASE op = "mark"   -> Stamped(line[o], L, TRUE)
                 [] op = "remove" -> Without(line[o], L)
                 [] OTHER         -> line[o]
      all == AllReady(items)
  IN
  /\ op \in {"mark", "unmark", "remove"} /\ task[t].stage = "looked" /\ task[t].want = <<>>
  /\ op = "unmark" => \A l \in L : line[o][l].ready
  /\ task' = [task EXCEPT
       ![t].stage = "counted", ![t].all = all,
       ![t].want = IF (op = "mark" /\ all) \/ (op = "unmark" /\ task[t].seen = "READY")
                   THEN <<OrderLock(o)>> ELSE <<>>]
  /\ UNCHANGED rows

-----------------------------------------------------------------------------
(* The commits. *)

Committing(t, op, stage) ==
  /\ task[t].op = op /\ task[t].stage = stage /\ task[t].want = <<>>
  /\ task' = [task EXCEPT ![t] = Idle]

\* A ticket of instant products only is ready at birth.
Born(t) ==
  LET o == task[t].order  L == task[t].lines  instant == L \subseteq Instant IN
  /\ order' = [order EXCEPT ![o] = [NoTicket EXCEPT
       !.status = IF instant THEN "READY" ELSE "PREPARING",
       !.cashier = task[t].by, !.total = task[t].qty * Cardinality(L)]]
  /\ line' = [line EXCEPT ![o] = [l \in Line |->
       IF l \in L THEN [qty |-> task[t].qty, ready |-> l \in Instant, live |-> TRUE] ELSE NoItem]]
  /\ UNCHANGED <<drawer, shift>>

\* create_order of the till, by a cashier on shift.
Create(t) == Committing(t, "create", "looked") /\ Born(t)

\* create_order of the waiter app, whose cashier is the waiter, and of a customer, with none.
CreateRemote(t) == Committing(t, "remote", "looked") /\ Born(t)

\* Mutant: the bill is taken before the edit.
RebilledBefore(o, items) == [order EXCEPT ![o].total = BillOf(line[o])]
Rebilled(o, items) == [order EXCEPT ![o].total = BillOf(items)]

\* add_item_to_order: more of an open line, or a new line.
AddItem(t) ==
  LET o == task[t].order
      items == [l \in Line |->
        IF l \notin task[t].lines THEN line[o][l]
        ELSE IF line[o][l].qty > 0 THEN [line[o][l] EXCEPT !.qty = @ + task[t].qty]
        ELSE [qty |-> task[t].qty, ready |-> l \in Instant, live |-> TRUE]] IN
  /\ Committing(t, "add", "looked")
  /\ line' = [line EXCEPT ![o] = items]
  /\ order' = Rebilled(o, items)
  /\ UNCHANGED <<drawer, shift>>

\* update_order_item.
SetQuantity(t) ==
  LET o == task[t].order  L == task[t].lines
      items == [l \in Line |-> IF l \in L THEN [line[o][l] EXCEPT !.qty = task[t].qty] ELSE line[o][l]] IN
  /\ Committing(t, "set", "looked")
  /\ line' = [line EXCEPT ![o] = items]
  /\ order' = Rebilled(o, items)
  /\ UNCHANGED <<drawer, shift>>

\* The last line takes its ticket with it.
Removes(t, readies) ==
  LET o == task[t].order  items == Without(line[o], task[t].lines) IN
  /\ Committing(t, "remove", "counted")
  /\ line' = [line EXCEPT ![o] = items]
  /\ order' = IF \A l \in Line : ~items[l].live
              THEN [order EXCEPT ![o].deleted = TRUE]
              ELSE [Rebilled(o, items) EXCEPT ![o].status = IF readies THEN "READY" ELSE @]
  /\ UNCHANGED <<drawer, shift>>

\* remove_item_from_order of the till readies a ticket whose other lines are ready.
RemoveItem(t) == Removes(t, task[t].all)

\* remove_item of the waiter app does not.
RemoveItemByWaiter(t) == Removes(t, FALSE)

\* update_order_status back to PREPARING: the lines keep what they are.
Prepare(t) ==
  /\ Committing(t, "prepare", "looked")
  /\ order' = [order EXCEPT ![task[t].order].status = "PREPARING"]
  /\ UNCHANGED <<line, drawer, shift>>

\* update_order_status to READY.
SetReady(t) ==
  LET o == task[t].order IN
  /\ Committing(t, "ready", "looked")
  /\ order' = [order EXCEPT ![o].status = "READY"]
  /\ line' = [line EXCEPT ![o] = Stamped(@, task[t].lines, TRUE)]
  /\ UNCHANGED <<drawer, shift>>

\* mark_order_ready of the till and mark_ready of the waiter app: once.
MarkReady(t) == task[t].seen # "READY" /\ SetReady(t)

\* record_paid_order_refund: one dated reversal, on the open shift of the sender.
Refund(o) == order[o].paid /\ ~order[o].refunded

\* update_order_status to CANCELED.
Cancel(t) ==
  LET o == task[t].order IN
  /\ Committing(t, "cancel", "looked")
  /\ order[o].paid => shift[task[t].by]
  /\ order' = [order EXCEPT ![o].status = "CANCELED", ![o].refunded = @ \/ Refund(o)]
  /\ drawer' = IF Refund(o) THEN drawer - order[o].cash ELSE drawer
  /\ UNCHANGED <<line, shift>>

\* mark_as_paid: staff on shift take the bill less a discount, partly in cash, and the ticket
\* with it.
Pay(t) ==
  LET o == task[t].order IN
  /\ Committing(t, "pay", "looked")
  /\ shift[task[t].by]
  /\ \E d \in 0 .. order[o].total : \E c \in 0 .. order[o].total - d :
       /\ order' = [order EXCEPT ![o].paid = TRUE, ![o].cashier = task[t].by, ![o].discount = d,
                                 ![o].total = @ - d, ![o].cash = c]
       /\ drawer' = drawer + c
  /\ UNCHANGED <<line, shift>>

\* mark_item_ready: the line, and its ticket when that was the last.
MarkItem(t) ==
  LET o == task[t].order IN
  /\ Committing(t, "mark", "counted")
  /\ line' = [line EXCEPT ![o] = Stamped(@, task[t].lines, TRUE)]
  /\ order' = [order EXCEPT ![o].status = IF task[t].all THEN "READY" ELSE @]
  /\ UNCHANGED <<drawer, shift>>

\* unmark_item_ready: the line, and its ticket when it was seen ready.
UnmarkItem(t) ==
  LET o == task[t].order IN
  /\ Committing(t, "unmark", "counted")
  /\ line' = [line EXCEPT ![o] = Stamped(@, task[t].lines, FALSE)]
  /\ order' = [order EXCEPT ![o].status = IF task[t].seen = "READY" THEN "PREPARING" ELSE @]
  /\ UNCHANGED <<drawer, shift>>

\* start_shift, or a cashier's login; end_shift, unless unpaid tickets remain.
OpenShift(t) ==
  /\ Committing(t, "open", "looked")
  /\ shift' = [shift EXCEPT ![task[t].by] = TRUE]
  /\ UNCHANGED <<order, line, drawer>>

CloseShift(t) ==
  /\ Committing(t, "close", "looked")
  /\ Blocking(task[t].by) = {}
  /\ shift' = [shift EXCEPT ![task[t].by] = FALSE]
  /\ UNCHANGED <<order, line, drawer>>

Next ==
  \E t \in Task :
    \/ Begin(t) \/ Acquire(t) \/ Look(t) \/ Count(t) \/ Abort(t)
    \/ Create(t) \/ CreateRemote(t) \/ AddItem(t) \/ SetQuantity(t)
    \/ RemoveItem(t) \/ RemoveItemByWaiter(t)
    \/ Prepare(t) \/ SetReady(t) \/ MarkReady(t) \/ Cancel(t) \/ Pay(t)
    \/ MarkItem(t) \/ UnmarkItem(t) \/ OpenShift(t) \/ CloseShift(t)

Spec == Init /\ [][Next]_vars

-----------------------------------------------------------------------------
(* Properties. *)

\* The bill of a ticket is the sum of its live lines less the discount it was paid with,
\* whatever edits race each other ("keeps the invariant total_amount == subtotal -
\* discount_amount", mark_as_paid).
BillMatchesLines ==
  \A o \in Order : Exists(o) => order[o].total + order[o].discount = BillOf(line[o])

\* Once a ticket is paid, its lines and its bill are what was paid for.
PaidBillFrozen ==
  [][\A o \in Order : order[o].paid =>
       /\ order'[o].paid /\ order'[o].total = order[o].total
       /\ BillOf(line'[o]) = BillOf(line[o])]_vars

\* The drawer holds the cash of every sale once, less what cancellations gave back:
\* no retry, no second till and no race of payment and cancellation counts one twice.
DrawerIsSales ==
  drawer = SumFunctionOnSet([o \in Order |-> order[o].cash],
                            {o \in Order : order[o].paid /\ ~order[o].refunded})

\* No unpaid ticket is left behind by a closed shift (create_order: "this re-check observes
\* ENDED and refuses the orphan"), but for two ways in: the waiter app creates a ticket of
\* its waiter off shift, and a cancelled ticket comes back.
Orphan(o) == Payable(o) /\ order[o].cashier \in Staff /\ ~shift[order[o].cashier]
ShiftsCloseClean ==
  [][\A o \in Order : ~Orphan(o) /\ Orphan(o)' =>
       \/ order[o].status = "NONE" /\ order'[o].cashier \in Waiter
       \/ order[o].status = "CANCELED"]_vars

\* Requests wait for each other in a circle only when a line tap, which locks a line
\* before its ticket, is one of them: all others take ticket, lines and shift in one order.
Waits(t, S) ==
  /\ task[t].want # <<>>
  /\ \E u \in S \ {t} : Head(task[t].want) \in task[u].held
OnlyTapsWaitInCircles ==
  \A S \in (SUBSET Task) \ {{}} :
    (\A t \in S : Waits(t, S)) => \E t \in S : task[t].op \in Taps

\* "The kitchen treats CANCELLED as terminal" (update_order_status).
CanceledIsTerminal ==
  [][\A o \in Order : order[o].status = "CANCELED" => order'[o].status = "CANCELED"]_vars

-----------------------------------------------------------------------------
(* The inductive invariants of the safety properties. *)

OnOrder == {"add", "set", "remove", "prepare", "ready", "cancel", "pay"}
OrderLines(o) == {LineLock(o, l) : l \in Line}
Wanted(k) == {k.want[i] : i \in 1 .. Len(k.want)}

\* A row is locked by one transaction.
LocksExclude == \A t, u \in Task : t # u => task[t].held \intersect task[u].held = {}

\* All but a tap lock their ticket, then its lines or the shift of their sender; or that
\* shift alone.
Ordered(k) ==
  /\ k.op \in OnOrder =>
       \/ k.stage = "begun" /\ k.want = <<OrderLock(k.order)>> /\ k.held = {}
       \/ k.stage = "begun" /\ k.want = <<>> /\ k.held = {OrderLock(k.order)}
       \/ /\ k.stage # "begun" /\ OrderLock(k.order) \in k.held
          /\ k.held \subseteq {OrderLock(k.order), ShiftLock(k.by)} \union OrderLines(k.order)
          /\ \/ Wanted(k) \subseteq OrderLines(k.order) /\ (ShiftLock(k.by) \in k.held => k.want = <<>>)
             \/ k.want = <<ShiftLock(k.by)>> /\ ShiftLock(k.by) \notin k.held
  /\ k.op \in {"create", "open", "close"} =>
       \/ k.stage = "begun" /\ k.want = <<ShiftLock(k.by)>> /\ k.held = {}
       \/ k.want = <<>> /\ k.held = {ShiftLock(k.by)}
  /\ k.op \in {"remote", "idle"} => k.want = <<>> /\ k.held = {}
LocksInOrder == \A t \in Task : Ordered(task[t])

\* A request that needs a shift or names a cashier has one of the users who can send it.
Sent == \A t \in Task : task[t].op # "idle" => task[t].by \in Senders(task[t].op)

\* A request works on a ticket that is there, or brings it about alone.
OwnTickets ==
  /\ \A t \in Task : task[t].op \notin OnShift \union {"idle"} =>
       /\ task[t].order \in Order
       /\ order[task[t].order].status = "NONE" <=> task[t].op \in Creates
  /\ \A t, u \in Task :
       t # u /\ task[t].op \in Creates /\ task[u].op \in Creates => task[t].order # task[u].order

\* What was seen under the lock still holds at the commit.
Unpaid(o) == ~order[o].paid /\ ~order[o].refunded /\ order[o].discount = 0
LooksHold ==
  /\ \A o \in Order : order[o].status = "NONE" \/ ~order[o].paid => Unpaid(o)
  /\ \A t \in Task : task[t].op \in {"add", "set", "remove", "pay"} /\ task[t].stage # "begun" =>
       Unpaid(task[t].order)
  /\ \A t \in Task : task[t].op = "create" /\ task[t].stage # "begun" => shift[task[t].by]

TicketInv == LocksExclude /\ LocksInOrder /\ Sent /\ OwnTickets /\ LooksHold
=============================================================================

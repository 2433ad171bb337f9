--------------------------- MODULE CourierDispatch ---------------------------
(***************************************************************************)
(* Courier dispatch (couriers/services.py, couriers/signals.py): the one   *)
(* DeliveryAssignment row of a delivery order, offered by staff, answered  *)
(* and advanced by the courier, and coupled to Order.status, which the     *)
(* kitchen and the tills move, and to the legacy Order.delivery_person,    *)
(* which the sync engine may replay.                                       *)
(*                                                                         *)
(* Every writer locks Order, then DeliveryAssignment, then Courier, so its *)
(* transaction is one step.  What a courier's HTTP view reads before it    *)
(* takes the locks is a step of its own.                                   *)
(***************************************************************************)
EXTENDS Naturals, FiniteSets

CONSTANTS
  Order,      \* delivery orders
  Courier,    \* couriers
  Nobody,     \* a null courier
  Branch,     \* branches
  BranchOf,   \* BranchOf[x]: the branch of order or courier x
  Window,     \* ACCEPT_WINDOW_SECONDS, in ticks
  MaxPending  \* bound: courier requests the server works on at once

ASSUME DispatchNames    == Nobody \notin Courier
ASSUME DispatchBranches == BranchOf \in [Order \union Courier -> Branch]
ASSUME DispatchWindow   == Window \in Nat \ {0}

VARIABLES
  status,    \* Order.status
  legacy,    \* orders with a delivery_person
  step,      \* DeliveryAssignment.step, NONE without a row
  courier,   \* DeliveryAssignment.courier
  accepted,  \* who set accepted_at, Nobody while it is null
  offer,     \* ticks until expires_at has passed
  active,    \* couriers whose user is ACTIVE
  pending    \* courier requests that have read their assignment

vars == <<status, legacy, step, courier, accepted, offer, active, pending>>

Settable  == {"PICKED_UP", "ON_WAY", "DELIVERED"}      \* COURIER_SETTABLE
Protected == {"PICKED_UP", "ON_WAY", "DELIVERED"}      \* _PROTECTED_ASSIGNMENT_STEPS
Busy      == {"ASSIGNED", "READY", "PICKED_UP", "ON_WAY"}
Awaiting  == {"ASSIGNED", "READY"}
Step      == Busy \union {"NONE", "DELIVERED", "DECLINED"}
Live(st)  == st \notin {"NONE", "DECLINED"}

Request == [op : {"accept", "decline"} \union Settable, who : Courier, order : Order]

TypeOK ==
  /\ status \in [Order -> {"PREPARING", "READY", "COMPLETED", "CANCELED"}]
  /\ legacy \subseteq Order
  /\ step \in [Order -> Step]
  /\ courier \in [Order -> Courier \union {Nobody}]
  /\ accepted \in [Order -> Courier \union {Nobody}]
  /\ offer \in [Order -> 0 .. Window]
  /\ active \subseteq Courier
  /\ pending \subseteq Request

Init ==
  /\ status \in [Order -> {"PREPARING", "READY"}]
  /\ legacy \in SUBSET Order
  /\ step = [o \in Order |-> "NONE"]
  /\ courier = [o \in Order |-> Nobody]
  /\ accepted = [o \in Order |-> Nobody]
  /\ offer = [o \in Order |-> 0]
  /\ active = Courier
  /\ pending = {}

-----------------------------------------------------------------------------
(* Dispatch by POS staff, who act for one branch or for all                *)

\* Mutant: a courier may have several deliveries.
HasOtherDeliveryUnchecked(c, o) == FALSE
HasOtherDelivery(c, o) == \E p \in Order \ {o} : courier[p] = c /\ step[p] \in Busy

\* An at-least-once retry of the assignment in force.
Retry(o, c) == Live(step[o]) /\ courier[o] = c

\* A courier who already has the order keeps everything; only the stale
\* legacy projection goes.
Assign(o, c, scope) ==
  /\ {BranchOf[o], BranchOf[c]} \subseteq scope
  /\ c \in active
  /\ ~ HasOtherDelivery(c, o)
  /\ status[o] # "CANCELED"
  /\ BranchOf[o] = BranchOf[c]
  /\ \/ /\ Retry(o, c)
        /\ UNCHANGED <<step, courier, accepted, offer>>
     \/ /\ ~ Retry(o, c)
        /\ status[o] # "COMPLETED"
        /\ step[o] \notin Protected
        /\ step' = [step EXCEPT ![o] = IF status[o] = "READY" THEN "READY" ELSE "ASSIGNED"]
        /\ courier' = [courier EXCEPT ![o] = c]
        /\ accepted' = [accepted EXCEPT ![o] = Nobody]
        /\ offer' = [offer EXCEPT ![o] = Window]
  /\ legacy' = legacy \ {o}
  /\ UNCHANGED <<status, active, pending>>

\* The DECLINED row keeps its last courier.
Unassign(o, scope) ==
  /\ BranchOf[o] \in scope
  /\ Live(step[o])
  /\ step[o] \notin Protected
  /\ step' = [step EXCEPT ![o] = "DECLINED"]
  /\ accepted' = [accepted EXCEPT ![o] = Nobody]
  /\ offer' = [offer EXCEPT ![o] = 0]
  /\ UNCHANGED <<status, legacy, courier, active, pending>>

\* Suspended and restored by an administrator (external).
Suspend(c) ==
  /\ active' = IF c \in active THEN active \ {c} ELSE active \union {c}
  /\ UNCHANGED <<status, legacy, step, courier, accepted, offer, pending>>

-----------------------------------------------------------------------------
(* The courier's app: the view reads the assignment of the courier without *)
(* a lock, the service compares courier_id again under the locks.          *)

\* Mutant: what the view read is not checked again.
OwnsOnceDid(q) == TRUE
OwnsStill(q) == courier[q.order] = q.who

Ask(q) ==
  /\ Cardinality(pending) < MaxPending
  /\ q.who \in active
  /\ courier[q.order] = q.who
  /\ pending' = pending \union {q}
  /\ UNCHANGED <<status, legacy, step, courier, accepted, offer, active>>

Accept(q) ==
  /\ q.op = "accept"
  /\ OwnsStill(q)
  /\ offer[q.order] > 0
  /\ step[q.order] \in Awaiting
  /\ accepted' = [accepted EXCEPT ![q.order] = q.who]
  /\ pending' = pending \ {q}
  /\ UNCHANGED <<status, legacy, step, courier, offer, active>>

Decline(q) ==
  /\ q.op = "decline"
  /\ OwnsStill(q)
  /\ step[q.order] \in Awaiting
  /\ step' = [step EXCEPT ![q.order] = "DECLINED"]
  /\ pending' = pending \ {q}
  /\ UNCHANGED <<status, legacy, courier, accepted, offer, active>>

\* DeliveryAssignment.can_advance_to: strictly ahead along FORWARD.
Forward == <<"ASSIGNED", "READY", "PICKED_UP", "ON_WAY", "DELIVERED">>
\* Mutant: steps may go back or leave the path.
CanAdvanceAnyhow(from, to) == from # "NONE" /\ from # to
CanAdvance(from, to) ==
  \E i, j \in 1 .. 5 : Forward[i] = from /\ Forward[j] = to /\ i < j

AdvanceStatus(q) ==
  /\ q.op \in Settable
  /\ OwnsStill(q)
  /\ CanAdvance(step[q.order], q.op)
  /\ step' = [step EXCEPT ![q.order] = q.op]
  /\ status' = [status EXCEPT ![q.order] = IF q.op = "DELIVERED" THEN "COMPLETED" ELSE @]
  /\ pending' = pending \ {q}
  /\ UNCHANGED <<legacy, courier, accepted, offer, active>>

\* 403 or 409, or the connection is lost.
Refuse(q) ==
  /\ pending' = pending \ {q}
  /\ UNCHANGED <<status, legacy, step, courier, accepted, offer, active>>

-----------------------------------------------------------------------------
(* Saves of the Order row, with the post_save receivers they run           *)

\* mark_ready, called by _order_ready_bridge.
\* Mutant: an accepted order is not told that it is ready.
BridgedUnlessAccepted(o, st) ==
  IF st = "READY" /\ step[o] = "ASSIGNED" /\ accepted[o] = Nobody
  THEN [step EXCEPT ![o] = "READY"] ELSE step
Bridged(o, st) ==
  IF st = "READY" /\ step[o] = "ASSIGNED" THEN [step EXCEPT ![o] = "READY"] ELSE step

\* _clear_conflicting_legacy_courier
\* Mutant: a picked up order may get a legacy courier.
GuardedIfOffered(o, people) == IF step[o] \in Awaiting THEN people \ {o} ELSE people
Guarded(o, people) == IF Live(step[o]) THEN people \ {o} ELSE people

SaveOrder(o, st, people) ==
  /\ status' = [status EXCEPT ![o] = st]
  /\ legacy' = Guarded(o, people)
  /\ step' = Bridged(o, st)
  /\ UNCHANGED <<courier, accepted, offer, active, pending>>

\* mark_order_ready of the till, mark_ready of the waiter
MarkOrderReady(o) ==
  /\ status[o] \notin {"CANCELED", "READY"}
  /\ SaveOrder(o, "READY", legacy)

\* update_order_status of the till, cancel_order of the waiter
UpdateOrderStatus(o, st) ==
  /\ status[o] # "CANCELED"
  /\ SaveOrder(o, st, legacy)

\* CustomerOrderService.assign_courier and update_order_details
AssignLegacy(o) ==
  /\ status[o] # "CANCELED"
  /\ ~ Live(step[o])
  /\ SaveOrder(o, status[o], legacy \union {o})

\* The sync engine replays an order with its delivery_person (external).
SyncLegacy(o) == SaveOrder(o, status[o], legacy \union {o})

Remains(n) == IF n > 0 THEN n - 1 ELSE 0

Tick ==
  /\ offer' = [o \in Order |-> Remains(offer[o])]
  /\ UNCHANGED <<status, legacy, step, courier, accepted, active, pending>>

-----------------------------------------------------------------------------
Scope == {{b} : b \in Branch} \union {Branch}

Next ==
  \/ \E o \in Order, scope \in Scope :
       Unassign(o, scope) \/ \E c \in Courier : Assign(o, c, scope)
  \/ \E c \in Courier : Suspend(c)
  \/ \E q \in Request : Ask(q)
  \/ \E q \in pending : Accept(q) \/ Decline(q) \/ AdvanceStatus(q) \/ Refuse(q)
  \/ \E o \in Order : MarkOrderReady(o) \/ AssignLegacy(o) \/ SyncLegacy(o)
  \/ \E o \in Order, st \in {"PREPARING", "READY", "CANCELED"} : UpdateOrderStatus(o, st)
  \/ Tick

Spec == Init /\ [][Next]_vars

-----------------------------------------------------------------------------
(* Properties *)

\* A courier never has two live deliveries, whatever tills assign at once
\* (assign, the check under the courier's lock).
OneLiveDelivery ==
  \A o, p \in Order :
    (courier[o] = courier[p] /\ step[o] \in Busy /\ step[p] \in Busy) => o = p

\* DeliveryAssignment is the sole dispatch authority: while it is live no
\* legacy courier stays on the order, whatever the sync engine replays
\* (_clear_conflicting_legacy_courier).
OneDispatchAuthority == \A o \in legacy : ~ Live(step[o])

\* A courier who has the order is never left believing that the kitchen is
\* still preparing what is ready (_order_ready_bridge, assign).
ReadyIsForwarded == \A o \in Order : status[o] = "READY" => step[o] # "ASSIGNED"

\* An acceptance belongs to the courier who has the order, never to one it was
\* taken from (accept, assign).
AcceptanceIsCurrent ==
  \A o \in Order : (Live(step[o]) /\ accepted[o] # Nobody) => accepted[o] = courier[o]

\* A live row has a courier.
LiveHasCourier == \A o \in Order : Live(step[o]) => courier[o] \in Courier

DispatchInv == /\ OneLiveDelivery /\ OneDispatchAuthority /\ ReadyIsForwarded
               /\ AcceptanceIsCurrent /\ LiveHasCourier

\* What the row amounts to, seen from outside.
PhaseOf(st) ==
  CASE ~ Live(st) -> "free"
    [] st \in Awaiting -> "offered"
    [] st \in {"PICKED_UP", "ON_WAY"} -> "carried"
    [] st = "DELIVERED" -> "delivered"

D == INSTANCE Delivery WITH
       phase   <- [o \in Order |-> PhaseOf(step[o])],
       carrier <- [o \in Order |-> IF Live(step[o]) THEN courier[o] ELSE Nobody]

\* Retries, late answers, reassignments and kitchen events implement the
\* promised hand-over: see Delivery.
HandOver == D!DSpec
=============================================================================

------------------------ MODULE CourierDispatchProofs ------------------------
(***************************************************************************)
(* For any number of orders, couriers, branches and requests: the types,   *)
(* the dispatch invariants, and that dispatch implements Delivery.         *)
(***************************************************************************)
EXTENDS CourierDispatch, TLAPS

USE DispatchNames, DispatchWindow
USE DEF Settable, Protected, Busy, Awaiting, Step, Live

LEMMA DispatchTypeStep == TypeOK /\ [Next]_vars => TypeOK'
<1> SUFFICES ASSUME TypeOK, [Next]_vars PROVE TypeOK'
  OBVIOUS
<1> USE DEF TypeOK
<1>1. ASSUME NEW o \in Order, NEW c \in Courier, NEW scope, Assign(o, c, scope) PROVE TypeOK'
  BY <1>1 DEF Assign
<1>2. ASSUME NEW o \in Order, NEW scope, Unassign(o, scope) PROVE TypeOK'
  BY <1>2 DEF Unassign
<1>3. ASSUME NEW c \in Courier, Suspend(c) PROVE TypeOK'
  BY <1>3 DEF Suspend
<1>4. ASSUME NEW q \in Request, Ask(q) PROVE TypeOK'
  BY <1>4 DEF Ask
<1>5. ASSUME NEW q \in pending, Accept(q) \/ Decline(q) \/ AdvanceStatus(q) \/ Refuse(q) PROVE TypeOK'
  <2>1. q \in Request /\ q.order \in Order /\ q.who \in Courier
    BY DEF Request
  <2>2. CASE Accept(q)
    BY <2>1, <2>2 DEF Accept
  <2>3. CASE Decline(q)
    BY <2>1, <2>3 DEF Decline
  <2>4. CASE AdvanceStatus(q)
    BY <2>1, <2>4 DEF AdvanceStatus
  <2>5. CASE Refuse(q)
    BY <2>5 DEF Refuse
  <2> QED BY <1>5, <2>2, <2>3, <2>4, <2>5
<1>6. ASSUME NEW o \in Order, NEW st \in {"PREPARING", "READY", "COMPLETED", "CANCELED"},
             NEW people \in SUBSET Order, SaveOrder(o, st, people)
      PROVE  TypeOK'
  BY <1>6 DEF SaveOrder, Guarded, Bridged
<1>7. ASSUME NEW o \in Order,
             \/ MarkOrderReady(o) \/ AssignLegacy(o) \/ SyncLegacy(o)
             \/ \E st \in {"PREPARING", "READY", "CANCELED"} : UpdateOrderStatus(o, st)
      PROVE  TypeOK'
  BY <1>6, <1>7 DEF MarkOrderReady, AssignLegacy, SyncLegacy, UpdateOrderStatus
<1>8. ASSUME Tick PROVE TypeOK'
  BY <1>8 DEF Tick, Remains
<1>9. CASE UNCHANGED vars
  BY <1>9 DEF vars
<1> QED BY <1>1, <1>2, <1>3, <1>4, <1>5, <1>7, <1>8, <1>9 DEF Next

LEMMA DispatchStep == TypeOK /\ DispatchInv /\ [Next]_vars => DispatchInv'
<1> SUFFICES ASSUME TypeOK, DispatchInv, [Next]_vars PROVE DispatchInv'
  OBVIOUS
<1> USE DEF TypeOK, DispatchInv, OneLiveDelivery, OneDispatchAuthority, ReadyIsForwarded,
            AcceptanceIsCurrent, LiveHasCourier
<1>1. ASSUME NEW o \in Order, NEW c \in Courier, NEW scope, Assign(o, c, scope) PROVE DispatchInv'
  <2>1. CASE Retry(o, c)
    BY <1>1, <2>1 DEF Assign
  <2>2. CASE ~ Retry(o, c)
    <3>1. OneLiveDelivery'
      BY <1>1, <2>2 DEF Assign, HasOtherDelivery
    <3>2. OneDispatchAuthority' /\ ReadyIsForwarded' /\ AcceptanceIsCurrent' /\ LiveHasCourier'
      BY <1>1, <2>2 DEF Assign
    <3> QED BY <3>1, <3>2
  <2> QED BY <2>1, <2>2
<1>2. ASSUME NEW o \in Order, NEW scope, Unassign(o, scope) PROVE DispatchInv'
  BY <1>2 DEF Unassign
<1>3. ASSUME NEW c \in Courier, Suspend(c) PROVE DispatchInv'
  BY <1>3 DEF Suspend
<1>4. ASSUME NEW q \in Request, Ask(q) PROVE DispatchInv'
  BY <1>4 DEF Ask
<1>5. ASSUME NEW q \in pending, Accept(q) \/ Decline(q) \/ AdvanceStatus(q) \/ Refuse(q)
      PROVE  DispatchInv'
  <2>1. q.order \in Order /\ q.who \in Courier
    BY DEF Request
  <2>2. CASE Accept(q)
    BY <2>1, <2>2 DEF Accept, OwnsStill
  <2>3. CASE Decline(q)
    BY <2>1, <2>3 DEF Decline
  <2>4. CASE AdvanceStatus(q)
    <3>1. step[q.order] \in Busy /\ q.op \in Settable
      BY <2>4 DEF AdvanceStatus, CanAdvance, Forward
    <3> QED BY <2>1, <2>4, <3>1 DEF AdvanceStatus
  <2>5. CASE Refuse(q)
    BY <2>5 DEF Refuse
  <2> QED BY <1>5, <2>2, <2>3, <2>4, <2>5
<1>6. ASSUME NEW o \in Order, NEW st, NEW people, people \subseteq legacy \union {o}, SaveOrder(o, st, people)
      PROVE  DispatchInv'
  BY <1>6 DEF SaveOrder, Guarded, Bridged
<1>7. ASSUME NEW o \in Order,
             \/ MarkOrderReady(o) \/ AssignLegacy(o) \/ SyncLegacy(o)
             \/ \E st \in {"PREPARING", "READY", "CANCELED"} : UpdateOrderStatus(o, st)
      PROVE  DispatchInv'
  BY <1>6, <1>7 DEF MarkOrderReady, AssignLegacy, SyncLegacy, UpdateOrderStatus
<1>8. ASSUME Tick PROVE DispatchInv'
  BY <1>8 DEF Tick
<1>9. CASE UNCHANGED vars
  BY <1>9 DEF vars
<1> QED BY <1>1, <1>2, <1>3, <1>4, <1>5, <1>7, <1>8, <1>9 DEF Next

LEMMA DispatchInit == Init => TypeOK /\ DispatchInv
BY DEF Init, TypeOK, DispatchInv, OneLiveDelivery, OneDispatchAuthority, ReadyIsForwarded,
       AcceptanceIsCurrent, LiveHasCourier

\* The types, for any number of orders, couriers and pending requests.
THEOREM DispatchTypes == Spec => []TypeOK
BY DispatchInit, DispatchTypeStep, PTL DEF Spec

LEMMA DispatchHolds == Spec => [](TypeOK /\ DispatchInv)
<1>1. TypeOK /\ DispatchInv /\ [Next]_vars => TypeOK' /\ DispatchInv'
  BY DispatchTypeStep, DispatchStep
<1> QED BY DispatchInit, <1>1, PTL DEF Spec

\* A courier has one live delivery, whatever tills, admins and retries ask at
\* once (couriers/services.py, the busy check under the courier's row lock).
THEOREM OneDelivery == Spec => []OneLiveDelivery
<1>1. DispatchInv => OneLiveDelivery
  BY DEF DispatchInv
<1> QED BY DispatchHolds, <1>1, PTL

\* The till's own delivery person never has an order that a courier has live
\* (the guards of both assignments and of the synchronised order).
THEOREM OneAuthority == Spec => []OneDispatchAuthority
<1>1. DispatchInv => OneDispatchAuthority
  BY DEF DispatchInv
<1> QED BY DispatchHolds, <1>1, PTL

\* The courier of a ready order has been told: none is left in ASSIGNED
\* behind a kitchen event, a retry or a replay (couriers/signals.py).
THEOREM ReadyReachesCourier == Spec => []ReadyIsForwarded
<1>1. DispatchInv => ReadyIsForwarded
  BY DEF DispatchInv
<1> QED BY DispatchHolds, <1>1, PTL

\* An acceptance is the acceptance of the courier the row names now, not of
\* one it was taken from between the view's read and the service's lock.
THEOREM AcceptanceNotInherited == Spec => []AcceptanceIsCurrent
<1>1. DispatchInv => AcceptanceIsCurrent
  BY DEF DispatchInv
<1> QED BY DispatchHolds, <1>1, PTL

-----------------------------------------------------------------------------
(* Dispatch implements Delivery *)

Phases   == [o \in Order |-> PhaseOf(step[o])]
Carriers == [o \in Order |-> IF Live(step[o]) THEN courier[o] ELSE Nobody]

LEMMA PhaseFacts ==
  \A st \in Step :
    /\ PhaseOf(st) = "free" <=> ~ Live(st)
    /\ PhaseOf(st) = "offered" <=> st \in Awaiting
    /\ PhaseOf(st) = "carried" <=> st \in {"PICKED_UP", "ON_WAY"}
    /\ PhaseOf(st) = "delivered" <=> st = "DELIVERED"
BY DEF PhaseOf

\* The engaged couriers of the abstraction are those with a busy row.
LEMMA EngagedFacts ==
  ASSUME TypeOK, NEW c \in Courier, NEW o \in Order
  PROVE  D!Engaged(c, o) <=> (courier[o] = c /\ step[o] \in Busy)
BY PhaseFacts DEF D!Engaged, TypeOK

\* A step that changes the row of at most one order is judged by that row.
LEMMA OneRow ==
  ASSUME TypeOK, TypeOK', NEW o \in Order,
         \A p \in Order : p # o => step'[p] = step[p] /\ courier'[p] = courier[p]
  PROVE  /\ Phases' = [Phases EXCEPT ![o] = PhaseOf(step'[o])]
         /\ Carriers' = [Carriers EXCEPT ![o] = IF Live(step'[o]) THEN courier'[o] ELSE Nobody]
<1>1. Phases' = [Phases EXCEPT ![o] = PhaseOf(step'[o])]
  BY DEF Phases
<1>2. Carriers' = [Carriers EXCEPT ![o] = IF Live(step'[o]) THEN courier'[o] ELSE Nobody]
  BY DEF Carriers
<1> QED BY <1>1, <1>2

LEMMA SameRow ==
  ASSUME TypeOK, TypeOK', NEW o \in Order,
         \A p \in Order : p # o => step'[p] = step[p] /\ courier'[p] = courier[p],
         PhaseOf(step'[o]) = PhaseOf(step[o]), courier'[o] = courier[o]
  PROVE  UNCHANGED <<Phases, Carriers>>
BY PhaseFacts DEF TypeOK, Phases, Carriers

LEMMA HandOverStep ==
  ASSUME TypeOK, TypeOK', DispatchInv, [Next]_vars
  PROVE  [D!DNext]_<<Phases, Carriers>>
<1> USE DEF D!DNext
<1>1. ASSUME NEW o \in Order, NEW c \in Courier, NEW scope, Assign(o, c, scope)
      PROVE  [D!DNext]_<<Phases, Carriers>>
  <2>1. CASE Retry(o, c)
    BY <1>1, <2>1 DEF Assign, Phases, Carriers
  <2>2. CASE ~ Retry(o, c)
    <3>1. /\ step[o] \notin Protected /\ step'[o] \in Awaiting /\ courier'[o] = c
          /\ \A p \in Order : p # o => step'[p] = step[p] /\ courier'[p] = courier[p]
      BY <1>1, <2>2 DEF Assign, TypeOK
    <3>2. \A p \in Order : ~ D!Engaged(c, p)
      BY <1>1, <2>2, EngagedFacts DEF Assign, HasOtherDelivery, Retry
    <3>3. Phases' = [Phases EXCEPT ![o] = "offered"] /\ Carriers' = [Carriers EXCEPT ![o] = c]
      BY <3>1, OneRow, PhaseFacts
    <3>4. Phases[o] \in {"free", "offered"}
      BY <3>1, PhaseFacts DEF Phases, TypeOK
    <3> QED BY <3>2, <3>3, <3>4 DEF D!Offer, Phases, Carriers
  <2> QED BY <2>1, <2>2
<1>2. ASSUME NEW o \in Order, step[o] \in Awaiting, step' = [step EXCEPT ![o] = "DECLINED"],
             courier' = courier
      PROVE  [D!DNext]_<<Phases, Carriers>>
  <2>1. Phases' = [Phases EXCEPT ![o] = "free"] /\ Carriers' = [Carriers EXCEPT ![o] = Nobody]
    BY <1>2, OneRow, PhaseFacts DEF TypeOK
  <2> QED BY <1>2, <2>1, PhaseFacts DEF D!Withdraw, Phases, Carriers, TypeOK
<1>3. ASSUME NEW o \in Order, NEW scope, Unassign(o, scope) PROVE [D!DNext]_<<Phases, Carriers>>
  BY <1>2, <1>3 DEF Unassign, TypeOK
<1>4. ASSUME NEW q \in pending, Decline(q) PROVE [D!DNext]_<<Phases, Carriers>>
  BY <1>2, <1>4 DEF Decline, TypeOK, Request
<1>5. ASSUME NEW q \in pending, AdvanceStatus(q) PROVE [D!DNext]_<<Phases, Carriers>>
  <2> DEFINE o == q.order
  <2>1. o \in Order /\ q.op \in Settable /\ step[o] \in Busy /\ step' = [step EXCEPT ![o] = q.op]
        /\ courier' = courier /\ step'[o] = q.op
    BY <1>5 DEF AdvanceStatus, CanAdvance, Forward, TypeOK, Request
  <2> HIDE DEF o
  <2>2. \A p \in Order : p # o => step'[p] = step[p] /\ courier'[p] = courier[p]
    BY <2>1 DEF TypeOK
  <2>3. Phases' = [Phases EXCEPT ![o] = PhaseOf(q.op)] /\ UNCHANGED Carriers
    <3>1. Phases' = [Phases EXCEPT ![o] = PhaseOf(q.op)]
      BY <2>1, <2>2, OneRow
    <3>2. Live(step'[o]) /\ Live(step[o])
      BY <2>1 DEF Live, Busy, Settable
    <3>3. UNCHANGED Carriers
      BY <2>1, <2>2, <3>2 DEF Carriers
    <3> QED BY <3>1, <3>3
  <2>4. Phases[o] \in {"offered", "carried"}
    BY <2>1, PhaseFacts DEF Phases
  <2>5. CASE q.op = "DELIVERED"
    BY <2>1, <2>3, <2>4, <2>5, PhaseFacts DEF D!Deliver, Phases, Carriers
  <2>6. CASE q.op # "DELIVERED" /\ Phases[o] = "offered"
    BY <2>1, <2>3, <2>6, PhaseFacts DEF D!Carry, Phases, Carriers
  <2>7. CASE q.op # "DELIVERED" /\ Phases[o] = "carried"
    <3>1. PhaseOf(step'[o]) = PhaseOf(step[o])
      BY <2>1, <2>7, PhaseFacts DEF Phases
    <3> QED BY <2>1, <2>2, <3>1, SameRow
  <2> QED BY <2>4, <2>5, <2>6, <2>7
<1>6. ASSUME NEW o \in Order, NEW st, NEW people, SaveOrder(o, st, people)
      PROVE  [D!DNext]_<<Phases, Carriers>>
  <2>1. \A p \in Order : p # o => step'[p] = step[p] /\ courier'[p] = courier[p]
    BY <1>6 DEF SaveOrder, Bridged, TypeOK
  <2>2. PhaseOf(step'[o]) = PhaseOf(step[o]) /\ courier'[o] = courier[o]
    BY <1>6, PhaseFacts DEF SaveOrder, Bridged, TypeOK
  <2> QED BY <2>1, <2>2, SameRow
<1>7. ASSUME NEW o \in Order,
             \/ MarkOrderReady(o) \/ AssignLegacy(o) \/ SyncLegacy(o)
             \/ \E st \in {"PREPARING", "READY", "CANCELED"} : UpdateOrderStatus(o, st)
      PROVE  [D!DNext]_<<Phases, Carriers>>
  BY <1>6, <1>7 DEF MarkOrderReady, AssignLegacy, SyncLegacy, UpdateOrderStatus
<1>8. ASSUME step' = step, courier' = courier PROVE [D!DNext]_<<Phases, Carriers>>
  BY <1>8 DEF Phases, Carriers
<1>9. ASSUME \/ \E c \in Courier : Suspend(c)
             \/ \E q \in Request : Ask(q)
             \/ \E q \in pending : Accept(q) \/ Refuse(q)
             \/ Tick \/ UNCHANGED vars
      PROVE  [D!DNext]_<<Phases, Carriers>>
  BY <1>8, <1>9 DEF Suspend, Ask, Accept, Refuse, Tick, vars
<1> QED BY <1>1, <1>3, <1>4, <1>5, <1>7, <1>9 DEF Next

LEMMA HandOverInit == Init => D!DInit
BY DEF Init, D!DInit, PhaseOf

\* Dispatch implements the promised hand-over: every request, retry, kitchen
\* event and sync replay is an offer, a withdrawal, a pick-up or a delivery
\* that Delivery allows, or changes nothing of it.
THEOREM DispatchImplementsDelivery == Spec => HandOver
<1>1. TypeOK /\ TypeOK' /\ DispatchInv /\ [Next]_vars => [D!DNext]_(D!dvars)
  BY HandOverStep DEF D!dvars, Phases, Carriers
<1>2. TypeOK /\ DispatchInv /\ [Next]_vars => TypeOK' /\ DispatchInv'
  BY DispatchTypeStep, DispatchStep
<1> QED BY <1>1, <1>2, DispatchInit, HandOverInit, PTL DEF Spec, HandOver, D!DSpec
=============================================================================

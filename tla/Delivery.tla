------------------------------ MODULE Delivery ------------------------------
(***************************************************************************)
(* What dispatch promises about who carries what (couriers/services.py,    *)
(* couriers/models.py, Step): an order is offered to one courier at a      *)
(* time, may be withdrawn or offered to another only until a courier has   *)
(* picked it up, and then stays with that courier until it is delivered.   *)
(* A courier has one delivery at a time.                                   *)
(***************************************************************************)
CONSTANTS Order, Courier, Nobody

VARIABLES
  phase,   \* of each order: free, offered, carried or delivered
  carrier  \* the courier it is offered to, carried or was delivered by

dvars == <<phase, carrier>>

DInit == phase = [o \in Order |-> "free"] /\ carrier = [o \in Order |-> Nobody]

Engaged(c, o) == carrier[o] = c /\ phase[o] \in {"offered", "carried"}

\* A new offer, also one that takes an offer from another courier.
Offer(o, c) ==
  /\ phase[o] \in {"free", "offered"}
  /\ \A p \in Order : ~ Engaged(c, p)
  /\ phase' = [phase EXCEPT ![o] = "offered"]
  /\ carrier' = [carrier EXCEPT ![o] = c]

Withdraw(o) ==
  /\ phase[o] = "offered"
  /\ phase' = [phase EXCEPT ![o] = "free"]
  /\ carrier' = [carrier EXCEPT ![o] = Nobody]

Carry(o) ==
  /\ phase[o] = "offered"
  /\ phase' = [phase EXCEPT ![o] = "carried"]
  /\ UNCHANGED carrier

Deliver(o) ==
  /\ phase[o] \in {"offered", "carried"}
  /\ phase' = [phase EXCEPT ![o] = "delivered"]
  /\ UNCHANGED carrier

DNext == \E o \in Order : \/ \E c \in Courier : Offer(o, c)
                          \/ Withdraw(o) \/ Carry(o) \/ Deliver(o)

DSpec == DInit /\ [][DNext]_dvars
=============================================================================

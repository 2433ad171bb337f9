-------------------------- MODULE MCCourierLedger --------------------------
(* Finite instances of CourierLedger. *)
EXTENDS CourierLedger, TLC

CONSTANTS o1, o2, k1, k2, t1, t2

OneBranch == [o \in Order |-> 1]

Swaps == Permutations(Task) \union Permutations(Order)
=============================================================================

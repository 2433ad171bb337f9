-------------------------- MODULE MCCourierDispatch --------------------------
(* Finite instances of CourierDispatch. *)
EXTENDS CourierDispatch, TLC

CONSTANTS o1, o2, c1, c2, b1

SameBranch == [x \in Order \union Courier |-> b1]

Swaps == Permutations(Order) \union Permutations(Courier)
=============================================================================

-------------------------- MODULE MCShiftCloseSync --------------------------
(* Finite instances of ShiftCloseSync. *)
EXTENDS ShiftCloseSync, TLC

CONSTANTS w1, w2

Swaps == Permutations(Worker)
=============================================================================

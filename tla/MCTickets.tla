----------------------------- MODULE MCTickets -----------------------------
(* Finite instances of Tickets. *)
EXTENDS Tickets, TLC

CONSTANTS o1, o2, l1, l2, l3, c1, w1, t1, t2, t3

Swaps == Permutations(Task) \union Permutations(Order)
=============================================================================

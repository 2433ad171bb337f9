--------------------------- MODULE MCReceiptPrint ---------------------------
(* Finite instances of ReceiptPrint. *)
EXTENDS ReceiptPrint, TLC

CONSTANTS s1, s2, r1, r2, k1, k2, k3

\* One client per till.
OneEach  == (r1 :> s1) @@ (r2 :> s2)
OnlyR1   == r1 :> s1

\* Line 1 costs 1, and a revision changes its price; line 2 is free.
Gross1     == 1 :> <<1>>
Gross12    == (1 :> <<1, 2>>) @@ (2 :> <<0, 0>>)
SubtotalOf == [o \in Order |-> 1]

None == {}
Tokens == Permutations(Token)
=============================================================================

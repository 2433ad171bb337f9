-------------------------- MODULE MCTelegramOutbox --------------------------
(* Finite instances of TelegramOutbox. *)
EXTENDS TelegramOutbox

CONSTANTS c1, c2

\* Two orders that are paid.
PaidOnly == [e \in Event |-> "paid"]
=============================================================================

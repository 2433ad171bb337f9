----------------------------- MODULE MCDesktop -----------------------------
(* Finite instances of Desktop. *)
EXTENDS Desktop, TLC
=============================================================================

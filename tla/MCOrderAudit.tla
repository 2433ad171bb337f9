---------------------------- MODULE MCOrderAudit ----------------------------
(* Finite instances of OrderAudit. *)
EXTENDS OrderAudit

CONSTANTS o1, c1
=============================================================================

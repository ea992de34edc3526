----------------------------- MODULE MCOrderTurns -----------------------------
(* Small instances of OrderTurns. *)
EXTENDS OrderTurns
=============================================================================

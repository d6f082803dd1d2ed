----------------------------- MODULE MCConsole -----------------------------
(* Console with two nodes. *)
EXTENDS Console, TLC
=============================================================================

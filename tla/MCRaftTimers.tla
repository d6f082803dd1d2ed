---------------------------- MODULE MCRaftTimers ----------------------------
(* RaftTimers on small clusters. *)
EXTENDS RaftTimers, TLC

\* Sound for the invariants only; the runs of temporal properties go without.
Symmetry == Permutations(Node) \cup Permutations(Command)
=============================================================================

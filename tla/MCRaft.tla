------------------------------- MODULE MCRaft -------------------------------
(* Raft on small clusters. *)
EXTENDS Raft, TLC

\* Nodes, and commands, are interchangeable: no definition of Raft orders
\* or names one of them.
Symmetry == Permutations(Node) \cup Permutations(Command)
=============================================================================

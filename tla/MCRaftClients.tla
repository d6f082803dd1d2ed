--------------------------- MODULE MCRaftClients ---------------------------
(* RaftClients on small clusters. *)
EXTENDS RaftClients, TLC

Symmetry == Permutations(Node) \cup Permutations(Command)
=============================================================================

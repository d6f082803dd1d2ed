--------------------------- MODULE MCNodeProcess ---------------------------
(* NodeProcess with one peer and a store of two keys. *)
EXTENDS NodeProcess, TLC

\* Keys are interchangeable.
Symmetry == Permutations(Key)
=============================================================================

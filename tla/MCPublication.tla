--------------------------- MODULE MCPublication ---------------------------
(* Model-checking instances of Publication. *)
EXTENDS Publication, TLC

Symmetry == Permutations(Proc) \cup Permutations(Run) \cup Permutations(Tx)
=============================================================================

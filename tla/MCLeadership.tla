---------------------------- MODULE MCLeadership ----------------------------
(* Model-checking instances of Leadership. *)
EXTENDS Leadership, TLC

Symmetry == Permutations(Proc)
=============================================================================

-------------------------- MODULE MCTargetPayment --------------------------
(* Model-checking instances of TargetPayment. *)
EXTENDS TargetPayment, TLC

Symmetry == Permutations(Proc) \cup Permutations(Run) \cup Permutations(Auth)

\* Nonces are random: of the authorizations that can be signed any one will do,
\* and the liveness run, which may not use symmetry, signs them in one order.
First == CHOOSE a \in Auth : TRUE
SignedInOrder == chain'[First] = "unused" => \A a \in Auth : chain'[a] = "unused"
=============================================================================

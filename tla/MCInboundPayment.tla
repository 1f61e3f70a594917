-------------------------- MODULE MCInboundPayment --------------------------
(* Model-checking instances of InboundPayment. *)
EXTENDS InboundPayment, TLC

Symmetry ==
    Permutations(Proc) \cup Permutations(Call) \cup Permutations(Run) \cup Permutations(Auth)
=============================================================================

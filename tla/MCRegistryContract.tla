------------------------- MODULE MCRegistryContract -------------------------
(* Model-checking instance of RegistryContract. *)
EXTENDS RegistryContract

\* Every bitmap of five gates, fields with the value 3, and high bits.
MCBitmaps == {GateBitmap(g) : g \in Gates} \cup {3, 4^4 * 3 + 85, 4^5 + 341, 4^5 + 4^4 * 2 + 85}
=============================================================================

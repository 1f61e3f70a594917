------------------------------ MODULE Anchoring ------------------------------
(***************************************************************************)
(* What publication promises, with no mention of transactions, candidates  *)
(* or recovery: the chain anchors at most one evidence per run, and a run   *)
(* is completed once, with the evidence that is anchored.                  *)
(***************************************************************************)
CONSTANTS Run, Evidence, None

VARIABLES
    anchored,  \* anchored[r]: the evidence the registry holds for r, or None
    passport   \* passport[r]: the evidence r is completed with, or None

Init ==
    /\ anchored = [r \in Run |-> None]
    /\ passport = [r \in Run |-> None]

Anchor(r, e) ==
    /\ anchored[r] = None
    /\ anchored' = [anchored EXCEPT ![r] = e]
    /\ UNCHANGED passport

Complete(r) ==
    /\ passport[r] = None /\ anchored[r] # None
    /\ passport' = [passport EXCEPT ![r] = anchored[r]]
    /\ UNCHANGED anchored

Next == \E r \in Run : Complete(r) \/ \E e \in Evidence : Anchor(r, e)

Spec == Init /\ [][Next]_<<anchored, passport>>
=============================================================================

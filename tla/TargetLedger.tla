---------------------------- MODULE TargetLedger ----------------------------
(***************************************************************************)
(* What paying a target promises, with no mention of executions, locks or  *)
(* recovery: an authorization can be charged only once it is on file for   *)
(* one run; what is credited to a run is a settlement that pays for no     *)
(* other, and for good, and consumed an authorization that was filed for   *)
(* it, unless the run was worked on by two at once.                        *)
(***************************************************************************)
CONSTANTS
    Run, Auth, None,
    Foreign     \* settlements that consumed none of Auth

VARIABLES
    filed,    \* filed[a]: the run authorization a was recorded for, or None
    charged,  \* authorizations consumed on chain
    credit,   \* credit[r]: the settlement saved as the target payment of r, or None
    shared    \* runs that two actors have worked on at once

Init ==
    /\ filed = [a \in Auth |-> None]
    /\ charged = {}
    /\ credit = [r \in Run |-> None]
    /\ shared = {}

File(r, a) ==
    /\ filed[a] = None
    /\ filed' = [filed EXCEPT ![a] = r]
    /\ UNCHANGED <<charged, credit, shared>>

Charge(a) ==
    /\ filed[a] # None
    /\ charged' = charged \cup {a}
    /\ UNCHANGED <<filed, credit, shared>>

Credit(r, t) ==
    /\ t \in charged \cup Foreign
    /\ credit[r] = None /\ \A q \in Run : credit[q] # t
    /\ r \in shared \/ (t \in charged /\ filed[t] = r)
    /\ credit' = [credit EXCEPT ![r] = t]
    /\ UNCHANGED <<filed, charged, shared>>

Share(r) ==
    /\ shared' = shared \cup {r}
    /\ UNCHANGED <<filed, charged, credit>>

Next ==
    \/ \E a \in Auth : Charge(a)
    \/ \E r \in Run, a \in Auth : File(r, a)
    \/ \E r \in Run, t \in Auth \cup Foreign : Credit(r, t)
    \/ \E r \in Run : Share(r)

Spec == Init /\ [][Next]_<<filed, charged, credit, shared>>
=============================================================================

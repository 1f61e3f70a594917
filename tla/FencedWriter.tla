---------------------------- MODULE FencedWriter ----------------------------
(***************************************************************************)
(* What writer leadership promises the rest of the backend, with no mention *)
(* of sessions, queries or tasks: a term is numbered with a fence drawn     *)
(* from a counter, and no fence ever numbers two terms.  That two processes *)
(* never lead at once is NOT promised: a deposed leader may not know yet.   *)
(***************************************************************************)
EXTENDS Naturals

CONSTANT Proc

VARIABLES
    epoch,  \* fences drawn so far
    term,   \* term[p]: the fence p leads with, 0 when it does not lead
    spent   \* fences that have numbered a term

Init ==
    /\ epoch = 0
    /\ term = [p \in Proc |-> 0]
    /\ spent = {}

\* A fence is drawn, perhaps by a process that never gets to use it.
Draw ==
    /\ epoch' = epoch + 1
    /\ UNCHANGED <<term, spent>>

\* p starts a term with a drawn fence nobody has used.
Lead(p) ==
    /\ term[p] = 0
    /\ \E f \in (1..epoch) \ spent :
        /\ term' = [term EXCEPT ![p] = f]
        /\ spent' = spent \cup {f}
    /\ UNCHANGED epoch

\* p's term is over; it never resumes.
StepDown(p) ==
    /\ term' = [term EXCEPT ![p] = 0]
    /\ UNCHANGED <<epoch, spent>>

Next == Draw \/ \E p \in Proc : Lead(p) \/ StepDown(p)

Spec == Init /\ [][Next]_<<epoch, term, spent>>
=============================================================================

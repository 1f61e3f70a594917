------------------------- MODULE MCPassportService -------------------------
(* Model-checking instances of PassportService. *)
EXTENDS PassportService

CONSTANTS r1, r2

\* The steps of a check commute with those of the rest, a reorganisation excepted,
\* once the rows are read: what comes in between is taken before or after.  Before
\* that, the chain, the clock and the rows move.  A check reads nothing of the
\* index but the rows, and the rows a pass adds the writer adds too: it need only
\* run where no pass has.  It keeps nothing of the check before it, and nothing
\* else depends on it: one is enough, and an answer given without a look at the
\* chain need be given once.
Commuting ==
    /\ check.pc # "done"
    /\ check.pc # "idle" => UNCHANGED <<pass, cursor>>
    /\ check.pc = "verify" =>
           UNCHANGED <<published, db, now, spoiled>> /\ Len(chain') <= Len(chain)
    /\ check' # check => pass.pc = "idle" /\ cursor = 0
    /\ check'.pc = "done" /\ check'.request = None => published = [r \in Run |-> None]

Symmetry == Permutations(Run)

V1 == [manifest |-> 1, revision |-> 1]
V2 == [manifest |-> 2, revision |-> 1]

AllPass == [i \in Gate |-> "pass"]
Good    == [identity |-> V1, status |-> "verified", gates |-> AllPass, paid |-> TRUE, priced |-> TRUE,
            form |-> "sound", generated |-> 0]
MCEvidence ==
    {Good, [Good EXCEPT !.status = "needs-attention", !.gates[2] = "fail"], [Good EXCEPT !.form = "unsettled"]}

MCRequests  == {[warn |-> 0, max |-> 1, revision |-> None], [warn |-> 0, max |-> 1, revision |-> 2]}
MCContracts ==
    {[identity |-> V1, schemaValid |-> TRUE, signatureValid |-> s] : s \in BOOLEAN}
        \cup {[identity |-> V2, schemaValid |-> TRUE, signatureValid |-> TRUE],
              [identity |-> None, schemaValid |-> FALSE, signatureValid |-> FALSE]}
=============================================================================

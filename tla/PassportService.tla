--------------------------- MODULE PassportService ---------------------------
(***************************************************************************)
(* PassportGateService.check (backend/src/passport-gate/service.ts) over   *)
(* the chain and the index of RegistryIndex: one check loads the current   *)
(* contract, proves the verification boundary is there, reads the          *)
(* candidates from the database, verifies each against the chain and       *)
(* decides on the newest.  The chain, the index and the clock move between *)
(* its steps.                                                              *)
(***************************************************************************)
EXTENDS RegistryIndex

CONSTANTS
    Requests,       \* [warn, max, revision]
    Contracts       \* what the target may serve: [identity, schemaValid, signatureValid]

\* Thresholds are finite numbers, in the clock's unit.
ASSUME RequestAssumption == \A q \in Requests : {q.warn, q.max} \subseteq Int

VARIABLES chainReady, check

gateVars == <<chainReady, check>>

NoCheck == [pc |-> "idle", request |-> None, current |-> None, observed |-> 0,
            rows |-> <<>>, listed |-> <<>>, newest |-> {}, unseen |-> {}, result |-> None]

GateInit == chainReady \in BOOLEAN /\ check = NoCheck

\* What an answer without a decision was about is forgotten with it.
Undecided(code) == check' = [NoCheck EXCEPT !.pc = "done", !.result = Unavailable(code)]

\* The request is validated, the clock read and the contract fetched.  A contract
\* that fails on its own, or that does not parse, is decided at once.
BeginCheck ==
    /\ check.pc \in {"idle", "done"}
    /\ \E request \in {r \in Requests : Thresholds(r)}, current \in Contracts :
          LET alone == EvaluatePassportGate(request, current, None, now)
          IN  check' = IF alone.decision = "BLOCK"
                       THEN [NoCheck EXCEPT !.pc = "done", !.result = alone]
                       ELSE [NoCheck EXCEPT !.pc = "available", !.request = request,
                                            !.current = current, !.observed = now]
    /\ UNCHANGED chainReady

\* A contract that cannot be fetched is no decision.
ContractUnavailable ==
    /\ check.pc \in {"idle", "done"}
    /\ Undecided("CONTRACT_FETCH_UNAVAILABLE")
    /\ UNCHANGED chainReady

RpcUnavailable ==
    /\ check.pc \in {"available", "verify"} /\ Undecided("RPC_UNAVAILABLE")
    /\ UNCHANGED chainReady

\* passportsForTarget: the finalized rows, in an order that means nothing; `listed`
\* keeps when the chain anchored them.
ReadCandidates ==
    /\ check.pc = "available" /\ chainReady
    /\ check' = [check EXCEPT !.pc = "verify", !.rows = [r \in {q \in Run : Finalized(q)} |-> db[r]],
              !.listed = [r \in {q \in Run : Finalized(q) /\ OnChain(q)} |-> chain[Position(r)].time]]
    /\ UNCHANGED chainReady

IndexUnavailable ==
    /\ check.pc = "available" /\ chainReady /\ Undecided("INDEX_UNAVAILABLE")
    /\ UNCHANGED chainReady

\* Mutant of VerifyStrict: the row's agreement with the chain is not looked at.
VerifyStrictAny(r, row, view, transfersRead) ==
    LET v == Load(r, row.hint, view, transfersRead) IN [v EXCEPT !.cacheMatch = v.found]

\* cacheMatchesLoaded: the row is of this evidence, and names its transaction.
CacheMatchesLoaded(row) == row.own /\ row.published /\ row.hint = "own"

\* verifyStrict: load, from the transaction the row names, and the row's agreement
\* with what was loaded.
VerifyStrict(r, row, view, transfersRead) ==
    LET v == Load(r, row.hint, view, transfersRead)
    IN  [v EXCEPT !.cacheMatch = v.found /\ CacheMatchesLoaded(row)]

\* The receipt of the publication that the row names is thrown when the node does
\* not have it.  One of a settlement is a mismatch: its transfer is not read.
Throws(r, row, view) == OnChain(r) /\ Position(r) <= view /\ row.hint = "missing"

\* Mutant of Newest: the candidate looked at last wins.
NewestLast(newest, candidate) == {candidate}

\* The newest candidate so far, none before the first.  Of two of one time, the
\* one looked at first stays.
Newest(newest, candidate) ==
    IF \E other \in newest : other.at >= candidate.at THEN newest ELSE {candidate}

\* A candidate without an anchored time is placed at the time its row was generated.
VerifyCandidate(r) ==
    /\ check.pc = "verify" /\ r \in DOMAIN check.rows
    /\ \E view \in Views, transfersRead \in BOOLEAN :
          LET row == check.rows[r]
              v   == VerifyStrict(r, row, view, transfersRead)
              candidate == [at |-> IF v.found THEN v.anchored ELSE row.generated, row |-> row,
                            proof |-> ProofFromVerification(r, row, v, check.current)]
          IN  /\ ~Throws(r, row, view)
              /\ check' = [check EXCEPT
                    !.rows = [q \in DOMAIN @ \ {r} |-> @[q]],
                    !.unseen = IF v.found THEN @ ELSE @ \cup {r},
                    !.newest = Newest(@, candidate)]
    /\ UNCHANGED chainReady

Decide ==
    /\ check.pc = "verify" /\ DOMAIN check.rows = {}
    /\ \E passport \in IF check.newest = {} THEN {None} ELSE {n.proof : n \in check.newest} :
          check' = [check EXCEPT !.pc = "done", !.result =
                       EvaluatePassportGate(check.request, check.current, passport, check.observed)]
    /\ UNCHANGED chainReady

Check == \/ BeginCheck \/ ContractUnavailable \/ RpcUnavailable
         \/ ReadCandidates \/ IndexUnavailable \/ Decide
         \/ \E r \in Run : VerifyCandidate(r)

GateSpecInit == Init /\ GateInit
GateNext == \/ chainReady /\ IndexNext /\ UNCHANGED gateVars
            \/ Check /\ UNCHANGED vars
GateSpec == GateSpecInit /\ [][GateNext]_<<vars, gateVars>>

-----------------------------------------------------------------------------
(* Properties                                                              *)

Decided(d) == check.pc = "done" /\ check.result.decision \in d

\* A service is allowed only on a passport that some run published and that
\* verifies: verified on all five gates, the settlements included, its row in
\* agreement, for the identity the target signs now, and no older at the
\* observation than the limit that applies, nor from after it (check,
\* evaluatePassportGate; ARCHITECTURE.md, decision model).
AllowProved ==
    Decided({"ALLOW", "WARN"}) =>
      \E newest \in check.newest :
        LET e   == published[newest.proof.run]
            age == check.observed - newest.at
        IN  /\ Sound(e) /\ e.status = "verified" /\ e.paid /\ \A i \in Gate : e.gates[i] = "pass"
            /\ e.identity = check.current.identity /\ check.current.signatureValid
            /\ newest.row.own /\ newest.row.published
            /\ age >= 0
            /\ age <= IF check.result.decision = "ALLOW" THEN check.request.warn ELSE check.request.max

\* The newest passport decides: a check answers on a passport no older than any
\* that the index listed and the chain held when it was read, unless the node
\* asked did not show it, whatever is reorganised, mined anew or altered in
\* between (check).  IndexComplete says which runs are listed.
NewestDecides ==
    Decided({"ALLOW", "WARN", "REHEARSAL_REQUIRED"}) =>
        \A r \in DOMAIN check.listed \ check.unseen :
            \E newest \in check.newest : check.listed[r] <= newest.at

\* docs: a public claim is rebuilt from the chain, never taken from a row, and a
\* deleted cache deletes no record.  What is shown of one run is what it
\* published and the chain proves, and a run whose row is lost is shown still
\* (GET /runs/:runId, readPublishedRun); a row that names a wrong transaction may
\* hide its run, and the list of runs is another matter (ListedProved).  It is
\* about the chain and the rows alone.
ShownProved ==
    check = NoCheck => \A r \in Run, view \in Views, read \in BOOLEAN :
        LET run == Shown(r, view, read)
        IN  /\ run # None => Sound(published[r]) /\ run.evidence = published[r] /\ OnChain(r)
            /\ OnChain(r) /\ Position(r) <= view /\ Sound(published[r]) /\ read
                    /\ (Finalized(r) => db[r].hint = "own") => run # None
=============================================================================

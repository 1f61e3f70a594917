---------------------------- MODULE PassportGate ----------------------------
(***************************************************************************)
(* The decision engine of packages/passport-gate (engine.ts): what is      *)
(* answered about a service from its current signed Launch Contract, the   *)
(* newest relevant passport and the time of observation, and how the       *)
(* backend (passport-gate/service.ts) builds that passport proof from a    *)
(* cached row and a chain verification.                                    *)
(*                                                                         *)
(* An identity is a record of the manifest hash and the source revision:   *)
(* URL and provider are those of the query.  The thirteen verification     *)
(* flags of a proof are kept as four: the chain record is found, `match`   *)
(* (which the other hash, signature, storage, link and runtime flags are   *)
(* conjuncts of), the identity is the current one, and the publication     *)
(* transaction is known.  The five policy comparisons of a settlement      *)
(* (network, asset, amount, decimals, recipient) are one.                  *)
(***************************************************************************)
EXTENDS Gates, Integers

CONSTANT None

ASSUME NoneAssumption == None \notin {"ALLOW", "WARN", "REHEARSAL_REQUIRED", "BLOCK"}

Thresholds(r) == r.warn >= 0 /\ r.max > r.warn

Decision(d, reasons, action) ==
    [status |-> "AVAILABLE", decision |-> d, reasons |-> reasons, action |-> action]

Unavailable(code) ==
    [status |-> "UNAVAILABLE", decision |-> None, reasons |-> {code}, action |-> None]

\* A contract whose identity cannot be formed, or whose schema, hash or
\* signature does not hold, fails before any passport is looked at.
ContractFailures(current) ==
    {f \in {"LAUNCH_CONTRACT_INVALID", "LAUNCH_CONTRACT_SIGNATURE_INVALID"} :
        IF f = "LAUNCH_CONTRACT_INVALID"
        THEN current.identity = None \/ ~current.schemaValid
        ELSE ~current.signatureValid}

SettlementFailures(role, s) ==
    IF ~s.present THEN {<<role, "MISSING">>}
    ELSE {<<role, why>> : why \in {w \in {"POLICY_MISMATCH", "NOT_INDEPENDENTLY_VERIFIED"} :
                IF w = "POLICY_MISMATCH" THEN ~s.policy ELSE ~s.verified}}

\* Every independent check the passport fails, its age excepted.
PassportFailures(current, p, observedAt) ==
    LET failed == {c \in DOMAIN p.verification : ~p.verification[c]}
                  \cup {f \in {"DATABASE_CHAIN_MISMATCH"} : ~p.databaseChainMatch}
                  \cup {f \in {"PASSPORT_NOT_VERIFIED"} : p.status # "verified"}
                  \cup {f \in {"ANCHORED_TIMESTAMP_INVALID"} :
                            p.anchored = None \/ p.anchored > observedAt}
    IN  {<<"PASSPORT", f>> : f \in failed}
        \cup {<<"GATE", i>> : i \in {j \in Gate : p.gates[j] # "pass"}}
        \cup SettlementFailures("INBOUND", p.inbound)
        \cup SettlementFailures("PROVIDER", p.provider)

Freshness(request, age) ==
    IF age > request.max THEN Decision("REHEARSAL_REQUIRED", {"PASSPORT_EXPIRED"}, "RENEW")
    ELSE IF age > request.warn THEN Decision("WARN", {"PASSPORT_APPROACHING_EXPIRY"}, None)
    ELSE Decision("ALLOW", {"PASSPORT_VALID"}, None)

\* An identity that changed asks for a rehearsal before the passport is judged.
JudgePassport(request, current, p, observedAt) ==
    LET failures == PassportFailures(current, p, observedAt)
    IN  IF p.identity # current.identity
        THEN Decision("REHEARSAL_REQUIRED", {"CONTRACT_IDENTITY_OR_REVISION_CHANGED"}, "REHEARSE")
        ELSE IF failures # {} THEN Decision("BLOCK", failures, None)
        ELSE Freshness(request, observedAt - p.anchored)

EvaluatePassportGate(request, current, passport, observedAt) ==
    LET failures == ContractFailures(current)
    IN  IF failures # {} THEN Decision("BLOCK", failures, None)
        ELSE IF request.revision \notin {None, current.identity.revision}
        THEN Decision("BLOCK", {"EXPECTED_SOURCE_REVISION_MISMATCH"}, None)
        ELSE IF passport = None
        THEN Decision("REHEARSAL_REQUIRED", {"PASSPORT_NOT_FOUND"}, "REHEARSE")
        ELSE JudgePassport(request, current, passport, observedAt)

-----------------------------------------------------------------------------
(* The proof of one candidate.  `v` is what the registry service could     *)
(* verify (v.evidence is None when it found no chain record), `row` the    *)
(* cached record, whose evidence is used when the chain gave none.         *)

SettlementProof(paid, priced, verified) == [present |-> paid, policy |-> priced, verified |-> verified]

ProofFromVerification(run, row, v, current) ==
    LET evidence == IF v.evidence # None THEN v.evidence ELSE row.evidence
    IN  [run |-> run, status |-> evidence.status, gates |-> evidence.gates, identity |-> evidence.identity,
         anchored |-> v.anchored,
         verification |-> [chainRecordFound |-> v.found,
                           contractIdentityMatch |-> v.match /\ evidence.identity = current.identity,
                           publicationTransactionMatch |-> v.found,
                           independentlyVerified |-> v.match],
         databaseChainMatch |-> v.cacheMatch,
         inbound |-> SettlementProof(TRUE, evidence.priced, v.transfers),
         provider |-> SettlementProof(evidence.paid, evidence.priced, v.transfers)]
=============================================================================

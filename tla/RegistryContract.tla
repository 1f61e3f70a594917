-------------------------- MODULE RegistryContract --------------------------
(***************************************************************************)
(* LaunchProofRegistry.sol: the write-once evidence registry, called by    *)
(* anyone with any record, and by the backend with the records it builds   *)
(* (rehearsal.ts, registry.ts).  A hash is modelled by what was hashed.    *)
(***************************************************************************)
EXTENDS Gates

CONSTANTS
    RunId,
    Account,    \* callers and providers
    Writer,     \* the writer set by the constructor
    Evidence,   \* canonical evidence texts
    Oversize,   \* those longer than MAX_EVIDENCE_BYTES
    Bitmaps,    \* bound: the gate bitmaps an arbitrary caller tries
    NoRecord, NoSignature, BadSignature

ASSUME WriterAssumption == Writer \in Account /\ Oversize \subseteq Evidence
ASSUME BitmapsAssumption == Bitmaps \subseteq Nat
ASSUME SignatureAssumption == NoSignature \notin Account

VARIABLES
    runs,        \* runs[id]: the stored record, or NoRecord
    refusedFresh \* history: the contract has refused the backend a run it had not stored

vars == <<runs, refusedFresh>>

Stored == [evidence : Evidence, provider : Account, bitmap : 0..4^5 - 1,
           status : 0..2, signed : BOOLEAN, fixture : BOOLEAN]

\* What a caller supplies: nonzero says that every mandatory hash is set and
\* anchoredBy and anchoredAt are not; hash is the text evidenceHash was made of.
Supplied == [hash : Evidence, provider : Account, bitmap : Bitmaps, status : 0..2,
             signed : BOOLEAN, fixture : BOOLEAN, nonzero : BOOLEAN]

\* A signature over the manifest hash recovers its signer, or nobody.
Signature == Account \cup {NoSignature, BadSignature}

TypeOK ==
    /\ runs \in [RunId -> Stored \cup {NoRecord}]
    /\ refusedFresh \in BOOLEAN

Init == runs = [id \in RunId |-> NoRecord] /\ refusedFresh = FALSE

\* Mutant of SignatureRefused: only fixtures have to be signed.
SignatureRefusedFixture(rec, sig) ==
    \/ sig # NoSignature /\ sig # rec.provider
    \/ sig = NoSignature /\ (rec.signed \/ rec.fixture)

SignatureRefused(rec, sig) ==
    \/ sig # NoSignature /\ sig # rec.provider
    \/ sig = NoSignature /\ (rec.signed \/ rec.fixture \/ rec.status = Verified)

\* Mutant of Refused: the DuplicateRun guard is missing.
RefusedOnceMore(sender, id, rec, ev, sig) ==
    \/ sender # Writer
    \/ ~rec.nonzero
    \/ ev \in Oversize
    \/ rec.hash # ev
    \/ ~GateStatusIsValid(rec.bitmap, rec.status)
    \/ SignatureRefused(rec, sig)

\* Unauthorized, DuplicateRun, InvalidRecord, EvidenceTooLarge,
\* EvidenceHashMismatch, InvalidGateStatus, InvalidProviderSignature
Refused(sender, id, rec, ev, sig) ==
    \/ sender # Writer
    \/ runs[id] # NoRecord
    \/ ~rec.nonzero
    \/ ev \in Oversize
    \/ rec.hash # ev
    \/ ~GateStatusIsValid(rec.bitmap, rec.status)
    \/ SignatureRefused(rec, sig)

\* A refused call reverts: it changes nothing.
PublishRun(sender, id, rec, ev, sig) ==
    /\ ~Refused(sender, id, rec, ev, sig)
    /\ runs' = [runs EXCEPT ![id] =
            [evidence |-> ev, provider |-> rec.provider, bitmap |-> rec.bitmap,
             status |-> rec.status, signed |-> sig # NoSignature, fixture |-> rec.fixture]]
    /\ UNCHANGED refusedFresh

AnyoneCalls ==
    \E sender \in Account, id \in RunId, rec \in Supplied, ev \in Evidence, sig \in Signature :
        PublishRun(sender, id, rec, ev, sig)

-----------------------------------------------------------------------------
(* The backend's submissions                                               *)

Declaration == {"verified", "not_provided", "invalid"}

\* Gates a completed rehearsal ends with: the first four were all tested, a
\* safe tool was discoverable, and a paid delivery was only attempted under a
\* verified declaration (rehearsal.ts:397, 475-485, 518-551).
Rehearsed(g, declaration) ==
    /\ \A i \in FirstFour : g[i] # "not_tested"
    /\ g[4] = "pass" => g[1] = "pass"
    /\ g[Paid] = "pass" => declaration = "verified"

\* publishNotRehearsable: nothing was tested.
NoneTested(g) == \A i \in Gate : g[i] = "not_tested"

\* registry.ts:171-206: the record submitted for evidence ev.
Submitted(ev, provider, g, status, declaration, fixture) ==
    [hash |-> ev, provider |-> provider, bitmap |-> GateBitmap(g), status |-> ContractStatus(status),
     signed |-> declaration = "verified", fixture |-> fixture, nonzero |-> TRUE]

BackendCalls ==
    \E id \in RunId, ev \in Evidence \ Oversize, provider \in Account, g \in Gates,
       declaration \in Declaration, fixture \in BOOLEAN :
        /\ runs[id] = NoRecord
        /\ Rehearsed(g, declaration) \/ NoneTested(g)
        /\ fixture => declaration = "verified"
        /\ LET status == PassportStatus(g, ~NoneTested(g))
               rec == Submitted(ev, provider, g, status, declaration, fixture)
               sig == IF declaration = "verified" THEN provider ELSE NoSignature IN
           IF Refused(Writer, id, rec, ev, sig)
           THEN refusedFresh' = TRUE /\ UNCHANGED runs
           ELSE PublishRun(Writer, id, rec, ev, sig)

Next == AnyoneCalls \/ BackendCalls

Spec == Init /\ [][Next]_vars
-----------------------------------------------------------------------------
(* Properties                                                              *)

\* The gates a bitmap stands for.
GatesOf(bitmap) == CHOOSE g \in Gates : GateBitmap(g) = bitmap

\* Whatever the contract has accepted, the backend's own verification of it
\* agrees (registry.ts:507-510): the bitmap decodes to gates whose recomputed
\* status is the stored one; the PassportGate reads all five gates as held
\* exactly in a Verified record; and that record and every fixture is signed.
ReadersAgree ==
    \A id \in RunId :
        runs[id] # NoRecord =>
            LET rec == runs[id]  g == GatesOf(rec.bitmap) IN
            /\ rec.bitmap \in {GateBitmap(h) : h \in Gates}
            /\ ContractStatus(PassportStatus(g, rec.status # NotRehearsable)) = rec.status
            /\ rec.status = Verified <=> \A i \in Gate : DecodeGateBitmap(rec.bitmap)[i]
            /\ rec.status = Verified \/ rec.fixture => rec.signed

\* The contract never refuses a record the backend builds for a run that is not
\* stored: gates.ts, rehearsal.ts and the contract's own rules agree, so a paid
\* rehearsal cannot end with evidence that can never be anchored.
BackendAccepted == ~refusedFresh

\* A stored record is never changed or removed, not even by the writer.
WriteOnce == [][\A id \in RunId : runs[id] # NoRecord => runs'[id] = runs[id]]_vars
=============================================================================

----------------------------- MODULE Rehearsal -----------------------------
(***************************************************************************)
(* RehearsalService.execute for one paid run: the stages, the gates they   *)
(* decide, what the catch clauses make of a stage that throws, and the     *)
(* evidence that reaches the chain, where the validator judges it.         *)
(* Interleavings with other actors are the matter of TargetPayment and     *)
(* Publication; here the target answers as it likes, any stage may throw,  *)
(* and the process may be restarted.                                       *)
(***************************************************************************)
EXTENDS Evidence

CONSTANTS
    Contracts,     \* launch contracts, each with what the configuration says of it
    FixedAnswers,  \* what the target may answer to the sample,
    ProbeAnswers,  \* to the invalid input,
    FreshAnswers   \* and to a challenge

\* origin: where the endpoint and the paid resource are, next to the contract's
\* URL; trusted: a configured fixture; renewal: whether the lineage holds; live:
\* the launch payment is settled, and payment and publication are configured;
\* payment: the terms, None of payment_mode none; tool: the schema the target
\* lists for the declared tool, if any.
ContractRec == [origin : {"same", "port", "resource", "host"}, payment : Terms \cup {None},
                declaration : {"verified", "not_provided", "invalid"}, claim : BOOLEAN,
                trusted : BOOLEAN, renewal : {None, "kept", "broken"}, live : BOOLEAN,
                sample : SUBSET InputField, tool : Schema \cup {None}]

ASSUME ContractsAssumption == Contracts \subseteq ContractRec
ASSUME AnswersAssumption ==
    \A a \in FixedAnswers \cup ProbeAnswers \cup FreshAnswers :
        a \in Answer /\ (a.out = {}) = (a.error # None)

VARIABLES
    contract,   \* the contract, as it was fetched last
    pc,         \* the stage execute is in
    work,       \* what execute holds: tool, answers, gates, payment
    attempt,    \* the terms of the signed target authorization on record, or None
    onFile,     \* the terms of the target payment saved for the run, or None
    blind,      \* history: the lookup of that payment failed
    published   \* the evidence on chain, or None

vars == <<contract, pc, work, attempt, onFile, blind, published>>

Stage == {"fetch", "check", "discover", "fixed", "invalid", "challenges", "target",
          "publish"}
Ended == {"failed", "complete", "unknown"}

\* probe: the input of the invalid call; paid: what pay, or its failure, left.
Work == [tool : Schema \cup {None}, fixed : FixedAnswers \cup {None}, probe : SUBSET InputField,
         invalid : ProbeAnswers \cup {None}, fresh : Seq(FreshAnswers), gates : Gates,
         paid : Invocation, target : Terms \cup {None}]
NoWork == [tool |-> None, fixed |-> None, probe |-> {}, invalid |-> None, fresh |-> <<>>,
           gates |-> Untested, paid |-> Placeholder(None), target |-> None]

TypeOK ==
    /\ contract \in Contracts
    /\ pc \in Stage \cup Ended \cup {"caught", "longcaught", "stranded"}
    /\ work \in Work /\ Len(work.fresh) <= 3
    /\ attempt \in Terms \cup {None} /\ onFile \in Terms \cup {None} /\ blind \in BOOLEAN

Init ==
    /\ contract \in Contracts
    /\ pc = "fetch" /\ work = NoWork
    /\ attempt = None /\ onFile = None /\ blind = FALSE
    /\ published = None

store == <<attempt, onFile, blind, published>>
Gated(i, b) == [work.gates EXCEPT ![i] = Tested(b)]

-----------------------------------------------------------------------------
(* The stages                                                              *)

\* Every execution fetches the contract anew, and the provider may have changed
\* it; the request and the configuration are those of the run.  A contract that is
\* not fetched or parsed leaves no manifest to publish.
SameRequest(c) == c.live = contract.live /\ (c.renewal = None <=> contract.renewal = None)

Fetch ==
    /\ pc = "fetch"
    /\ \/ /\ contract' \in {c \in Contracts : SameRequest(c)}
          /\ pc' = "check"
       \/ pc' = "failed" /\ UNCHANGED contract
    /\ UNCHANGED <<work, store>>

\* The same hostname, fixture labels only for configured and signed fixtures,
\* and a renewal that keeps its identity and changes its manifest or revision.
Consenting ==
    /\ contract.origin # "host"
    /\ contract.claim => contract.trusted
    /\ contract.trusted => contract.declaration = "verified"
    /\ contract.renewal # "broken"

Check ==
    /\ pc = "check"
    /\ pc' = IF Consenting THEN "discover" ELSE "caught"
    /\ UNCHANGED <<contract, work, store>>

\* initialize and listTools; the declared tool may not be among those listed.
Discover ==
    /\ pc = "discover" /\ contract.origin # "port"
    /\ contract.tool # None => Admitted(contract.tool)
    /\ work' = [work EXCEPT
           !.tool = contract.tool,
           !.gates = Gated(1, contract.tool # None /\ WorkerMatches(contract.tool, contract.sample))]
    /\ pc' = "fixed"
    /\ UNCHANGED <<contract, store>>

CallFixed ==
    /\ pc = "fixed"
    /\ \E a \in FixedAnswers : work' = [work EXCEPT !.fixed = a]
    /\ pc' = "invalid"
    /\ UNCHANGED <<contract, store>>

CallInvalid ==
    /\ pc = "invalid"
    /\ \E a \in ProbeAnswers, input \in IF work.tool = None THEN BlindInputs(contract.sample)
                                        ELSE InvalidInputs(work.tool, contract.sample) :
           work' = [work EXCEPT !.invalid = a, !.probe = input,
                        !.gates = [work.gates EXCEPT
                            ![2] = Tested(ContractCorrect(FixedSample(work.fixed), a)),
                            ![4] = Tested(work.gates[1] = "pass" /\ SafeFailure(a))]]
    /\ pc' = "challenges"
    /\ UNCHANGED <<contract, store>>

Runs(fresh) == [i \in 1..Len(fresh) |-> ChallengeRun(fresh[i])]

\* Mutant of CallChallenge: one challenge too many.
CallChallengeFour ==
    /\ pc = "challenges"
    /\ \E a \in FreshAnswers :
           LET fresh == Append(work.fresh, a) IN
           /\ work' = [work EXCEPT !.fresh = fresh]
           /\ pc' = IF Len(fresh) > 3 THEN "target" ELSE pc
    /\ UNCHANGED <<contract, store>>

\* Three challenges, one after the other.
CallChallenge ==
    /\ pc = "challenges"
    /\ \E a \in FreshAnswers :
           LET fresh == Append(work.fresh, a) IN
           /\ work' = [work EXCEPT !.fresh = fresh,
                           !.gates = IF Len(fresh) = 3 THEN Gated(3, FreshChallenge(Runs(fresh))) ELSE @]
           /\ pc' = IF Len(fresh) = 3 THEN "target" ELSE pc
    /\ UNCHANGED <<contract, store>>

-----------------------------------------------------------------------------
(* The target payment                                                      *)

PaidWith(paid, target, delivered) ==
    /\ work' = [work EXCEPT !.paid = paid, !.target = target, !.gates = Gated(Paid, delivered)]
    /\ pc' = "publish"

\* A payment of an earlier execution is not looked for.
NotAsked ==
    /\ pc = "target" /\ contract.payment = None
    /\ pc' = "publish"
    /\ UNCHANGED <<contract, work, store>>

Asked    == pc = "target" /\ contract.payment # None
Payable  == contract.live /\ contract.declaration = "verified"
Signable == Asked /\ Payable /\ onFile = None /\ attempt = None /\ contract.origin # "resource"

\* pay finds a payment of an earlier execution, whose delivery was not kept, and
\* whose terms the contract may have changed since.
PriorPayment ==
    /\ Asked /\ Payable /\ onFile # None
    /\ PaidWith(FailedDelivery, onFile, FALSE)
    /\ UNCHANGED <<contract, store>>

\* The authorization is recorded, the transfer verified, the payment saved; the
\* response is what it is.
PayTarget ==
    /\ Signable
    /\ attempt' = contract.payment /\ onFile' = contract.payment
    /\ \/ \E out \in {{"match"}, {"match", "wrong"}, {"wrong", "missing"}, {"match", "nested"}} :
             PaidWith(Delivery(out), contract.payment, Delivery(out).compared = {"match"})
       \/ PaidWith(FailedDelivery, contract.payment, FALSE)
    /\ UNCHANGED <<contract, blind, published>>

\* Mutant of PayThrows: an attempt on record is as good as none.
PayThrowsOn ==
    /\ Asked /\ onFile = None
    /\ attempt' \in {attempt} \cup (IF Payable THEN {contract.payment} ELSE {})
    /\ PaidWith(FailedDelivery, None, FALSE)
    /\ UNCHANGED <<contract, onFile, blind, published>>

\* pay is not called, or throws before its payment is saved: with an attempt on
\* record the inner catch throws on, without one the delivery has failed.
PayThrows ==
    /\ Asked
    /\ Payable => onFile = None
    /\ \/ attempt' = attempt
       \/ Signable /\ attempt' = contract.payment
    /\ IF attempt' # None THEN pc' = "caught" /\ UNCHANGED work
       ELSE PaidWith(FailedDelivery, None, FALSE)
    /\ UNCHANGED <<contract, onFile, blind, published>>

-----------------------------------------------------------------------------
(* The evidence                                                            *)

Fixture == contract.trusted /\ contract.declaration = "verified"

CompleteEvidence ==
    LET runs == Runs(work.fresh) IN
    [status |-> PassportStatus(work.gates, TRUE), gates |-> work.gates, fixture |-> Fixture,
     tool |-> work.tool, matches |-> work.gates[1] = "pass",
     fixed |-> FixedSample(work.fixed), invalid |-> InvalidInput(work.invalid),
     challenges |-> runs, paid |-> work.paid,
     accounts |-> <<"fixed_sample", "invalid_input", "challenge", "challenge", "challenge">>
                  \o (IF work.paid.kind = None THEN <<>> ELSE <<"paid_delivery">>),
     target |-> work.target, long |-> FALSE]

NotRehearsableEvidence(target, long) ==
    [status |-> "not-rehearsable", gates |-> Untested, fixture |-> Fixture,
     tool |-> None, matches |-> FALSE,
     fixed |-> Placeholder("fixed_sample"), invalid |-> Placeholder("invalid_input"),
     challenges |-> <<>>, paid |-> Placeholder(None), accounts |-> <<>>,
     target |-> target, long |-> long]

\* Confirmed evidence that does not validate is of unknown outcome to publish.
Publish ==
    /\ pc = "publish"
    /\ IF contract.live
       THEN /\ published' = CompleteEvidence
            /\ pc' = IF Validated(contract, CompleteEvidence) THEN "complete" ELSE "unknown"
       ELSE pc' = "complete" /\ UNCHANGED published
    /\ UNCHANGED <<contract, work, attempt, onFile, blind>>

\* A stage throws: a store, leader or limit, the target's discovery, the 30
\* second deadline, or publish before its broadcast.  Messages of the database
\* and chain clients may be long.
StageThrows ==
    /\ pc \in Stage \ {"fetch", "check"}
    /\ pc' \in {"caught", "longcaught"}
    /\ UNCHANGED <<contract, work, store>>

\* Mutant of PublishNotRehearsable: the payment is not looked for.
PublishNotRehearsableHeld ==
    /\ pc \in {"caught", "longcaught"} /\ contract.live
    /\ published' = NotRehearsableEvidence(work.target, pc = "longcaught")
    /\ pc' = IF Validated(contract, published') THEN "complete" ELSE "failed"
    /\ UNCHANGED <<contract, work, attempt, onFile, blind>>

\* The outer catch: a payment execute does not hold is looked for, and the
\* reason, after a prefix, goes into the evidence.
PublishNotRehearsable ==
    /\ pc \in {"caught", "longcaught"} /\ contract.live
    /\ \E found \in {onFile, None} :
           /\ blind' = (work.target = None /\ found # onFile)
           /\ published' = NotRehearsableEvidence(IF work.target # None THEN work.target ELSE found,
                                                 pc = "longcaught")
    /\ pc' = IF Validated(contract, published') THEN "complete" ELSE "failed"
    /\ UNCHANGED <<contract, work, attempt, onFile>>

\* It is not published: a local run, or another error, which is swallowed.
GiveUp ==
    /\ pc \in {"caught", "longcaught"}
    /\ pc' = "failed"
    /\ UNCHANGED <<contract, work, store>>

-----------------------------------------------------------------------------
(* Restarts                                                                *)

\* Before the target payment the run is executed anew; with an attempt on
\* record it waits for the chain.
Crash ==
    /\ pc \in Stage \ {"publish"}
    /\ work' = NoWork
    /\ \/ pc' = "fetch" /\ UNCHANGED attempt
       \/ Signable /\ attempt' = contract.payment /\ pc' = "stranded"
    /\ UNCHANGED <<contract, onFile, blind, published>>

\* reconcilePendingTargetPayments credits the charge, or clears the attempt.
Reconciled ==
    /\ pc = "stranded"
    /\ pc' = "fetch"
    /\ \/ onFile' = attempt /\ UNCHANGED attempt
       \/ attempt' = None /\ UNCHANGED onFile
    /\ UNCHANGED <<contract, work, blind, published>>

Next ==
    \/ Fetch \/ Check \/ Discover \/ CallFixed \/ CallInvalid \/ CallChallenge
    \/ NotAsked \/ PriorPayment \/ PayTarget \/ PayThrows
    \/ Publish \/ StageThrows \/ PublishNotRehearsable \/ GiveUp
    \/ Crash \/ Reconciled

Spec == Init /\ [][Next]_vars

-----------------------------------------------------------------------------
(* Properties                                                              *)

\* Evidence the validator cannot agree with, whatever the target did: a value,
\* message or empty field name it has no room for, an origin or a label it reads
\* otherwise than the worker, a failed payment without a settlement, and a payment
\* made under terms that the contract has changed since.
Unverifiable(e) ==
    \/ ~Representable(contract, e)
    \/ contract.origin # "same"
    \/ Fixture # contract.claim
    \/ e.paid.kind = "paid_delivery" /\ e.target = None
    \/ e.target \notin {None, contract.payment}

\* docs: "the independent evidence validator recalculates" the mapping.  Of all
\* that is published, it disagrees with just the above: execute and
\* validateCanonicalEvidence, two programs, read every other record alike.
ReadAlike == published # None => (Validated(contract, published) <=> ~Unverifiable(published))

Good(a) == a.out \ {"nested"} = {"match"} /\ ~a.late

\* A verified passport was earned: all fields of all answers matched in time, the
\* invalid probe was refused safely, the tool's schema takes what it was given,
\* and a payment on file, of the very terms of the contract, delivered (gates of
\* execute against the answers).
VerifiedEarned ==
    published # None /\ published.status = "verified" =>
        /\ Good(work.fixed) /\ \A i \in 1..3 : Good(work.fresh[i]) /\ "nested" \notin work.fresh[i].out
        /\ SafeFailure(work.invalid)
        /\ WorkerMatches(work.tool, contract.sample)
        /\ onFile = contract.payment /\ contract.payment # None /\ contract.declaration = "verified"

\* Whatever threw, whenever the process was restarted and however the provider
\* changed the terms, a payment saved for the run is in its published evidence;
\* except that a contract of payment_mode none, fetched after the charge, leaves it
\* out of a judged passport, and a failed lookup out of a not-rehearsable one.
PaymentPublished ==
    published # None /\ onFile # None =>
        \/ published.target = onFile
        \/ IF Normal(published) THEN contract.payment = None ELSE blind

\* While the outcome of an authorization is unknown, only a not-rehearsable
\* passport is published (the inner catch of execute).
AttemptNotJudged == published # None /\ attempt # None /\ onFile = None => ~Normal(published)

\* docs: the invalid input removes a required field.  Where the schema takes
\* the sample, it takes the probe only if it requires no field and every field of
\* the sample can be spared for another branch (invalidInput).
ProbeRefused ==
    work.invalid # None /\ work.tool # None /\ WorkerMatches(work.tool, contract.sample)
        => \/ ~WorkerAccepts(work.tool, work.probe)
           \/ /\ work.tool.required = {}
              /\ \A f \in contract.sample : \E b \in work.tool.anyOf : b \subseteq contract.sample \ {f}

\* Violated: what is published can be verified.
PublishedVerifies == published # None => Validated(contract, published)
=============================================================================

------------------------------ MODULE Evidence ------------------------------
(***************************************************************************)
(* What a rehearsal writes down of the target's answers, and how the       *)
(* validator judges a record it reads back from the chain, knowing nothing *)
(* but the record and the configuration.                                   *)
(*                                                                         *)
(* An answer is abstracted to what became of the expected fields, its      *)
(* error, what the error says, and whether it was late.                    *)
(***************************************************************************)
EXTENDS Gates, Sequences, ToolSchema

CONSTANTS
    None,
    Terms,    \* payment terms: an amount, a recipient and a resource
    Nameless  \* the empty name of an input field

ASSUME TermsAssumption == None \notin Terms

ASSUME NoneAssumption ==
    None \notin {"fixed_sample", "invalid_input", "challenge", "paid_delivery", "flat", "unfit",
                 "TOOL_ERROR", "INVALID_OUTPUT", "MCP_ERROR", "PAID_DELIVERY_ERROR",
                 "invalid_output", "schema_drift", "timeout", "unsafe_error"}

\* What a field of an output is, next to what was expected of it; a nested value
\* stands in a field the evidence may retain.
FieldAnswer == {"match", "wrong", "missing", "nested"}
ErrorCode   == {None, "TOOL_ERROR", "INVALID_OUTPUT", "MCP_ERROR", "PAID_DELIVERY_ERROR"}
Answer      == [out : SUBSET FieldAnswer, error : ErrorCode, says : {"plain", "leak", "timeout"},
                late : BOOLEAN]

\* Sanitized outputs keep allowed fields whole: "unfit" is one with a value that
\* is no primitive of at most 5,000 characters.
Invocation == [kind : {None, "fixed_sample", "invalid_input", "challenge", "paid_delivery"},
               output : {None, "flat", "unfit"}, compared : SUBSET {"match", "wrong", "missing"},
               error : ErrorCode, class : {None, "invalid_output", "schema_drift", "timeout",
                                           "unsafe_error"}]
Placeholder(kind) == [kind |-> kind, output |-> None, compared |-> {}, error |-> None, class |-> None]

-----------------------------------------------------------------------------
(* The worker                                                              *)

TimedOut(a) == a.late \/ (a.error # None /\ a.says = "timeout")
Output(a)   == CASE a.out = {} -> None [] "nested" \in a.out -> "unfit" [] OTHER -> "flat"

Overall(compared) ==
    CASE "missing" \in compared -> "schema_drift"
      [] "wrong" \in compared -> "invalid_output"
      [] OTHER -> None

Classified(kind, a, compared) ==
    [kind |-> kind, output |-> Output(a), compared |-> compared, error |-> a.error,
     class |-> CASE TimedOut(a) -> "timeout"
                 [] ~TimedOut(a) /\ a.out # {} -> Overall(compared)
                 [] OTHER -> "schema_drift"]

\* An assertion on a nested value does not hold; a nested value may also stand in
\* a field no assertion names.
FixedSample(a) == Classified("fixed_sample", a, a.out \ {"nested"})

\* compareChallenge: every field is compared, and a nested value has a wrong type.
ChallengeRun(a) ==
    Classified("challenge", a, {IF o = "nested" THEN "missing" ELSE o : o \in a.out})

SafeFailure(a) == a.error = "TOOL_ERROR" /\ a.out = {} /\ ~TimedOut(a) /\ a.says # "leak"
InvalidInput(a) ==
    [kind |-> "invalid_input", output |-> Output(a), compared |-> {}, error |-> a.error,
     class |-> IF SafeFailure(a) THEN None ELSE "unsafe_error"]

\* What pay returns of a paid response; a string of it may be of any length.
Delivery(out) ==
    [kind |-> "paid_delivery", output |-> IF "nested" \in out THEN "unfit" ELSE "flat",
     compared |-> {IF o = "nested" THEN "wrong" ELSE o : o \in out}, error |-> None,
     class |-> Overall({IF o = "nested" THEN "wrong" ELSE o : o \in out})]
FailedDelivery ==
    [kind |-> "paid_delivery", output |-> None, compared |-> {}, error |-> "PAID_DELIVERY_ERROR",
     class |-> "invalid_output"]

Tested(b) == IF b THEN "pass" ELSE "fail"
Untested  == [i \in Gate |-> "not_tested"]

ContractCorrect(fixed, probe) ==
    fixed.class = None /\ fixed.compared = {"match"} /\ SafeFailure(probe)

FreshChallenge(runs) ==
    Len(runs) = 3 /\ \A i \in 1..Len(runs) : runs[i].class = None /\ runs[i].compared \subseteq {"match"}

-----------------------------------------------------------------------------
(* The validator.  c is the contract the record embeds with what the       *)
(* configuration says of it, e the record.                                 *)

Normal(e) == e.status # "not-rehearsable"
Invocations(e) == <<e.fixed, e.invalid>> \o e.challenges \o (IF e.paid.kind = None THEN <<>> ELSE <<e.paid>>)

\* evidenceSchema: inputs whose fields have names, flat outputs, bounded messages.
Representable(c, e) ==
    /\ Normal(e) => Nameless \notin c.sample
    /\ \A i \in 1..Len(Invocations(e)) : Invocations(e)[i].output # "unfit"
    /\ ~e.long

\* targetPaymentMatches, for a payment the service saved itself: its terms are
\* those of the embedded contract, which has none of payment_mode none.
TargetMatches(c, e) == e.target = c.payment

PaidDeliveryMatches(c, e) ==
    /\ e.paid.kind = "paid_delivery" /\ TargetMatches(c, e)
    /\ e.paid.class = None /\ e.paid.error = None /\ e.paid.compared = {"match"}

TargetConsistent(c, e) ==
    IF e.target # None THEN TargetMatches(c, e) ELSE e.gates[Paid] # "pass" /\ e.paid.kind = None

Discoverable(c, e) == Normal(e) /\ e.tool # None /\ ValidatorMatches(e.tool, c.sample)

RecomputedGates(c, e) ==
    LET failed == e.invalid.class = None /\ e.invalid.error = "TOOL_ERROR"
    IN  IF ~Normal(e) THEN Untested
        ELSE << Tested(Discoverable(c, e)),
                Tested(e.fixed.class = None /\ e.fixed.compared = {"match"} /\ failed),
                Tested(/\ Len(e.challenges) = 3
                       /\ \A i \in 1..3 : /\ e.challenges[i].class = None
                                          /\ e.challenges[i].compared = {"match"}),
                Tested(Discoverable(c, e) /\ failed),
                IF c.payment = None THEN "not_tested" ELSE Tested(PaidDeliveryMatches(c, e)) >>

InvocationSemantics(e) ==
    /\ e.fixed.kind = "fixed_sample" /\ e.invalid.kind = "invalid_input"
    /\ Len(e.challenges) = IF Normal(e) THEN 3 ELSE 0
    /\ \A i \in 1..Len(e.challenges) : e.challenges[i].kind = "challenge"

\* Inputs, comparisons and timings are those of the invocations, in their order.
Accounted(e) ==
    LET kinds == [i \in 1..Len(Invocations(e)) |-> Invocations(e)[i].kind]
    IN  e.accounts = IF Normal(e) THEN kinds ELSE <<>>

\* validateCanonicalEvidence returns a result whose match is true.
Validated(c, e) ==
    /\ Representable(c, e)
    /\ c.origin = "same"
    /\ e.fixture = c.claim
    /\ Normal(e) => e.matches = Discoverable(c, e)
    /\ TargetConsistent(c, e)
    /\ PaidDeliveryMatches(c, e) = (e.gates[Paid] = "pass")
    /\ e.gates = RecomputedGates(c, e)
    /\ e.status = PassportStatus(RecomputedGates(c, e), Normal(e))
    /\ Accounted(e) /\ InvocationSemantics(e)
=============================================================================

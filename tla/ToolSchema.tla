----------------------------- MODULE ToolSchema -----------------------------
(***************************************************************************)
(* The input schema of the declared tool and its three readers: the        *)
(* client, which refuses what is not a closed bounded schema; the worker,  *)
(* which decides the discoverable gate and makes the invalid probe; and    *)
(* the validator of evidence read back from the chain, which decides again.*)
(***************************************************************************)
EXTENDS FiniteSets

CONSTANTS
    InputField,  \* input fields of tools and samples
    Challenge   \* the input field of the challenge profile

ASSUME ChallengeAssumption == Challenge \in InputField

\* What a property says of the value a field is given: it is not there, accepts
\* it, is too tight or of another type, or bounds a string beyond 5,000.
Property == {"absent", "accepts", "rejects", "huge"}

\* No required list, and no anyOf, are empty sets.
Schema == [props : [InputField -> Property], required : SUBSET InputField, anyOf : SUBSET SUBSET InputField]
Declared(s) == {f \in InputField : s.props[f] # "absent"}

\* generateChallenges: a challenge fills this one field, with fresh values.
ChallengeInput == {Challenge}

-----------------------------------------------------------------------------
\* Mutant of Admitted: a branch may require nothing.
AdmittedEmpty(s) ==
    /\ Declared(s) # {} /\ \A f \in InputField : s.props[f] # "huge"
    /\ s.required \subseteq Declared(s) /\ UNION s.anyOf \subseteq Declared(s)
    /\ s.required # {} \/ s.anyOf # {}

\* parseToolDescription returns the schema rather than throwing.
Admitted(s) ==
    /\ Declared(s) # {} /\ \A f \in InputField : s.props[f] # "huge"
    /\ s.required \subseteq Declared(s) /\ UNION s.anyOf \subseteq Declared(s)
    /\ {} \notin s.anyOf
    /\ s.required # {} \/ s.anyOf # {}

Accepts(s, input, able, branches) ==
    /\ \A f \in input : s.props[f] \in able
    /\ s.required \subseteq input
    /\ branches = {} \/ \E b \in branches : b \subseteq input

\* The worker's reading: a branch that requires nothing is not one.
WorkerAccepts(s, input) == Accepts(s, input, {"accepts"}, s.anyOf \ {{}})
WorkerMatches(s, sample) ==
    /\ s.required # {} \/ s.anyOf \ {{}} # {}
    /\ WorkerAccepts(s, sample) /\ WorkerAccepts(s, ChallengeInput)

\* The validator's reading: it is one, and a bound may be of any size.
ValidatorMatches(s, sample) ==
    /\ s.required # {} \/ s.anyOf # {}
    /\ \A input \in {sample, ChallengeInput} : Accepts(s, input, {"accepts", "huge"}, s.anyOf)

\* Mutant of InvalidInputs: the first field is dropped, whatever it is.
InvalidInputsFirst(s, sample) == {sample \ {f} : f \in sample}

\* invalidInput, for every order of the sample's fields: the sample without the
\* first field that it cannot do without, or else without the first field.
InvalidInputs(s, sample) ==
    LET rejected == {f \in sample : ~WorkerAccepts(s, sample \ {f})}
    IN  IF sample = {} THEN {{}}
        ELSE {sample \ {f} : f \in IF rejected # {} THEN rejected ELSE sample}

\* No declared tool to ask: the first field is dropped.
BlindInputs(sample) == IF sample = {} THEN {{}} ELSE {sample \ {f} : f \in sample}
=============================================================================

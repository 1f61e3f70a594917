-------------------------- MODULE RehearsalProofs --------------------------
(***************************************************************************)
(* Proofs about Rehearsal for any contracts, input fields, tool schemas    *)
(* and answers of the target.                                              *)
(***************************************************************************)
EXTENDS Rehearsal, SequenceTheorems, TLAPS

-----------------------------------------------------------------------------
(* The inductive invariant, in named parts.                                *)

\* Stages before the first call; from discovery, the sample and the probe on.
Fresh      == {"fetch", "check", "discover", "stranded"}
Discovered == {"fixed", "invalid", "challenges", "target", "publish"}
Sampled    == {"invalid", "challenges", "target", "publish"}
Probed     == {"challenges", "target", "publish"}
Challenged == {"target", "publish"}

\* What the gates say of what was listed and answered so far.
DiscoveredInv ==
    pc \in Discovered =>
        /\ work.tool = contract.tool
        /\ contract.tool # None => Admitted(contract.tool)
        /\ work.gates[1] = Tested(contract.tool # None /\ WorkerMatches(contract.tool, contract.sample))

ProbedInv ==
    /\ pc \in Sampled => work.fixed \in FixedAnswers
    /\ pc \in Probed =>
        /\ work.invalid \in ProbeAnswers
        /\ work.gates[2] = Tested(ContractCorrect(FixedSample(work.fixed), work.invalid))
        /\ work.gates[4] = Tested(work.gates[1] = "pass" /\ SafeFailure(work.invalid))

ChallengedInv ==
    /\ pc \in Discovered \ Challenged => Len(work.fresh) <= 2
    /\ pc \in Challenged =>
        Len(work.fresh) = 3 /\ work.gates[3] = Tested(FreshChallenge(Runs(work.fresh)))

\* What became of the target payment before the evidence is made.
Outcome ==
    \/ /\ contract.payment = None /\ work.target = None
       /\ work.paid = Placeholder(None) /\ work.gates[5] = "not_tested"
    \/ /\ contract.payment # None
       /\ work.paid.kind = "paid_delivery"
       /\ work.gates[5] = Tested(work.paid.compared = {"match"})
       /\ work.paid.compared = {"match"} =>
              work.paid.class = None /\ work.paid.error = None /\ work.target = contract.payment

PaidInv ==
    /\ pc \in Discovered \ {"publish"} =>
        work.target = None /\ work.paid = Placeholder(None) /\ work.gates[5] = "not_tested"
    /\ pc = "publish" => Outcome

\* A payment on file is that of the authorization on record, and a stage is
\* entered only when the outcome of every authorization is known.
MoneyInv ==
    /\ onFile # None => attempt = onFile
    /\ pc = "stranded" => attempt # None /\ onFile = None
    /\ pc \in Stage /\ attempt # None => onFile # None
    /\ work.target # None => work.target = onFile
    /\ pc = "publish" /\ contract.payment # None => work.target = onFile
    /\ pc = "publish" /\ work.target # None => Payable

\* The probe is one of those the input schema asks for.
ProbeInv ==
    work.invalid # None =>
        work.probe \in IF work.tool = None THEN BlindInputs(contract.sample)
                       ELSE InvalidInputs(work.tool, contract.sample)

\* Published evidence is the last thing a rehearsal does.
PublishedInv ==
    /\ published # None => pc \in Ended
    /\ ReadAlike /\ VerifiedEarned /\ PaymentPublished /\ AttemptNotJudged

WorkInv == /\ pc \in Fresh => work = NoWork
           /\ DiscoveredInv /\ ProbedInv /\ ChallengedInv /\ PaidInv

Inv == TypeOK /\ WorkInv /\ MoneyInv /\ ProbeInv /\ PublishedInv

-----------------------------------------------------------------------------
(* Readers of a schema, and of an answer.                                  *)

LEMMA ContractFields ==
    ASSUME NEW c \in Contracts
    PROVE  /\ c.tool \in Schema \cup {None} /\ c.sample \subseteq InputField
           /\ c.payment \in Terms \cup {None}
BY ContractsAssumption DEF ContractRec

LEMMA AnswerFields ==
    ASSUME NEW a \in FixedAnswers \cup ProbeAnswers \cup FreshAnswers
    PROVE  /\ a.out \subseteq FieldAnswer /\ a.error \in ErrorCode /\ a.late \in BOOLEAN
           /\ a.out = {} <=> a.error # None
BY AnswersAssumption DEF Answer

\* Worker and validator match a tool the client admitted alike (evidence.ts,
\* rehearsal.ts: discoverable).
LEMMA MatchAlike ==
    ASSUME NEW s \in Schema, Admitted(s), NEW sample \in SUBSET InputField
    PROVE  WorkerMatches(s, sample) <=> ValidatorMatches(s, sample)
<1>1. s.anyOf \ {{}} = s.anyOf /\ \A f \in InputField : s.props[f] # "huge"
  BY DEF Admitted
<1>2. sample \subseteq InputField /\ ChallengeInput \subseteq InputField
  BY ChallengeAssumption DEF ChallengeInput
<1>3. \A input \in SUBSET InputField :
         WorkerAccepts(s, input) <=> Accepts(s, input, {"accepts", "huge"}, s.anyOf)
  BY <1>1 DEF WorkerAccepts, Accepts
<1>4. QED
  BY <1>1, <1>2, <1>3 DEF WorkerMatches, ValidatorMatches

\* The invalid input is refused by a tool that takes the sample and needs a field
\* of it (invalidInput).
LEMMA ProbeLemma ==
    ASSUME NEW s, NEW sample, WorkerMatches(s, sample), NEW probe \in InvalidInputs(s, sample)
    PROVE  \/ ~WorkerAccepts(s, probe)
           \/ /\ s.required = {}
              /\ \A f \in sample : \E b \in s.anyOf : b \subseteq sample \ {f}
<1> DEFINE rejected == {f \in sample : ~WorkerAccepts(s, sample \ {f})}
<1>1. /\ s.required \subseteq sample
      /\ s.required # {} \/ s.anyOf \ {{}} # {}
      /\ s.anyOf \ {{}} = {} \/ \E b \in s.anyOf \ {{}} : b \subseteq sample
  BY DEF WorkerMatches, WorkerAccepts, Accepts
<1>2. CASE sample = {}
  BY <1>1, <1>2
<1>3. CASE sample # {} /\ rejected # {}
  <2>1. probe \in {sample \ {f} : f \in rejected}
    BY <1>3 DEF InvalidInputs
  <2>2. PICK f \in rejected : probe = sample \ {f}
    BY <2>1
  <2>3. QED
    BY <2>2
<1>4. CASE sample # {} /\ rejected = {}
  <2>1. \A f \in sample : WorkerAccepts(s, sample \ {f})
    BY <1>4
  <2>2. \A f \in sample : s.required \subseteq sample \ {f}
    BY <2>1 DEF WorkerAccepts, Accepts
  <2>3. s.required = {}
    BY <1>1, <2>2
  <2>4. \A f \in sample : \E b \in s.anyOf \ {{}} : b \subseteq sample \ {f}
    BY <1>1, <2>1, <2>3 DEF WorkerAccepts, Accepts
  <2>5. QED
    BY <2>3, <2>4
<1>5. QED
  BY <1>2, <1>3, <1>4

LEMMA TestedPass ==
    /\ \A b \in BOOLEAN : Tested(b) \in {"pass", "fail"} /\ (Tested(b) = "pass" <=> b)
    /\ \A b, c \in BOOLEAN : (b <=> c) => Tested(b) = Tested(c)
BY DEF Tested

\* A fixed sample that fits is an answer that matched in time.
LEMMA FixedGood ==
    ASSUME NEW a \in FixedAnswers,
           FixedSample(a).class = None, FixedSample(a).compared = {"match"}
    PROVE  Good(a)
<1>1. FixedSample(a).compared = a.out \ {"nested"}
  BY DEF FixedSample, Classified
<1>2. ~TimedOut(a)
  BY NoneAssumption DEF FixedSample, Classified
<1>3. QED
  BY <1>1, <1>2, AnswerFields DEF Good, TimedOut

\* The two programs judge the run of a challenge alike, and what passes matched
\* in time (compareChallenge, freshChallenge; recomputedGates).
LEMMA ChallengeGood ==
    ASSUME NEW a \in FreshAnswers, ChallengeRun(a).class = None,
           ChallengeRun(a).compared \subseteq {"match"}
    PROVE  ChallengeRun(a).compared = {"match"} /\ Good(a) /\ "nested" \notin a.out
<1> DEFINE compared == {IF o = "nested" THEN "missing" ELSE o : o \in a.out}
<1>1. ChallengeRun(a).compared = compared
  BY DEF ChallengeRun, Classified
<1>2. /\ ChallengeRun(a).class = CASE TimedOut(a) -> "timeout"
                                   [] ~TimedOut(a) /\ a.out # {} -> Overall(compared)
                                   [] OTHER -> "schema_drift"
  BY DEF ChallengeRun, Classified
<1>3. ~TimedOut(a) /\ a.out # {}
  BY <1>2, NoneAssumption
<1>4. \A o \in a.out : o # "nested" /\ o = "match"
  BY <1>1
<1>5. a.out = {"match"} /\ compared = {"match"}
  BY <1>3, <1>4
<1>6. QED
  BY <1>1, <1>3, <1>5, AnswerFields DEF Good, TimedOut

LEMMA ProbeAlike ==
    ASSUME NEW a
    PROVE  SafeFailure(a) <=>
               InvalidInput(a).class = None /\ InvalidInput(a).error = "TOOL_ERROR"
BY NoneAssumption DEF InvalidInput, SafeFailure

-----------------------------------------------------------------------------
(* The evidence of a run that was judged, and of one that was not.         *)

LEMMA GatesTuple ==
    ASSUME NEW g \in Gates
    PROVE  g = <<g[1], g[2], g[3], g[4], g[5]>>
BY DEF Gates, Gate

\* Joining sequences, element by element.
LEMMA JoinedFive ==
    ASSUME NEW S, NEW f \in S, NEW i \in S, NEW runs \in Seq(S), Len(runs) = 3
    PROVE  /\ <<f, i>> \o runs \in Seq(S) /\ Len(<<f, i>> \o runs) = 5
           /\ (<<f, i>> \o runs)[1] = f /\ (<<f, i>> \o runs)[2] = i
           /\ \A n \in 1..3 : (<<f, i>> \o runs)[n + 2] = runs[n]
<1> DEFINE t == <<f, i>>
<1>1. t \in Seq(S) /\ Len(t) = 2 /\ t[1] = f /\ t[2] = i
  OBVIOUS
<1> HIDE DEF t
<1>2. /\ t \o runs \in Seq(S) /\ Len(t \o runs) = Len(t) + Len(runs)
      /\ \A k \in 1..Len(t) + Len(runs) :
             (t \o runs)[k] = IF k <= Len(t) THEN t[k] ELSE runs[k - Len(t)]
  BY <1>1, ConcatProperties
<1>3. Len(t \o runs) = 5 /\ \A k \in 1..5 : (t \o runs)[k] = IF k <= 2 THEN t[k] ELSE runs[k - 2]
  BY <1>1, <1>2
<1>4. \A n \in 1..3 : n + 2 \in 1..5 /\ ~(n + 2 <= 2) /\ (n + 2) - 2 = n
  OBVIOUS
<1>5. (t \o runs)[1] = f /\ (t \o runs)[2] = i /\ \A n \in 1..3 : (t \o runs)[n + 2] = runs[n]
  BY <1>1, <1>3, <1>4
<1>6. QED
  BY <1>2, <1>3, <1>5 DEF t

LEMMA JoinedLast ==
    ASSUME NEW S, NEW s \in Seq(S), Len(s) = 5, NEW p \in S
    PROVE  /\ s \o <<>> = s
           /\ s \o <<p>> \in Seq(S) /\ Len(s \o <<p>>) = 6
           /\ (s \o <<p>>)[6] = p /\ \A k \in 1..5 : (s \o <<p>>)[k] = s[k]
<1> DEFINE t == <<p>>
<1>1. t \in Seq(S) /\ Len(t) = 1 /\ t[1] = p
  OBVIOUS
<1> HIDE DEF t
<1>2. /\ s \o t \in Seq(S) /\ Len(s \o t) = Len(s) + Len(t)
      /\ \A k \in 1..Len(s) + Len(t) : (s \o t)[k] = IF k <= Len(s) THEN s[k] ELSE t[k - Len(s)]
  BY <1>1, ConcatProperties
<1>3. Len(s \o t) = 6 /\ \A k \in 1..6 : (s \o t)[k] = IF k <= 5 THEN s[k] ELSE t[k - 5]
  BY <1>1, <1>2
<1>4. s \o <<>> = s
  BY ConcatEmptySeq
<1>5. QED
  BY <1>1, <1>2, <1>3, <1>4 DEF t

LEMMA WorkFields ==
    ASSUME TypeOK
    PROVE  /\ work.tool \in Schema \cup {None} /\ work.fixed \in FixedAnswers \cup {None}
           /\ work.probe \in SUBSET InputField /\ work.invalid \in ProbeAnswers \cup {None}
           /\ work.fresh \in Seq(FreshAnswers) /\ work.gates \in Gates
           /\ work.paid \in Invocation /\ work.target \in Terms \cup {None}
           /\ contract.tool \in Schema \cup {None} /\ contract.sample \in SUBSET InputField
           /\ contract.payment \in Terms \cup {None}
BY ContractFields DEF TypeOK, Work

LEMMA RunsOf ==
    ASSUME NEW fresh \in Seq(FreshAnswers), Len(fresh) = 3
    PROVE  /\ Len(Runs(fresh)) = 3
           /\ \A i \in 1..3 : fresh[i] \in FreshAnswers /\ Runs(fresh)[i] = ChallengeRun(fresh[i])
           /\ \A S : (\A a \in FreshAnswers : ChallengeRun(a) \in S) => Runs(fresh) \in Seq(S)
<1>1. Runs(fresh) = [i \in 1..3 |-> ChallengeRun(fresh[i])]
  BY DEF Runs
<1>2. \A i \in 1..3 : fresh[i] \in FreshAnswers
  BY ElementOfSeq
<1>3. Len(Runs(fresh)) = 3 /\ \A i \in 1..3 : Runs(fresh)[i] = ChallengeRun(fresh[i])
  BY <1>1
<1>4. ASSUME NEW S, \A a \in FreshAnswers : ChallengeRun(a) \in S
      PROVE  Runs(fresh) \in Seq(S)
  <2>1. Runs(fresh) \in [1..3 -> S]
    BY <1>1, <1>2, <1>4
  <2>2. QED
    BY <2>1, SeqDef
<1>5. QED
  BY <1>2, <1>3, <1>4

LEMMA CompleteFields ==
    /\ CompleteEvidence.status = PassportStatus(work.gates, TRUE)
    /\ CompleteEvidence.gates = work.gates /\ CompleteEvidence.fixture = Fixture
    /\ CompleteEvidence.tool = work.tool /\ CompleteEvidence.matches = (work.gates[1] = "pass")
    /\ CompleteEvidence.fixed = FixedSample(work.fixed)
    /\ CompleteEvidence.invalid = InvalidInput(work.invalid)
    /\ CompleteEvidence.challenges = Runs(work.fresh)
    /\ CompleteEvidence.paid = work.paid /\ CompleteEvidence.target = work.target
    /\ CompleteEvidence.accounts = <<"fixed_sample", "invalid_input", "challenge", "challenge", "challenge">>
                                      \o (IF work.paid.kind = None THEN <<>> ELSE <<"paid_delivery">>)
    /\ CompleteEvidence.long = FALSE
BY DEF CompleteEvidence

LEMMA Kinds ==
    /\ \A a : FixedSample(a).kind = "fixed_sample" /\ InvalidInput(a).kind = "invalid_input"
              /\ ChallengeRun(a).kind = "challenge"
    /\ \A k : Placeholder(k).kind = k
BY DEF FixedSample, InvalidInput, ChallengeRun, Classified, Placeholder

\* Judged evidence accounts for its invocations, in their order.
LEMMA CompleteAccounted ==
    ASSUME TypeOK, work.paid.kind \in {None, "paid_delivery"}, Len(work.fresh) = 3,
           Normal(CompleteEvidence)
    PROVE  Accounted(CompleteEvidence)
<1> DEFINE e     == CompleteEvidence
           S     == {FixedSample(work.fixed), InvalidInput(work.invalid), work.paid}
                       \cup {ChallengeRun(a) : a \in FreshAnswers}
           five  == <<e.fixed, e.invalid>> \o e.challenges
           first == <<"fixed_sample", "invalid_input", "challenge", "challenge", "challenge">>
           Kind  == {"fixed_sample", "invalid_input", "challenge", "paid_delivery"}
           kinds == [i \in 1..Len(Invocations(e)) |-> Invocations(e)[i].kind]
<1>1. /\ e.fixed \in S /\ e.invalid \in S /\ work.paid \in S
      /\ e.fixed.kind = "fixed_sample" /\ e.invalid.kind = "invalid_input" /\ e.paid = work.paid
  BY CompleteFields, Kinds
<1>2. /\ e.challenges \in Seq(S) /\ Len(e.challenges) = 3
      /\ \A i \in 1..3 : e.challenges[i].kind = "challenge"
  BY CompleteFields, Kinds, WorkFields, RunsOf
<1>3. e.accounts = first \o (IF work.paid.kind = None THEN <<>> ELSE <<"paid_delivery">>)
  BY CompleteFields
<1> HIDE DEF e, S
<1>4. /\ five \in Seq(S) /\ Len(five) = 5 /\ five[1] = e.fixed /\ five[2] = e.invalid
      /\ \A n \in 1..3 : five[n + 2] = e.challenges[n]
  BY <1>1, <1>2, JoinedFive
<1>5. five[3] = e.challenges[1] /\ five[4] = e.challenges[2] /\ five[5] = e.challenges[3]
  <2>1. 1 + 2 = 3 /\ 2 + 2 = 4 /\ 3 + 2 = 5 /\ 1 \in 1..3 /\ 2 \in 1..3 /\ 3 \in 1..3
    OBVIOUS
  <2>2. QED
    BY <1>4, <2>1
<1>6. /\ five[1].kind = "fixed_sample" /\ five[2].kind = "invalid_input"
      /\ five[3].kind = "challenge" /\ five[4].kind = "challenge" /\ five[5].kind = "challenge"
  BY <1>1, <1>2, <1>4, <1>5
<1>7. Invocations(e) = five \o (IF e.paid.kind = None THEN <<>> ELSE <<e.paid>>)
  BY DEF Invocations
<1> HIDE DEF five
<1>8. first \in Seq(Kind) /\ Len(first) = 5
  OBVIOUS
<1>9. first[1] = "fixed_sample" /\ first[2] = "invalid_input"
      /\ first[3] = "challenge" /\ first[4] = "challenge" /\ first[5] = "challenge"
  OBVIOUS
<1> HIDE DEF first
<1>10. kinds = e.accounts
  <2>1. CASE work.paid.kind = None
    <3>1. Invocations(e) = five /\ e.accounts = first
      BY <1>1, <1>3, <1>4, <1>7, <1>8, <2>1, ConcatEmptySeq
    <3>2. kinds = [k \in 1..5 |-> five[k].kind]
      BY <1>4, <3>1
    <3>3. \A k \in 1..5 : five[k].kind = first[k]
      BY <1>6, <1>9
    <3>4. QED
      BY <1>8, <3>1, <3>2, <3>3
  <2>2. CASE work.paid.kind = "paid_delivery"
    <3>1. Invocations(e) = five \o <<e.paid>> /\ e.accounts = first \o <<"paid_delivery">>
      BY <1>1, <1>3, <1>7, <2>2, NoneAssumption
    <3>2. /\ Len(five \o <<e.paid>>) = 6 /\ (five \o <<e.paid>>)[6] = e.paid
          /\ \A k \in 1..5 : (five \o <<e.paid>>)[k] = five[k]
      BY <1>1, <1>4, JoinedLast
    <3>3. /\ first \o <<"paid_delivery">> \in Seq(Kind) /\ Len(first \o <<"paid_delivery">>) = 6
          /\ (first \o <<"paid_delivery">>)[6] = "paid_delivery"
          /\ \A k \in 1..5 : (first \o <<"paid_delivery">>)[k] = first[k]
      BY <1>8, JoinedLast
    <3>4. \A k \in 1..6 : Invocations(e)[k].kind = e.accounts[k]
      BY <1>1, <1>6, <1>9, <2>2, <3>1, <3>2, <3>3
    <3>5. Len(Invocations(e)) = 6 /\ e.accounts \in Seq(Kind) /\ Len(e.accounts) = 6
      BY <3>1, <3>2, <3>3
    <3>6. e.accounts = [k \in 1..6 |-> e.accounts[k]]
      BY <3>5
    <3>7. kinds = [k \in 1..6 |-> Invocations(e)[k].kind]
      BY <3>5
    <3> HIDE DEF kinds
    <3>8. QED
      BY <3>4, <3>6, <3>7, Zenon
  <2>3. QED
    BY <2>1, <2>2
<1>11. QED
  BY <1>10 DEF Accounted, e

\* Both programs compute the gates of a run that was judged alike.
LEMMA GatesAlike ==
    ASSUME TypeOK, WorkInv, pc = "publish"
    PROVE  /\ Normal(CompleteEvidence) /\ CompleteEvidence.status = PassportStatus(work.gates, TRUE)
           /\ RecomputedGates(contract, CompleteEvidence) = work.gates
           /\ CompleteEvidence.matches = Discoverable(contract, CompleteEvidence)
           /\ TargetConsistent(contract, CompleteEvidence)
                  <=> /\ ~(work.paid.kind = "paid_delivery" /\ work.target = None)
                      /\ work.target \in {None, contract.payment}
<1> DEFINE e == CompleteEvidence
<1>1. /\ work.tool = contract.tool /\ (contract.tool # None => Admitted(contract.tool))
      /\ work.gates[1] = Tested(contract.tool # None /\ WorkerMatches(contract.tool, contract.sample))
      /\ work.fixed \in FixedAnswers /\ work.invalid \in ProbeAnswers
      /\ work.gates[2] = Tested(ContractCorrect(FixedSample(work.fixed), work.invalid))
      /\ work.gates[4] = Tested(work.gates[1] = "pass" /\ SafeFailure(work.invalid))
      /\ Len(work.fresh) = 3 /\ work.gates[3] = Tested(FreshChallenge(Runs(work.fresh)))
      /\ Outcome
  BY DEF WorkInv, DiscoveredInv, ProbedInv, ChallengedInv, PaidInv,
         Discovered, Sampled, Probed, Challenged
<1>2. Normal(e) /\ e.status = PassportStatus(work.gates, TRUE)
  <2>1. /\ work.gates[1] # "not_tested" /\ work.gates[2] # "not_tested"
        /\ work.gates[3] # "not_tested" /\ work.gates[4] # "not_tested"
    BY <1>1, Zenon DEF Tested
  <2>2. \A i \in FirstFour : work.gates[i] # "not_tested"
    BY <2>1 DEF FirstFour
  <2>3. PassportStatus(work.gates, TRUE) # "not-rehearsable"
    BY <2>2 DEF PassportStatus
  <2>4. e.status = PassportStatus(work.gates, TRUE)
    BY CompleteFields
  <2>5. QED
    BY <2>3, <2>4 DEF Normal
<1>3. /\ Discoverable(contract, e) \in BOOLEAN
      /\ Discoverable(contract, e)
             <=> contract.tool # None /\ WorkerMatches(contract.tool, contract.sample)
  <2>1. e.tool = contract.tool
    <3>1. work.tool = contract.tool
      BY <1>1
    <3>2. e.tool = work.tool
      BY DEF CompleteEvidence
    <3>3. QED
      BY <3>1, <3>2
  <2> HIDE DEF e
  <2>2. Discoverable(contract, e)
           <=> contract.tool # None /\ ValidatorMatches(contract.tool, contract.sample)
    BY <1>2, <2>1 DEF Discoverable
  <2>3. contract.tool # None =>
            (WorkerMatches(contract.tool, contract.sample)
                 <=> ValidatorMatches(contract.tool, contract.sample))
    <3>1. /\ contract.tool \in Schema \cup {None} /\ contract.sample \in SUBSET InputField
      BY WorkFields
    <3>2. contract.tool # None => Admitted(contract.tool)
      BY <1>1
    <3>3. QED
      BY <3>1, <3>2, MatchAlike
  <2>4. QED
    BY <2>2, <2>3 DEF Discoverable
<1>4. /\ work.gates[1] = Tested(Discoverable(contract, e))
      /\ (work.gates[1] = "pass") = Discoverable(contract, e)
  BY <1>1, <1>3 DEF Tested
<1>5. /\ e.fixed = FixedSample(work.fixed) /\ e.invalid = InvalidInput(work.invalid)
      /\ e.challenges = Runs(work.fresh) /\ e.paid = work.paid /\ e.target = work.target
      /\ e.gates = work.gates /\ e.matches = (work.gates[1] = "pass")
  BY CompleteFields
<1> HIDE DEF e
<1> DEFINE failed == e.invalid.class = None /\ e.invalid.error = "TOOL_ERROR"
<1>6. failed <=> SafeFailure(work.invalid)
  BY <1>5, ProbeAlike
<1>7. work.gates[2] = Tested(e.fixed.class = None /\ e.fixed.compared = {"match"} /\ failed)
  BY <1>1, <1>5, <1>6 DEF ContractCorrect, Tested
<1>8. work.gates[4] = Tested(Discoverable(contract, e) /\ failed)
  BY <1>1, <1>4, <1>6 DEF Tested
<1>9. work.gates[3] = Tested(/\ Len(e.challenges) = 3
                            /\ \A i \in 1..3 : /\ e.challenges[i].class = None
                                               /\ e.challenges[i].compared = {"match"})
  <2>1. /\ Len(Runs(work.fresh)) = 3
        /\ \A i \in 1..3 : work.fresh[i] \in FreshAnswers /\ Runs(work.fresh)[i] = ChallengeRun(work.fresh[i])
    BY <1>1, WorkFields, RunsOf
  <2>2. \A i \in 1..3 : Runs(work.fresh)[i].class = None
                       => (/\ Runs(work.fresh)[i].compared \subseteq {"match"}
                           <=> Runs(work.fresh)[i].compared = {"match"})
    BY <2>1, ChallengeGood
  <2>3. FreshChallenge(Runs(work.fresh))
           <=> \A i \in 1..3 : /\ Runs(work.fresh)[i].class = None
                               /\ Runs(work.fresh)[i].compared = {"match"}
    BY <2>1, <2>2 DEF FreshChallenge
  <2>4. QED
    BY <1>1, <1>5, <2>1, <2>3 DEF Tested
<1>10. work.gates[5] = IF contract.payment = None THEN "not_tested"
                       ELSE Tested(PaidDeliveryMatches(contract, e))
  BY <1>1, <1>5 DEF Outcome, PaidDeliveryMatches, TargetMatches, Tested
<1>11. RecomputedGates(contract, e) = work.gates
  BY <1>2, <1>4, <1>7, <1>8, <1>9, <1>10, WorkFields, GatesTuple DEF RecomputedGates
<1>12. TargetConsistent(contract, e)
           <=> /\ ~(work.paid.kind = "paid_delivery" /\ work.target = None)
               /\ work.target \in {None, contract.payment}
  <2>1. CASE contract.payment = None
    <3>1. work.target = None /\ work.paid.kind = None /\ work.gates[5] = "not_tested"
      BY <1>1, <2>1, Kinds DEF Outcome
    <3>2. QED
      BY <1>5, <3>1, NoneAssumption DEF TargetConsistent, Paid
  <2>2. CASE contract.payment # None
    <3>1. work.paid.kind = "paid_delivery" /\ work.paid.kind # None
      BY <1>1, <2>2, NoneAssumption DEF Outcome
    <3>2. QED
      BY <1>5, <2>2, <3>1 DEF TargetConsistent, TargetMatches
  <2>3. QED
    BY <2>1, <2>2
<1>13. QED
  BY <1>2, <1>4, <1>5, <1>11, <1>12 DEF e

\* Judged evidence is read alike by execute and validateCanonicalEvidence.
LEMMA JudgedAlike ==
    ASSUME TypeOK, WorkInv, pc = "publish"
    PROVE  Validated(contract, CompleteEvidence) <=> ~Unverifiable(CompleteEvidence)
<1> DEFINE e == CompleteEvidence
<1>1. /\ Normal(e) /\ e.status = PassportStatus(work.gates, TRUE)
      /\ RecomputedGates(contract, e) = work.gates
      /\ e.matches = Discoverable(contract, e)
      /\ TargetConsistent(contract, e)
             <=> /\ ~(work.paid.kind = "paid_delivery" /\ work.target = None)
                 /\ work.target \in {None, contract.payment}
  BY GatesAlike
<1>2. /\ e.gates = work.gates /\ e.fixture = Fixture /\ e.paid = work.paid /\ e.target = work.target
      /\ e.fixed.kind = "fixed_sample" /\ e.invalid.kind = "invalid_input"
      /\ e.challenges = Runs(work.fresh)
  BY CompleteFields, Kinds
<1>3. Outcome /\ Len(work.fresh) = 3
  BY DEF WorkInv, PaidInv, ChallengedInv, Challenged
<1>4. Accounted(e)
  BY <1>1, <1>3, CompleteAccounted, Kinds DEF Outcome
<1>5. InvocationSemantics(e)
  <2>1. Len(Runs(work.fresh)) = 3 /\ \A i \in 1..3 : Runs(work.fresh)[i].kind = "challenge"
    BY <1>3, WorkFields, RunsOf, Kinds
  <2> HIDE DEF e
  <2>2. QED
    BY <1>1, <1>2, <2>1 DEF InvocationSemantics
<1> HIDE DEF e
<1>6. PaidDeliveryMatches(contract, e) = (e.gates[Paid] = "pass")
  <2>1. CASE contract.payment = None
    <3>1. work.paid.kind = None /\ work.gates[5] = "not_tested"
      BY <1>3, <2>1, Kinds DEF Outcome
    <3>2. e.paid.kind # "paid_delivery" /\ e.gates[Paid] # "pass"
      BY <1>2, <3>1, NoneAssumption DEF Paid
    <3>3. QED
      BY <3>2 DEF PaidDeliveryMatches
  <2>2. CASE contract.payment # None
    <3>1. /\ work.paid.kind = "paid_delivery" /\ work.gates[5] = Tested(work.paid.compared = {"match"})
          /\ work.paid.compared = {"match"} =>
                 work.paid.class = None /\ work.paid.error = None /\ work.target = contract.payment
      BY <1>3, <2>2 DEF Outcome
    <3>2. work.gates[5] = "pass" <=> work.paid.compared = {"match"}
      BY <3>1 DEF Tested
    <3>3. PaidDeliveryMatches(contract, e) <=> work.paid.compared = {"match"}
      BY <1>2, <3>1 DEF PaidDeliveryMatches, TargetMatches
    <3>4. PaidDeliveryMatches(contract, e) \in BOOLEAN
      BY DEF PaidDeliveryMatches
    <3>5. e.gates[Paid] = work.gates[5]
      BY <1>2 DEF Paid
    <3>6. QED
      BY <3>2, <3>3, <3>4, <3>5
  <2>3. QED
    BY <2>1, <2>2
<1>7. Validated(contract, e)
         <=> /\ Representable(contract, e) /\ contract.origin = "same" /\ Fixture = contract.claim
             /\ TargetConsistent(contract, e)
  BY <1>1, <1>2, <1>4, <1>5, <1>6 DEF Validated
<1>8. Unverifiable(e)
         <=> ~(/\ Representable(contract, e) /\ contract.origin = "same" /\ Fixture = contract.claim
               /\ TargetConsistent(contract, e))
  BY <1>1, <1>2 DEF Unverifiable
<1>9. QED
  BY <1>7, <1>8 DEF e

\* So is evidence of a run that was not.
LEMMA UnjudgedAlike ==
    ASSUME TypeOK, NEW t \in Terms \cup {None}, NEW long \in BOOLEAN
    PROVE  LET e == NotRehearsableEvidence(t, long) IN
           ~Normal(e) /\ (Validated(contract, e) <=> ~Unverifiable(e))
<1> DEFINE e == NotRehearsableEvidence(t, long)
<1>1. /\ e.status = "not-rehearsable" /\ e.gates = Untested /\ e.fixture = Fixture
      /\ e.fixed = Placeholder("fixed_sample") /\ e.invalid = Placeholder("invalid_input")
      /\ e.challenges = <<>> /\ e.paid = Placeholder(None) /\ e.accounts = <<>>
      /\ e.target = t /\ e.long = long
  BY DEF NotRehearsableEvidence
<1> HIDE DEF e
<1>2. ~Normal(e) /\ RecomputedGates(contract, e) = Untested
  BY <1>1 DEF Normal, RecomputedGates
<1>3. e.paid.kind = None /\ e.paid.kind # "paid_delivery" /\ e.gates[Paid] = "not_tested"
  BY <1>1, Kinds, NoneAssumption DEF Untested, Paid, Gate
<1>4. TargetConsistent(contract, e) <=> t \in {None, contract.payment}
  BY <1>1, <1>3 DEF TargetConsistent, TargetMatches
<1>5. PaidDeliveryMatches(contract, e) = (e.gates[Paid] = "pass")
  BY <1>3 DEF PaidDeliveryMatches
<1>6. e.status = PassportStatus(RecomputedGates(contract, e), Normal(e))
  BY <1>1, <1>2 DEF PassportStatus
<1>7. Accounted(e)
  BY <1>1, <1>2 DEF Accounted
<1>8. InvocationSemantics(e)
  BY <1>1, <1>2, Kinds DEF InvocationSemantics
<1>9. Validated(contract, e)
         <=> /\ Representable(contract, e) /\ contract.origin = "same" /\ Fixture = contract.claim
             /\ t \in {None, contract.payment}
  BY <1>1, <1>2, <1>4, <1>5, <1>6, <1>7, <1>8 DEF Validated
<1>10. Unverifiable(e)
         <=> ~(/\ Representable(contract, e) /\ contract.origin = "same" /\ Fixture = contract.claim
               /\ t \in {None, contract.payment})
  BY <1>1, <1>3 DEF Unverifiable
<1>11. QED
  BY <1>2, <1>9, <1>10 DEF e

\* A verified passport was earned, of a payment on file.
LEMMA JudgedEarned ==
    ASSUME TypeOK, WorkInv, MoneyInv, pc = "publish", CompleteEvidence.status = "verified"
    PROVE  /\ Good(work.fixed)
           /\ \A i \in 1..3 : Good(work.fresh[i]) /\ "nested" \notin work.fresh[i].out
           /\ SafeFailure(work.invalid)
           /\ WorkerMatches(work.tool, contract.sample)
           /\ onFile = contract.payment /\ contract.payment # None /\ contract.declaration = "verified"
<1>1. /\ work.tool = contract.tool
      /\ work.gates[1] = Tested(contract.tool # None /\ WorkerMatches(contract.tool, contract.sample))
      /\ work.fixed \in FixedAnswers
      /\ work.gates[2] = Tested(ContractCorrect(FixedSample(work.fixed), work.invalid))
      /\ Len(work.fresh) = 3 /\ work.gates[3] = Tested(FreshChallenge(Runs(work.fresh)))
      /\ Outcome
  BY DEF WorkInv, DiscoveredInv, ProbedInv, ChallengedInv, PaidInv,
         Discovered, Sampled, Probed, Challenged
<1>2. \A i \in Gate : work.gates[i] = "pass"
  <2>1. PassportStatus(work.gates, TRUE) = "verified"
    BY CompleteFields
  <2>2. QED
    BY <2>1 DEF PassportStatus
<1>3. /\ work.gates[1] = "pass" /\ work.gates[2] = "pass" /\ work.gates[3] = "pass"
      /\ work.gates[5] = "pass"
  BY <1>2 DEF Gate
<1>4. WorkerMatches(work.tool, contract.sample)
  BY <1>1, <1>3 DEF Tested
<1>5. ContractCorrect(FixedSample(work.fixed), work.invalid)
  BY <1>1, <1>3 DEF Tested
<1>6. Good(work.fixed) /\ SafeFailure(work.invalid)
  BY <1>1, <1>5, FixedGood DEF ContractCorrect
<1>7. FreshChallenge(Runs(work.fresh))
  BY <1>1, <1>3 DEF Tested
<1>8. \A i \in 1..3 : Good(work.fresh[i]) /\ "nested" \notin work.fresh[i].out
  <2>1. /\ Len(Runs(work.fresh)) = 3
        /\ \A i \in 1..3 : work.fresh[i] \in FreshAnswers /\ Runs(work.fresh)[i] = ChallengeRun(work.fresh[i])
    BY <1>1, WorkFields, RunsOf
  <2>2. \A i \in 1..3 : /\ ChallengeRun(work.fresh[i]).class = None
                       /\ ChallengeRun(work.fresh[i]).compared \subseteq {"match"}
    BY <1>7, <2>1 DEF FreshChallenge
  <2>3. QED
    BY <2>1, <2>2, ChallengeGood
<1>9. contract.payment # None /\ work.target = contract.payment
  BY <1>1, <1>3 DEF Outcome, Tested
<1>10. onFile = contract.payment /\ contract.payment # None /\ contract.declaration = "verified"
  BY <1>9 DEF MoneyInv, Payable
<1>11. QED
  BY <1>4, <1>6, <1>8, <1>10

-----------------------------------------------------------------------------
(* Every step keeps the invariant.                                         *)

\* A gate that is decided.
LEMMA GatesKept ==
    ASSUME NEW g \in Gates, NEW i \in Gate, NEW v \in GateState
    PROVE  /\ [g EXCEPT ![i] = v] \in Gates
           /\ [g EXCEPT ![i] = v][i] = v
           /\ \A j \in Gate \ {i} : [g EXCEPT ![i] = v][j] = g[j]
BY DEF Gates

LEMMA TestedState == \A b \in BOOLEAN : Tested(b) \in GateState
BY DEF Tested, GateState

LEMMA ProbeInputs ==
    ASSUME NEW s, NEW sample \in SUBSET InputField
    PROVE  InvalidInputs(s, sample) \subseteq SUBSET InputField
           /\ BlindInputs(sample) \subseteq SUBSET InputField
BY DEF InvalidInputs, BlindInputs

\* Nothing is published before a rehearsal has ended.
LEMMA NotPublished ==
    ASSUME Inv, pc \notin Ended
    PROVE  published = None
BY DEF Inv, PublishedInv

LEMMA StillUnpublished ==
    ASSUME published' = None
    PROVE  PublishedInv'
BY DEF PublishedInv, ReadAlike, VerifiedEarned, PaymentPublished, AttemptNotJudged

\* Outside of the stages nothing is said of the work.
LEMMA OutsideWork ==
    ASSUME pc' \in Ended \cup {"caught", "longcaught"}
    PROVE  WorkInv'
BY DEF WorkInv, DiscoveredInv, ProbedInv, ChallengedInv, PaidInv, Ended, Fresh,
       Discovered, Sampled, Probed, Challenged

LEMMA FreshWork ==
    ASSUME pc' \in Fresh, work' = NoWork
    PROVE  WorkInv'
BY DEF WorkInv, DiscoveredInv, ProbedInv, ChallengedInv, PaidInv, Fresh,
       Discovered, Sampled, Probed, Challenged

LEMMA NoWorkType ==
    /\ NoWork \in Work /\ Len(NoWork.fresh) = 0 /\ NoWork.invalid = None
    /\ NoWork.target = None /\ NoWork.gates \in Gates /\ NoWork.gates[5] = "not_tested"
    /\ NoWork.paid = Placeholder(None) /\ NoWork.tool = None /\ NoWork.fresh = <<>>
<1>1. Untested \in Gates /\ Untested[5] = "not_tested"
  BY DEF Untested, Gates, Gate, GateState
<1>2. Placeholder(None) \in Invocation
  BY DEF Placeholder, Invocation, ErrorCode
<1>3. <<>> \in Seq(FreshAnswers) /\ Len(<<>>) = 0
  OBVIOUS
<1>4. QED
  BY <1>1, <1>2, <1>3 DEF NoWork, Work

LEMMA InitInv == Init => Inv
<1> SUFFICES ASSUME Init PROVE Inv
  OBVIOUS
<1>1. TypeOK
  <2>1. work \in Work /\ Len(work.fresh) <= 3
    BY NoWorkType DEF Init
  <2>2. QED
    BY <2>1 DEF Init, TypeOK, Stage
<1>2. WorkInv
  BY DEF Init, WorkInv, DiscoveredInv, ProbedInv, ChallengedInv, PaidInv, Fresh,
         Discovered, Sampled, Probed, Challenged
<1>3. MoneyInv /\ ProbeInv
  BY NoWorkType DEF Init, MoneyInv, ProbeInv
<1>4. PublishedInv
  BY DEF Init, PublishedInv, ReadAlike, VerifiedEarned, PaymentPublished, AttemptNotJudged
<1>5. QED
  BY <1>1, <1>2, <1>3, <1>4 DEF Inv

\* The stages before the first call.
LEMMA FetchStep == Inv /\ Fetch => Inv'
<1> SUFFICES ASSUME Inv, Fetch PROVE Inv'
  OBVIOUS
<1>1. /\ pc = "fetch" /\ pc' \in {"check", "failed"} /\ published' = None
      /\ contract' \in Contracts \cup {contract} /\ work' = work /\ attempt' = attempt /\ onFile' = onFile
      /\ blind' = blind
  BY NotPublished DEF Fetch, store, Ended
<1>2. work' = NoWork
  BY <1>1 DEF Inv, WorkInv, Fresh
<1>3. WorkInv'
  BY <1>1, <1>2, FreshWork, OutsideWork DEF Fresh, Ended
<1>4. TypeOK'
  BY <1>1 DEF Inv, TypeOK, Stage, Ended
<1>5. MoneyInv' /\ ProbeInv'
  BY <1>1, <1>2, NoWorkType DEF Inv, MoneyInv, ProbeInv, Stage, Ended
<1>6. QED
  BY <1>1, <1>3, <1>4, <1>5, StillUnpublished DEF Inv

LEMMA CheckStep == Inv /\ Check => Inv'
<1> SUFFICES ASSUME Inv, Check PROVE Inv'
  OBVIOUS
<1>1. /\ pc = "check" /\ pc' \in {"discover", "caught"} /\ published' = None
      /\ contract' = contract /\ work' = work /\ attempt' = attempt /\ onFile' = onFile
      /\ blind' = blind
  BY NotPublished DEF Check, store, Ended
<1>2. work' = NoWork
  BY <1>1 DEF Inv, WorkInv, Fresh
<1>3. WorkInv'
  BY <1>1, <1>2, FreshWork, OutsideWork DEF Fresh, Ended
<1>4. TypeOK'
  BY <1>1 DEF Inv, TypeOK, Stage, Ended
<1>5. MoneyInv' /\ ProbeInv'
  BY <1>1 DEF Inv, MoneyInv, Payable, ProbeInv, Stage, Ended
<1>6. QED
  BY <1>1, <1>3, <1>4, <1>5, StillUnpublished DEF Inv

LEMMA DiscoverStep == Inv /\ Discover => Inv'
<1> SUFFICES ASSUME Inv, Discover PROVE Inv'
  OBVIOUS
<1> DEFINE v == Tested(contract.tool # None /\ WorkerMatches(contract.tool, contract.sample))
           g == [NoWork.gates EXCEPT ![1] = v]
<1>1. /\ pc = "discover" /\ pc' = "fixed" /\ published' = None
      /\ contract' = contract /\ attempt' = attempt /\ onFile' = onFile /\ blind' = blind
      /\ contract.tool # None => Admitted(contract.tool)
  BY NotPublished DEF Discover, store, Ended
<1>2. work = NoWork
  BY <1>1 DEF Inv, WorkInv, Fresh
<1>3. work' = [NoWork EXCEPT !.tool = contract.tool, !.gates = g]
  BY <1>2 DEF Discover, Gated
<1>4. g \in Gates /\ g[1] = v /\ g[5] = "not_tested"
  <2>1. v \in GateState
    BY DEF Tested, GateState
  <2> HIDE DEF v
  <2>2. QED
    BY <2>1, NoWorkType, GatesKept DEF Gate
<1> HIDE DEF g, v
<1>5. /\ work' \in Work /\ Len(work'.fresh) = 0 /\ work'.tool = contract.tool
      /\ work'.gates = g /\ work'.target = None /\ work'.paid = Placeholder(None) /\ work'.invalid = None
  BY <1>3, <1>4, NoWorkType, WorkFields DEF Work, Inv
<1>6. TypeOK'
  BY <1>1, <1>5 DEF Inv, TypeOK, Stage
<1>7. WorkInv'
  BY <1>1, <1>4, <1>5 DEF v, WorkInv, DiscoveredInv, ProbedInv, ChallengedInv, PaidInv,
         Fresh, Discovered, Sampled, Probed, Challenged
<1>8. MoneyInv' /\ ProbeInv'
  BY <1>1, <1>5 DEF Inv, MoneyInv, Payable, ProbeInv, Stage, Ended
<1>9. QED
  BY <1>1, <1>6, <1>7, <1>8, StillUnpublished DEF Inv

\* The calls.
LEMMA FixedStep == Inv /\ CallFixed => Inv'
<1> SUFFICES ASSUME Inv, CallFixed PROVE Inv'
  OBVIOUS
<1>1. /\ pc = "fixed" /\ pc' = "invalid" /\ published' = None
      /\ contract' = contract /\ attempt' = attempt /\ onFile' = onFile /\ blind' = blind
  BY NotPublished DEF CallFixed, store, Ended
<1>2. PICK a \in FixedAnswers : work' = [work EXCEPT !.fixed = a]
  BY DEF CallFixed
<1>3. /\ work' \in Work /\ work'.fixed = a /\ work'.tool = work.tool /\ work'.gates = work.gates
      /\ work'.fresh = work.fresh /\ work'.target = work.target /\ work'.paid = work.paid
      /\ work'.invalid = work.invalid /\ work'.probe = work.probe
  BY <1>2 DEF Inv, TypeOK, Work
<1>4. TypeOK'
  BY <1>1, <1>3 DEF Inv, TypeOK, Stage
<1>5. WorkInv'
  BY <1>1, <1>3 DEF Inv, WorkInv, DiscoveredInv, ProbedInv, ChallengedInv, PaidInv,
         Fresh, Discovered, Sampled, Probed, Challenged
<1>6. MoneyInv' /\ ProbeInv'
  BY <1>1, <1>3 DEF Inv, MoneyInv, Payable, ProbeInv, Stage, Ended
<1>7. QED
  BY <1>1, <1>4, <1>5, <1>6, StillUnpublished DEF Inv

LEMMA InvalidStep == Inv /\ CallInvalid => Inv'
<1> SUFFICES ASSUME Inv, CallInvalid PROVE Inv'
  OBVIOUS
<1>1. /\ pc = "invalid" /\ pc' = "challenges" /\ published' = None
      /\ contract' = contract /\ attempt' = attempt /\ onFile' = onFile /\ blind' = blind
  BY NotPublished DEF CallInvalid, store, Ended
<1>2. PICK a \in ProbeAnswers,
           input \in IF work.tool = None THEN BlindInputs(contract.sample)
                     ELSE InvalidInputs(work.tool, contract.sample) :
         work' = [work EXCEPT !.invalid = a, !.probe = input,
                     !.gates = [work.gates EXCEPT
                         ![2] = Tested(ContractCorrect(FixedSample(work.fixed), a)),
                         ![4] = Tested(work.gates[1] = "pass" /\ SafeFailure(a))]]
  BY DEF CallInvalid
<1> DEFINE two  == Tested(ContractCorrect(FixedSample(work.fixed), a))
           four == Tested(work.gates[1] = "pass" /\ SafeFailure(a))
           g    == [[work.gates EXCEPT ![2] = two] EXCEPT ![4] = four]
<1>3. input \in SUBSET InputField
  BY WorkFields, ProbeInputs DEF Inv
<1>4. g \in Gates /\ g[1] = work.gates[1] /\ g[2] = two /\ g[4] = four /\ g[5] = work.gates[5]
  <2>1. two \in GateState /\ four \in GateState
    BY DEF Tested, GateState
  <2> DEFINE h == [work.gates EXCEPT ![2] = two]
  <2> HIDE DEF two, four
  <2>2. h \in Gates /\ h[1] = work.gates[1] /\ h[2] = two /\ h[5] = work.gates[5]
    BY <2>1, WorkFields, GatesKept DEF Inv, Gate
  <2>3. g = [h EXCEPT ![4] = four]
    OBVIOUS
  <2> HIDE DEF g, h
  <2>4. 4 \in Gate /\ 1 \in Gate \ {4} /\ 2 \in Gate \ {4} /\ 5 \in Gate \ {4}
    BY DEF Gate
  <2>5. g \in Gates /\ g[4] = four /\ \A j \in Gate \ {4} : g[j] = h[j]
    BY <2>1, <2>2, <2>3, <2>4 DEF Gates
  <2>6. QED
    BY <2>2, <2>4, <2>5
<1>5. work' = [work EXCEPT !.invalid = a, !.probe = input, !.gates = g]
  BY <1>2
<1> HIDE DEF g, two, four
<1>6. /\ work' \in Work /\ work'.fixed = work.fixed /\ work'.tool = work.tool /\ work'.gates = g
      /\ work'.fresh = work.fresh /\ work'.target = work.target /\ work'.paid = work.paid
      /\ work'.invalid = a /\ work'.probe = input
  BY <1>3, <1>4, <1>5 DEF Inv, TypeOK, Work
<1>7. TypeOK'
  BY <1>1, <1>6 DEF Inv, TypeOK, Stage
<1>8. WorkInv'
  BY <1>1, <1>4, <1>6 DEF two, four, Inv, WorkInv, DiscoveredInv, ProbedInv, ChallengedInv, PaidInv,
         Fresh, Discovered, Sampled, Probed, Challenged
<1>9. MoneyInv' /\ ProbeInv'
  BY <1>1, <1>6 DEF Inv, MoneyInv, Payable, ProbeInv, Stage, Ended
<1>10. QED
  BY <1>1, <1>7, <1>8, <1>9, StillUnpublished DEF Inv

LEMMA ChallengeStep == Inv /\ CallChallenge => Inv'
<1> SUFFICES ASSUME Inv, CallChallenge PROVE Inv'
  OBVIOUS
<1>1. /\ pc = "challenges" /\ published' = None
      /\ contract' = contract /\ attempt' = attempt /\ onFile' = onFile /\ blind' = blind
  BY NotPublished DEF CallChallenge, store, Ended
<1>2. PICK fresh : \E a \in FreshAnswers :
         /\ fresh = Append(work.fresh, a)
         /\ work' = [work EXCEPT !.fresh = fresh,
                        !.gates = IF Len(fresh) = 3 THEN Gated(3, FreshChallenge(Runs(fresh))) ELSE @]
         /\ pc' = IF Len(fresh) = 3 THEN "target" ELSE pc
  BY DEF CallChallenge
<1>3. fresh \in Seq(FreshAnswers) /\ Len(fresh) \in Nat /\ Len(fresh) <= 3
  <2>1. Len(work.fresh) <= 2 /\ work.fresh \in Seq(FreshAnswers)
    BY <1>1, WorkFields DEF Inv, WorkInv, ChallengedInv, Discovered, Challenged
  <2>2. QED
    BY <1>2, <2>1
<1>4. PICK g \in Gates : /\ work' = [work EXCEPT !.fresh = fresh, !.gates = g]
                         /\ \A i \in Gate \ {3} : g[i] = work.gates[i]
                         /\ Len(fresh) = 3 => g[3] = Tested(FreshChallenge(Runs(fresh)))
  <2> DEFINE v == Tested(FreshChallenge(Runs(fresh)))
             h == IF Len(fresh) = 3 THEN [work.gates EXCEPT ![3] = v] ELSE work.gates
  <2>1. work' = [work EXCEPT !.fresh = fresh, !.gates = h]
    BY <1>2 DEF Gated
  <2>2. v \in GateState
    BY DEF Tested, GateState
  <2> HIDE DEF v
  <2>3. /\ h \in Gates /\ \A i \in Gate \ {3} : h[i] = work.gates[i]
        /\ (Len(fresh) = 3 => h[3] = v)
    BY <2>2, WorkFields, GatesKept DEF Inv, Gate
  <2> HIDE DEF h
  <2>4. QED
    BY <2>1, <2>3 DEF v
<1>5. /\ work' \in Work /\ work'.fixed = work.fixed /\ work'.tool = work.tool /\ work'.gates = g
      /\ work'.fresh = fresh /\ work'.target = work.target /\ work'.paid = work.paid
      /\ work'.invalid = work.invalid /\ work'.probe = work.probe
  BY <1>3, <1>4 DEF Inv, TypeOK, Work
<1>6. g[1] = work.gates[1] /\ g[2] = work.gates[2] /\ g[4] = work.gates[4] /\ g[5] = work.gates[5]
  <2>1. 1 \in Gate \ {3} /\ 2 \in Gate \ {3} /\ 4 \in Gate \ {3} /\ 5 \in Gate \ {3}
    BY DEF Gate
  <2>2. QED
    BY <1>4, <2>1
<1>7. TypeOK'
  BY <1>1, <1>2, <1>3, <1>5 DEF Inv, TypeOK, Stage
<1>8. /\ work.tool = contract.tool /\ (contract.tool # None => Admitted(contract.tool))
      /\ work.gates[1] = Tested(contract.tool # None /\ WorkerMatches(contract.tool, contract.sample))
      /\ work.fixed \in FixedAnswers /\ work.invalid \in ProbeAnswers
      /\ work.gates[2] = Tested(ContractCorrect(FixedSample(work.fixed), work.invalid))
      /\ work.gates[4] = Tested(work.gates[1] = "pass" /\ SafeFailure(work.invalid))
      /\ work.target = None /\ work.paid = Placeholder(None) /\ work.gates[5] = "not_tested"
  BY <1>1 DEF Inv, WorkInv, DiscoveredInv, ProbedInv, PaidInv, Discovered, Sampled, Probed
<1>9. WorkInv'
  <2>1. (pc' = "target" /\ Len(fresh) = 3) \/ (pc' = "challenges" /\ Len(fresh) <= 2)
    <3>1. pc' = IF Len(fresh) = 3 THEN "target" ELSE "challenges"
      BY <1>1, <1>2
    <3>2. Len(fresh) # 3 => Len(fresh) <= 2
      <4>1. \A n \in Nat : n <= 3 /\ n # 3 => n <= 2
        OBVIOUS
      <4>2. QED
        BY <1>3, <4>1, Zenon
    <3>3. QED
      BY <3>1, <3>2
  <2>2. pc' \notin Fresh /\ (pc' \in Challenged => Len(fresh) = 3) /\ pc' # "publish"
        /\ (pc' \in Discovered \ Challenged => Len(fresh) <= 2)
    BY <2>1 DEF Fresh, Discovered, Challenged
  <2>3. DiscoveredInv'
    BY <1>1, <1>5, <1>6, <1>8 DEF DiscoveredInv
  <2>4. ProbedInv'
    BY <1>1, <1>5, <1>6, <1>8 DEF ProbedInv
  <2>5. ChallengedInv'
    <3>1. Len(fresh) = 3 => g[3] = Tested(FreshChallenge(Runs(fresh)))
      BY <1>4
    <3>2. work'.fresh = fresh /\ work'.gates = g
      BY <1>5
    <3>3. QED
      BY <2>2, <3>1, <3>2 DEF ChallengedInv
  <2>6. PaidInv'
    BY <1>1, <1>5, <1>6, <1>8, <2>2 DEF PaidInv
  <2>7. QED
    BY <2>2, <2>3, <2>4, <2>5, <2>6 DEF WorkInv
<1>10. MoneyInv' /\ ProbeInv'
  BY <1>1, <1>2, <1>5 DEF Inv, MoneyInv, Payable, ProbeInv, Stage, Ended
<1>11. QED
  BY <1>1, <1>7, <1>9, <1>10, StillUnpublished DEF Inv

\* The target payment.
LEMMA PaidStep ==
    ASSUME Inv, pc = "target", pc' = "publish", contract.payment # None,
           contract' = contract,
           NEW paid \in Invocation, NEW target \in Terms \cup {None}, NEW v \in GateState,
           v = Tested(paid.compared = {"match"}), paid.kind = "paid_delivery",
           paid.compared = {"match"} => paid.class = None /\ paid.error = None /\ target = contract.payment,
           work' = [work EXCEPT !.paid = paid, !.target = target,
                                !.gates = [work.gates EXCEPT ![5] = v]]
    PROVE  work' \in Work /\ Len(work'.fresh) <= 3 /\ WorkInv' /\ ProbeInv' /\ work'.target = target
<1>1. PICK g \in Gates : /\ work' = [work EXCEPT !.paid = paid, !.target = target, !.gates = g]
                         /\ g[5] = v /\ \A i \in 1..4 : g[i] = work.gates[i]
  <2> DEFINE h == [work.gates EXCEPT ![5] = v]
  <2>1. h \in Gates /\ h[5] = v /\ \A i \in 1..4 : h[i] = work.gates[i]
    BY WorkFields, GatesKept DEF Inv, Gate
  <2> HIDE DEF h
  <2>2. QED
    BY <2>1 DEF h
<1>2. /\ work' \in Work /\ work'.fixed = work.fixed /\ work'.tool = work.tool /\ work'.gates = g
      /\ work'.fresh = work.fresh /\ work'.target = target /\ work'.paid = paid
      /\ work'.invalid = work.invalid /\ work'.probe = work.probe
  BY <1>1 DEF Inv, TypeOK, Work
<1>3. g[1] = work.gates[1] /\ g[2] = work.gates[2] /\ g[3] = work.gates[3] /\ g[4] = work.gates[4]
  BY <1>1
<1>4. DiscoveredInv' /\ ProbedInv'
  BY <1>2, <1>3 DEF Inv, WorkInv, DiscoveredInv, ProbedInv, Discovered, Sampled, Probed
<1>5. ChallengedInv'
  BY <1>2, <1>3 DEF Inv, WorkInv, ChallengedInv, Discovered, Challenged
<1>6. PaidInv'
  BY <1>1, <1>2 DEF PaidInv, Outcome
<1>7. ProbeInv' /\ Len(work'.fresh) <= 3
  BY <1>2 DEF Inv, TypeOK, ProbeInv
<1>8. QED
  BY <1>2, <1>4, <1>5, <1>6, <1>7 DEF WorkInv, Fresh

LEMMA NotAskedStep == Inv /\ NotAsked => Inv'
<1> SUFFICES ASSUME Inv, NotAsked PROVE Inv'
  OBVIOUS
<1>1. /\ pc = "target" /\ pc' = "publish" /\ published' = None /\ contract.payment = None
      /\ contract' = contract /\ work' = work
      /\ attempt' = attempt /\ onFile' = onFile /\ blind' = blind
  BY NotPublished DEF NotAsked, store, Ended
<1>2. TypeOK'
  BY <1>1 DEF Inv, TypeOK, Stage
<1>3. WorkInv'
  BY <1>1 DEF Inv, WorkInv, DiscoveredInv, ProbedInv, ChallengedInv, PaidInv, Outcome,
              Fresh, Discovered, Sampled, Probed, Challenged
<1>4. MoneyInv'
  BY <1>1 DEF Inv, MoneyInv, Payable, Stage, WorkInv, PaidInv, Discovered
<1>5. ProbeInv'
  BY <1>1 DEF Inv, ProbeInv
<1>6. QED
  BY <1>1, <1>2, <1>3, <1>4, <1>5, StillUnpublished DEF Inv

LEMMA DeliveryFields ==
    ASSUME NEW out \in SUBSET FieldAnswer
    PROVE  /\ Delivery(out) \in Invocation /\ Delivery(out).kind = "paid_delivery"
           /\ Delivery(out).compared = {"match"} => Delivery(out).class = None /\ Delivery(out).error = None
<1> DEFINE compared == {IF o = "nested" THEN "wrong" ELSE o : o \in out}
<1>1. compared \in SUBSET {"match", "wrong", "missing"}
  BY DEF FieldAnswer
<1>2. Overall(compared) \in {None, "invalid_output", "schema_drift", "timeout", "unsafe_error"}
  BY DEF Overall
<1>3. compared = {"match"} => Overall(compared) = None
  BY DEF Overall
<1>4. Delivery(out) = [kind |-> "paid_delivery", output |-> IF "nested" \in out THEN "unfit" ELSE "flat",
                       compared |-> compared, error |-> None, class |-> Overall(compared)]
  BY DEF Delivery
<1> HIDE DEF compared
<1>5. QED
  BY <1>1, <1>2, <1>3, <1>4 DEF Invocation, ErrorCode

LEMMA FailedFields ==
    /\ FailedDelivery \in Invocation /\ FailedDelivery.kind = "paid_delivery"
    /\ FailedDelivery.compared # {"match"}
BY DEF FailedDelivery, Invocation, ErrorCode

LEMMA FailedStep ==
    ASSUME Inv, pc = "target", pc' = "publish", contract.payment # None,
           contract' = contract, NEW target \in Terms \cup {None}, PaidWith(FailedDelivery, target, FALSE)
    PROVE  work' \in Work /\ Len(work'.fresh) <= 3 /\ WorkInv' /\ ProbeInv' /\ work'.target = target
<1>1. work' = [work EXCEPT !.paid = FailedDelivery, !.target = target,
                           !.gates = [work.gates EXCEPT ![5] = "fail"]]
  BY DEF PaidWith, Gated, Paid, Tested
<1>2. "fail" \in GateState /\ "fail" = Tested(FailedDelivery.compared = {"match"})
  BY FailedFields DEF GateState, Tested
<1>3. QED
  BY <1>1, <1>2, FailedFields, PaidStep

LEMMA PriorStep == Inv /\ PriorPayment => Inv'
<1> SUFFICES ASSUME Inv, PriorPayment PROVE Inv'
  OBVIOUS
<1>1. /\ pc = "target" /\ pc' = "publish" /\ published' = None
      /\ contract.payment # None /\ onFile # None /\ Payable
      /\ contract' = contract /\ attempt' = attempt /\ onFile' = onFile /\ blind' = blind
      /\ PaidWith(FailedDelivery, onFile, FALSE)
  BY NotPublished DEF PriorPayment, Asked, PaidWith, store, Ended
<1>2. work' \in Work /\ Len(work'.fresh) <= 3 /\ WorkInv' /\ ProbeInv' /\ work'.target = onFile
  <2>1. onFile \in Terms \cup {None}
    BY DEF Inv, TypeOK
  <2>2. QED
    BY <1>1, <2>1, FailedStep
<1>3. TypeOK'
  BY <1>1, <1>2 DEF Inv, TypeOK, Stage
<1>4. MoneyInv'
  BY <1>1, <1>2 DEF Inv, MoneyInv, Payable, Stage
<1>5. QED
  BY <1>1, <1>2, <1>3, <1>4, StillUnpublished DEF Inv

LEMMA PayStep == Inv /\ PayTarget => Inv'
<1> SUFFICES ASSUME Inv, PayTarget PROVE Inv'
  OBVIOUS
<1>1. /\ pc = "target" /\ pc' = "publish" /\ published' = None
      /\ contract.payment # None /\ Payable
      /\ contract' = contract /\ attempt' = contract.payment /\ onFile' = contract.payment /\ blind' = blind
  BY NotPublished DEF PayTarget, Signable, PaidWith, Asked, Ended
<1>2. work' \in Work /\ Len(work'.fresh) <= 3 /\ WorkInv' /\ ProbeInv' /\ work'.target = contract.payment
  <2> contract.payment \in Terms \cup {None}
    BY WorkFields DEF Inv
  <2>1. CASE PaidWith(FailedDelivery, contract.payment, FALSE)
    BY <1>1, <2>1, FailedStep
  <2>2. ASSUME NEW out \in SUBSET FieldAnswer,
               PaidWith(Delivery(out), contract.payment, Delivery(out).compared = {"match"})
        PROVE  work' \in Work /\ Len(work'.fresh) <= 3 /\ WorkInv' /\ ProbeInv' /\ work'.target = contract.payment
    <3>1. PICK v \in GateState : v = Tested(Delivery(out).compared = {"match"})
      BY DEF Tested, GateState
    <3>2. work' = [work EXCEPT !.paid = Delivery(out), !.target = contract.payment,
                               !.gates = [work.gates EXCEPT ![5] = v]]
      BY <2>2, <3>1 DEF PaidWith, Gated, Paid
    <3>3. QED
      BY <1>1, <3>1, <3>2, DeliveryFields, PaidStep
  <2>3. \/ \E out \in SUBSET FieldAnswer : PaidWith(Delivery(out), contract.payment, Delivery(out).compared = {"match"})
        \/ PaidWith(FailedDelivery, contract.payment, FALSE)
    BY DEF PayTarget, FieldAnswer
  <2>4. QED
    BY <2>1, <2>2, <2>3
<1>3. TypeOK'
  BY <1>1, <1>2, WorkFields DEF Inv, TypeOK, Stage
<1>4. MoneyInv'
  BY <1>1, <1>2 DEF Inv, MoneyInv, Payable, Stage
<1>5. QED
  BY <1>1, <1>2, <1>3, <1>4, StillUnpublished DEF Inv

LEMMA PayThrowsStep == Inv /\ PayThrows => Inv'
<1> SUFFICES ASSUME Inv, PayThrows PROVE Inv'
  OBVIOUS
<1>1. /\ pc = "target" /\ published' = None /\ contract.payment # None
      /\ contract' = contract /\ onFile' = onFile /\ blind' = blind
      /\ attempt' = attempt \/ (onFile = None /\ attempt' = contract.payment)
  BY NotPublished DEF PayThrows, Signable, Asked, Ended
<1>2. attempt' \in Terms \cup {None} /\ (onFile # None => attempt' = onFile)
  BY <1>1, WorkFields DEF Inv, TypeOK, MoneyInv
<1>3. CASE attempt' # None
  <2>1. pc' = "caught" /\ work' = work
    BY <1>3 DEF PayThrows
  <2>2. TypeOK'
    BY <1>1, <1>2, <2>1 DEF Inv, TypeOK, Stage
  <2>3. WorkInv'
    BY <2>1, OutsideWork
  <2>4. MoneyInv' /\ ProbeInv'
    BY <1>1, <1>2, <2>1 DEF Inv, MoneyInv, Payable, ProbeInv, Stage, Ended
  <2>5. QED
    BY <1>1, <2>2, <2>3, <2>4, StillUnpublished DEF Inv
<1>4. CASE attempt' = None
  <2>1. pc' = "publish" /\ PaidWith(FailedDelivery, None, FALSE)
    BY <1>4 DEF PayThrows, PaidWith
  <2>2. work' \in Work /\ Len(work'.fresh) <= 3 /\ WorkInv' /\ ProbeInv' /\ work'.target = None
    BY <1>1, <2>1, FailedStep
  <2>3. TypeOK'
    BY <1>1, <1>2, <2>1, <2>2 DEF Inv, TypeOK, Stage
  <2>4. MoneyInv'
    BY <1>1, <1>2, <1>4, <2>1, <2>2 DEF Inv, MoneyInv, Payable, Stage
  <2>5. QED
    BY <1>1, <2>2, <2>3, <2>4, StillUnpublished DEF Inv
<1>5. QED
  BY <1>3, <1>4

\* The evidence.
LEMMA PublishStep == Inv /\ Publish => Inv'
<1> SUFFICES ASSUME Inv, Publish PROVE Inv'
  OBVIOUS
<1>1. /\ pc = "publish" /\ pc' \in {"complete", "unknown"}
      /\ contract' = contract /\ work' = work
      /\ attempt' = attempt /\ onFile' = onFile /\ blind' = blind
  BY DEF Publish
<1>2. TypeOK /\ WorkInv /\ MoneyInv /\ ProbeInv
  BY DEF Inv
<1>3. TypeOK'
  BY <1>1, <1>2 DEF TypeOK, Ended
<1>4. WorkInv'
  BY <1>1, OutsideWork DEF Ended
<1>5. MoneyInv' /\ ProbeInv'
  BY <1>1, <1>2 DEF MoneyInv, Payable, ProbeInv, Stage
<1>6. PublishedInv'
  <2>1. CASE ~contract.live
    <3>1. published' = None
      BY <1>1, <2>1, NotPublished DEF Publish, Ended
    <3>2. QED
      BY <3>1, StillUnpublished
  <2>2. CASE contract.live
    <3>1. PICK e : e = CompleteEvidence
      OBVIOUS
    <3>2. published' = e
      BY <2>2, <3>1 DEF Publish
    <3>3. Validated(contract, e) <=> ~Unverifiable(e)
      BY <1>1, <1>2, <3>1, JudgedAlike
    <3>4. ReadAlike'
      <4>1. Unverifiable(e) <=> Unverifiable(e)'
        BY <1>1 DEF Unverifiable, Fixture
      <4>2. QED
        BY <1>1, <3>2, <3>3, <4>1 DEF ReadAlike, Unverifiable
    <3>5. VerifiedEarned'
      BY <1>1, <1>2, <3>1, <3>2, JudgedEarned DEF VerifiedEarned
    <3>6. e.target = work.target
      BY <3>1, CompleteFields
    <3>7. PaymentPublished' /\ AttemptNotJudged'
      BY <1>1, <1>2, <3>1, <3>2, <3>6, GatesAlike DEF MoneyInv, PaymentPublished, AttemptNotJudged, Stage
    <3>8. QED
      BY <1>1, <3>4, <3>5, <3>7 DEF PublishedInv, Ended
  <2>3. QED
    BY <2>1, <2>2
<1>7. QED
  BY <1>3, <1>4, <1>5, <1>6 DEF Inv

LEMMA StageThrowsStep == Inv /\ StageThrows => Inv'
<1> SUFFICES ASSUME Inv, StageThrows PROVE Inv'
  OBVIOUS
<1>1. /\ pc' \in {"caught", "longcaught"} /\ published' = None
      /\ contract' = contract /\ work' = work
      /\ attempt' = attempt /\ onFile' = onFile /\ blind' = blind
  BY NotPublished DEF StageThrows, store, Stage, Ended
<1>2. TypeOK'
  BY <1>1 DEF Inv, TypeOK
<1>3. WorkInv'
  BY <1>1, OutsideWork
<1>4. MoneyInv' /\ ProbeInv'
  BY <1>1 DEF Inv, MoneyInv, Payable, ProbeInv, Stage, Ended
<1>5. QED
  BY <1>1, <1>2, <1>3, <1>4, StillUnpublished DEF Inv

LEMMA NotRehearsableStep == Inv /\ PublishNotRehearsable => Inv'
<1> SUFFICES ASSUME Inv, PublishNotRehearsable PROVE Inv'
  OBVIOUS
<1>1. /\ pc' \in Ended
      /\ contract' = contract /\ work' = work /\ attempt' = attempt /\ onFile' = onFile
  BY DEF PublishNotRehearsable, Ended
<1>2. PICK found \in {onFile, None} :
         /\ blind' = (work.target = None /\ found # onFile)
         /\ published' = NotRehearsableEvidence(IF work.target # None THEN work.target ELSE found,
                                               pc = "longcaught")
  BY DEF PublishNotRehearsable
<1>3. /\ TypeOK /\ WorkInv /\ MoneyInv /\ ProbeInv
      /\ onFile \in Terms \cup {None} /\ work.target \in Terms \cup {None}
  BY WorkFields DEF Inv, TypeOK
<1>4. PICK t \in Terms \cup {None}, long \in BOOLEAN :
         t = (IF work.target # None THEN work.target ELSE found) /\ long = (pc = "longcaught")
  BY <1>2, <1>3
<1>6. PICK e : e = NotRehearsableEvidence(t, long)
  OBVIOUS
<1>7. published' = e
  BY <1>2, <1>4, <1>6
<1>8. ~Normal(e) /\ (Validated(contract, e) <=> ~Unverifiable(e))
  BY <1>3, <1>6, UnjudgedAlike
<1>9. e.status = "not-rehearsable" /\ e.target = t
  BY <1>6 DEF NotRehearsableEvidence
<1>10. ReadAlike'
  <2>1. Unverifiable(e) <=> Unverifiable(e)'
    BY <1>1 DEF Unverifiable, Fixture
  <2>2. QED
    BY <1>1, <1>7, <1>8, <2>1 DEF ReadAlike, Unverifiable
<1>11. VerifiedEarned' /\ AttemptNotJudged'
  BY <1>7, <1>8, <1>9 DEF VerifiedEarned, AttemptNotJudged
<1>12. PaymentPublished'
  <2>1. CASE found = onFile \/ work.target # None
    BY <1>1, <1>3, <1>4, <1>7, <1>9, <2>1 DEF PaymentPublished, MoneyInv
  <2>2. CASE found # onFile /\ work.target = None
    BY <1>1, <1>2, <1>7, <1>8, <2>2 DEF PaymentPublished, Normal
  <2>3. QED
    BY <2>1, <2>2
<1>13. PublishedInv'
  BY <1>1, <1>10, <1>11, <1>12 DEF PublishedInv
<1>14. TypeOK'
  BY <1>1, <1>2, <1>3 DEF TypeOK
<1>15. WorkInv'
  BY <1>1, OutsideWork
<1>16. MoneyInv' /\ ProbeInv'
  BY <1>1, <1>3 DEF MoneyInv, Payable, ProbeInv, Ended, Stage
<1>17. QED
  BY <1>13, <1>14, <1>15, <1>16 DEF Inv

LEMMA GiveUpStep == Inv /\ GiveUp => Inv'
<1> SUFFICES ASSUME Inv, GiveUp PROVE Inv'
  OBVIOUS
<1>1. /\ pc' = "failed" /\ published' = None
      /\ contract' = contract /\ work' = work
      /\ attempt' = attempt /\ onFile' = onFile /\ blind' = blind
  BY NotPublished DEF GiveUp, store, Ended
<1>2. TypeOK'
  BY <1>1 DEF Inv, TypeOK, Ended
<1>3. WorkInv'
  BY <1>1, OutsideWork DEF Ended
<1>4. MoneyInv' /\ ProbeInv'
  BY <1>1 DEF Inv, MoneyInv, Payable, ProbeInv, Stage, Ended
<1>5. QED
  BY <1>1, <1>2, <1>3, <1>4, StillUnpublished DEF Inv

\* Restarts.
LEMMA CrashStep == Inv /\ Crash => Inv'
<1> SUFFICES ASSUME Inv, Crash PROVE Inv'
  OBVIOUS
<1>1. /\ published' = None /\ contract' = contract /\ work' = NoWork
      /\ onFile' = onFile /\ blind' = blind /\ pc' \in {"fetch", "stranded"}
      /\ (pc' = "fetch" /\ attempt' = attempt)
            \/ (pc' = "stranded" /\ attempt' = contract.payment /\ contract.payment # None /\ onFile = None)
      /\ pc \in Stage
  BY NotPublished DEF Crash, Signable, Asked, Stage, Ended
<1>2. TypeOK'
  <2>1. work' \in Work /\ Len(work'.fresh) <= 3
    BY <1>1, NoWorkType
  <2>2. attempt' \in Terms \cup {None}
    BY <1>1, WorkFields DEF Inv, TypeOK
  <2>3. QED
    BY <1>1, <2>1, <2>2 DEF Inv, TypeOK, Stage
<1>3. WorkInv'
  BY <1>1, FreshWork DEF Fresh
<1>4. MoneyInv' /\ ProbeInv'
  BY <1>1, NoWorkType DEF Inv, MoneyInv, Payable, ProbeInv, Stage, Ended
<1>5. QED
  BY <1>1, <1>2, <1>3, <1>4, StillUnpublished DEF Inv

LEMMA ReconciledStep == Inv /\ Reconciled => Inv'
<1> SUFFICES ASSUME Inv, Reconciled PROVE Inv'
  OBVIOUS
<1>1. /\ pc = "stranded" /\ pc' = "fetch" /\ published' = None
      /\ contract' = contract /\ work' = work /\ blind' = blind
      /\ (onFile' = attempt /\ attempt' = attempt) \/ (attempt' = None /\ onFile' = onFile)
  BY NotPublished DEF Reconciled, Ended
<1>2. TypeOK'
  BY <1>1 DEF Inv, TypeOK, Stage
<1>3. WorkInv'
  <2>1. work' = NoWork
    BY <1>1 DEF Inv, WorkInv, Fresh
  <2>2. QED
    BY <1>1, <2>1, FreshWork DEF Fresh
<1>4. MoneyInv' /\ ProbeInv'
  BY <1>1, NoWorkType DEF Inv, WorkInv, Fresh, MoneyInv, Payable, ProbeInv
<1>5. QED
  BY <1>1, <1>2, <1>3, <1>4, StillUnpublished DEF Inv

LEMMA StutterStep == Inv /\ UNCHANGED vars => Inv'
<1> SUFFICES ASSUME Inv, UNCHANGED vars PROVE Inv'
  OBVIOUS
<1>1. /\ contract' = contract /\ pc' = pc /\ work' = work /\ attempt' = attempt
      /\ onFile' = onFile /\ blind' = blind /\ published' = published
  BY DEF vars
<1>2. TypeOK'
  BY <1>1 DEF Inv, TypeOK
<1>3. WorkInv'
  BY <1>1 DEF Inv, WorkInv, DiscoveredInv, ProbedInv, ChallengedInv, PaidInv, Outcome
<1>4. MoneyInv' /\ ProbeInv'
  BY <1>1 DEF Inv, MoneyInv, Payable, ProbeInv, Stage, Ended
<1>5. ReadAlike'
  BY <1>1 DEF Inv, PublishedInv, ReadAlike, Unverifiable, Fixture
<1>6. VerifiedEarned' /\ PaymentPublished' /\ AttemptNotJudged'
  BY <1>1 DEF Inv, PublishedInv, VerifiedEarned, PaymentPublished, AttemptNotJudged
<1>7. QED
  BY <1>1, <1>2, <1>3, <1>4, <1>5, <1>6 DEF Inv, PublishedInv

-----------------------------------------------------------------------------
(* The theorems.                                                           *)

\* Inv is inductive.
THEOREM Invariance == Spec => []Inv
<1>1. Init => Inv
  BY InitInv
<1>2. Inv /\ [Next]_vars => Inv'
  <2> SUFFICES ASSUME Inv, [Next]_vars PROVE Inv'
    OBVIOUS
  <2>1. CASE Next
    BY <2>1, FetchStep, CheckStep, DiscoverStep, FixedStep, InvalidStep, ChallengeStep,
       NotAskedStep, PriorStep, PayStep, PayThrowsStep, PublishStep, StageThrowsStep,
       NotRehearsableStep, GiveUpStep, CrashStep, ReconciledStep DEF Next
  <2>2. CASE UNCHANGED vars
    BY <2>2, StutterStep
  <2>3. QED
    BY <2>1, <2>2
<1>3. QED
  BY <1>1, <1>2, PTL DEF Spec

\* What execute holds, at every stage and after every restart, is of its type,
\* and there are at most three challenges.
THEOREM TypeCorrect == Spec => []TypeOK
<1>1. Inv => TypeOK
  BY DEF Inv
<1>2. QED
  BY <1>1, Invariance, PTL

\* For all contracts, schemas and answers, and a provider that changes its contract
\* whenever it is fetched, the validator disagrees with just the records the code
\* has no room for, labels otherwise, or paid under other terms (execute,
\* recomputedGates, validateCanonicalEvidence).
THEOREM ReadersAlike == Spec => []ReadAlike
<1>1. Inv => ReadAlike
  BY DEF Inv, PublishedInv
<1>2. QED
  BY <1>1, Invariance, PTL

\* A verified passport was earned by every answer of the target and by a delivered
\* payment of the contract's terms (the gates of execute, getPassportStatus).
THEOREM Earned == Spec => []VerifiedEarned
<1>1. Inv => VerifiedEarned
  BY DEF Inv, PublishedInv
<1>2. QED
  BY <1>1, Invariance, PTL

\* A payment saved for the run is in the evidence, unless the contract asks for no
\* payment when it is judged, or its lookup fails when it is not (rehearsal.ts: the
\* guard of pay, and the outer catch of execute).
THEOREM PaymentReported == Spec => []PaymentPublished
<1>1. Inv => PaymentPublished
  BY DEF Inv, PublishedInv
<1>2. QED
  BY <1>1, Invariance, PTL

\* An authorization of unknown outcome is not judged (the inner catch of execute).
THEOREM UnknownNotJudged == Spec => []AttemptNotJudged
<1>1. Inv => AttemptNotJudged
  BY DEF Inv, PublishedInv
<1>2. QED
  BY <1>1, Invariance, PTL

\* A schema that takes sample and challenge does not take the probe, unless it
\* requires no field and every field can be spared; what the tool does with the
\* probe is its own affair (invalidInput).
THEOREM ProbesRefused == Spec => []ProbeRefused
<1>1. Inv => ProbeRefused
  BY ProbeLemma DEF Inv, ProbeInv, ProbeRefused
<1>2. QED
  BY <1>1, Invariance, PTL
=============================================================================

------------------------ MODULE PassportServiceProofs ------------------------
(***************************************************************************)
(* What a check of PassportService answers, proved for every chain, index, *)
(* request and contract: the checks leave the registry as it is, so all    *)
(* that RegistryIndexProofs says of it holds while they run; and what a    *)
(* check has read stays true enough, whatever moves before it decides.     *)
(***************************************************************************)
EXTENDS PassportService, RegistryIndexProofs

-----------------------------------------------------------------------------
(* The index under the checks                                              *)

\* A check reads the registry and the database and changes neither: the service
\* with its checks behaves as the registry alone.
THEOREM IndexRefined == GateSpec => IndexSpec
<1>1. GateSpecInit => Init
  BY DEF GateSpecInit
<1>2. [GateNext]_<<vars, gateVars>> => [IndexNext]_vars
  BY DEF GateNext, gateVars
<1>3. QED
  BY <1>1, <1>2, PTL DEF GateSpec, IndexSpec

\* What GET /runs/:runId and get_service_passport show of a run, in one state.
LEMMA ShownState == Inv => ShownProved
<1> SUFFICES ASSUME Inv, NEW r \in Run, NEW view \in Views, NEW read \in BOOLEAN
             PROVE  LET run == Shown(r, view, read)
                    IN  /\ run # None => Sound(published[r]) /\ run.evidence = published[r] /\ OnChain(r)
                        /\ OnChain(r) /\ Position(r) <= view /\ Sound(published[r]) /\ read
                              /\ (Finalized(r) => db[r].hint = "own") => run # None
  BY DEF ShownProved
<1>1. ChainInv /\ RowInv
  BY DEF Inv
<1>2. PICK hint : /\ Shown(r, view, read) = IF Load(r, hint, view, read).match THEN Record(r) ELSE None
                  /\ (Finalized(r) => db[r].hint = "own") => hint = None \/ hint = "own"
  BY Zenon DEF Shown, ReadPublishedRun
<1>3. ASSUME Load(r, hint, view, read).match
      PROVE  Sound(published[r]) /\ published[r] \in Evidence /\ OnChain(r)
  BY <1>1, <1>3, MatchProves
<1>4. Record(r).evidence = published[r]
  BY DEF Record, RecordOf
<1>5. published[r] \in Evidence => Record(r) # None
  BY RecordAssumption DEF Record
<1>6. ASSUME OnChain(r), Position(r) <= view, Sound(published[r]), read, Finalized(r) => db[r].hint = "own"
      PROVE  Load(r, hint, view, read).match
  BY <1>1, <1>2, <1>6, LocatedIs, LoadIs
<1>7. QED
  BY <1>2, <1>3, <1>4, <1>5, <1>6

\* What is shown of one run is what it published and the chain proves, and a run
\* whose row is lost is shown still, a row that names a wrong transaction excepted
\* (GET /runs/:runId, readPublishedRun).
THEOREM ShowsProved == GateSpec => []ShownProved
<1>1. QED
  BY IndexRefined, Invariance, ShownState, PTL

-----------------------------------------------------------------------------
(* What a check knows while it runs                                        *)

\* What a candidate's proof claims is what its run published, as the chain showed
\* it when it was looked at; a run publishes once, so it stays so.
Proved(n) ==
    /\ n.at \in Nat /\ "independentlyVerified" \in DOMAIN n.proof.verification
    /\ n.proof.verification.independentlyVerified =>
          LET e == published[n.proof.run]
          IN  /\ n.proof.run \in Run /\ e \in Evidence /\ Sound(e)
              /\ n.proof.status = e.status /\ n.proof.gates = e.gates /\ n.proof.identity = e.identity
              /\ n.proof.provider.present = e.paid
              /\ n.proof.anchored = n.at
    /\ n.proof.databaseChainMatch => n.row.own /\ n.row.published

ProvedInv == \A n \in check.newest : Proved(n)

\* A run that is mined again is anchored no earlier than when the rows were read.
ListedInv ==
    /\ DOMAIN check.listed \subseteq Run
    /\ \A r \in DOMAIN check.listed :
          /\ check.listed[r] \in Nat /\ check.listed[r] <= now
          /\ OnChain(r) => chain[Position(r)].time >= check.listed[r]

\* A row is looked at once, and what it is about is then seen, or it is unseen.
SeenInv ==
    /\ check.pc = "verify" =>
          /\ \A r \in DOMAIN check.rows : r \in Run /\ IsRow(check.rows[r])
          /\ \A r \in DOMAIN check.listed \ check.unseen :
                r \in DOMAIN check.rows \/ \E n \in check.newest : check.listed[r] <= n.at
    /\ NewestDecides

\* An answer that allows was decided on one of the candidates, none of whose
\* independent checks failed.
AllowInv ==
    Decided({"ALLOW", "WARN"}) =>
      \E n \in check.newest :
        /\ n.proof.verification.independentlyVerified /\ n.proof.databaseChainMatch
        /\ n.proof.status = "verified" /\ n.proof.provider.present /\ \A i \in Gate : n.proof.gates[i] = "pass"
        /\ n.proof.identity = check.current.identity /\ check.current.signatureValid
        /\ check.observed - n.at >= 0
        /\ check.observed - n.at <= IF check.result.decision = "ALLOW" THEN check.request.warn ELSE check.request.max

ShapeInv ==
    /\ check = [pc |-> check.pc, request |-> check.request, current |-> check.current,
                observed |-> check.observed, rows |-> check.rows, listed |-> check.listed,
                newest |-> check.newest, unseen |-> check.unseen, result |-> check.result]
    /\ check.observed \in Nat
    /\ check.pc \in {"available", "verify"} => check.request \in Requests
    /\ check.pc = "available" => check.newest = {} /\ check.listed = <<>>

CheckInv == ShapeInv /\ ProvedInv /\ ListedInv /\ SeenInv /\ AllowInv

-----------------------------------------------------------------------------
(* The registry moves                                                      *)

\* What a run published is not taken back, nor is the clock.
LEMMA PublishedStays ==
    ASSUME Inv, IndexNext
    PROVE  /\ \A r \in Run : published[r] \in Evidence => published'[r] = published[r]
           /\ now \in Nat /\ now' \in Nat /\ now <= now'
<1>1. now \in Nat /\ published = [r \in Run |-> published[r]]
  BY ChainFacts DEF Inv, RowInv
<1>2. ASSUME NEW r \in Run, Publish(r)
      PROVE  \A q \in Run : published[q] \in Evidence => published'[q] = published[q]
  <2>1. published[r] = None /\ \E e \in Evidence : published' = [published EXCEPT ![r] = e]
    BY <1>2 DEF Publish
  <2>2. published[r] \notin Evidence
    BY <2>1, Numbers
  <2>3. QED
    BY <1>1, <2>1, <2>2
<1>3. CASE Environment
  <2>1. CASE Tick
    BY <1>1, <2>1 DEF Tick
  <2>2. CASE MineEmpty
    BY <1>1, <2>2 DEF MineEmpty
  <2>3. CASE Reorganise
    BY <1>1, <2>3 DEF Reorganise
  <2>4. ASSUME NEW r \in Run, Publish(r) PROVE now' = now
    BY <2>4 DEF Publish
  <2>5. ASSUME NEW r \in Run, Finalize(r) \/ Remine(r) \/ Tamper(r) PROVE now' = now /\ published' = published
    BY <2>5 DEF Finalize, Remine, Tamper
  <2>6. QED
    BY <1>1, <1>2, <1>3, <2>1, <2>2, <2>3, <2>4, <2>5 DEF Environment
<1>4. CASE RebuildIndex
  <2>1. now' = now /\ published' = published
    BY <1>4 DEF RebuildIndex, BeginPass, Quarantine, QuarantineUnread, IndexRecord, IndexConflict, AbortPass, EndPass
  <2>2. QED
    BY <1>1, <2>1
<1>5. QED
  BY <1>3, <1>4 DEF IndexNext

\* A block that a step adds is stamped with the clock; the others stay or are dropped.
LEMMA BlocksStay ==
    ASSUME Inv, IndexNext, NEW b \in DOMAIN chain'
    PROVE  \/ b \in DOMAIN chain /\ chain'[b] = chain[b]
           \/ chain'[b].time = now
<1>1. Len(chain) \in Nat /\ DOMAIN chain = 1..Len(chain) /\ chain \in Seq(Block)
  BY ChainFacts DEF Inv
<1>2. ASSUME NEW q, NewBlock(q) PROVE \/ b \in DOMAIN chain /\ chain'[b] = chain[b]
                                      \/ chain'[b].time = now
  <2> DEFINE block == [time |-> now, run |-> q]
  <2>1. chain' = Append(chain, block) /\ block.time = now
    BY <1>2 DEF NewBlock
  <2> HIDE DEF block
  <2>2. DOMAIN chain' = 1..Len(chain) + 1 /\ chain'[Len(chain) + 1] = block
        /\ \A i \in 1..Len(chain) : chain'[i] = chain[i]
    BY <1>1, <2>1
  <2>3. QED
    BY <1>1, <2>1, <2>2
<1>3. CASE Reorganise
  <2>1. chain' = SubSeq(chain, 1, head - Depth) /\ head - Depth \in 0..Len(chain)
    BY <1>1, <1>3, ChainFacts, Numbers DEF Reorganise, Inv
  <2>2. DOMAIN chain' = 1..head - Depth /\ \A i \in 1..head - Depth : chain'[i] = chain[i]
    BY <1>1, <2>1
  <2>3. QED
    BY <1>1, <2>1, <2>2
<1>4. CASE chain' = chain
  BY <1>4
<1>5. ASSUME NEW r \in Run, Publish(r) \/ Finalize(r) \/ Remine(r) \/ Tamper(r)
      PROVE  chain' = chain \/ NewBlock(r)
  BY <1>5 DEF Publish, Finalize, Remine, Tamper
<1>6. CASE Environment
  BY <1>2, <1>3, <1>4, <1>5, <1>6 DEF Environment, Tick, MineEmpty
<1>7. CASE RebuildIndex
  BY <1>4, <1>7 DEF RebuildIndex, BeginPass, Quarantine, QuarantineUnread, IndexRecord, IndexConflict, AbortPass, EndPass
<1>8. QED
  BY <1>6, <1>7 DEF IndexNext

\* Whatever moves, a check that does not move knows no less.
LEMMA RegistryMoves ==
    ASSUME Inv, Inv', CheckInv, IndexNext, UNCHANGED gateVars
    PROVE  CheckInv'
<1>1. check' = check
  BY DEF gateVars
<1>2. ProvedInv'
  <2>1. SUFFICES ASSUME NEW n \in check.newest PROVE Proved(n)'
    BY <1>1 DEF ProvedInv
  <2>2. Proved(n)
    BY DEF CheckInv, ProvedInv
  <2>3. QED
    BY <2>2, PublishedStays DEF Proved
<1>3. ListedInv'
  <2>1. SUFFICES ASSUME NEW r \in DOMAIN check.listed
                 PROVE  /\ check.listed[r] \in Nat /\ check.listed[r] <= now'
                        /\ OnChain(r)' => chain'[Position(r)'].time >= check.listed[r]
    BY <1>1 DEF ListedInv, CheckInv
  <2>2. r \in Run /\ check.listed[r] \in Nat /\ check.listed[r] <= now
        /\ (OnChain(r) => chain[Position(r)].time >= check.listed[r])
    BY DEF CheckInv, ListedInv
  <2>3. ASSUME OnChain(r)' PROVE chain'[Position(r)'].time >= check.listed[r]
    <3>1. PICK b \in DOMAIN chain' : chain'[b].run = r /\ Position(r)' = b
      <4>1. PICK c \in DOMAIN chain' : chain'[c].run = r
        BY <2>3 DEF OnChain
      <4>2. (CHOOSE i \in DOMAIN chain' : chain'[i].run = r) \in DOMAIN chain'
            /\ chain'[CHOOSE i \in DOMAIN chain' : chain'[i].run = r].run = r
        BY <4>1, Zenon
      <4>3. Position(r)' = CHOOSE i \in DOMAIN chain' : chain'[i].run = r
        BY DEF Position
      <4>4. QED
        BY <4>2, <4>3
    <3>2. CASE b \in DOMAIN chain /\ chain'[b] = chain[b]
      <4>1. OnChain(r) /\ Position(r) = b
        BY <2>2, <3>1, <3>2, PositionIs DEF Inv
      <4>2. QED
        BY <2>2, <3>1, <3>2, <4>1
    <3>3. CASE chain'[b].time = now
      BY <2>2, <3>1, <3>3, PublishedStays
    <3>4. QED
      BY <3>2, <3>3, BlocksStay
  <2>4. QED
    BY <2>2, <2>3, PublishedStays
<1>4. ShapeInv' /\ SeenInv' /\ AllowInv'
  BY <1>1 DEF CheckInv, ShapeInv, SeenInv, AllowInv, Decided, NewestDecides
<1>5. QED
  BY <1>2, <1>3, <1>4 DEF CheckInv

-----------------------------------------------------------------------------
(* One candidate                                                           *)

\* verifyStrict adds the row's agreement to what load found.
LEMMA StrictIs ==
    ASSUME NEW r, NEW row, NEW view, NEW read \in BOOLEAN
    PROVE  LET v == VerifyStrict(r, row, view, read)
               l == Load(r, row.hint, view, read)
           IN  /\ v.found = l.found /\ v.match = l.match /\ v.transfers = l.transfers
               /\ v.anchored = l.anchored /\ v.evidence = l.evidence
               /\ v.cacheMatch => row.own /\ row.published
<1> DEFINE l == Load(r, row.hint, view, read)
<1>1. l = [found |-> l.found, match |-> l.match, transfers |-> l.transfers,
           anchored |-> l.anchored, evidence |-> l.evidence, cacheMatch |-> l.cacheMatch]
  BY LoadIs, Zenon
<1>2. PICK c \in BOOLEAN : c = (l.found /\ CacheMatchesLoaded(row))
  OBVIOUS
<1>3. VerifyStrict(r, row, view, read) = [l EXCEPT !.cacheMatch = c]
  BY <1>2, Zenon DEF VerifyStrict
<1> HIDE DEF l
<1>4. [l EXCEPT !.cacheMatch = c] =
        [found |-> l.found, match |-> l.match, transfers |-> l.transfers,
         anchored |-> l.anchored, evidence |-> l.evidence, cacheMatch |-> c]
  BY <1>1
<1>5. c => row.own /\ row.published
  BY <1>2 DEF CacheMatchesLoaded
<1>6. QED
  BY <1>3, <1>4, <1>5 DEF l

\* The fields of a proof that a decision looks at.
LEMMA ProofIs ==
    ASSUME NEW run, NEW row, NEW v, NEW current
    PROVE  LET p == ProofFromVerification(run, row, v, current)
               e == IF v.evidence # None THEN v.evidence ELSE row.evidence
           IN  /\ p.run = run /\ p.status = e.status /\ p.gates = e.gates /\ p.identity = e.identity
               /\ p.anchored = v.anchored /\ p.provider.present = e.paid
               /\ p.databaseChainMatch = v.cacheMatch
               /\ "independentlyVerified" \in DOMAIN p.verification
               /\ p.verification.independentlyVerified = v.match
<1> DEFINE e == IF v.evidence # None THEN v.evidence ELSE row.evidence
<1>1. PICK m : m = (v.match /\ e.identity = current.identity)
  OBVIOUS
<1>2. ProofFromVerification(run, row, v, current) =
        [run |-> run, status |-> e.status, gates |-> e.gates, identity |-> e.identity,
         anchored |-> v.anchored,
         verification |-> [chainRecordFound |-> v.found, contractIdentityMatch |-> m,
                           publicationTransactionMatch |-> v.found, independentlyVerified |-> v.match],
         databaseChainMatch |-> v.cacheMatch,
         inbound |-> SettlementProof(TRUE, e.priced, v.transfers),
         provider |-> SettlementProof(e.paid, e.priced, v.transfers)]
  BY <1>1, Zenon DEF ProofFromVerification
<1> HIDE DEF e
<1>3. SettlementProof(e.paid, e.priced, v.transfers).present = e.paid
  BY DEF SettlementProof
<1>4. QED
  BY <1>2, <1>3 DEF e

\* The candidate made of one row is what the chain says of its run, and no older
\* than when the rows were read if the node showed it.
LEMMA CandidateIs ==
    ASSUME Inv, NEW r \in Run, NEW row, IsRow(row), NEW view \in Views, NEW read \in BOOLEAN, NEW current
    PROVE  LET v == VerifyStrict(r, row, view, read)
               candidate == [at |-> IF v.found THEN v.anchored ELSE row.generated, row |-> row,
                             proof |-> ProofFromVerification(r, row, v, current)]
           IN  /\ Proved(candidate)
               /\ v.found => OnChain(r) /\ candidate.at = chain[Position(r)].time
<1> DEFINE l == Load(r, row.hint, view, read)
           v == VerifyStrict(r, row, view, read)
           p == ProofFromVerification(r, row, v, current)
           at == IF v.found THEN v.anchored ELSE row.generated
<1>1. ChainInv /\ RowInv
  BY DEF Inv
<1>2. /\ v.found = l.found /\ v.match = l.match /\ v.anchored = l.anchored /\ v.evidence = l.evidence
      /\ v.cacheMatch => row.own /\ row.published
  BY StrictIs
<1>3. /\ l.found => Located(r, row.hint, view)
      /\ l.match => Sound(published[r]) /\ l.found
      /\ l.found => l.anchored = chain[Position(r)].time /\ l.evidence = published[r]
  <2>1. /\ l.found <=> Located(r, row.hint, view) /\ published[r].form # "unreadable"
        /\ l.match <=> Located(r, row.hint, view) /\ Sound(published[r]) /\ read
        /\ l.found => l.anchored = chain[Position(r)].time /\ l.evidence = published[r]
    BY LoadIs
  <2>2. Sound(published[r]) => published[r].form # "unreadable"
    BY DEF Sound
  <2> HIDE DEF l
  <2>3. QED
    BY <2>1, <2>2
<1>4. p.run = r /\ p.anchored = v.anchored /\ p.databaseChainMatch = v.cacheMatch
      /\ "independentlyVerified" \in DOMAIN p.verification /\ p.verification.independentlyVerified = v.match
      /\ (v.evidence # None => /\ p.status = v.evidence.status /\ p.gates = v.evidence.gates
                               /\ p.identity = v.evidence.identity /\ p.provider.present = v.evidence.paid)
  <2> DEFINE e == IF v.evidence # None THEN v.evidence ELSE row.evidence
  <2> HIDE DEF v
  <2>1. /\ p.run = r /\ p.status = e.status /\ p.gates = e.gates /\ p.identity = e.identity
        /\ p.anchored = v.anchored /\ p.provider.present = e.paid
        /\ p.databaseChainMatch = v.cacheMatch
        /\ "independentlyVerified" \in DOMAIN p.verification
        /\ p.verification.independentlyVerified = v.match
    BY ProofIs
  <2>2. v.evidence # None => e = v.evidence
    OBVIOUS
  <2> HIDE DEF p, e
  <2>3. QED
    BY <2>1, <2>2
<1> HIDE DEF l, v, p
<1>5. v.found => /\ OnChain(r) /\ published[r] \in Evidence /\ published[r] # None
                 /\ chain[Position(r)].time \in Nat
  BY <1>1, <1>2, <1>3, LocatedIs, OnChainIs, ChainFacts, Numbers
<1>6. row.generated \in Nat
  BY DEF IsRow
<1> DEFINE n == [at |-> at, row |-> row, proof |-> p]
<1>7. n.at = at /\ n.row = row /\ n.proof = p
  OBVIOUS
<1>8. at \in Nat /\ (v.found => at = chain[Position(r)].time /\ v.anchored = at)
  BY <1>2, <1>3, <1>5, <1>6
<1> HIDE DEF n, at
<1>9. Proved(n)
  BY <1>2, <1>3, <1>4, <1>5, <1>7, <1>8 DEF Proved
<1>10. QED
  BY <1>5, <1>7, <1>8, <1>9 DEF n, at, v, p

-----------------------------------------------------------------------------
(* One decision                                                            *)

\* A passport without failures passes every check that the decision looks at.
LEMMA NoFailures ==
    ASSUME NEW current, NEW p, NEW at, PassportFailures(current, p, at) = {}
    PROVE  /\ \A c \in DOMAIN p.verification : p.verification[c]
           /\ p.databaseChainMatch /\ p.status = "verified"
           /\ p.anchored # None /\ ~(p.anchored > at)
           /\ \A i \in Gate : p.gates[i] = "pass"
           /\ p.provider.present
<1> DEFINE failed == {c \in DOMAIN p.verification : ~p.verification[c]}
                     \cup {f \in {"DATABASE_CHAIN_MISMATCH"} : ~p.databaseChainMatch}
                     \cup {f \in {"PASSPORT_NOT_VERIFIED"} : p.status # "verified"}
                     \cup {f \in {"ANCHORED_TIMESTAMP_INVALID"} : p.anchored = None \/ p.anchored > at}
           gates == {<<"GATE", i>> : i \in {j \in Gate : p.gates[j] # "pass"}}
<1>1. {<<"PASSPORT", f>> : f \in failed} = {} /\ gates = {} /\ SettlementFailures("PROVIDER", p.provider) = {}
  BY Zenon DEF PassportFailures
<1>2. failed = {}
  <2> HIDE DEF failed
  <2>1. QED
    BY <1>1
<1>3. {j \in Gate : p.gates[j] # "pass"} = {}
  BY <1>1
<1>4. p.provider.present
  BY <1>1, Zenon DEF SettlementFailures
<1>5. QED
  BY <1>2, <1>3, <1>4

\* An answer that allows: the contract is signed, the passport is of its identity,
\* nothing fails, and its age is within the limit that applies.
LEMMA AllowsOnly ==
    ASSUME NEW request \in Requests, NEW current, NEW passport, NEW observed \in Nat,
           EvaluatePassportGate(request, current, passport, observed).decision \in {"ALLOW", "WARN"}
    PROVE  /\ passport # None /\ current.signatureValid /\ passport.identity = current.identity
           /\ PassportFailures(current, passport, observed) = {}
           /\ passport.anchored \in Nat =>
                 observed - passport.anchored <=
                    IF EvaluatePassportGate(request, current, passport, observed).decision = "ALLOW"
                    THEN request.warn ELSE request.max
<1> DEFINE answer == EvaluatePassportGate(request, current, passport, observed)
           age == observed - passport.anchored
<1>1. \A d, why, action : Decision(d, why, action).decision = d
  BY DEF Decision
<1>2. request.warn \in Int /\ request.max \in Int
  BY RequestAssumption
<1>3. ContractFailures(current) = {}
  BY <1>1 DEF EvaluatePassportGate
<1>4. passport # None
  BY <1>1 DEF EvaluatePassportGate
<1>5. answer = JudgePassport(request, current, passport, observed)
  BY <1>1, <1>3, <1>4 DEF EvaluatePassportGate
<1>6. passport.identity = current.identity /\ PassportFailures(current, passport, observed) = {}
      /\ answer = Freshness(request, age)
  BY <1>1, <1>5 DEF JudgePassport
<1>7. ASSUME passport.anchored \in Nat
      PROVE  age <= IF answer.decision = "ALLOW" THEN request.warn ELSE request.max
  <2>1. age \in Int
    BY <1>7
  <2>2. answer.decision \in {"ALLOW", "WARN"}
    OBVIOUS
  <2> HIDE DEF age, answer
  <2>3. QED
    BY <1>1, <1>2, <1>6, <2>1, <2>2 DEF Freshness
<1>8. current.signatureValid
  <2>1. "LAUNCH_CONTRACT_SIGNATURE_INVALID" \notin ContractFailures(current)
    BY <1>3
  <2>2. QED
    BY <2>1 DEF ContractFailures
<1>9. QED
  BY <1>4, <1>6, <1>7, <1>8

-----------------------------------------------------------------------------
(* The steps of a check                                                    *)

\* A check that has looked at no row knows nothing that could go stale.
LEMMA Blank ==
    ASSUME ShapeInv', check'.newest = {}, check'.listed = <<>>, check'.pc # "verify",
           check'.pc = "done" => check'.result.decision \notin {"ALLOW", "WARN", "REHEARSAL_REQUIRED"}
    PROVE  CheckInv'
<1>1. DOMAIN check'.listed = {}
  OBVIOUS
<1>2. ProvedInv'
  BY DEF ProvedInv
<1>3. ListedInv'
  BY <1>1 DEF ListedInv
<1>4. SeenInv' /\ AllowInv'
  BY DEF SeenInv, AllowInv, NewestDecides, Decided
<1>5. QED
  BY <1>2, <1>3, <1>4 DEF CheckInv

LEMMA InitCheck == Init /\ GateInit => CheckInv
<1> SUFFICES ASSUME GateInit PROVE CheckInv
  OBVIOUS
<1>1. check = NoCheck
  BY DEF GateInit
<1>2. /\ check.pc = "idle" /\ check.newest = {} /\ check.listed = <<>> /\ check.observed = 0 /\ ShapeInv
  BY <1>1 DEF NoCheck, ShapeInv
<1>3. DOMAIN check.listed = {}
  BY <1>2
<1>4. QED
  BY <1>2, <1>3 DEF CheckInv, ProvedInv, ListedInv, SeenInv, AllowInv, NewestDecides, Decided

LEMMA UndecidedInv == ASSUME NEW code, Undecided(code) PROVE CheckInv'
<1>1. Unavailable(code).decision = None
  BY DEF Unavailable
<1> DEFINE result == Unavailable(code)
<1> HIDE DEF result
<1>2. check' = [pc |-> "done", request |-> None, current |-> None, observed |-> 0,
                rows |-> <<>>, listed |-> <<>>, newest |-> {}, unseen |-> {}, result |-> result]
  BY DEF Undecided, NoCheck, result
<1>3. /\ check'.pc = "done" /\ check'.newest = {} /\ check'.listed = <<>> /\ check'.result = result
      /\ ShapeInv'
  BY <1>2 DEF ShapeInv
<1>4. check'.result.decision \notin {"ALLOW", "WARN", "REHEARSAL_REQUIRED"}
  BY <1>1, <1>3, NoneAssumption DEF result
<1>5. QED
  BY <1>3, <1>4, Blank

LEMMA BeginCheckInv == ASSUME Inv, BeginCheck PROVE CheckInv'
<1>1. PICK request \in {q \in Requests : Thresholds(q)}, current \in Contracts :
          LET alone == EvaluatePassportGate(request, current, None, now)
          IN  check' = IF alone.decision = "BLOCK"
                       THEN [NoCheck EXCEPT !.pc = "done", !.result = alone]
                       ELSE [NoCheck EXCEPT !.pc = "available", !.request = request,
                                            !.current = current, !.observed = now]
  BY DEF BeginCheck
<1> DEFINE alone == EvaluatePassportGate(request, current, None, now)
<1> HIDE DEF alone
<1>2. now \in Nat
  BY ChainFacts DEF Inv
<1>3. CASE alone.decision = "BLOCK"
  <2>1. check' = [NoCheck EXCEPT !.pc = "done", !.result = alone]
    BY <1>1, <1>3 DEF alone
  <2>2. check' = [pc |-> "done", request |-> None, current |-> None, observed |-> 0,
                  rows |-> <<>>, listed |-> <<>>, newest |-> {}, unseen |-> {}, result |-> alone]
    BY <2>1 DEF NoCheck
  <2>3. /\ check'.pc = "done" /\ check'.newest = {} /\ check'.listed = <<>> /\ check'.result = alone
        /\ ShapeInv'
    BY <2>2 DEF ShapeInv
  <2>4. QED
    BY <1>3, <2>3, Blank
<1>4. CASE alone.decision # "BLOCK"
  <2>1. check' = [NoCheck EXCEPT !.pc = "available", !.request = request, !.current = current, !.observed = now]
    BY <1>1, <1>4 DEF alone
  <2>2. check' = [pc |-> "available", request |-> request, current |-> current, observed |-> now,
                  rows |-> <<>>, listed |-> <<>>, newest |-> {}, unseen |-> {}, result |-> None]
    BY <2>1 DEF NoCheck
  <2>3. check'.pc = "available" /\ check'.newest = {} /\ check'.listed = <<>> /\ ShapeInv'
    BY <1>2, <2>2 DEF ShapeInv
  <2>4. QED
    BY <2>3, Blank
<1>5. QED
  BY <1>3, <1>4

\* The rows read are rows; what the chain anchored of them it anchored by now.
LEMMA ReadCandidatesInv == ASSUME Inv, CheckInv, UNCHANGED vars, ReadCandidates PROVE CheckInv'
<1> DEFINE rows   == [r \in {q \in Run : Finalized(q)} |-> db[r]]
           listed == [r \in {q \in Run : Finalized(q) /\ OnChain(q)} |-> chain[Position(r)].time]
<1>1. ChainInv /\ RowInv /\ ShapeInv
  BY DEF Inv, CheckInv
<1>2. check.pc = "available" /\ check' = [check EXCEPT !.pc = "verify", !.rows = rows, !.listed = listed]
  BY DEF ReadCandidates
<1>3. \A r \in DOMAIN rows : r \in Run /\ IsRow(rows[r])
  BY <1>1 DEF Finalized, RowInv
<1>4. /\ \A r \in DOMAIN listed : r \in Run /\ r \in DOMAIN rows /\ OnChain(r)
      /\ \A r \in DOMAIN listed : listed[r] = chain[Position(r)].time
  OBVIOUS
<1>5. \A r \in DOMAIN listed : chain[Position(r)].time \in Nat /\ chain[Position(r)].time <= now
  <2>1. \A r \in DOMAIN listed : Position(r) \in DOMAIN chain
    BY <1>1, <1>4, OnChainIs, ChainFacts
  <2> HIDE DEF listed
  <2>2. QED
    BY <1>1, <2>1, ChainFacts DEF ChainInv
<1> HIDE DEF rows, listed
<1>6. /\ check'.pc = "verify" /\ check'.rows = rows /\ check'.listed = listed /\ check'.newest = {}
      /\ check'.request \in Requests /\ ShapeInv'
  BY <1>1, <1>2 DEF ShapeInv
<1>7. now' = now /\ chain' = chain
  BY DEF vars
<1>8. ProvedInv'
  BY <1>6 DEF ProvedInv
<1>9. \A r \in DOMAIN listed : listed[r] \in Nat /\ listed[r] <= now /\ chain[Position(r)].time >= listed[r]
  BY <1>4, <1>5
<1>10. ListedInv'
  BY <1>4, <1>6, <1>7, <1>9 DEF ListedInv, OnChain, Position
<1>11. SeenInv' /\ AllowInv'
  BY <1>3, <1>4, <1>6 DEF SeenInv, AllowInv, NewestDecides, Decided
<1>12. QED
  BY <1>6, <1>8, <1>10, <1>11 DEF CheckInv

\* The candidate that stays is no older than the one looked at, nor than any before.
LEMMA NewestIs ==
    ASSUME NEW newest, NEW candidate, \A n \in newest : n.at \in Nat, candidate.at \in Nat
    PROVE  /\ \A n \in Newest(newest, candidate) : n \in newest \/ n = candidate
           /\ \E n \in Newest(newest, candidate) : candidate.at <= n.at
           /\ \A m \in newest : \E n \in Newest(newest, candidate) : m.at <= n.at
<1>1. CASE \E other \in newest : other.at >= candidate.at
  BY <1>1 DEF Newest
<1>2. CASE ~\E other \in newest : other.at >= candidate.at
  BY <1>2 DEF Newest
<1>3. QED
  BY <1>1, <1>2

LEMMA VerifyCandidateInv ==
    ASSUME Inv, CheckInv, UNCHANGED vars, NEW r \in Run, VerifyCandidate(r)
    PROVE  CheckInv'
<1>1. ShapeInv /\ ProvedInv /\ ListedInv /\ SeenInv
  BY DEF CheckInv
<1> DEFINE row == check.rows[r]
           current == check.current
           rest == [q \in DOMAIN check.rows \ {r} |-> check.rows[q]]
<1>2. check.pc = "verify" /\ r \in DOMAIN check.rows
  BY DEF VerifyCandidate
<1>3. PICK view \in Views, read \in BOOLEAN :
          LET v == VerifyStrict(r, row, view, read)
              candidate == [at |-> IF v.found THEN v.anchored ELSE row.generated, row |-> row,
                            proof |-> ProofFromVerification(r, row, v, current)]
          IN  check' = [check EXCEPT !.rows = rest,
                                     !.unseen = IF v.found THEN check.unseen ELSE check.unseen \cup {r},
                                     !.newest = Newest(check.newest, candidate)]
  BY Zenon DEF VerifyCandidate
<1> DEFINE v == VerifyStrict(r, row, view, read)
           candidate == [at |-> IF v.found THEN v.anchored ELSE row.generated, row |-> row,
                         proof |-> ProofFromVerification(r, row, v, current)]
           newest == Newest(check.newest, candidate)
           unseen == IF v.found THEN check.unseen ELSE check.unseen \cup {r}
<1>4. IsRow(row) /\ \A q \in DOMAIN check.rows : q \in Run /\ IsRow(check.rows[q])
  BY <1>1, <1>2 DEF SeenInv
<1>5. check' = [check EXCEPT !.rows = rest, !.unseen = unseen, !.newest = newest]
  BY <1>3, Zenon
<1>6. Proved(candidate) /\ (v.found => OnChain(r) /\ candidate.at = chain[Position(r)].time)
  <2> HIDE DEF row, current
  <2>1. QED
    BY <1>4, CandidateIs, Zenon
<1>7. DOMAIN rest = DOMAIN check.rows \ {r} /\ \A q \in DOMAIN rest : rest[q] = check.rows[q]
  OBVIOUS
<1>8. /\ v.found => unseen = check.unseen
      /\ ~v.found => unseen = check.unseen \cup {r}
  OBVIOUS
<1> HIDE DEF row, current, rest, v, candidate, unseen
<1>9. candidate.at \in Nat /\ \A n \in check.newest : n.at \in Nat
  BY <1>1, <1>6 DEF ProvedInv, Proved
<1>10. /\ \A n \in newest : n \in check.newest \/ n = candidate
       /\ \E n \in newest : candidate.at <= n.at
       /\ \A m \in check.newest : \E n \in newest : m.at <= n.at
  BY <1>9, NewestIs
<1> HIDE DEF newest
<1>11. /\ check'.pc = "verify" /\ check'.rows = rest /\ check'.listed = check.listed
       /\ check'.newest = newest /\ check'.unseen = unseen /\ ShapeInv'
  BY <1>1, <1>2, <1>5 DEF ShapeInv
<1>12. now' = now /\ chain' = chain /\ published' = published
  BY DEF vars
<1>13. \A n \in newest : Proved(n)
  BY <1>1, <1>6, <1>10 DEF ProvedInv
<1>14. ProvedInv'
  BY <1>11, <1>12, <1>13 DEF ProvedInv, Proved
<1>15. ListedInv'
  BY <1>1, <1>11, <1>12 DEF ListedInv, OnChain, Position
<1>16. \A q \in DOMAIN rest : q \in Run /\ IsRow(rest[q])
  BY <1>4, <1>7
<1>17. ASSUME NEW q \in DOMAIN check.listed \ unseen
       PROVE  q \in DOMAIN rest \/ \E n \in newest : check.listed[q] <= n.at
  <2>1. check.listed[q] \in Nat /\ (OnChain(q) => chain[Position(q)].time >= check.listed[q])
    BY <1>1 DEF ListedInv
  <2>2. newest \subseteq {n \in newest : n.at \in Nat}
    BY <1>13 DEF Proved
  <2>3. CASE q = r
    <3>1. v.found
      BY <1>8, <2>3
    <3>2. candidate.at >= check.listed[q]
      BY <1>6, <2>1, <2>3, <3>1
    <3>3. QED
      BY <1>9, <1>10, <2>1, <2>2, <3>2
  <2>4. CASE q # r
    <3>1. q \notin check.unseen
      BY <1>8
    <3>2. q \in DOMAIN check.rows \/ \E m \in check.newest : check.listed[q] <= m.at
      BY <1>1, <1>2, <3>1 DEF SeenInv
    <3>3. CASE q \in DOMAIN check.rows
      BY <1>7, <2>4, <3>3
    <3>4. ASSUME NEW m \in check.newest, check.listed[q] <= m.at
          PROVE  \E n \in newest : check.listed[q] <= n.at
      BY <1>9, <1>10, <2>1, <2>2, <3>4
    <3>5. QED
      BY <3>2, <3>3, <3>4
  <2>5. QED
    BY <2>3, <2>4
<1>18. SeenInv' /\ AllowInv'
  BY <1>11, <1>16, <1>17 DEF SeenInv, AllowInv, NewestDecides, Decided
<1>19. QED
  BY <1>11, <1>14, <1>15, <1>18 DEF CheckInv

\* The decision is taken when every row was looked at.
LEMMA DecideInv == ASSUME CheckInv, UNCHANGED vars, Decide PROVE CheckInv'
<1>1. ShapeInv /\ ProvedInv /\ ListedInv /\ SeenInv
  BY DEF CheckInv
<1>2. PICK passport \in IF check.newest = {} THEN {None} ELSE {n.proof : n \in check.newest} :
          check' = [check EXCEPT !.pc = "done", !.result =
                       EvaluatePassportGate(check.request, check.current, passport, check.observed)]
  BY Zenon DEF Decide
<1>3. check.pc = "verify" /\ DOMAIN check.rows = {}
  BY DEF Decide
<1> DEFINE result == EvaluatePassportGate(check.request, check.current, passport, check.observed)
<1> HIDE DEF result
<1>4. check' = [check EXCEPT !.pc = "done", !.result = result]
  BY <1>2 DEF result
<1>5. /\ check'.pc = "done" /\ check'.result = result /\ check'.listed = check.listed
      /\ check'.newest = check.newest /\ check'.unseen = check.unseen
      /\ check'.request = check.request /\ check'.current = check.current /\ check'.observed = check.observed
      /\ check.request \in Requests /\ check.observed \in Nat /\ ShapeInv'
  BY <1>1, <1>3, <1>4 DEF ShapeInv
<1>6. now' = now /\ chain' = chain /\ published' = published
  BY DEF vars
<1>7. ProvedInv'
  BY <1>1, <1>5, <1>6 DEF ProvedInv, Proved
<1>8. ListedInv'
  BY <1>1, <1>5, <1>6 DEF ListedInv, OnChain, Position
<1>9. SeenInv'
  BY <1>1, <1>3, <1>5 DEF SeenInv, NewestDecides
<1>10. AllowInv'
  <2>1. SUFFICES ASSUME result.decision \in {"ALLOW", "WARN"} PROVE AllowInv'
    BY <1>5 DEF AllowInv, Decided
  <2>2. /\ passport # None /\ check.current.signatureValid /\ passport.identity = check.current.identity
        /\ PassportFailures(check.current, passport, check.observed) = {}
        /\ passport.anchored \in Nat =>
              check.observed - passport.anchored <=
                 IF result.decision = "ALLOW" THEN check.request.warn ELSE check.request.max
    BY <1>5, <2>1, AllowsOnly DEF result
  <2>3. PICK n \in check.newest : passport = n.proof
    BY <1>2, <2>2
  <2>4. Proved(n)
    BY <1>1 DEF ProvedInv
  <2>5. /\ \A c \in DOMAIN n.proof.verification : n.proof.verification[c]
        /\ n.proof.databaseChainMatch /\ n.proof.status = "verified"
        /\ ~(n.proof.anchored > check.observed)
        /\ \A i \in Gate : n.proof.gates[i] = "pass"
        /\ n.proof.provider.present
    BY <2>2, <2>3, NoFailures
  <2>6. n.proof.verification.independentlyVerified
    BY <2>4, <2>5 DEF Proved
  <2>7. n.proof.anchored = n.at /\ n.at \in Nat
    BY <2>4, <2>6 DEF Proved
  <2>8. check.observed - n.at >= 0
    BY <1>5, <2>5, <2>7
  <2>9. QED
    BY <1>5, <2>2, <2>3, <2>5, <2>6, <2>7, <2>8 DEF AllowInv, Decided
<1>11. QED
  BY <1>5, <1>7, <1>8, <1>9, <1>10 DEF CheckInv

LEMMA GateStep == Inv /\ CheckInv /\ [GateNext]_<<vars, gateVars>> => Inv' /\ CheckInv'
<1> SUFFICES ASSUME Inv, CheckInv, [GateNext]_<<vars, gateVars>> PROVE Inv' /\ CheckInv'
  OBVIOUS
<1>1. Inv'
  BY StepInv DEF GateNext, gateVars
<1>2. CASE IndexNext /\ UNCHANGED gateVars
  BY <1>1, <1>2, RegistryMoves
<1>3. CASE Check /\ UNCHANGED vars
  <2>1. CASE BeginCheck
    BY <1>1, <2>1, BeginCheckInv
  <2>2. CASE ContractUnavailable \/ RpcUnavailable \/ IndexUnavailable
    BY <1>1, <2>2, UndecidedInv DEF ContractUnavailable, RpcUnavailable, IndexUnavailable
  <2>3. CASE ReadCandidates
    BY <1>1, <1>3, <2>3, ReadCandidatesInv
  <2>4. CASE Decide
    BY <1>1, <1>3, <2>4, DecideInv
  <2>5. ASSUME NEW r \in Run, VerifyCandidate(r) PROVE CheckInv'
    BY <1>3, <2>5, VerifyCandidateInv
  <2>6. QED
    BY <1>1, <1>3, <2>1, <2>2, <2>3, <2>4, <2>5 DEF Check
<1>4. CASE UNCHANGED <<vars, gateVars>>
  <2>1. check' = check /\ chain' = chain /\ published' = published /\ now' = now
    BY <1>4 DEF vars, gateVars
  <2>2. QED
    BY <1>1, <2>1 DEF CheckInv, ShapeInv, ProvedInv, Proved, ListedInv, OnChain, Position, SeenInv,
                      NewestDecides, AllowInv, Decided
<1>5. QED
  BY <1>2, <1>3, <1>4 DEF GateNext

LEMMA CheckInvariance == GateSpec => [](Inv /\ CheckInv)
<1>1. GateSpecInit => Inv /\ CheckInv
  BY InitInv, InitCheck DEF GateSpecInit
<1>2. QED
  BY <1>1, GateStep, PTL DEF GateSpec

\* A service is allowed only on a passport that some run published, that verifies
\* and is verified on all gates, for the identity the target signs now, within the
\* age limit that applies (check, evaluatePassportGate).
THEOREM AllowsProved == GateSpec => []AllowProved
<1>1. Inv /\ CheckInv => AllowProved
  <2> SUFFICES ASSUME CheckInv, Decided({"ALLOW", "WARN"}) PROVE AllowProved
    BY DEF AllowProved
  <2>1. PICK n \in check.newest :
          /\ n.proof.verification.independentlyVerified /\ n.proof.databaseChainMatch
          /\ n.proof.status = "verified" /\ n.proof.provider.present /\ \A i \in Gate : n.proof.gates[i] = "pass"
          /\ n.proof.identity = check.current.identity /\ check.current.signatureValid
          /\ check.observed - n.at >= 0
          /\ check.observed - n.at <=
                IF check.result.decision = "ALLOW" THEN check.request.warn ELSE check.request.max
    BY DEF CheckInv, AllowInv
  <2>2. Proved(n)
    BY DEF CheckInv, ProvedInv
  <2>3. QED
    BY <2>1, <2>2 DEF AllowProved, Proved
<1>2. QED
  BY <1>1, CheckInvariance, PTL

\* The newest of the passports that the index listed and the node showed decides,
\* whatever is reorganised, mined anew or altered while the check runs (check).
THEOREM DecidesOnNewest == GateSpec => []NewestDecides
<1>1. Inv /\ CheckInv => NewestDecides
  BY DEF CheckInv, SeenInv
<1>2. QED
  BY <1>1, CheckInvariance, PTL
=============================================================================

------------------------- MODULE PublicationProofs -------------------------
(***************************************************************************)
(* Proofs about Publication for any processes, runs, transactions and      *)
(* number of faults.                                                       *)
(***************************************************************************)
EXTENDS Publication, TLAPS

-----------------------------------------------------------------------------
(* The inductive invariant, in named parts.                                *)

\* Program counters of a worker that has a run and its evidence in hand.
Busy == {"rehearse", "publish", "sign", "persist", "assert", "send", "wait",
         "save", "failed", "unknown"}

\* ... and of one that has signed a transaction and not yet sent it.
Signing == {"persist", "assert", "send"}

\* What a worker relies on: its transaction is its own evidence, recorded
\* before it is sent; what it saves was read from the registry; and what it
\* listed were candidates of the runs it listed them for.
Ready(rec) ==
    /\ rec.pc \in Busy => rec.run \in Run /\ rec.evidence \in Evidence
    /\ rec.pc \in Signing =>
        /\ rec.tx \in Tx
        /\ tx[rec.tx] = [status |-> "signed", run |-> rec.run, evidence |-> rec.evidence]
    /\ rec.pc \in {"assert", "send"} => rec.tx \in recorded \/ record[rec.run].evidence # None
    /\ rec.pc = "save" => Anchored(rec.run) = rec.evidence
    /\ \A item \in rec.todo : tx[item[2]].status # "unused" /\ tx[item[2]].run = item[1]

WorkersInv == \A w \in Worker : Ready(worker[w])

\* Two workers never have the same unsent transaction.
OwnTx ==
    \A v, w \in Worker :
        v # w /\ worker[v].pc \in Signing /\ worker[w].pc \in Signing => worker[v].tx # worker[w].tx

\* A used transaction carries the evidence of a run, and the registry accepts
\* one transaction per run.
TxInv ==
    /\ \A t \in Tx : tx[t].status # "unused" => tx[t].run \in Run /\ tx[t].evidence \in Evidence
    /\ \A t, u \in Tx :
        tx[t].status = "success" /\ tx[u].status = "success" /\ tx[t].run = tx[u].run => t = u

\* A candidate belongs to the run it is recorded for.
RecordInv ==
    \A r \in Run :
        record[r].publication # None =>
            /\ tx[record[r].publication].status # "unused"
            /\ tx[record[r].publication].run = r

Inv == TypeOK /\ TxInv /\ RecordInv /\ WorkersInv /\ OwnTx /\ SentIsRecorded

-----------------------------------------------------------------------------
(* The registry.                                                           *)

Mined(t) == tx[t].status = "success"

LEMMA AnchoredByTx ==
    ASSUME TypeOK, TxInv
    PROVE  /\ \A t \in Tx : Mined(t) => Anchored(tx[t].run) = tx[t].evidence
           /\ \A r : Anchored(r) # None =>
                \E t \in Tx : Mined(t) /\ tx[t].run = r /\ tx[t].evidence = Anchored(r)
           /\ \A r : Anchored(r) \in Evidence \cup {None}
           /\ \A t \in Tx : Mined(t) => Anchored(tx[t].run) # None
<1>1. ASSUME NEW r, NEW t \in Tx, Mined(t), tx[t].run = r
      PROVE  Anchored(r) = tx[t].evidence
  <2> DEFINE u == CHOOSE u \in Tx : tx[u].run = r /\ tx[u].status = "success"
  <2>1. u \in Tx /\ tx[u].run = r /\ tx[u].status = "success"
    BY <1>1 DEF Mined
  <2>2. Anchored(r) = tx[u].evidence
    BY <1>1 DEF Anchored, Mined
  <2> HIDE DEF u
  <2>3. u = t
    BY <1>1, <2>1 DEF TxInv, Mined
  <2>4. QED
    BY <2>2, <2>3
<1>2. ASSUME NEW r, Anchored(r) # None
      PROVE  \E t \in Tx : Mined(t) /\ tx[t].run = r
  BY <1>2 DEF Anchored, Mined
<1>3. \A t \in Tx : Mined(t) => tx[t].evidence \in Evidence
  BY DEF TxInv, Mined
<1>4. None \notin Evidence
  BY NoneAssumption DEF Evidence
<1>5. QED
  BY <1>1, <1>2, <1>3, <1>4

\* What the registry holds for a run depends on the mined transactions of the
\* run only.
LEMMA AnchoredStaysAt ==
    ASSUME TypeOK, TxInv, TxInv', NEW r,
           \A t \in Tx : Mined(t)' /\ tx'[t].run = r <=> Mined(t) /\ tx[t].run = r,
           \A t \in Tx : Mined(t) /\ tx[t].run = r => tx'[t] = tx[t]
    PROVE  Anchored(r)' = Anchored(r)
<1>1. ASSUME NEW t \in Tx, Mined(t), tx[t].run = r
      PROVE  Anchored(r)' = Anchored(r)
  <2> DEFINE u == CHOOSE u \in Tx : tx'[u].run = r /\ tx'[u].status = "success"
  <2>0. tx'[t] = tx[t] /\ tx[t].status = "success"
    BY <1>1 DEF Mined
  <2>1. u \in Tx /\ tx'[u].run = r /\ tx'[u].status = "success"
    BY <1>1, <2>0
  <2>2. Anchored(r)' = tx'[u].evidence
    BY <1>1, <2>0 DEF Anchored
  <2> HIDE DEF u
  <2>3. u = t
    BY <1>1, <2>0, <2>1 DEF TxInv
  <2>4. Anchored(r) = tx[t].evidence
    BY <1>1, AnchoredByTx
  <2>5. QED
    BY <2>0, <2>2, <2>3, <2>4
<1>2. ASSUME \A t \in Tx : ~(Mined(t) /\ tx[t].run = r)
      PROVE  Anchored(r)' = Anchored(r)
  <2>1. \A t \in Tx : ~(tx[t].status = "success" /\ tx[t].run = r)
    BY <1>2 DEF Mined
  <2>2. \A t \in Tx : ~(tx'[t].status = "success" /\ tx'[t].run = r)
    BY <1>2 DEF Mined
  <2>3. Anchored(r) = None
    BY <2>1 DEF Anchored
  <2>4. Anchored(r)' = None
    BY <2>2 DEF Anchored
  <2>5. QED
    BY <2>3, <2>4
<1>3. QED
  BY <1>1, <1>2

LEMMA AnchoredStays ==
    ASSUME TypeOK, TxInv, TxInv',
           \A t \in Tx : Mined(t)' <=> Mined(t),
           \A t \in Tx : Mined(t) => tx'[t] = tx[t]
    PROVE  \A r : Anchored(r)' = Anchored(r)
BY AnchoredStaysAt

-----------------------------------------------------------------------------
(* Steps of one worker.                                                    *)

\* w goes on as new; a worker that stops has nothing in hand.
Step(w, new) ==
    /\ worker' \in [Worker -> WorkerRec]
    /\ \A v \in Worker \ {w} : worker'[v] \in {worker[v], Idle, Over}
    /\ worker'[w] \in {new, Idle, Over}

LEMMA Stopped ==
    /\ Idle \in WorkerRec /\ Idle.pc = "idle" /\ Idle.todo = {}
    /\ Over \in WorkerRec /\ Over.pc = "over" /\ Over.todo = {}
BY DEF Idle, Over, WorkerRec, Pc

LEMMA StoppedReady == Ready(Idle) /\ Ready(Over) /\ Ready(Idle)' /\ Ready(Over)'
BY Stopped DEF Ready, Busy, Signing

LEMMA WorkerHome ==
    ASSUME NEW w \in Worker
    PROVE  Home(w) \in Proc /\ <<Home(w), "startup">> \in Worker
BY DEF Worker, Home

LEMMA BecomeStep ==
    ASSUME TypeOK, NEW w \in Worker, NEW new \in WorkerRec, Become(w, new)
    PROVE  Step(w, new)
BY DEF Become, Step, TypeOK

LEMMA RethrowStep ==
    ASSUME TypeOK, NEW w \in Worker, Rethrow(w)
    PROVE  Step(w, Over) /\ leader' \in Proc \cup {None}
<1>1. CASE Become(w, Over) /\ UNCHANGED leader
  BY <1>1, BecomeStep, Stopped DEF TypeOK
<1>2. CASE /\ worker' = [worker EXCEPT ![w] = Over, ![<<Home(w), "startup">>] = Idle]
           /\ leader' = None
  BY <1>2, WorkerHome, Stopped DEF Step, TypeOK
<1>3. QED
  BY <1>1, <1>2 DEF Rethrow

\* Where an error takes a worker that has its run in hand.
Fallen(w, new) ==
    /\ new \in WorkerRec /\ Step(w, new)
    /\ Ready(worker[w]) /\ worker[w].pc \in Busy => Ready(new)
    /\ new.pc \notin Signing
    /\ leader' \in Proc \cup {None}

LEMMA LeaveStep ==
    ASSUME TypeOK, NEW w \in Worker, NEW pc \in {"failed", "unknown"}, Leave(w, pc), UNCHANGED leader
    PROVE  \E new \in WorkerRec : Fallen(w, new)
<1> DEFINE new == [worker[w] EXCEPT !.pc = pc, !.tx = None]
<1>1. worker[w] \in WorkerRec
  BY DEF TypeOK
<1>2. /\ new \in WorkerRec /\ new.pc = pc /\ new.run = worker[w].run
      /\ new.evidence = worker[w].evidence /\ new.todo = worker[w].todo
  BY <1>1 DEF WorkerRec, Pc
<1>3. Step(w, new)
  BY <1>2, BecomeStep DEF Leave
<1> HIDE DEF new
<1>4. Ready(worker[w]) /\ worker[w].pc \in Busy => Ready(new)
  BY <1>2 DEF Ready, Busy, Signing
<1>5. QED
  BY <1>2, <1>3, <1>4 DEF Fallen, Signing, TypeOK

LEMMA StopStep ==
    ASSUME TypeOK, NEW w \in Worker, NEW new \in {Idle, Over}, Step(w, new),
           leader' \in Proc \cup {None}
    PROVE  \E rec \in WorkerRec : Fallen(w, rec)
BY Stopped, StoppedReady DEF Fallen, Signing

LEMMA NextItemStep ==
    ASSUME TypeOK, NEW w \in Worker, NextItem(w), UNCHANGED leader
    PROVE  \E new \in WorkerRec : Fallen(w, new)
<1> DEFINE new == [Idle EXCEPT !.pc = "list", !.todo = worker[w].todo]
<1>1. worker[w] \in WorkerRec
  BY DEF TypeOK
<1>2. new \in WorkerRec /\ new.pc = "list" /\ new.todo = worker[w].todo
  BY <1>1 DEF WorkerRec, Pc, Idle
<1>3. Step(w, new)
  BY <1>2, BecomeStep DEF NextItem
<1> HIDE DEF new
<1>4. Ready(worker[w]) => Ready(new)
  BY <1>2 DEF Ready, Busy, Signing
<1>5. QED
  BY <1>2, <1>3, <1>4 DEF Fallen, Signing, TypeOK

LEMMA ThrowStep ==
    ASSUME TypeOK, NEW w \in Worker, Throw(w)
    PROVE  \E new \in WorkerRec : Fallen(w, new)
<1>1. CASE Leave(w, "failed") /\ UNCHANGED leader
  BY <1>1, LeaveStep
<1>2. CASE Rethrow(w)
  BY <1>2, RethrowStep, StopStep
<1>3. CASE Become(w, Idle) /\ leader' \in {None, leader}
  <2>1. Step(w, Idle) /\ leader' \in Proc \cup {None}
    BY <1>3, BecomeStep, Stopped DEF TypeOK
  <2>2. QED
    BY <2>1, StopStep
<1>4. QED
  BY <1>1, <1>2, <1>3 DEF Throw

LEMMA ThrowUnknownStep ==
    ASSUME TypeOK, NEW w \in Worker, ThrowUnknown(w)
    PROVE  \E new \in WorkerRec : Fallen(w, new)
<1>1. CASE Leave(w, "unknown") /\ UNCHANGED leader
  BY <1>1, LeaveStep
<1>2. CASE Rethrow(w)
  BY <1>2, RethrowStep, StopStep
<1>3. CASE NextItem(w) /\ UNCHANGED leader
  BY <1>3, NextItemStep
<1>4. QED
  BY <1>1, <1>2, <1>3 DEF ThrowUnknown

LEMMA FaultType ==
    ASSUME TypeOK, Fault \/ UNCHANGED faults
    PROVE  faults' \in 0..MaxFaults
BY MaxFaultsAssumption DEF Fault, TypeOK

-----------------------------------------------------------------------------
(* How a step keeps the invariant.                                         *)

\* What everybody relies on is not taken back.
Stable ==
    /\ \A t \in Tx : tx[t].status # "unused" =>
        tx'[t].status # "unused" /\ tx'[t].run = tx[t].run /\ tx'[t].evidence = tx[t].evidence
    /\ recorded \subseteq recorded'
    /\ \A r \in Run : record[r].evidence # None => record'[r].evidence # None
    /\ \A r : Anchored(r) # None => Anchored(r)' = Anchored(r)

LEMMA ReadyStays ==
    ASSUME Stable, NEW rec \in WorkerRec, Ready(rec),
           rec.pc \in Signing => tx'[rec.tx] = tx[rec.tx]
    PROVE  Ready(rec)'
<1>1. /\ rec.run \in Run \cup {None} /\ rec.todo \subseteq Run \X Tx
      /\ None \notin Evidence
  BY NoneAssumption DEF WorkerRec, Evidence
<1>2. rec.pc \in Busy => rec.run \in Run /\ rec.evidence \in Evidence
  BY DEF Ready
<1>3. rec.pc \in Signing =>
        /\ rec.tx \in Tx
        /\ tx'[rec.tx] = [status |-> "signed", run |-> rec.run, evidence |-> rec.evidence]
  BY DEF Ready
<1>4. rec.pc \in {"assert", "send"} => rec.tx \in recorded' \/ record'[rec.run].evidence # None
  BY <1>2 DEF Ready, Busy, Stable
<1>5. rec.pc = "save" => Anchored(rec.run)' = rec.evidence
  BY <1>1, <1>2 DEF Ready, Busy, Stable
<1>6. \A item \in rec.todo : tx'[item[2]].status # "unused" /\ tx'[item[2]].run = item[1]
  BY <1>1 DEF Ready, Stable
<1>7. QED
  BY <1>2, <1>3, <1>4, <1>5, <1>6 DEF Ready

LEMMA WorkersStep ==
    ASSUME Inv, Stable, NEW w \in Worker, NEW new \in WorkerRec, Step(w, new), Ready(new)',
           \A v \in Worker : worker'[v] = worker[v] /\ worker[v].pc \in Signing =>
                tx'[worker[v].tx] = tx[worker[v].tx],
           new.pc \in Signing =>
                \A v \in Worker \ {w} : worker[v].pc \in Signing => worker[v].tx # new.tx
    PROVE  WorkersInv' /\ OwnTx'
<1>1. ASSUME NEW v \in Worker
      PROVE  Ready(worker[v])'
  <2>1. worker'[v] \in WorkerRec
    BY DEF Step
  <2>2. PICK rec \in WorkerRec : rec = worker'[v]
    BY <2>1
  <2>3. CASE rec = worker[v]
    <3>1. Ready(rec)
      BY <2>3 DEF Inv, WorkersInv
    <3>2. rec.pc \in Signing => tx'[rec.tx] = tx[rec.tx]
      BY <2>2, <2>3
    <3>3. Ready(rec)'
      BY <3>1, <3>2, ReadyStays
    <3>4. QED
      BY <2>2, <3>3 DEF Ready
  <2>4. CASE rec = new
    BY <2>2, <2>4 DEF Ready
  <2>5. CASE rec \in {Idle, Over}
    BY <2>2, <2>5, StoppedReady DEF Ready
  <2>6. QED
    BY <2>2, <2>3, <2>4, <2>5 DEF Step
<1>2. ASSUME NEW u \in Worker, NEW v \in Worker, u # v,
             worker'[u].pc \in Signing, worker'[v].pc \in Signing
      PROVE  worker'[u].tx # worker'[v].tx
  <2>1. \A x \in {u, v} : worker'[x] = worker[x] \/ (x = w /\ worker'[x] = new)
    BY <1>2, Stopped DEF Step, Signing
  <2>2. QED
    BY <1>2, <2>1 DEF Inv, OwnTx
<1>3. QED
  BY <1>1, <1>2 DEF WorkersInv, OwnTx

-----------------------------------------------------------------------------
(* What a step does to the promises of the registry and of the record.     *)

Registered == \A r : Anchored(r)' = Anchored(r)
Kept       == \A r \in Run : record'[r].evidence = record[r].evidence

\* r is completed with what the registry holds, or was already.
Completes(r) ==
    /\ Anchored(r) # None /\ record[r].evidence \in {None, Anchored(r)}
    /\ record'[r].evidence = Anchored(r)
    /\ \A q \in Run \ {r} : record'[q].evidence = record[q].evidence

Anchors(r) ==
    /\ Anchored(r) = None /\ Anchored(r)' \in Evidence
    /\ \A q : q # r => Anchored(q)' = Anchored(q)

Change ==
    \/ Registered /\ Kept
    \/ Registered /\ \E r \in Run : Completes(r)
    \/ Kept /\ \E r \in Run : Anchors(r)

\* A step on the record, under the lock of the repository.
Books ==
    /\ UNCHANGED tx
    /\ record' \in [Run -> Record] /\ recorded' \in SUBSET Tx /\ recorded \subseteq recorded'
    /\ Kept \/ \E r \in Run : Completes(r)
    /\ \A r \in Run :
        \/ record'[r].publication \in {None, record[r].publication}
        \/ /\ tx[record'[r].publication].status # "unused"
           /\ tx[record'[r].publication].run = r

LEMMA BooksStable ==
    ASSUME Inv, Books
    PROVE  Stable /\ TxInv' /\ RecordInv' /\ SentIsRecorded' /\ Change
<1>0. UNCHANGED tx
  BY DEF Books
<1>1. TxInv'
  BY <1>0 DEF Inv, TxInv
<1>2. \A r : Anchored(r)' = Anchored(r)
  BY <1>0, <1>1, AnchoredStays DEF Inv, Mined
<1>3. Change
  BY <1>2 DEF Change, Registered, Books
<1>4. \A r \in Run : record[r].evidence # None => record'[r].evidence # None
  BY DEF Books, Kept, Completes
<1>5. Stable
  BY <1>0, <1>2, <1>4 DEF Stable, Books
<1>6. RecordInv'
  BY <1>0 DEF Inv, RecordInv, Books
<1>7. \A t \in Tx : tx[t].status \in {"sent", "success", "reverted"} => tx[t].run \in Run
  BY DEF Inv, TxInv
<1>8. SentIsRecorded'
  BY <1>0, <1>4, <1>7 DEF Inv, SentIsRecorded, Books
<1>9. QED
  BY <1>1, <1>3, <1>5, <1>6, <1>8

\* A worker's step on the record: it holds on to its own transaction, if any.
LEMMA BooksStep ==
    ASSUME Inv, Books, leader' \in Proc \cup {None}, faults' \in 0..MaxFaults,
           NEW w \in Worker, NEW new \in WorkerRec, Step(w, new), Ready(new)',
           new.pc \in Signing => worker[w].pc \in Signing /\ new.tx = worker[w].tx
    PROVE  Inv' /\ Change
<1>1. TypeOK'
  BY DEF Inv, TypeOK, Books, Step
<1>2. UNCHANGED tx
  BY DEF Books
<1>3. new.pc \in Signing => \A v \in Worker \ {w} : worker[v].pc \in Signing => worker[v].tx # new.tx
  BY DEF Inv, OwnTx
<1>4. WorkersInv' /\ OwnTx'
  BY <1>2, <1>3, BooksStable, WorkersStep
<1>5. QED
  BY <1>1, <1>4, BooksStable DEF Inv

LEMMA QuietBooks ==
    ASSUME Inv, UNCHANGED <<record, tx, recorded>>
    PROVE  Books
BY DEF Inv, TypeOK, Books, Kept

\* A worker's step on nothing but itself.
LEMMA QuietStep ==
    ASSUME Inv, UNCHANGED <<record, tx, recorded>>,
           leader' \in Proc \cup {None}, faults' \in 0..MaxFaults,
           NEW w \in Worker, NEW new \in WorkerRec, Step(w, new), Ready(new),
           new.pc \in Signing => worker[w].pc \in Signing /\ new.tx = worker[w].tx
    PROVE  Inv' /\ Change
<1>1. Books
  BY QuietBooks
<1>2. Ready(new)'
  BY <1>1, BooksStable, ReadyStays
<1>3. QED
  BY <1>1, <1>2, BooksStep

LEMMA FallenQuiet ==
    ASSUME Inv, UNCHANGED <<record, tx, recorded>>, faults' \in 0..MaxFaults,
           NEW w \in Worker, worker[w].pc \in Busy, NEW new \in WorkerRec, Fallen(w, new)
    PROVE  Inv' /\ Change
<1>1. Ready(new) /\ new.pc \notin Signing /\ Step(w, new) /\ leader' \in Proc \cup {None}
  BY DEF Fallen, Inv, WorkersInv
<1>2. QED
  BY <1>1, QuietStep

LEMMA ThrowQuiet ==
    ASSUME Inv, UNCHANGED <<record, tx, recorded>>, faults' \in 0..MaxFaults,
           NEW w \in Worker, worker[w].pc \in Busy,
           Throw(w) \/ ThrowUnknown(w) \/ Rethrow(w)
    PROVE  Inv' /\ Change
<1>1. TypeOK
  BY DEF Inv
<1>2. \E new \in WorkerRec : Fallen(w, new)
  BY <1>1, ThrowStep, ThrowUnknownStep, RethrowStep, StopStep
<1>3. QED
  BY <1>2, FallenQuiet

-----------------------------------------------------------------------------
(* The repository's operations, on the run r.                              *)

LEMMA AdvancedBooks ==
    ASSUME Inv, NEW r \in Run, NEW state \in {"running", "publishing", "failed", "complete"},
           record' = Advanced(record, r, state), UNCHANGED <<tx, recorded>>
    PROVE  Books
<1>1. PICK s \in {"running", "publishing", "failed", "complete"} :
        record' = [record EXCEPT ![r].state = s]
  BY DEF Advanced, Inv, TypeOK, Record
<1>2. record' \in [Run -> Record]
  BY <1>1 DEF Inv, TypeOK, Record
<1>3. \A q \in Run : record'[q].evidence = record[q].evidence
                  /\ record'[q].publication = record[q].publication
  BY <1>1 DEF Inv, TypeOK, Record
<1>4. QED
  BY <1>2, <1>3 DEF Inv, TypeOK, Books, Kept

LEMMA SavedBooks ==
    ASSUME Inv, NEW r \in Run, Anchored(r) # None, Saveable(record, r, Anchored(r)),
           record' = Saved(record, r, Anchored(r)), UNCHANGED <<tx, recorded>>
    PROVE  Books
<1> DEFINE e == Anchored(r)
           new == [state |-> "complete", publication |-> None, evidence |-> e]
<1>1. e \in Evidence
  BY AnchoredByTx DEF Inv
<1>2. record[r].evidence \in {None, e}
  BY DEF Saveable
<1>3. new \in Record /\ new.publication = None /\ new.evidence = e
  BY <1>1 DEF Record
<1>4. record' = [record EXCEPT ![r] = new]
  BY DEF Saved
<1>5. e # None
  OBVIOUS
<1> HIDE DEF new
<1>6. /\ record' \in [Run -> Record] /\ record'[r] = new
      /\ \A q \in Run \ {r} : record'[q] = record[q]
  BY <1>3, <1>4 DEF Inv, TypeOK
<1>7. Completes(r)
  BY <1>2, <1>3, <1>5, <1>6 DEF Completes
<1>8. QED
  BY <1>3, <1>6, <1>7 DEF Inv, TypeOK, Books

-----------------------------------------------------------------------------
(* Workers that go on with the run they have in hand.                      *)

LEMMA Hand ==
    ASSUME Inv, NEW w \in Worker
    PROVE  /\ worker[w] \in WorkerRec /\ Ready(worker[w])
           /\ worker[w].pc \in Busy => worker[w].run \in Run /\ worker[w].evidence \in Evidence
           /\ worker[w].pc \in Signing => worker[w].tx \in Tx
           /\ leader \in Proc \cup {None} /\ faults \in 0..MaxFaults
BY DEF Inv, TypeOK, WorkersInv, Ready

\* new has in hand what w has.
Same(w, new) ==
    new.run = worker[w].run /\ new.evidence = worker[w].evidence /\ new.todo = worker[w].todo

LEMMA GotoStep ==
    ASSUME Inv, NEW w \in Worker, NEW pc \in Pc, Goto(w, pc)
    PROVE  \E new \in WorkerRec :
                Step(w, new) /\ Same(w, new) /\ new.pc = pc /\ new.tx = worker[w].tx
<1> DEFINE new == [worker[w] EXCEPT !.pc = pc]
<1>1. new \in WorkerRec /\ Same(w, new) /\ new.pc = pc /\ new.tx = worker[w].tx
  BY Hand DEF WorkerRec, Same
<1>2. Step(w, new)
  BY <1>1, BecomeStep DEF Goto, Inv
<1>3. QED
  BY <1>1, <1>2

LEMMA GotoQuiet ==
    ASSUME Inv, UNCHANGED <<record, tx, recorded, leader>>, faults' \in 0..MaxFaults,
           NEW w \in Worker, worker[w].pc \in Busy,
           NEW pc \in Busy, Goto(w, pc),
           pc \in Signing => worker[w].pc = "assert",
           pc = "save" => Anchored(worker[w].run) = worker[w].evidence
    PROVE  Inv' /\ Change
<1>1. PICK new \in WorkerRec :
        Step(w, new) /\ Same(w, new) /\ new.pc = pc /\ new.tx = worker[w].tx
  BY GotoStep DEF Busy, Pc
<1>2. Ready(worker[w])
  BY Hand
<1>3. Ready(new)
  <2>1. new.run \in Run /\ new.evidence \in Evidence
    BY <1>1, Hand DEF Same
  <2>2. new.pc \in Signing => worker[w].pc = "assert" /\ worker[w].pc \in Signing
    BY <1>1 DEF Signing
  <2>3. new.pc \in Signing => /\ new.tx \in Tx
                              /\ tx[new.tx] = [status |-> "signed", run |-> new.run, evidence |-> new.evidence]
    BY <1>1, <1>2, <2>2 DEF Ready, Same
  <2>4. new.pc \in {"assert", "send"} => new.tx \in recorded \/ record[new.run].evidence # None
    BY <1>1, <1>2, <2>2 DEF Ready, Same, Signing
  <2>5. \A item \in new.todo : tx[item[2]].status # "unused" /\ tx[item[2]].run = item[1]
    BY <1>1, <1>2 DEF Ready, Same
  <2>6. new.pc = "save" => Anchored(new.run) = new.evidence
    BY <1>1 DEF Same
  <2>7. QED
    BY <2>1, <2>3, <2>4, <2>5, <2>6 DEF Ready
<1>4. new.pc \in Signing => worker[w].pc \in Signing /\ new.tx = worker[w].tx
  BY <1>1 DEF Signing
<1>5. leader' \in Proc \cup {None}
  BY Hand
<1>6. QED
  BY <1>1, <1>3, <1>4, <1>5, QuietStep

\* A worker with no run in hand: it lists, or it does not.
LEMMA HandlessReady ==
    ASSUME Inv, NEW rec \in WorkerRec, rec.pc \notin Busy,
           \A item \in rec.todo : tx[item[2]].status # "unused" /\ tx[item[2]].run = item[1]
    PROVE  Ready(rec) /\ rec.pc \notin Signing
BY DEF Ready, Busy, Signing

LEMMA IdleQuiet ==
    ASSUME Inv, UNCHANGED <<record, tx, recorded>>, faults' \in 0..MaxFaults,
           leader' \in Proc \cup {None},
           NEW w \in Worker, NEW pc \in Pc \ Busy, NEW todo \in SUBSET (Run \X Tx),
           \A item \in todo : tx[item[2]].status # "unused" /\ tx[item[2]].run = item[1],
           Become(w, [Idle EXCEPT !.pc = pc, !.todo = todo])
    PROVE  Inv' /\ Change
<1>1. PICK new : new = [Idle EXCEPT !.pc = pc, !.todo = todo]
  OBVIOUS
<1>2. new \in WorkerRec /\ new.pc = pc /\ new.todo = todo
  BY <1>1 DEF WorkerRec, Idle
<1>3. Step(w, new)
  BY <1>1, <1>2, BecomeStep DEF Inv
<1>4. QED
  BY <1>2, <1>3, HandlessReady, QuietStep

-----------------------------------------------------------------------------
(* One lemma per action: execute.                                          *)

LEMMA BeginStep ==
    ASSUME Inv, NEW p \in Proc, NEW r \in Run, Begin(p, r)
    PROVE  Inv' /\ Change
<1> DEFINE w == <<p, r>>
<1>1. w \in Worker
  BY DEF Worker
<1>2. PICK new : new = [Idle EXCEPT !.pc = "rehearse", !.as = "execute", !.run = r,
                                    !.evidence = <<p, "passport">>]
  OBVIOUS
<1>3. /\ new \in WorkerRec /\ new.pc = "rehearse" /\ new.run = r /\ new.todo = {}
      /\ new.evidence \in Evidence
  BY <1>2 DEF WorkerRec, Idle, Evidence, Pc
<1>4. Step(w, new)
  BY <1>1, <1>2, <1>3, BecomeStep DEF Inv, Begin
<1>5. Ready(new) /\ new.pc \notin Signing
  BY <1>3 DEF Ready, Signing
<1>6. leader' \in Proc \cup {None} /\ faults' \in 0..MaxFaults
  BY DEF Begin, Inv, TypeOK
<1> HIDE DEF w
<1>7. QED
  BY <1>1, <1>3, <1>4, <1>5, <1>6, QuietStep DEF Begin

LEMMA RehearsedStep ==
    ASSUME Inv, NEW w \in Worker, Rehearsed(w)
    PROVE  Inv' /\ Change
<1>1. worker[w].pc \in Busy /\ worker[w].pc \notin Signing
  BY DEF Rehearsed, Busy, Signing
<1>2. worker[w].run \in Run /\ leader' \in Proc \cup {None} /\ faults' \in 0..MaxFaults
  BY <1>1, Hand DEF Rehearsed
<1>3. Books
  BY <1>2, AdvancedBooks DEF Rehearsed
<1>4. PICK new \in WorkerRec : Step(w, new) /\ Same(w, new) /\ new.pc = "publish"
  BY GotoStep DEF Rehearsed, Pc
<1>5. Ready(new) /\ new.pc \notin Signing
  BY <1>1, <1>4, Hand DEF Ready, Same, Signing
<1>6. Ready(new)'
  BY <1>3, <1>5, BooksStable, ReadyStays
<1>7. QED
  BY <1>2, <1>3, <1>4, <1>5, <1>6, BooksStep

LEMMA RehearsalThrowsStep ==
    ASSUME Inv, NEW w \in Worker, RehearsalThrows(w)
    PROVE  Inv' /\ Change
BY Hand, GotoQuiet DEF RehearsalThrows, Busy, Signing

\* The catch block ends, with its write or without.
LEMMA RethrowBooks ==
    ASSUME Inv, Books, NEW w \in Worker, Rethrow(w), faults' \in 0..MaxFaults
    PROVE  Inv' /\ Change
<1>1. Step(w, Over) /\ leader' \in Proc \cup {None}
  BY RethrowStep DEF Inv
<1>2. PICK new \in WorkerRec : new = Over
  BY Stopped
<1>3. Ready(new)'
  BY <1>2, StoppedReady DEF Ready
<1>4. new.pc \notin Signing
  BY <1>2, Stopped DEF Signing
<1>5. QED
  BY <1>1, <1>2, <1>3, <1>4, BooksStep

LEMMA MarkFailedStep ==
    ASSUME Inv, NEW w \in Worker, MarkFailed(w)
    PROVE  Inv' /\ Change
<1>1. worker[w].pc \in Busy
  BY DEF MarkFailed, Busy
<1>2. worker[w].run \in Run /\ faults' \in 0..MaxFaults
  BY <1>1, Hand DEF MarkFailed
<1>3. Books
  BY <1>2, AdvancedBooks DEF MarkFailed
<1>4. CASE Rethrow(w)
  BY <1>2, <1>3, <1>4, RethrowBooks
<1>5. CASE /\ Become(w, [worker[w] EXCEPT !.pc = "publish", !.as = "publishNotRehearsable",
                                          !.evidence = <<Home(w), "not-rehearsable">>])
           /\ UNCHANGED leader
  <2>1. PICK new : new = [worker[w] EXCEPT !.pc = "publish", !.as = "publishNotRehearsable",
                                           !.evidence = <<Home(w), "not-rehearsable">>]
    OBVIOUS
  <2>2. <<Home(w), "not-rehearsable">> \in Evidence
    BY WorkerHome DEF Evidence
  <2>3. /\ new \in WorkerRec /\ new.pc = "publish" /\ new.run = worker[w].run
        /\ new.evidence \in Evidence /\ new.todo = worker[w].todo
    BY <2>1, <2>2, Hand DEF WorkerRec, Pc
  <2>4. Step(w, new)
    BY <1>5, <2>1, <2>3, BecomeStep DEF Inv
  <2>5. Ready(new) /\ new.pc \notin Signing
    BY <1>2, <2>3, Hand DEF Ready, Signing
  <2>6. Ready(new)'
    BY <1>3, <2>3, <2>5, BooksStable, ReadyStays
  <2>7. leader' \in Proc \cup {None}
    BY <1>5, Hand
  <2>8. QED
    BY <1>2, <1>3, <2>3, <2>4, <2>5, <2>6, <2>7, BooksStep
<1>6. QED
  BY <1>4, <1>5 DEF MarkFailed

LEMMA MarkUnknownStep ==
    ASSUME Inv, NEW w \in Worker, MarkUnknown(w)
    PROVE  Inv' /\ Change
<1>1. worker[w].pc \in Busy
  BY DEF MarkUnknown, Busy
<1>2. worker[w].run \in Run /\ faults' \in 0..MaxFaults
  BY <1>1, Hand DEF MarkUnknown
<1>3. Books
  BY <1>2, AdvancedBooks DEF MarkUnknown
<1>4. QED
  BY <1>2, <1>3, RethrowBooks DEF MarkUnknown

LEMMA MarkFailsStep ==
    ASSUME Inv, NEW w \in Worker, MarkFails(w)
    PROVE  Inv' /\ Change
<1>1. faults' \in 0..MaxFaults
  BY FaultType DEF MarkFails, Inv
<1>2. QED
  BY <1>1, QuietBooks, RethrowBooks DEF MarkFails

-----------------------------------------------------------------------------
(* publish                                                                 *)

LEMMA PublishStep ==
    ASSUME Inv, NEW w \in Worker, Publish(w)
    PROVE  Inv' /\ Change
<1>1. worker[w].pc \in Busy /\ faults' \in 0..MaxFaults
  BY Hand DEF Publish, Busy
<1>2. CASE Goto(w, "sign") /\ UNCHANGED leader
  BY <1>1, <1>2, GotoQuiet DEF Publish, Busy, Signing
<1>3. CASE Throw(w)
  BY <1>1, <1>3, ThrowQuiet DEF Publish
<1>4. QED
  BY <1>2, <1>3 DEF Publish

LEMMA LoadPublishedStep ==
    ASSUME Inv, NEW w \in Worker, LoadPublished(w)
    PROVE  Inv' /\ Change
<1>1. worker[w].pc \in Busy /\ faults' \in 0..MaxFaults
  BY Hand DEF LoadPublished, Busy
<1>2. CASE Anchored(worker[w].run) = worker[w].evidence /\ Goto(w, "save") /\ UNCHANGED leader
  BY <1>1, <1>2, GotoQuiet DEF LoadPublished, Busy, Signing
<1>3. CASE Throw(w)
  BY <1>1, <1>3, ThrowQuiet DEF LoadPublished
<1>4. QED
  BY <1>2, <1>3 DEF LoadPublished

\* A transaction changes without being accepted by the registry: what was
\* signed stays what it is, and it is only sent once it has been recorded.
LEMMA UnminedStable ==
    ASSUME Inv, NEW t \in Tx, NEW n \in TxRec, tx' = [tx EXCEPT ![t] = n],
           UNCHANGED <<record, recorded>>,
           n.status \in {"signed", "sent", "reverted"}, n.run \in Run, n.evidence \in Evidence,
           tx[t].status # "success",
           tx[t].status # "unused" => n.run = tx[t].run /\ n.evidence = tx[t].evidence,
           n.status # "signed" => t \in recorded \/ record[n.run].evidence # None
    PROVE  /\ Stable /\ TxInv' /\ RecordInv' /\ SentIsRecorded' /\ Change
           /\ tx' \in [Tx -> TxRec] /\ tx'[t] = n /\ \A u \in Tx \ {t} : tx'[u] = tx[u]
<1>1. tx' \in [Tx -> TxRec] /\ tx'[t] = n /\ \A u \in Tx \ {t} : tx'[u] = tx[u]
  BY DEF Inv, TypeOK
<1>2. TxInv'
  BY <1>1 DEF Inv, TxInv
<1>3. \A r : Anchored(r)' = Anchored(r)
  <2>1. \A u \in Tx : (Mined(u)' <=> Mined(u)) /\ (Mined(u) => tx'[u] = tx[u])
    BY <1>1 DEF Mined
  <2>2. QED
    BY <1>2, <2>1, AnchoredStays DEF Inv
<1>4. Stable
  BY <1>1, <1>3 DEF Stable
<1>5. RecordInv'
  <2>1. \A r \in Run : record[r].publication \in Tx \cup {None}
    BY DEF Inv, TypeOK, Record
  <2>2. QED
    BY <1>1, <2>1 DEF Inv, RecordInv
<1>6. SentIsRecorded'
  BY <1>1 DEF Inv, SentIsRecorded
<1>7. Change
  BY <1>3 DEF Change, Registered, Kept
<1>8. QED
  BY <1>1, <1>2, <1>4, <1>5, <1>6, <1>7

LEMMA SignStep ==
    ASSUME Inv, NEW w \in Worker, Sign(w)
    PROVE  Inv' /\ Change
<1>1. PICK t \in Tx :
        /\ tx[t].status = "unused"
        /\ tx' = [tx EXCEPT ![t] = [status |-> "signed", run |-> worker[w].run,
                                    evidence |-> worker[w].evidence]]
        /\ Become(w, [worker[w] EXCEPT !.pc = "persist", !.tx = t])
  BY DEF Sign
<1>2. worker[w].run \in Run /\ worker[w].evidence \in Evidence
  BY Hand DEF Sign, Busy
<1>3. PICK n : n = [status |-> "signed", run |-> worker[w].run, evidence |-> worker[w].evidence]
  OBVIOUS
<1>4. /\ n \in TxRec /\ n.status = "signed" /\ n.run \in Run /\ n.evidence \in Evidence
      /\ n.run = worker[w].run /\ n.evidence = worker[w].evidence
  BY <1>2, <1>3 DEF TxRec
<1>5. /\ Stable /\ TxInv' /\ RecordInv' /\ SentIsRecorded' /\ Change
      /\ tx' \in [Tx -> TxRec] /\ tx'[t] = n /\ \A u \in Tx \ {t} : tx'[u] = tx[u]
  BY <1>1, <1>3, <1>4, UnminedStable DEF Sign
<1>6. PICK new : new = [worker[w] EXCEPT !.pc = "persist", !.tx = t]
  OBVIOUS
<1>7. /\ new \in WorkerRec /\ new.pc = "persist" /\ new.tx = t /\ new.run = worker[w].run
      /\ new.evidence = worker[w].evidence /\ new.todo = worker[w].todo
  BY <1>6, Hand DEF WorkerRec, Pc
<1>8. Step(w, new)
  BY <1>1, <1>6, <1>7, BecomeStep DEF Inv
<1>9. \A v \in Worker : worker[v].pc \in Signing => worker[v].tx \in Tx \ {t}
  <2> SUFFICES ASSUME NEW v \in Worker, worker[v].pc \in Signing
               PROVE  worker[v].tx \in Tx \ {t}
    OBVIOUS
  <2>1. Ready(worker[v])
    BY Hand
  <2>2. worker[v].tx \in Tx /\ tx[worker[v].tx].status = "signed"
    BY <2>1 DEF Ready
  <2>3. QED
    BY <1>1, <2>2
<1>10. Ready(new)'
  <2>1. \A item \in new.todo : tx'[item[2]].status # "unused" /\ tx'[item[2]].run = item[1]
    <3>1. worker[w].todo \subseteq Run \X Tx
      BY Hand DEF WorkerRec
    <3>2. \A item \in worker[w].todo : tx[item[2]].status # "unused" /\ tx[item[2]].run = item[1]
      BY Hand DEF Ready
    <3>3. QED
      BY <1>5, <1>7, <3>1, <3>2 DEF Stable
  <2>2. QED
    BY <1>2, <1>3, <1>5, <1>7, <2>1 DEF Ready, Busy, Signing
<1>11. WorkersInv' /\ OwnTx'
  BY <1>5, <1>7, <1>8, <1>9, <1>10, WorkersStep
<1>12. faults' \in 0..MaxFaults
  BY FaultType DEF Sign, Absent, Inv
<1>13. TypeOK'
  BY <1>5, <1>8, <1>12 DEF Sign, Inv, TypeOK, Step
<1>14. QED
  BY <1>5, <1>11, <1>13 DEF Inv

LEMMA SignFailsStep ==
    ASSUME Inv, NEW w \in Worker, SignFails(w)
    PROVE  Inv' /\ Change
<1>1. worker[w].pc \in Busy /\ faults' \in 0..MaxFaults
  BY FaultType DEF SignFails, Absent, Busy, Inv
<1>2. QED
  BY <1>1, ThrowQuiet DEF SignFails

\* The run w has in hand gets the transaction w signed as its candidate.
LEMMA CandidateBooks ==
    ASSUME Inv, NEW w \in Worker, RecordCandidate(w)
    PROVE  /\ Books
           /\ worker[w].tx \in recorded' \/ record'[worker[w].run].evidence # None
<1> DEFINE r == worker[w].run
           t == worker[w].tx
           b == [record[r] EXCEPT !.state = "publishing", !.publication = t]
<1>1. /\ r \in Run /\ t \in Tx
      /\ tx[t] = [status |-> "signed", run |-> r, evidence |-> worker[w].evidence]
  BY Hand DEF RecordCandidate, Busy, Signing, Ready
<1>2. /\ record' \in [Run -> Record]
      /\ \A q \in Run : record'[q].evidence = record[q].evidence
      /\ \A q \in Run : record'[q].publication = record[q].publication
                        \/ (q = r /\ record'[q].publication = t)
  <2>1. CASE record[r].evidence # None
    BY <2>1 DEF RecordCandidate, Attempted, Inv, TypeOK
  <2>2. CASE record[r].evidence = None
    <3>1. record[r] \in Record
      BY <1>1 DEF Inv, TypeOK
    <3>2. b \in Record /\ b.publication = t /\ b.evidence = record[r].evidence
      BY <1>1, <3>1 DEF Record
    <3>3. record' = [record EXCEPT ![r] = b]
      BY <2>2, <1>1 DEF RecordCandidate, Attempted, Inv, TypeOK, Record
    <3> HIDE DEF b
    <3>4. QED
      BY <1>1, <3>2, <3>3 DEF Inv, TypeOK
  <2>3. QED
    BY <2>1, <2>2
<1>3. /\ recorded' \in SUBSET Tx /\ recorded \subseteq recorded'
      /\ t \in recorded' \/ record[r].evidence # None
  BY <1>1 DEF RecordCandidate, Inv, TypeOK
<1> HIDE DEF r, t, b
<1>4. Books
  BY <1>1, <1>2, <1>3 DEF RecordCandidate, Books, Kept
<1>5. t \in recorded' \/ record'[r].evidence # None
  BY <1>1, <1>2, <1>3
<1>6. QED
  BY <1>4, <1>5 DEF r, t

LEMMA PersistStep ==
    ASSUME Inv, NEW w \in Worker, Persist(w)
    PROVE  Inv' /\ Change
<1>1. /\ Ready(worker[w]) /\ worker[w].pc = "persist" /\ UNCHANGED tx
      /\ leader' \in Proc \cup {None} /\ faults' \in 0..MaxFaults
  BY Hand DEF Persist, RecordCandidate
<1>2. PICK new \in WorkerRec :
        Step(w, new) /\ Same(w, new) /\ new.pc = "assert" /\ new.tx = worker[w].tx
  BY GotoStep DEF Persist, Pc
<1>3. Books /\ (worker[w].tx \in recorded' \/ record'[worker[w].run].evidence # None)
  BY CandidateBooks DEF Persist
<1>4. Ready(new)'
  BY <1>1, <1>2, <1>3 DEF Ready, Same, Busy, Signing
<1>5. worker[w].pc \in Signing
  BY <1>1 DEF Signing
<1>6. QED
  BY <1>1, <1>2, <1>3, <1>4, <1>5, BooksStep

LEMMA PersistThrowsStep ==
    ASSUME Inv, NEW w \in Worker, PersistThrows(w)
    PROVE  Inv' /\ Change
<1>1. worker[w].pc \in Busy /\ faults' \in 0..MaxFaults
  BY FaultType DEF PersistThrows, Busy, Inv
<1>2. QED
  BY <1>1, ThrowQuiet DEF PersistThrows

\* A worker that throws after its write, whatever it wrote.
LEMMA FallenBooks ==
    ASSUME Inv, Books, faults' \in 0..MaxFaults,
           NEW w \in Worker, worker[w].pc \in Busy, NEW new \in WorkerRec, Fallen(w, new)
    PROVE  Inv' /\ Change
<1>1. Ready(new) /\ new.pc \notin Signing /\ Step(w, new) /\ leader' \in Proc \cup {None}
  BY Hand DEF Fallen
<1>2. Ready(new)'
  BY <1>1, BooksStable, ReadyStays
<1>3. QED
  BY <1>1, <1>2, BooksStep

LEMMA PersistReplyLostStep ==
    ASSUME Inv, NEW w \in Worker, PersistReplyLost(w)
    PROVE  Inv' /\ Change
<1>1. worker[w].pc \in Busy /\ faults' \in 0..MaxFaults
  BY FaultType DEF PersistReplyLost, RecordCandidate, Busy, Inv
<1>2. \E new \in WorkerRec : Fallen(w, new)
  BY ThrowStep DEF PersistReplyLost, Inv
<1>3. QED
  BY <1>1, <1>2, CandidateBooks, FallenBooks DEF PersistReplyLost

LEMMA AssertBroadcastStep ==
    ASSUME Inv, NEW w \in Worker, AssertBroadcast(w)
    PROVE  Inv' /\ Change
<1>1. worker[w].pc \in Busy /\ faults' \in 0..MaxFaults
  BY Hand DEF AssertBroadcast, Busy
<1>2. CASE Goto(w, "send") /\ UNCHANGED leader
  BY <1>1, <1>2, GotoQuiet DEF AssertBroadcast, Busy, Signing
<1>3. CASE Throw(w)
  BY <1>1, <1>3, ThrowQuiet DEF AssertBroadcast
<1>4. QED
  BY <1>2, <1>3 DEF AssertBroadcast

\* The transaction is on its way, and its worker waits for it or gives it up.
LEMMA SendStep ==
    ASSUME Inv, NEW w \in Worker, Send(w)
    PROVE  Inv' /\ Change
<1> DEFINE t == worker[w].tx
<1>1. /\ t \in Tx /\ Ready(worker[w]) /\ worker[w].pc \in Signing /\ worker[w].pc \in Busy
      /\ worker[w].run \in Run /\ worker[w].evidence \in Evidence
      /\ faults' \in 0..MaxFaults
  BY Hand DEF Send, Busy, Signing
<1>2. /\ tx[t] = [status |-> "signed", run |-> worker[w].run, evidence |-> worker[w].evidence]
      /\ t \in recorded \/ record[worker[w].run].evidence # None
      /\ tx[t].status = "signed" /\ tx[t].run = worker[w].run /\ tx[t].evidence = worker[w].evidence
  BY <1>1 DEF Ready, Send
<1>3. PICK n : n = [tx[t] EXCEPT !.status = "sent"]
  OBVIOUS
<1>4. /\ n \in TxRec /\ n.status = "sent" /\ n.run = worker[w].run /\ n.evidence = worker[w].evidence
      /\ tx' = [tx EXCEPT ![t] = n]
  BY <1>1, <1>2, <1>3 DEF Send, TxRec, Inv, TypeOK
<1> HIDE DEF t
<1>5. /\ Stable /\ TxInv' /\ RecordInv' /\ SentIsRecorded' /\ Change
      /\ tx' \in [Tx -> TxRec] /\ \A u \in Tx \ {t} : tx'[u] = tx[u]
  <2>1. UNCHANGED <<record, recorded>>
    BY DEF Send
  <2>2. n.status \in {"signed", "sent", "reverted"} /\ tx[t].status # "success" /\ n.run \in Run
        /\ n.evidence \in Evidence /\ (t \in recorded \/ record[n.run].evidence # None)
    BY <1>1, <1>2, <1>4
  <2>3. tx[t].status # "unused" => n.run = tx[t].run /\ n.evidence = tx[t].evidence
    BY <1>2, <1>4
  <2>4. QED
    BY <1>1, <1>4, <2>1, <2>2, <2>3, UnminedStable
<1>6. /\ leader' \in Proc \cup {None}
      /\ \E new \in WorkerRec : /\ Step(w, new) /\ Ready(new) /\ new.pc \notin Signing
                                /\ worker'[w].pc \notin Signing
  <2>1. CASE Goto(w, "wait") /\ UNCHANGED leader
    <3>1. PICK new \in WorkerRec :
            Step(w, new) /\ Same(w, new) /\ new.pc = "wait" /\ new.tx = worker[w].tx
      BY <2>1, GotoStep DEF Pc
    <3>2. Ready(new)
      BY <1>1, <3>1 DEF Ready, Same, Signing
    <3>3. new.pc \notin Signing
      BY <3>1 DEF Signing
    <3>4. worker'[w].pc \notin Signing
      BY <3>1, Stopped DEF Step, Signing
    <3>5. QED
      BY <2>1, <3>1, <3>2, <3>3, <3>4, Hand
  <2>2. CASE ThrowUnknown(w)
    <3>1. PICK new \in WorkerRec : Fallen(w, new)
      BY <2>2, ThrowUnknownStep DEF Inv
    <3>2. worker'[w].pc \notin Signing
      BY <3>1, Stopped DEF Fallen, Step, Signing
    <3>3. QED
      BY <1>1, <3>1, <3>2 DEF Fallen
  <2>3. QED
    BY <2>1, <2>2 DEF Send
<1>7. PICK new \in WorkerRec : Step(w, new) /\ Ready(new) /\ new.pc \notin Signing
  BY <1>6
<1>8. Ready(new)'
  BY <1>5, <1>7, ReadyStays
<1>9. \A v \in Worker : worker'[v] = worker[v] /\ worker[v].pc \in Signing => tx'[worker[v].tx] = tx[worker[v].tx]
  <2> SUFFICES ASSUME NEW v \in Worker, worker'[v] = worker[v], worker[v].pc \in Signing
               PROVE  tx'[worker[v].tx] = tx[worker[v].tx]
    OBVIOUS
  <2>1. v # w
    BY <1>6
  <2>2. worker[v].tx \in Tx \ {t}
    BY <1>1, <2>1, Hand DEF Inv, OwnTx, t
  <2>3. QED
    BY <1>5, <2>2
<1>10. WorkersInv' /\ OwnTx'
  BY <1>5, <1>7, <1>8, <1>9, WorkersStep
<1>11. TypeOK'
  BY <1>1, <1>5, <1>6 DEF Send, Inv, TypeOK, Step
<1>12. QED
  BY <1>5, <1>10, <1>11 DEF Inv

LEMMA SendFailsStep ==
    ASSUME Inv, NEW w \in Worker, SendFails(w)
    PROVE  Inv' /\ Change
BY Hand, ThrowQuiet DEF SendFails, Busy

LEMMA ConfirmedStep ==
    ASSUME Inv, NEW w \in Worker, Confirmed(w)
    PROVE  Inv' /\ Change
<1>1. /\ worker[w].run \in Run /\ worker[w].evidence \in Evidence /\ Ready(worker[w])
      /\ leader' \in Proc \cup {None} /\ faults' \in 0..MaxFaults
  BY Hand DEF Confirmed, Busy
<1>2. PICK new : new = [worker[w] EXCEPT !.pc = "save", !.tx = None]
  OBVIOUS
<1>3. new \in WorkerRec /\ Same(w, new) /\ new.pc = "save"
  BY <1>2, Hand DEF WorkerRec, Pc, Same
<1>4. Step(w, new)
  BY <1>2, <1>3, BecomeStep DEF Confirmed, Leave, Inv
<1>5. Ready(new)
  BY <1>1, <1>3 DEF Ready, Same, Signing, Confirmed
<1>6. QED
  BY <1>1, <1>3, <1>4, <1>5, QuietStep DEF Confirmed, Signing

LEMMA RevertedStep ==
    ASSUME Inv, NEW w \in Worker, Reverted(w)
    PROVE  Inv' /\ Change
BY Hand, ThrowQuiet DEF Reverted, Busy

LEMMA WaitTimesOutStep ==
    ASSUME Inv, NEW w \in Worker, WaitTimesOut(w)
    PROVE  Inv' /\ Change
BY Hand, ThrowQuiet DEF WaitTimesOut, Busy

-----------------------------------------------------------------------------
(* saveRun                                                                 *)

LEMMA SaveStep ==
    ASSUME Inv, NEW w \in Worker, Save(w)
    PROVE  Inv' /\ Change
<1>1. /\ worker[w].run \in Run /\ worker[w].evidence \in Evidence /\ worker[w].pc \in Busy
      /\ leader \in Proc \cup {None} /\ faults' \in 0..MaxFaults
  BY Hand DEF Save, Busy
<1>2. Anchored(worker[w].run) = worker[w].evidence /\ Anchored(worker[w].run) # None
  BY <1>1, Hand, NoneAssumption DEF Save, Ready, Evidence
<1>3. Books
  BY <1>1, <1>2, SavedBooks DEF Save
<1>4. \E new \in WorkerRec : Fallen(w, new)
  <2>1. CASE Become(w, Over) /\ UNCHANGED leader
    BY <1>1, <2>1, BecomeStep, Stopped, StopStep DEF Inv
  <2>2. CASE Rethrow(w)
    BY <2>2, RethrowStep, StopStep DEF Inv
  <2>3. CASE NextItem(w) /\ UNCHANGED leader
    BY <2>3, NextItemStep DEF Inv
  <2>4. QED
    BY <2>1, <2>2, <2>3, Hand DEF Save, WorkerRec
<1>5. QED
  BY <1>1, <1>3, <1>4, FallenBooks

LEMMA SaveThrowsStep ==
    ASSUME Inv, NEW w \in Worker, SaveThrows(w)
    PROVE  Inv' /\ Change
<1>1. worker[w].pc \in Busy /\ faults' \in 0..MaxFaults
  BY FaultType DEF SaveThrows, Busy, Inv
<1>2. QED
  BY <1>1, ThrowQuiet DEF SaveThrows

LEMMA SavedThenThrowsStep ==
    ASSUME Inv, NEW w \in Worker, SavedThenThrows(w)
    PROVE  Inv' /\ Change
<1>1. /\ worker[w].run \in Run /\ worker[w].evidence \in Evidence /\ worker[w].pc \in Busy
      /\ faults' \in 0..MaxFaults
  BY Hand, FaultType DEF SavedThenThrows, Busy, Inv
<1>2. Anchored(worker[w].run) = worker[w].evidence /\ Anchored(worker[w].run) # None
  BY <1>1, Hand, NoneAssumption DEF SavedThenThrows, Ready, Evidence
<1>3. Books
  BY <1>1, <1>2, SavedBooks DEF SavedThenThrows
<1>4. \E new \in WorkerRec : Fallen(w, new)
  BY ThrowStep DEF SavedThenThrows, Inv
<1>5. QED
  BY <1>1, <1>3, <1>4, FallenBooks

\* rebuildIndex saves what it reads, and its worker stays where it is.
LEMMA IndexStep ==
    ASSUME Inv, NEW w \in Worker, NEW r \in Run, Index(w, r)
    PROVE  Inv' /\ Change
<1>1. Books
  BY SavedBooks DEF Index
<1>2. PICK new : new = worker[w]
  OBVIOUS
<1>3. new \in WorkerRec /\ Ready(new) /\ new.pc \notin Signing /\ Step(w, new)
  BY <1>2, Hand DEF Index, Signing, Step, Inv, TypeOK
<1>4. Ready(new)'
  BY <1>1, <1>3, BooksStable, ReadyStays
<1>5. QED
  BY <1>1, <1>3, <1>4, Hand, BooksStep DEF Index

-----------------------------------------------------------------------------
(* reconcilePendingPublications                                            *)

LEMMA TimerOrStartup ==
    ASSUME NEW p \in Proc
    PROVE  <<p, "timer">> \in Worker /\ <<p, "startup">> \in Worker
BY DEF Worker

\* A worker turns to something that needs no run.
LEMMA TurnQuiet ==
    ASSUME Inv, UNCHANGED <<record, tx, recorded>>, leader' \in Proc \cup {None},
           faults' \in 0..MaxFaults,
           NEW w \in Worker, NEW pc \in Pc \ Busy, Become(w, [Idle EXCEPT !.pc = pc])
    PROVE  Inv' /\ Change
<1>1. PICK new : new = [Idle EXCEPT !.pc = pc]
  OBVIOUS
<1>2. new \in WorkerRec /\ new.pc = pc /\ new.todo = {}
  BY <1>1 DEF WorkerRec, Idle
<1>3. Step(w, new)
  BY <1>1, <1>2, BecomeStep DEF Inv
<1>4. QED
  BY <1>2, <1>3, HandlessReady, QuietStep

LEMMA StopQuiet ==
    ASSUME Inv, UNCHANGED <<record, tx, recorded, leader, faults>>,
           NEW w \in Worker, Become(w, Idle)
    PROVE  Inv' /\ Change
<1>1. Idle = [Idle EXCEPT !.pc = "idle"]
  BY DEF Idle
<1>2. Become(w, [Idle EXCEPT !.pc = "idle"])
  BY <1>1 DEF Become
<1>3. QED
  BY <1>2, Hand, TurnQuiet DEF Pc, Busy

LEMMA ResumeQuiet ==
    ASSUME Inv, UNCHANGED <<record, tx, recorded, leader, faults>>, NEW w \in Worker, Resume(w)
    PROVE  Inv' /\ Change
<1>1. CASE Become(w, [Idle EXCEPT !.pc = "recover"])
  BY <1>1, Hand, TurnQuiet DEF Pc, Busy
<1>2. CASE Become(w, Idle)
  BY <1>2, StopQuiet
<1>3. QED
  BY <1>1, <1>2 DEF Resume

LEMMA ListPendingStep ==
    ASSUME Inv, NEW w \in Worker, ListPending(w)
    PROVE  Inv' /\ Change
<1>1. \A r \in Run : record[r].publication \in Tx \cup {None}
  BY DEF Inv, TypeOK, Record
<1>2. Pending \subseteq Run \X Tx
  BY <1>1 DEF Pending
<1>3. \A item \in Pending : tx[item[2]].status # "unused" /\ tx[item[2]].run = item[1]
  BY DEF Pending, Inv, RecordInv
<1>4. leader' \in Proc \cup {None} /\ faults' \in 0..MaxFaults
  BY Hand DEF ListPending
<1>5. QED
  BY <1>2, <1>3, <1>4, IdleQuiet DEF ListPending, Pc, Busy

LEMMA IndexEndsStep ==
    ASSUME Inv, NEW w \in Worker, IndexEnds(w)
    PROVE  Inv' /\ Change
BY ResumeQuiet DEF IndexEnds

LEMMA RecoveryEndsStep ==
    ASSUME Inv, NEW w \in Worker, RecoveryEnds(w)
    PROVE  Inv' /\ Change
BY StopQuiet DEF RecoveryEnds

\* The item goes on as the run in hand, with the evidence of its candidate.
LEMMA TakeQuiet ==
    ASSUME Inv, UNCHANGED <<record, tx, recorded, leader, faults>>,
           NEW w \in Worker, NEW item \in worker[w].todo, NEW pc \in {"save", "publish"},
           pc = "save" => Mined(item[2]), Take(w, item, pc)
    PROVE  Inv' /\ Change
<1>1. /\ item \in Run \X Tx /\ worker[w].todo \subseteq Run \X Tx /\ Ready(worker[w])
      /\ leader' \in Proc \cup {None} /\ faults' \in 0..MaxFaults
  BY Hand DEF WorkerRec
<1>2. tx[item[2]].status # "unused" /\ tx[item[2]].run = item[1]
  BY <1>1 DEF Ready
<1>3. item[1] \in Run /\ tx[item[2]].evidence \in Evidence
  BY <1>1, <1>2 DEF Inv, TxInv
<1>4. pc = "save" => Anchored(item[1]) = tx[item[2]].evidence
  BY <1>1, <1>2, AnchoredByTx DEF Inv
<1>5. PICK new : new = [worker[w] EXCEPT !.pc = pc, !.run = item[1],
                                         !.evidence = tx[item[2]].evidence, !.todo = @ \ {item}]
  OBVIOUS
<1>6. /\ new \in WorkerRec /\ new.pc = pc /\ new.run = item[1]
      /\ new.evidence = tx[item[2]].evidence /\ new.todo \subseteq worker[w].todo
  BY <1>1, <1>3, <1>5, Hand DEF WorkerRec, Pc
<1>7. Step(w, new)
  BY <1>5, <1>6, BecomeStep DEF Take, Inv
<1>8. Ready(new) /\ new.pc \notin Signing
  BY <1>1, <1>3, <1>4, <1>6 DEF Ready, Signing
<1>9. QED
  BY <1>1, <1>6, <1>7, <1>8, QuietStep

LEMMA PassFindsStep ==
    ASSUME Inv, NEW w \in Worker, PassFinds(w)
    PROVE  Inv' /\ Change
BY TakeQuiet DEF PassFinds, Mined

LEMMA PassRepublishesStep ==
    ASSUME Inv, NEW w \in Worker, PassRepublishes(w)
    PROVE  Inv' /\ Change
BY TakeQuiet DEF PassRepublishes

LEMMA PassSkipsStep ==
    ASSUME Inv, NEW w \in Worker, PassSkips(w)
    PROVE  Inv' /\ Change
<1>1. PICK item \in worker[w].todo :
        Become(w, [Idle EXCEPT !.pc = "list", !.todo = worker[w].todo \ {item}])
  BY DEF PassSkips
<1>2. worker[w].todo \ {item} \in SUBSET (Run \X Tx)
  BY Hand DEF WorkerRec
<1>3. \A i \in worker[w].todo \ {item} : tx[i[2]].status # "unused" /\ tx[i[2]].run = i[1]
  BY Hand DEF Ready
<1>4. leader' \in Proc \cup {None} /\ faults' \in 0..MaxFaults
  BY Hand DEF PassSkips
<1>5. PICK todo \in SUBSET (Run \X Tx) : todo = worker[w].todo \ {item}
  BY <1>2
<1>6. QED
  BY <1>1, <1>3, <1>4, <1>5, IdleQuiet DEF PassSkips, Pc, Busy

LEMMA PassEndsStep ==
    ASSUME Inv, NEW w \in Worker, PassEnds(w)
    PROVE  Inv' /\ Change
BY ResumeQuiet DEF PassEnds

-----------------------------------------------------------------------------
(* Processes and the chain                                                 *)

LEMMA ElectedStep ==
    ASSUME Inv, NEW p \in Proc, Elected(p)
    PROVE  Inv' /\ Change
<1>1. leader' \in Proc \cup {None} /\ faults' \in 0..MaxFaults
  BY DEF Elected, Inv, TypeOK
<1>2. <<p, "startup">> \in Worker
  BY TimerOrStartup
<1>3. QED
  BY <1>1, <1>2, TurnQuiet DEF Elected, Pc, Busy

\* Workers stop, or nothing happens to them.
LEMMA HaltQuiet ==
    ASSUME Inv, UNCHANGED <<record, tx, recorded>>, leader' \in Proc \cup {None},
           faults' \in 0..MaxFaults, NEW w \in Worker, worker' \in [Worker -> WorkerRec],
           \A v \in Worker : worker'[v] \in {worker[v], Over}
    PROVE  Inv' /\ Change
<1>1. PICK new : new = worker[w]
  OBVIOUS
<1>2. new \in WorkerRec /\ Ready(new) /\ Step(w, new)
  BY <1>1, Hand DEF Step
<1>3. new.pc \in Signing => worker[w].pc \in Signing /\ new.tx = worker[w].tx
  BY <1>1
<1>4. QED
  BY <1>2, <1>3, QuietStep

LEMMA DeposedStep ==
    ASSUME Inv, Deposed
    PROVE  Inv' /\ Change
<1>1. leader \in Proc /\ faults' \in 0..MaxFaults
  BY FaultType DEF Deposed, Inv, TypeOK
<1>2. <<leader, "timer">> \in Worker
  BY <1>1, TimerOrStartup
<1>3. PICK w \in Worker : w = <<leader, "timer">>
  BY <1>2
<1>4. worker' = worker /\ worker \in [Worker -> WorkerRec]
  BY DEF Deposed, Inv, TypeOK
<1>5. QED
  BY <1>1, <1>4, HaltQuiet DEF Deposed

LEMMA CrashStep ==
    ASSUME Inv, NEW p \in Proc, Crash(p)
    PROVE  Inv' /\ Change
<1>1. faults' \in 0..MaxFaults /\ leader' \in Proc \cup {None}
  BY FaultType DEF Crash, Inv, TypeOK
<1>2. worker' \in [Worker -> WorkerRec] /\ \A v \in Worker : worker'[v] \in {worker[v], Over}
  BY Stopped DEF Crash, Inv, TypeOK
<1>3. <<p, "timer">> \in Worker
  BY TimerOrStartup
<1>4. QED
  BY <1>1, <1>2, <1>3, HaltQuiet DEF Crash

\* The workers do not notice that a sent transaction is mined.
LEMMA MineWorkers ==
    ASSUME Inv, Stable, UNCHANGED worker, NEW t \in Tx, tx[t].status = "sent",
           \A u \in Tx \ {t} : tx'[u] = tx[u]
    PROVE  WorkersInv' /\ OwnTx'
<1>1. ASSUME NEW w \in Worker
      PROVE  Ready(worker[w])'
  <2>1. PICK rec \in WorkerRec : rec = worker[w] /\ rec = worker'[w] /\ Ready(rec)
    BY Hand
  <2>2. rec.pc \in Signing => tx'[rec.tx] = tx[rec.tx]
    BY <2>1 DEF Ready
  <2>3. Ready(rec)'
    BY <2>1, <2>2, ReadyStays
  <2>4. QED
    BY <2>1, <2>3 DEF Ready
<1>2. QED
  BY <1>1 DEF WorkersInv, OwnTx, Inv

LEMMA MineStep ==
    ASSUME Inv, NEW t \in Tx, Mine(t)
    PROVE  Inv' /\ Change
<1>1. /\ tx[t].status = "sent" /\ tx[t] \in TxRec /\ tx[t].run \in Run /\ tx[t].evidence \in Evidence
      /\ t \in recorded \/ record[tx[t].run].evidence # None
  BY DEF Mine, Inv, TypeOK, TxInv, SentIsRecorded
<1>2. CASE tx' = [tx EXCEPT ![t].status = "reverted"]
  <2>1. PICK n : n = [tx[t] EXCEPT !.status = "reverted"]
    OBVIOUS
  <2>2. /\ n \in TxRec /\ n.status = "reverted" /\ n.run = tx[t].run /\ n.evidence = tx[t].evidence
        /\ tx' = [tx EXCEPT ![t] = n]
    BY <1>1, <1>2, <2>1 DEF TxRec
  <2>3. UNCHANGED <<record, recorded>>
    BY DEF Mine
  <2>4. tx[t].status # "success" /\ n.status \in {"signed", "sent", "reverted"}
        /\ n.run \in Run /\ n.evidence \in Evidence
        /\ (t \in recorded \/ record[n.run].evidence # None)
    BY <1>1, <2>2
  <2>5. tx[t].status # "unused" => n.run = tx[t].run /\ n.evidence = tx[t].evidence
    BY <2>2
  <2>6. /\ Stable /\ TxInv' /\ RecordInv' /\ SentIsRecorded' /\ Change
        /\ tx' \in [Tx -> TxRec] /\ \A u \in Tx \ {t} : tx'[u] = tx[u]
    BY <2>2, <2>3, <2>4, <2>5, UnminedStable
  <2>7. WorkersInv' /\ OwnTx'
    BY <1>1, <2>6, MineWorkers DEF Mine
  <2>8. TypeOK'
    BY <2>6 DEF Mine, Inv, TypeOK
  <2>9. QED
    BY <2>6, <2>7, <2>8 DEF Inv
<1>3. CASE Anchored(tx[t].run) = None /\ tx' = [tx EXCEPT ![t].status = "success"]
  <2> DEFINE n == [tx[t] EXCEPT !.status = "success"]
  <2>1. n \in TxRec /\ n.status = "success" /\ n.run = tx[t].run /\ n.evidence = tx[t].evidence
    BY <1>1 DEF TxRec
  <2>2. tx' = [tx EXCEPT ![t] = n]
    BY <1>3
  <2> HIDE DEF n
  <2>3. tx' \in [Tx -> TxRec] /\ tx'[t] = n /\ \A u \in Tx \ {t} : tx'[u] = tx[u]
    BY <2>1, <2>2 DEF Inv, TypeOK
  <2>4. \A u \in Tx : Mined(u) => tx[u].run # tx[t].run /\ u # t
    BY <1>1, <1>3, AnchoredByTx DEF Inv, Mined
  <2>5. TxInv'
    BY <1>1, <2>1, <2>3, <2>4 DEF Inv, TxInv, Mined
  <2>6. TypeOK'
    BY <2>3 DEF Mine, Inv, TypeOK
  <2>7. Anchored(tx[t].run)' = tx[t].evidence
    <3>1. PICK r : r = tx[t].run
      OBVIOUS
    <3>2. PICK u \in Tx : /\ tx'[u].run = r /\ tx'[u].status = "success"
                          /\ Anchored(r)' = tx'[u].evidence
      BY <2>1, <2>3, <3>1 DEF Anchored
    <3>3. u = t
      BY <2>1, <2>3, <2>5, <3>1, <3>2 DEF TxInv
    <3>4. QED
      BY <2>1, <2>3, <3>1, <3>2, <3>3 DEF Anchored
  <2>8. ASSUME NEW q, q # tx[t].run
        PROVE  Anchored(q)' = Anchored(q)
    <3>1. \A u \in Tx : /\ Mined(u)' /\ tx'[u].run = q <=> Mined(u) /\ tx[u].run = q
                        /\ Mined(u) /\ tx[u].run = q => tx'[u] = tx[u]
      BY <1>1, <2>1, <2>3, <2>8 DEF Mined
    <3>2. QED
      BY <2>5, <3>1, AnchoredStaysAt DEF Inv
  <2>9. PICK r \in Run : r = tx[t].run
    BY <1>1
  <2>10. Anchors(r) /\ Kept
    <3>1. Anchored(r)' = tx[t].evidence
      BY <2>1, <2>3, <2>7, <2>9 DEF Anchored
    <3>2. QED
      BY <1>1, <1>3, <2>8, <2>9, <3>1 DEF Anchors, Kept, Mine
  <2>11. Stable
    BY <1>1, <2>1, <2>3, <2>8, <2>9, <2>10 DEF Stable, Mine, Anchors
  <2>12. WorkersInv' /\ OwnTx'
    BY <1>1, <2>3, <2>11, MineWorkers DEF Mine
  <2>13. RecordInv'
    <3>1. \A q \in Run : record[q].publication \in Tx \cup {None}
      BY DEF Inv, TypeOK, Record
    <3>2. QED
      BY <2>11, <3>1 DEF Inv, RecordInv, Mine, Stable
  <2>14. SentIsRecorded'
    BY <1>1, <2>1, <2>3 DEF Inv, SentIsRecorded, Mine
  <2>15. QED
    BY <2>5, <2>6, <2>10, <2>12, <2>13, <2>14 DEF Inv, Change
<1>4. QED
  BY <1>2, <1>3 DEF Mine

-----------------------------------------------------------------------------
(* The invariant, and what it is for.                                      *)

LEMMA InitInv == Init => Inv
<1> SUFFICES ASSUME Init
             PROVE  Inv
  OBVIOUS
<1>1. TypeOK
  BY Stopped, MaxFaultsAssumption DEF Init, TypeOK, Record, TxRec, NoTx
<1>2. \A t \in Tx : tx[t].status = "unused"
  BY DEF Init, NoTx
<1>3. TxInv /\ SentIsRecorded
  BY <1>2 DEF TxInv, SentIsRecorded
<1>4. RecordInv
  BY DEF Init, RecordInv
<1>5. WorkersInv /\ OwnTx
  BY Stopped, StoppedReady DEF Init, WorkersInv, OwnTx, Signing
<1>6. QED
  BY <1>1, <1>3, <1>4, <1>5 DEF Inv

LEMMA NextInv ==
    ASSUME Inv, Next
    PROVE  Inv' /\ Change
<1>1. ASSUME NEW w \in Worker, Execution(w)
      PROVE  Inv' /\ Change
  BY <1>1, RehearsedStep, RehearsalThrowsStep, MarkFailedStep, MarkUnknownStep, MarkFailsStep
     DEF Execution
<1>2. ASSUME NEW w \in Worker, Publishing(w)
      PROVE  Inv' /\ Change
  BY <1>2, PublishStep, LoadPublishedStep, SignStep, SignFailsStep, PersistStep, PersistThrowsStep,
     PersistReplyLostStep, AssertBroadcastStep, SendStep, SendFailsStep, ConfirmedStep, RevertedStep, WaitTimesOutStep,
     SaveStep, SaveThrowsStep, SavedThenThrowsStep
     DEF Publishing
<1>3. ASSUME NEW w \in Worker, Reconciling(w)
      PROVE  Inv' /\ Change
  BY <1>3, ListPendingStep, IndexEndsStep, RecoveryEndsStep, PassFindsStep, PassRepublishesStep,
     PassSkipsStep, PassEndsStep
     DEF Reconciling
<1>4. QED
  BY <1>1, <1>2, <1>3, BeginStep, IndexStep, ElectedStep, CrashStep, DeposedStep, MineStep DEF Next

LEMMA StepInv ==
    ASSUME Inv, [Next]_vars
    PROVE  Inv' /\ Change
<1>1. CASE Next
  BY <1>1, NextInv
<1>2. CASE UNCHANGED vars
  <2>1. Change
    BY <1>2 DEF vars, Change, Registered, Kept, Anchored
  <2>2. Inv'
    BY <1>2 DEF vars, Inv, TypeOK, TxInv, RecordInv, WorkersInv, Ready, Anchored, OwnTx, SentIsRecorded
  <2>3. QED
    BY <2>1, <2>2
<1>3. QED
  BY <1>1, <1>2

LEMMA Invariance == Spec => []Inv
<1>1. Inv /\ [Next]_vars => Inv'
  BY StepInv
<1>2. QED
  BY InitInv, <1>1, PTL DEF Spec

\* Every variable keeps its type.
THEOREM TypeCorrect == Spec => []TypeOK
<1>1. Inv => TypeOK
  BY DEF Inv
<1>2. QED
  BY Invariance, <1>1, PTL

\* Whatever fails and whoever crashes, a transaction that may reach the registry
\* has been recorded as a candidate of its run, unless the run was complete
\* (onPrepared before broadcast, registry.ts:219-224).
THEOREM SentRecorded == Spec => []SentIsRecorded
<1>1. Inv => SentIsRecorded
  BY DEF Inv
<1>2. QED
  BY Invariance, <1>1, PTL

-----------------------------------------------------------------------------
(* Publication implements Anchoring.                                       *)

LEMMA InitRefines == Init => Registry!Init
<1> SUFFICES ASSUME Init
             PROVE  Registry!Init
  OBVIOUS
<1>1. \A r \in Run : Anchored(r) = None
  BY DEF Init, NoTx, Anchored
<1>2. \A r \in Run : record[r].evidence = None
  BY DEF Init
<1>3. QED
  BY <1>1, <1>2 DEF Registry!Init

LEMMA StepRefines ==
    ASSUME Inv, Change
    PROVE  [Registry!Next]_<<[r \in Run |-> Anchored(r)], [r \in Run |-> record[r].evidence]>>
<1> DEFINE anchored == [r \in Run |-> Anchored(r)]
           passport == [r \in Run |-> record[r].evidence]
<1>1. Registered => anchored' = anchored
  BY DEF Registered
<1>2. Kept => passport' = passport
  BY DEF Kept
<1>3. CASE Registered /\ Kept
  BY <1>1, <1>2, <1>3
<1>4. ASSUME Registered, NEW r \in Run, Completes(r)
      PROVE  UNCHANGED <<anchored, passport>> \/ Registry!Complete(r)
  <2>1. CASE record[r].evidence = None
    <3>1. passport' = [passport EXCEPT ![r] = anchored[r]]
      BY <1>4 DEF Completes
    <3>2. passport[r] = None /\ anchored[r] # None
      BY <1>4, <2>1 DEF Completes
    <3>3. QED
      BY <1>1, <1>4, <3>1, <3>2 DEF Registry!Complete
  <2>2. CASE record[r].evidence = Anchored(r)
    <3>1. passport' = passport
      BY <1>4, <2>2 DEF Completes
    <3>2. QED
      BY <1>1, <1>4, <3>1
  <2>3. QED
    BY <1>4, <2>1, <2>2 DEF Completes
<1>5. ASSUME Kept, NEW r \in Run, Anchors(r)
      PROVE  \E e \in Evidence : Registry!Anchor(r, e)
  <2>1. PICK e \in Evidence : e = Anchored(r)'
    BY <1>5 DEF Anchors
  <2>2. anchored' = [anchored EXCEPT ![r] = e]
    BY <1>5, <2>1 DEF Anchors
  <2>3. anchored[r] = None
    BY <1>5 DEF Anchors
  <2>4. QED
    BY <1>2, <1>5, <2>2, <2>3 DEF Registry!Anchor
<1>6. QED
  BY <1>3, <1>4, <1>5 DEF Change, Registry!Next

\* The evidence of a run is anchored once and completes the run once, whichever
\* of publish, reconciliation and rebuildIndex gets there first, on any leader
\* and after any crash (registry.ts:147-254, 385-448; prisma-store.ts:64-134).
THEOREM Refinement == Spec => ImplementsAnchoring
<1>1. Inv /\ [Next]_vars =>
        [Registry!Next]_<<[r \in Run |-> Anchored(r)], [r \in Run |-> record[r].evidence]>>
  BY StepInv, StepRefines
<1>2. QED
  BY InitRefines, Invariance, <1>1, PTL DEF Spec, ImplementsAnchoring, Registry!Spec
=============================================================================

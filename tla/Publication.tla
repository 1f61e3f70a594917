---------------------------- MODULE Publication ----------------------------
(***************************************************************************)
(* Publication of a run's evidence: the end of RehearsalService.execute,   *)
(* RegistryService.publish, the reconciliation of recorded candidates, and *)
(* the index a new leader rebuilds, over the run record, the registry and  *)
(* the transactions that may reach it.                                     *)
(*                                                                         *)
(* A worker is one execution of a run, or one of the two reconciliations   *)
(* of a process.  It is cut where it awaits the database, the RPC or the   *)
(* leadership guard; a repository call is one step (lock 1952003).         *)
(***************************************************************************)
EXTENDS Naturals, FiniteSets

CONSTANTS
    Proc,       \* lifetimes of backend processes
    Run,        \* paid runs
    Tx,         \* bound: transactions that can be signed
    None,
    MaxFaults   \* bound: failed writes, stale reads, crashes, lost leaderships

ASSUME NoneAssumption ==
    None \notin Proc \cup Run \cup Tx \cup (Proc \X {"passport", "not-rehearsable"})
ASSUME RunAssumption == Run \cap {"startup", "timer"} = {}
ASSUME MaxFaultsAssumption == MaxFaults \in Nat

VARIABLES
    record,   \* record[r]: the stored run
    tx,       \* tx[t]: what became of transaction t
    recorded, \* history: transactions recorded as the candidate of their run
    leader,   \* the process that owns the writer lock, or None
    worker,   \* worker[w]: progress of an execution or a reconciliation
    faults

vars == <<record, tx, recorded, leader, worker, faults>>

\* An execution <<p, r>>, or a reconciliation of process p.
Worker == Proc \X (Run \cup {"startup", "timer"})
Home(w) == w[1]

\* What an execution makes of a run: evidence is dated, so never made twice.
Evidence == Proc \X {"passport", "not-rehearsable"}

Record == [state : {"running", "publishing", "failed", "complete"},
           publication : Tx \cup {None}, evidence : Evidence \cup {None}]

TxRec == [status : {"unused", "signed", "sent", "success", "reverted"},
          run : Run \cup {None}, evidence : Evidence \cup {None}]
NoTx  == [status |-> "unused", run |-> None, evidence |-> None]

\* Between "persist" and "wait" a worker holds registryWriterLimit.
Pc        == {"idle", "rehearse", "publish", "sign", "persist", "assert", "send", "wait",
              "save", "failed", "unknown", "index", "list", "recover", "over"}
Exclusive == {"persist", "assert", "send", "wait"}
WorkerRec == [pc : Pc, as : {"execute", "publishNotRehearsable", "reconcile"},
              run : Run \cup {None}, evidence : Evidence \cup {None}, tx : Tx \cup {None},
              todo : SUBSET (Run \X Tx)]
Idle      == [pc |-> "idle", as |-> "reconcile", run |-> None, evidence |-> None,
              tx |-> None, todo |-> {}]
Over      == [Idle EXCEPT !.pc = "over"]

TypeOK ==
    /\ record \in [Run -> Record]
    /\ tx \in [Tx -> TxRec]
    /\ recorded \in SUBSET Tx
    /\ leader \in Proc \cup {None}
    /\ worker \in [Worker -> WorkerRec]
    /\ faults \in 0..MaxFaults

Init ==
    /\ record = [r \in Run |-> [state |-> "running", publication |-> None, evidence |-> None]]
    /\ tx = [t \in Tx |-> NoTx]
    /\ recorded = {}
    /\ leader = None
    /\ worker = [w \in Worker |-> Idle]
    /\ faults = 0

-----------------------------------------------------------------------------
(* The registry, and the repository's transactions on stored records f.    *)

\* The evidence the registry holds for r: one transaction at most succeeds.
Anchored(r) ==
    IF \E t \in Tx : tx[t].run = r /\ tx[t].status = "success"
    THEN tx[CHOOSE t \in Tx : tx[t].run = r /\ tx[t].status = "success"].evidence
    ELSE None

\* updateState: nothing overwrites a final record, and a failed run only
\* goes back through recordPublicationAttempt.
Advanced(f, r, state) ==
    [f EXCEPT ![r].state = IF f[r].evidence # None \/ (state = "publishing" /\ @ = "failed")
                           THEN @ ELSE state]

\* recordPublicationAttempt
Attempted(f, r, t) ==
    IF f[r].evidence # None THEN f
    ELSE [f EXCEPT ![r].state = "publishing", ![r].publication = t]

\* saveRun
Saveable(f, r, e) == f[r].evidence \in {None, e}
Saved(f, r, e) ==
    [f EXCEPT ![r] = [state |-> "complete", publication |-> None, evidence |-> e]]

-----------------------------------------------------------------------------
(* How a worker goes on.                                                   *)

Become(w, rec) == worker' = [worker EXCEPT ![w] = rec]
Goto(w, pc)    == Become(w, [worker[w] EXCEPT !.pc = pc])
Leave(w, pc)   == Become(w, [worker[w] EXCEPT !.pc = pc, !.tx = None])
NextItem(w)    == Become(w, [Idle EXCEPT !.pc = "list", !.todo = worker[w].todo])
Leads(w)       == leader = Home(w)
Fault          == faults < MaxFaults /\ faults' = faults + 1

\* An execution ends with its error: one that recoverPendingRuns awaits makes
\* the startup of its leader fail, which costs the leadership.
Rethrow(w) ==
    \/ Become(w, Over) /\ UNCHANGED leader
    \/ /\ Leads(w) /\ worker[<<Home(w), "startup">>].pc = "recover"
       /\ worker' = [worker EXCEPT ![w] = Over, ![<<Home(w), "startup">>] = Idle]
       /\ leader' = None

\* publish or saveRun throws: execute catches it, an error of
\* publishNotRehearsable is swallowed, a reconciliation is aborted with what it
\* has not looked at yet, and with it the startup of the leader.
Throw(w) ==
    \/ /\ worker[w].as = "execute"
       /\ Leave(w, "failed") /\ UNCHANGED leader
    \/ /\ worker[w].as = "publishNotRehearsable"
       /\ Rethrow(w)
    \/ /\ worker[w].as = "reconcile"
       /\ Become(w, Idle)
       /\ leader' = IF w[2] = "startup" /\ Leads(w) THEN None ELSE leader

\* PublicationOutcomeUnknownError is thrown.
ThrowUnknown(w) ==
    \/ /\ worker[w].as = "execute"
       /\ Leave(w, "unknown") /\ UNCHANGED leader
    \/ /\ worker[w].as = "publishNotRehearsable"
       /\ Rethrow(w)
    \/ /\ worker[w].as = "reconcile"
       /\ NextItem(w) /\ UNCHANGED leader

-----------------------------------------------------------------------------
(* execute, from a run that is recoverable to the call of publish          *)

\* runReserved of a new request or of recoverPendingRuns.
Begin(p, r) ==
    LET w == <<p, r>> IN
    /\ worker[w].pc = "idle"
    /\ Leads(w) /\ record[r].state = "running"
    /\ Become(w, [Idle EXCEPT !.pc = "rehearse", !.as = "execute", !.run = r,
                              !.evidence = <<p, "passport">>])
    /\ UNCHANGED <<record, tx, recorded, leader, faults>>

Rehearsed(w) ==
    /\ worker[w].pc = "rehearse"
    /\ record' = Advanced(record, worker[w].run, "publishing")
    /\ Goto(w, "publish")
    /\ UNCHANGED <<tx, recorded, leader, faults>>

RehearsalThrows(w) ==
    /\ worker[w].pc = "rehearse"
    /\ Goto(w, "failed")
    /\ UNCHANGED <<record, tx, recorded, leader, faults>>

\* The catch block.  With a manifest the run is published as not rehearsable.
MarkFailed(w) ==
    /\ worker[w].pc = "failed"
    /\ record' = Advanced(record, worker[w].run, "failed")
    /\ \/ Rethrow(w)
       \/ /\ Become(w, [worker[w] EXCEPT !.pc = "publish", !.as = "publishNotRehearsable",
                                         !.evidence = <<Home(w), "not-rehearsable">>])
          /\ UNCHANGED leader
    /\ UNCHANGED <<tx, recorded, faults>>

MarkUnknown(w) ==
    /\ worker[w].pc = "unknown"
    /\ record' = Advanced(record, worker[w].run, "publishing")
    /\ Rethrow(w)
    /\ UNCHANGED <<tx, recorded, faults>>

\* The catch block's own write fails.
MarkFails(w) ==
    /\ worker[w].pc \in {"failed", "unknown"}
    /\ Fault
    /\ Rethrow(w)
    /\ UNCHANGED <<record, tx, recorded>>

-----------------------------------------------------------------------------
(* RegistryService.publish                                                 *)

Publish(w) ==
    /\ worker[w].pc = "publish"
    /\ IF Leads(w) THEN Goto(w, "sign") /\ UNCHANGED leader ELSE Throw(w)
    /\ UNCHANGED <<record, tx, recorded, faults>>

\* publishExclusive enters once no other publication of its process runs,
\* reads the registry and finds the run there, or fails to read it.
LoadPublished(w) ==
    LET held == Anchored(worker[w].run) IN
    /\ worker[w].pc = "sign"
    /\ \A v \in Worker : Home(v) = Home(w) => worker[v].pc \notin Exclusive
    /\ \/ held = worker[w].evidence /\ Goto(w, "save") /\ UNCHANGED leader
       \/ Throw(w)
    /\ UNCHANGED <<record, tx, recorded, faults>>

\* It finds nothing, perhaps because the RPC node lags behind.
Absent(r) == IF Anchored(r) = None THEN UNCHANGED faults ELSE Fault

\* Mutant of Sign: the transaction is sent without having been recorded.
SignUnrecorded(w) ==
    /\ worker[w].pc = "sign"
    /\ \A v \in Worker : Home(v) = Home(w) => worker[v].pc \notin Exclusive
    /\ Absent(worker[w].run)
    /\ \E t \in Tx :
        /\ tx[t].status = "unused"
        /\ tx' = [tx EXCEPT ![t] = [status |-> "signed", run |-> worker[w].run,
                                    evidence |-> worker[w].evidence]]
        /\ Become(w, [worker[w] EXCEPT !.pc = "assert", !.tx = t])
    /\ UNCHANGED <<record, recorded, leader>>

Sign(w) ==
    /\ worker[w].pc = "sign"
    /\ \A v \in Worker : Home(v) = Home(w) => worker[v].pc \notin Exclusive
    /\ Absent(worker[w].run)
    /\ \E t \in Tx :
        /\ tx[t].status = "unused"
        /\ tx' = [tx EXCEPT ![t] = [status |-> "signed", run |-> worker[w].run,
                                    evidence |-> worker[w].evidence]]
        /\ Become(w, [worker[w] EXCEPT !.pc = "persist", !.tx = t])
    /\ UNCHANGED <<record, recorded, leader>>

\* Preparing (gas, nonce) or signing fails: PublicationOutcomeUnknownError(null).
SignFails(w) ==
    /\ worker[w].pc = "sign"
    /\ \A v \in Worker : Home(v) = Home(w) => worker[v].pc \notin Exclusive
    /\ Absent(worker[w].run)
    /\ ThrowUnknown(w)
    /\ UNCHANGED <<record, tx, recorded>>

\* onPrepared: the reconciliation's asserts leadership first.
RecordCandidate(w) ==
    /\ worker[w].pc = "persist"
    /\ worker[w].as = "reconcile" => Leads(w)
    /\ record' = Attempted(record, worker[w].run, worker[w].tx)
    /\ recorded' = IF record[worker[w].run].evidence = None THEN recorded \cup {worker[w].tx}
                   ELSE recorded
    /\ UNCHANGED tx

Persist(w) ==
    /\ RecordCandidate(w)
    /\ Goto(w, "assert")
    /\ UNCHANGED <<leader, faults>>

\* Refused, or the write fails.
PersistThrows(w) ==
    /\ worker[w].pc = "persist"
    /\ IF worker[w].as = "reconcile" /\ ~Leads(w) THEN UNCHANGED faults ELSE Fault
    /\ Throw(w)
    /\ UNCHANGED <<record, tx, recorded>>

\* The candidate is committed and the reply is lost: the transaction is not sent.
PersistReplyLost(w) ==
    /\ RecordCandidate(w)
    /\ Fault
    /\ Throw(w)

AssertBroadcast(w) ==
    /\ worker[w].pc = "assert"
    /\ IF Leads(w) THEN Goto(w, "send") /\ UNCHANGED leader ELSE Throw(w)
    /\ UNCHANGED <<record, tx, recorded, faults>>

Send(w) ==
    /\ worker[w].pc = "send"
    /\ tx' = [tx EXCEPT ![worker[w].tx].status = "sent"]
    /\ \/ Goto(w, "wait") /\ UNCHANGED leader
       \/ ThrowUnknown(w)
    /\ UNCHANGED <<record, recorded, faults>>

SendFails(w) ==
    /\ worker[w].pc = "send"
    /\ ThrowUnknown(w)
    /\ UNCHANGED <<record, tx, recorded, faults>>

\* Mutant of Confirmed: the evidence found on chain is not compared.
ConfirmedUnread(w) ==
    /\ worker[w].pc = "wait"
    /\ Anchored(worker[w].run) # None
    /\ Leave(w, "save")
    /\ UNCHANGED <<record, tx, recorded, leader, faults>>

\* The receipt is a success and the event can be read back, or the wait times
\* out and the evidence is found on chain.
Confirmed(w) ==
    /\ worker[w].pc = "wait"
    /\ Anchored(worker[w].run) = worker[w].evidence
    /\ Leave(w, "save")
    /\ UNCHANGED <<record, tx, recorded, leader, faults>>

Reverted(w) ==
    /\ worker[w].pc = "wait" /\ tx[worker[w].tx].status = "reverted"
    /\ Throw(w)
    /\ UNCHANGED <<record, tx, recorded, faults>>

\* The wait times out, or nothing can be read back.
WaitTimesOut(w) ==
    /\ worker[w].pc = "wait"
    /\ ThrowUnknown(w)
    /\ UNCHANGED <<record, tx, recorded, faults>>

-----------------------------------------------------------------------------
(* saveRun, by execute, publishNotRehearsable or finalizeReconciledRun     *)

Save(w) ==
    /\ worker[w].pc = "save"
    /\ worker[w].as = "reconcile" => Leads(w)
    /\ Saveable(record, worker[w].run, worker[w].evidence)
    /\ record' = Saved(record, worker[w].run, worker[w].evidence)
    /\ CASE worker[w].as = "execute" -> Become(w, Over) /\ UNCHANGED leader
         [] worker[w].as = "publishNotRehearsable" -> Rethrow(w)
         [] worker[w].as = "reconcile" -> NextItem(w) /\ UNCHANGED leader
    /\ UNCHANGED <<tx, recorded, faults>>

SaveThrows(w) ==
    /\ worker[w].pc = "save"
    /\ IF \/ worker[w].as = "reconcile" /\ ~Leads(w)
          \/ ~Saveable(record, worker[w].run, worker[w].evidence)
       THEN UNCHANGED faults ELSE Fault
    /\ Throw(w)
    /\ UNCHANGED <<record, tx, recorded>>

\* saveRun is done and its reply is lost, or savePayment fails after it.
SavedThenThrows(w) ==
    /\ worker[w].pc = "save"
    /\ worker[w].as = "reconcile" => Leads(w)
    /\ Saveable(record, worker[w].run, worker[w].evidence)
    /\ Fault
    /\ record' = Saved(record, worker[w].run, worker[w].evidence)
    /\ Throw(w)
    /\ UNCHANGED <<tx, recorded>>

-----------------------------------------------------------------------------
(* reconcilePendingPublications: every 30 s, and at a leader's startup     *)
(* after rebuildIndex                                                      *)

\* The startup of a leader goes on to the other recoveries; the timer is done.
Resume(w) ==
    IF w[2] = "startup" /\ Leads(w) THEN Become(w, [Idle EXCEPT !.pc = "recover"]) ELSE Become(w, Idle)

\* Mutant of Pending: rows without a publication transaction are not left out.
PendingUnfiltered == {<<r, record[r].publication>> : r \in {q \in Run : record[q].state = "publishing"}}

Pending == {<<r, record[r].publication>> :
              r \in {q \in Run : record[q].state = "publishing" /\ record[q].publication # None}}

ListPending(w) ==
    /\ \/ w[2] = "timer" /\ worker[w].pc = "idle"
       \/ w[2] = "startup" /\ worker[w].pc = "index"
    /\ Leads(w) /\ Pending # {}
    /\ Become(w, [Idle EXCEPT !.pc = "list", !.todo = Pending])
    /\ UNCHANGED <<record, tx, recorded, leader, faults>>

IndexEnds(w) ==
    /\ worker[w].pc = "index"
    /\ Pending = {} \/ ~Leads(w)
    /\ Resume(w)
    /\ UNCHANGED <<record, tx, recorded, leader, faults>>

\* recoverPendingRuns has awaited its executions, or was refused.
RecoveryEnds(w) ==
    /\ worker[w].pc = "recover"
    /\ Become(w, Idle)
    /\ UNCHANGED <<record, tx, recorded, leader, faults>>

\* The next item, as it was listed, whatever has been recorded since.
Take(w, item, pc) ==
    Become(w, [worker[w] EXCEPT !.pc = pc, !.run = item[1], !.evidence = tx[item[2]].evidence,
                                !.todo = @ \ {item}])

PassFinds(w) ==
    /\ worker[w].pc = "list" /\ Leads(w)
    /\ \E item \in worker[w].todo : tx[item[2]].status = "success" /\ Take(w, item, "save")
    /\ UNCHANGED <<record, tx, recorded, leader, faults>>

PassRepublishes(w) ==
    /\ worker[w].pc = "list" /\ Leads(w)
    /\ \E item \in worker[w].todo : tx[item[2]].status = "reverted" /\ Take(w, item, "publish")
    /\ UNCHANGED <<record, tx, recorded, leader, faults>>

\* No receipt, or no reading it.
PassSkips(w) ==
    /\ worker[w].pc = "list" /\ Leads(w)
    /\ \E item \in worker[w].todo :
        Become(w, [Idle EXCEPT !.pc = "list", !.todo = worker[w].todo \ {item}])
    /\ UNCHANGED <<record, tx, recorded, leader, faults>>

\* Mutant of PassEnds: publicationReconciliationRunning is not reset.
PassEndsForGood(w) ==
    /\ worker[w].pc = "list"
    /\ worker[w].todo = {} \/ ~Leads(w)
    /\ Become(w, Over)
    /\ UNCHANGED <<record, tx, recorded, leader, faults>>

\* Nothing is left, or assertLeader throws.
PassEnds(w) ==
    /\ worker[w].pc = "list"
    /\ worker[w].todo = {} \/ ~Leads(w)
    /\ Resume(w)
    /\ UNCHANGED <<record, tx, recorded, leader, faults>>

\* rebuildIndex completes a run whose event it can read and verify.
Index(w, r) ==
    /\ worker[w].pc = "index" /\ Leads(w)
    /\ Anchored(r) # None /\ Saveable(record, r, Anchored(r))
    /\ record' = Saved(record, r, Anchored(r))
    /\ UNCHANGED <<tx, recorded, leader, worker, faults>>

-----------------------------------------------------------------------------
(* Processes and the chain                                                 *)

Elected(p) ==
    /\ leader = None
    /\ worker[<<p, "startup">>].pc = "idle"
    /\ leader' = p
    /\ Become(<<p, "startup">>, [Idle EXCEPT !.pc = "index"])
    /\ UNCHANGED <<record, tx, recorded, faults>>

\* The lock is lost; the process works on until an assertLeader refuses it.
Deposed ==
    /\ leader # None
    /\ Fault
    /\ leader' = None
    /\ UNCHANGED <<record, tx, recorded, worker>>

\* A process dies with all its workers; its successor is another member of
\* Proc, so the last one left does not crash (bound).
Crashed(p) == worker[<<p, "startup">>].pc = "over"

Crash(p) ==
    /\ ~Crashed(p) /\ \E q \in Proc \ {p} : ~Crashed(q)
    /\ Fault
    /\ leader' = IF leader = p THEN None ELSE leader
    /\ worker' = [w \in Worker |-> IF Home(w) = p THEN Over ELSE worker[w]]
    /\ UNCHANGED <<record, tx, recorded>>

\* The contract accepts the first record of a run and no other.
Mine(t) ==
    /\ tx[t].status = "sent"
    /\ \/ Anchored(tx[t].run) = None /\ tx' = [tx EXCEPT ![t].status = "success"]
       \/ tx' = [tx EXCEPT ![t].status = "reverted"]
    /\ UNCHANGED <<record, recorded, leader, worker, faults>>

-----------------------------------------------------------------------------
Execution(w) ==
    \/ Rehearsed(w) \/ RehearsalThrows(w) \/ MarkFailed(w) \/ MarkUnknown(w) \/ MarkFails(w)

Publishing(w) ==
    \/ Publish(w) \/ LoadPublished(w) \/ Sign(w) \/ SignFails(w) \/ Persist(w) \/ PersistThrows(w)
    \/ PersistReplyLost(w) \/ AssertBroadcast(w) \/ Send(w) \/ SendFails(w) \/ Confirmed(w) \/ Reverted(w)
    \/ WaitTimesOut(w) \/ Save(w) \/ SaveThrows(w) \/ SavedThenThrows(w)

Reconciling(w) ==
    \/ ListPending(w) \/ IndexEnds(w) \/ RecoveryEnds(w)
    \/ PassFinds(w) \/ PassRepublishes(w) \/ PassSkips(w) \/ PassEnds(w)

Next ==
    \/ \E p \in Proc, r \in Run : Begin(p, r)
    \/ \E w \in Worker : Execution(w) \/ Publishing(w) \/ Reconciling(w)
    \/ \E w \in Worker, r \in Run : Index(w, r)
    \/ \E p \in Proc : Elected(p) \/ Crash(p)
    \/ Deposed
    \/ \E t \in Tx : Mine(t)

Spec == Init /\ [][Next]_vars

\* Tasks and timers run, some process is elected while there is no leader, and
\* the RPC does not fail every time a reconciliation reads a mined candidate.
\* Nothing has to be mined, and nobody has to fail.
Fairness ==
    /\ \A w \in Worker : WF_vars(Execution(w) \/ Publishing(w) \/ Reconciling(w))
    /\ \A p \in Proc : SF_vars(PassFinds(<<p, "timer">>))
    /\ WF_vars(\E p \in Proc : Elected(p))

FairSpec == Spec /\ Fairness
-----------------------------------------------------------------------------
(* Properties                                                              *)

\* A run is completed once, with the very evidence the registry anchored, which
\* is the first to be mined: publish, reconciliation and index implement
\* Anchoring, whoever executes the run and however often it is sent
\* (registry.ts:147-254, 385-448; prisma-store.ts:64-134).
Registry == INSTANCE Anchoring WITH
    anchored <- [r \in Run |-> Anchored(r)],
    passport <- [r \in Run |-> record[r].evidence]
ImplementsAnchoring == Registry!Spec

\* A transaction that may reach the registry was recorded as its run's candidate
\* before it was sent, unless the run was complete already: a crash at any point
\* leaves it to be found again (registry.ts:219-224).
SentIsRecorded ==
    \A t \in Tx :
        tx[t].status \in {"sent", "success", "reverted"} =>
            t \in recorded \/ record[tx[t].run].evidence # None

\* A candidate that was mined does not stay pending for ever: the run is
\* completed, or the record has moved on (index.ts:58-60).
MinedCandidateResolved ==
    \A r \in Run, t \in Tx :
        (record[r].state = "publishing" /\ record[r].publication = t /\ tx[t].status = "success")
            ~> (record[r].state # "publishing" \/ record[r].publication # t)

\* PROJECT_IMPLEMENTATION.md:220: recovery does nothing while the outcome of a
\* candidate is unknown and sends again only after a confirmed revert.
UnknownNotReplaced ==
    [][\A r \in Run :
        LET t == record[r].publication IN
        t # None /\ record'[r].publication \notin {t, None} => tx[t].status \notin {"sent", "success"}]_vars
=============================================================================

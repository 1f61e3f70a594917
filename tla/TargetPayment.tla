--------------------------- MODULE TargetPayment ---------------------------
(***************************************************************************)
(* Paying the target of a rehearsal: TargetPaymentService.pay as execute   *)
(* calls it, the recovery of recorded authorizations at startup, and the   *)
(* recovery of paid runs, over the run records, the payment rows and the   *)
(* chain.                                                                  *)
(*                                                                         *)
(* A process has two RehearsalServices, each with an active set and a      *)
(* payment lock of its own: "app" serves requests, "startup" recovers.     *)
(* updateState and saveRun take advisory lock 1952003, the operations on   *)
(* the attempt 1952004; each reads the record in one statement and writes  *)
(* all of it back in another, so two of them may overlap.                  *)
(***************************************************************************)
EXTENDS Naturals, FiniteSets

CONSTANTS
    Proc,       \* backend processes; a crashed one restarts
    Run,        \* runs whose manifest asks for payment
    Auth,       \* bound: authorizations (EIP-3009 nonces) that can be signed
    Foreign,    \* settlements of other runs, of the same terms and not on file
    Stray,      \* transaction hashes without the transfer asked for, or of nothing
    None,
    DailyCap,   \* authorizations the daily budget allows
    MaxFaults   \* bound: lost leaderships, lapsed locks, failed RPC calls

ASSUME NoneAssumption == None \notin Proc \cup Run \cup Auth \cup Foreign \cup Stray
ASSUME NamesAssumption == Auth \cap (Foreign \cup Stray) = {} /\ Foreign \cap Stray = {}
ASSUME BoundAssumption == DailyCap \in Nat /\ MaxFaults \in Nat

VARIABLES
    rec,      \* rec[r]: the stored record
    column,   \* column[r]: the state column, which the recovery lists filter by
    payment,  \* payment[r]: the target payment row of r
    filed,    \* history: filed[a]: the run authorization a was recorded for
    chain,    \* chain[a]: what became of authorization a
    past,     \* authorizations whose valid_before the chain's clock has passed
    leader,   \* the process that owns the writer lock, or None
    exec,     \* exec[e]: progress of an execution
    pass,     \* pass[p]: progress of the startup of p
    holder,   \* the execution that holds advisory lock 1952001, or None
    overlap,  \* history: runs two actors have worked on at once
    faults

vars == <<rec, column, payment, filed, chain, past, leader, exec, pass, holder, overlap, faults>>

Service == {"app", "startup"}
Exec    == Proc \X Service \X Run
Home(e) == e[1]
RunOf(e) == e[3]

\* The transactions a PAYMENT-RESPONSE may name, of which only the form is
\* checked; an authorization stands for the transaction that consumes it.
Tx == Auth \cup Foreign \cup Stray

\* "paid": the stages before the target payment; "publishing": those after it.
State  == {"reserved", "paid", "target", "publishing", "failed", "complete", "notRehearsable"}
Final  == {"complete", "notRehearsable"}
Record == [state : State, attempt : Auth \cup {None}, hash : Tx \cup {None}]
NoRecord == [state |-> "reserved", attempt |-> None, hash |-> None]

Pc == {"idle", "rehearse", "rehearsing", "target", "targeting", "pay", "queue", "lookup",
       "sign", "file", "filing", "send", "await", "note", "noting", "verify", "save", "saving", "caught",
       "publish", "publishing", "finish", "fail", "failing", "finishFailed"}
ExecRec == [pc : Pc, auth : Auth \cup {None}, tx : Tx \cup {None}, snap : Record,
            lapsed : BOOLEAN, free : BOOLEAN]
Idle    == [pc |-> "idle", auth |-> None, tx |-> None, snap |-> NoRecord,
            lapsed |-> FALSE, free |-> FALSE]

PassPc   == {"idle", "list", "each", "find", "look", "note", "noting", "clear", "clearing", "verify",
             "save", "saving", "recover"}
PassRec  == [pc : PassPc, listed : [Run -> Record], todo : SUBSET Run, run : Run \cup {None},
             attempt : Auth \cup {None}, hash : Tx \cup {None}, snap : Record]
PassIdle == [pc |-> "idle", listed |-> [r \in Run |-> NoRecord], todo |-> {}, run |-> None,
             attempt |-> None, hash |-> None, snap |-> NoRecord]

TypeOK ==
    /\ rec \in [Run -> Record] /\ column \in [Run -> State]
    /\ payment \in [Run -> Tx \cup {None}]
    /\ filed \in [Auth -> Run \cup {None}]
    /\ chain \in [Auth -> {"unused", "signed", "sent", "used"}] /\ past \in SUBSET Auth
    /\ leader \in Proc \cup {None}
    /\ exec \in [Exec -> ExecRec] /\ pass \in [Proc -> PassRec]
    /\ holder \in Exec \cup {None}
    /\ overlap \in SUBSET Run /\ faults \in 0..MaxFaults

Init ==
    /\ rec = [r \in Run |-> NoRecord] /\ column = [r \in Run |-> "reserved"]
    /\ payment = [r \in Run |-> None]
    /\ filed = [a \in Auth |-> None]
    /\ chain = [a \in Auth |-> "unused"] /\ past = {}
    /\ leader = None
    /\ exec = [e \in Exec |-> Idle] /\ pass = [p \in Proc |-> PassIdle]
    /\ holder = None
    /\ overlap = {} /\ faults = 0

chainVars  == <<chain, past, filed>>
recordVars == <<rec, column, payment>>

-----------------------------------------------------------------------------
(* The repository                                                          *)

Rank == [s \in State |-> CASE s = "reserved" -> 0 [] s = "paid" -> 1 [] s = "target" -> 2
                           [] s = "publishing" -> 3 [] OTHER -> 4]

\* canAdvance, and no update of a final record.
CanAdvance(from, to) ==
    /\ from \notin Final
    /\ \/ to = "failed" \/ from = to
       \/ from # "failed" /\ Rank[to] >= Rank[from]

StateLockFree   == \A e \in Exec : exec[e].pc \notin {"rehearsing", "targeting", "publishing", "failing"}
AttemptLockFree == /\ \A e \in Exec : exec[e].pc \notin {"filing", "noting"}
                   /\ \A p \in Proc : pass[p].pc \notin {"noting", "clearing"}

\* savePayment reads first: one target payment per run, one run per settlement.
Savable(r, t) == payment[r] \in {None, t} /\ \A q \in Run \ {r} : payment[q] # t

\* Its upsert updates nothing where a row has the settlement, whose ever it is;
\* a second settlement of one run violates a unique index.
OnFile(t)      == \E q \in Run : payment[q] = t
Refused(r, t)  == payment[r] # None /\ ~OnFile(t)
Upserted(r, t) == payment' = IF OnFile(t) \/ Refused(r, t) THEN payment
                             ELSE [payment EXCEPT ![r] = t]

\* recoverableRuns; pendingTargetPaymentAttempts.
Recoverable == {r \in Run : column[r] = "paid" \/ (column[r] = "target" /\ payment[r] # None)}
\* Mutant of PendingAttempts: only attempts whose transaction is known.
PendingAttemptsNoted == {r \in Run : column[r] = "target" /\ rec[r].hash # None}
PendingAttempts == {r \in Run : column[r] = "target" /\ rec[r].attempt # None}

\* targetSpendSince counts saved payments only.
WithinBudget == Cardinality({r \in Run : payment[r] # None}) + 1 <= DailyCap

-----------------------------------------------------------------------------
(* How an actor goes on.                                                   *)

Become(e, x)  == exec' = [exec EXCEPT ![e] = x]
Goto(e, pc)   == Become(e, [exec[e] EXCEPT !.pc = pc, !.snap = NoRecord])
\* The call of pay is over.
Leave(e, pc)  == /\ Become(e, [exec[e] EXCEPT !.pc = pc, !.auth = None, !.tx = None, !.snap = NoRecord])
                 /\ holder' = IF holder = e THEN None ELSE holder
Leads(e)      == leader = Home(e)
Fault         == faults < MaxFaults /\ faults' = faults + 1
Working(r)    == (\E e \in Exec : RunOf(e) = r /\ exec[e].pc # "idle") \/ (\E p \in Proc : pass[p].run = r)
Meets(r)      == overlap' = IF Working(r) THEN overlap \cup {r} ELSE overlap

\* pay throws: the locks are released and execute's inner catch looks at the run.
ThrowPay(e) == Leave(e, "caught")

\* The statement that reads the record in updateState(to): a state that may not
\* be entered leaves the record alone.
UpdateReads(e, pc, to, mid, skip) ==
    /\ exec[e].pc = pc /\ StateLockFree
    /\ IF CanAdvance(rec[RunOf(e)].state, to)
       THEN Become(e, [exec[e] EXCEPT !.pc = mid, !.snap = rec[RunOf(e)]])
       ELSE Goto(e, skip)
    /\ UNCHANGED <<recordVars, chainVars, leader, pass, holder, overlap, faults>>

\* The statement that writes it back, whatever has been written since.
UpdateWrites(e, mid, to, next) ==
    /\ exec[e].pc = mid
    /\ rec' = [rec EXCEPT ![RunOf(e)] = [exec[e].snap EXCEPT !.state = to]]
    /\ column' = [column EXCEPT ![RunOf(e)] = to]
    /\ Goto(e, next)
    /\ UNCHANGED <<payment, chainVars, leader, pass, holder, overlap, faults>>

-----------------------------------------------------------------------------
(* execute, up to the call of pay                                          *)

\* onSettled of a request: authorizeRun, then runReserved in the background.
Settled(e) ==
    /\ e[2] = "app" /\ exec[e].pc = "idle" /\ Leads(e)
    /\ rec[RunOf(e)].state = "reserved"
    /\ rec' = [rec EXCEPT ![RunOf(e)].state = "paid"]
    /\ column' = [column EXCEPT ![RunOf(e)] = "paid"]
    /\ Goto(e, "rehearse") /\ Meets(RunOf(e))
    /\ UNCHANGED <<payment, chainVars, leader, pass, holder, faults>>

Rehearse(e) == UpdateReads(e, "rehearse", "paid", "rehearsing", "target")
Rehearsed(e) == UpdateWrites(e, "rehearsing", "paid", "target")

\* A stage before the target payment throws.
StageThrows(e) ==
    /\ exec[e].pc = "target"
    /\ Goto(e, "fail")
    /\ UNCHANGED <<recordVars, chainVars, leader, pass, holder, overlap, faults>>

Target(e)   == UpdateReads(e, "target", "target", "targeting", "pay")
Targeted(e) == UpdateWrites(e, "targeting", "target", "pay")

-----------------------------------------------------------------------------
(* pay and payExclusive                                                    *)

Pay(e) ==
    /\ exec[e].pc = "pay"
    /\ IF Leads(e) THEN Goto(e, "queue") /\ UNCHANGED holder ELSE ThrowPay(e)
    /\ UNCHANGED <<recordVars, chainVars, leader, pass, overlap, faults>>

\* The manifest, fetched anew by every execution, asks for no payment any more.
PaysNothing(e) ==
    /\ exec[e].pc = "pay"
    /\ Become(e, [exec[e] EXCEPT !.pc = "publish", !.free = TRUE])
    /\ UNCHANGED <<recordVars, chainVars, leader, pass, holder, overlap, faults>>

\* Mutant of Enter: the session of the process holds the lock.
EnterBySession(e) ==
    /\ exec[e].pc = "queue" /\ holder = None
    /\ Goto(e, "lookup") /\ holder' = Home(e)
    /\ UNCHANGED <<recordVars, chainVars, leader, pass, overlap, faults>>

\* withTargetPaymentLock; its transaction may run out while it waits.
Enter(e) ==
    /\ exec[e].pc = "queue"
    /\ \/ holder = None /\ Goto(e, "lookup") /\ holder' = e /\ UNCHANGED faults
       \/ holder # None /\ Fault /\ ThrowPay(e)
    /\ UNCHANGED <<recordVars, chainVars, leader, pass, overlap>>

\* The 35 s of the transaction run out: the lock is free, the callback goes on.
Lapse(e) ==
    /\ holder = e /\ Fault
    /\ Become(e, [exec[e] EXCEPT !.lapsed = TRUE]) /\ holder' = None
    /\ UNCHANGED <<recordVars, chainVars, leader, pass, overlap>>

\* A payment on file is returned, a recorded attempt forbids another.
Lookup(e) ==
    /\ exec[e].pc = "lookup"
    /\ \/ /\ payment[RunOf(e)] # None /\ ~exec[e].lapsed
          /\ Leave(e, "publish")
       \/ /\ payment[RunOf(e)] = None /\ rec[RunOf(e)].attempt = None /\ WithinBudget
          /\ Goto(e, "sign") /\ UNCHANGED holder
       \/ /\ \/ payment[RunOf(e)] # None /\ exec[e].lapsed
             \/ payment[RunOf(e)] = None /\ (rec[RunOf(e)].attempt # None \/ ~WithinBudget)
          /\ ThrowPay(e)
    /\ UNCHANGED <<recordVars, chainVars, leader, pass, overlap, faults>>

\* onAfterPaymentCreation up to its assertLeader; or the target offers no valid terms.
Sign(e) ==
    /\ exec[e].pc = "sign"
    /\ \/ /\ ThrowPay(e) /\ UNCHANGED chain
       \/ /\ Leads(e)
          /\ \E a \in Auth :
                /\ chain[a] = "unused"
                /\ chain' = [chain EXCEPT ![a] = "signed"]
                /\ Become(e, [exec[e] EXCEPT !.pc = "file", !.auth = a])
          /\ UNCHANGED holder
    /\ UNCHANGED <<recordVars, past, filed, leader, pass, overlap, faults>>

\* recordTargetPaymentAttempt
File(e) ==
    /\ exec[e].pc = "file" /\ AttemptLockFree
    /\ IF rec[RunOf(e)].state \notin Final /\ rec[RunOf(e)].attempt = None
       THEN Become(e, [exec[e] EXCEPT !.pc = "filing", !.snap = rec[RunOf(e)]]) /\ UNCHANGED holder
       ELSE ThrowPay(e)
    /\ UNCHANGED <<recordVars, chainVars, leader, pass, overlap, faults>>

Filed(e) ==
    /\ exec[e].pc = "filing"
    /\ rec' = [rec EXCEPT ![RunOf(e)] = [exec[e].snap EXCEPT !.attempt = exec[e].auth]]
    /\ filed' = [filed EXCEPT ![exec[e].auth] = RunOf(e)]
    /\ Goto(e, "send")
    /\ UNCHANGED <<column, payment, chain, past, leader, pass, holder, overlap, faults>>

\* The request with the signature, after assertLeader and the chain id.
Send(e) ==
    /\ exec[e].pc = "send"
    /\ \/ /\ Leads(e)
          /\ chain' = [chain EXCEPT ![exec[e].auth] = "sent"]
          /\ Goto(e, "await") /\ UNCHANGED <<holder, faults>>
       \/ /\ ~Leads(e) /\ ThrowPay(e) /\ UNCHANGED <<chain, faults>>
       \/ /\ Fault /\ ThrowPay(e) /\ UNCHANGED chain
    /\ UNCHANGED <<recordVars, past, filed, leader, pass, overlap>>

\* The receipt names whatever transaction the target likes; or there is none in
\* time, or it is not final, or the leadership and with it the request was lost.
Respond(e) ==
    /\ exec[e].pc = "await"
    /\ \/ /\ Leads(e) /\ UNCHANGED holder
          /\ \E t \in Tx : Become(e, [exec[e] EXCEPT !.pc = "note", !.tx = t])
       \/ ThrowPay(e)
    /\ UNCHANGED <<recordVars, chainVars, leader, pass, overlap, faults>>

\* recordTargetPaymentTransaction
Notable(r, t) == rec[r].state \notin Final /\ rec[r].attempt # None /\ rec[r].hash \in {None, t}

Note(e) ==
    /\ exec[e].pc = "note" /\ AttemptLockFree
    /\ IF Notable(RunOf(e), exec[e].tx)
       THEN Become(e, [exec[e] EXCEPT !.pc = "noting", !.snap = rec[RunOf(e)]]) /\ UNCHANGED holder
       ELSE ThrowPay(e)
    /\ UNCHANGED <<recordVars, chainVars, leader, pass, overlap, faults>>

Noted(e) ==
    /\ exec[e].pc = "noting"
    /\ rec' = [rec EXCEPT ![RunOf(e)] = [exec[e].snap EXCEPT !.hash = exec[e].tx]]
    /\ Goto(e, "verify")
    /\ UNCHANGED <<column, payment, chainVars, leader, pass, holder, overlap, faults>>

\* verifyTargetTransfer: the transfer of the terms, in a transaction that
\* succeeded and consumed the nonce, when there is an attempt to have one.
Transferred(t) == t \in Foreign \/ (t \in Auth /\ chain[t] = "used")
\* Mutant of Verified: the nonce is not compared.
VerifiedAnyNonce(t, attempt) == Transferred(t)
Verified(t, attempt) == Transferred(t) /\ attempt \in {None, t}

Verify(e) ==
    /\ exec[e].pc = "verify"
    /\ \/ /\ Verified(exec[e].tx, rec[RunOf(e)].attempt)
          /\ Goto(e, "save") /\ UNCHANGED <<holder, faults>>
       \/ /\ ~Verified(exec[e].tx, rec[RunOf(e)].attempt)
          /\ ThrowPay(e) /\ UNCHANGED faults
       \/ Fault /\ ThrowPay(e)
    /\ UNCHANGED <<recordVars, chainVars, leader, pass, overlap>>

\* savePayment, its reads and its upsert.
Save(e) ==
    /\ exec[e].pc = "save"
    /\ IF Savable(RunOf(e), exec[e].tx) THEN Goto(e, "saving") /\ UNCHANGED holder ELSE ThrowPay(e)
    /\ UNCHANGED <<recordVars, chainVars, leader, pass, overlap, faults>>

\* A transaction that has lapsed throws after its callback.
Saved(e) ==
    /\ exec[e].pc = "saving"
    /\ Upserted(RunOf(e), exec[e].tx)
    /\ Leave(e, IF Refused(RunOf(e), exec[e].tx) \/ exec[e].lapsed THEN "caught" ELSE "publish")
    /\ UNCHANGED <<rec, column, chainVars, leader, pass, overlap, faults>>

-----------------------------------------------------------------------------
(* execute, after the call of pay                                          *)

\* Mutant of Caught: every error of pay is a failed gate.
CaughtAlways(e) ==
    /\ exec[e].pc = "caught"
    /\ Goto(e, "publish")
    /\ UNCHANGED <<recordVars, chainVars, leader, pass, holder, overlap, faults>>

\* The inner catch: rethrown while an attempt is on file.
Caught(e) ==
    /\ exec[e].pc = "caught"
    /\ Goto(e, IF rec[RunOf(e)].attempt # None THEN "fail" ELSE "publish")
    /\ UNCHANGED <<recordVars, chainVars, leader, pass, holder, overlap, faults>>

Publish(e)   == UpdateReads(e, "publish", "publishing", "publishing", "finish")
Published(e) == UpdateWrites(e, "publishing", "publishing", "finish")

\* An execution is over; its error, when recoverPendingRuns awaits it, makes the
\* startup fail and costs the leadership.
Over(e, threw) ==
    /\ Become(e, Idle)
    /\ IF threw /\ e[2] = "startup" /\ pass[Home(e)].pc = "recover"
       THEN /\ pass' = [pass EXCEPT ![Home(e)] = PassIdle]
            /\ leader' = IF Leads(e) THEN None ELSE leader
       ELSE UNCHANGED <<pass, leader>>

Finalised(r, state) ==
    /\ rec' = [rec EXCEPT ![r] = [NoRecord EXCEPT !.state = state]]
    /\ column' = [column EXCEPT ![r] = state]

\* publish and saveRun; or one of them throws, as publish does for a deposed
\* process and saveRun for a final record.
Finish(e) ==
    /\ exec[e].pc = "finish"
    /\ \/ /\ Leads(e) /\ StateLockFree /\ rec[RunOf(e)].state \notin Final
          /\ Finalised(RunOf(e), "complete") /\ Over(e, FALSE)
       \/ /\ Goto(e, "fail")
          /\ UNCHANGED <<rec, column, leader, pass>>
    /\ UNCHANGED <<payment, chainVars, holder, overlap, faults>>

Fail(e)   == UpdateReads(e, "fail", "failed", "failing", "finishFailed")
Failed(e) == UpdateWrites(e, "failing", "failed", "finishFailed")

\* publishNotRehearsable, whose own errors are swallowed; without a manifest it
\* is not called.
FinishFailed(e) ==
    /\ exec[e].pc = "finishFailed"
    /\ \/ /\ Leads(e) /\ StateLockFree /\ rec[RunOf(e)].state \notin Final
          /\ Finalised(RunOf(e), "notRehearsable")
       \/ UNCHANGED <<rec, column>>
    /\ Over(e, TRUE)
    /\ UNCHANGED <<payment, chainVars, holder, overlap, faults>>

-----------------------------------------------------------------------------
(* Startup of a leader: reconcilePendingTargetPayments, recoverPendingRuns *)

PassGoto(p, pc) == pass' = [pass EXCEPT ![p].pc = pc, ![p].snap = NoRecord]
PassNext(p)     == pass' = [pass EXCEPT ![p] = [PassIdle EXCEPT !.pc = "each", !.listed = pass[p].listed,
                                                               !.todo = pass[p].todo]]
\* An error of the startup, which costs the leadership.
PassThrows(p) ==
    /\ pass' = [pass EXCEPT ![p] = PassIdle]
    /\ leader' = IF leader = p THEN None ELSE leader
    /\ UNCHANGED <<recordVars, chainVars, exec, holder, overlap>>
Deposed(p)    == leader # p /\ PassThrows(p) /\ UNCHANGED faults
Interrupted(p) == Fault /\ PassThrows(p)

List(p) ==
    /\ pass[p].pc = "list"
    /\ \/ /\ pass' = [pass EXCEPT ![p] = [PassIdle EXCEPT !.pc = "each", !.listed = rec,
                                                        !.todo = PendingAttempts]]
          /\ UNCHANGED <<recordVars, chainVars, leader, exec, holder, overlap, faults>>
       \/ Deposed(p)

Take(p) ==
    /\ pass[p].pc = "each"
    /\ \/ \E r \in pass[p].todo :
             /\ leader = p
             /\ pass' = [pass EXCEPT ![p].pc = "find", ![p].todo = @ \ {r}, ![p].run = r,
                                     ![p].attempt = pass[p].listed[r].attempt,
                                     ![p].hash = pass[p].listed[r].hash]
             /\ Meets(r)
             /\ UNCHANGED <<recordVars, chainVars, leader, exec, holder, faults>>
       \/ /\ pass[p].todo = {} /\ leader = p
          /\ pass' = [pass EXCEPT ![p] = [PassIdle EXCEPT !.pc = "recover", !.todo = Recoverable]]
          /\ UNCHANGED <<recordVars, chainVars, leader, exec, holder, overlap, faults>>
       \/ Deposed(p)

\* findAuthorizationTransaction reads the logs up to the block it began with;
\* a transaction already on file is not looked for.
Find(p) ==
    /\ pass[p].pc = "find"
    /\ LET found == pass[p].hash = None /\ chain[pass[p].attempt] = "used" IN
       \/ /\ ~found /\ PassGoto(p, IF pass[p].hash = None THEN "look" ELSE "verify")
          /\ UNCHANGED <<recordVars, chainVars, leader, exec, holder, overlap, faults>>
       \/ /\ found /\ leader = p
          /\ pass' = [pass EXCEPT ![p].pc = "note", ![p].hash = pass[p].attempt]
          /\ UNCHANGED <<recordVars, chainVars, leader, exec, holder, overlap, faults>>
       \/ found /\ Deposed(p)
       \/ Interrupted(p)

\* Mutant of Look: an authorization nobody charged is taken for dead.
LookUnexpired(p) ==
    /\ pass[p].pc = "look" /\ leader = p /\ PassGoto(p, "clear")
    /\ UNCHANGED <<recordVars, chainVars, leader, exec, holder, overlap, faults>>

\* No transaction was found: the latest block decides whether there can be one.
Look(p) ==
    /\ pass[p].pc = "look"
    /\ \/ /\ pass[p].attempt \notin past /\ PassNext(p)
          /\ UNCHANGED <<recordVars, chainVars, leader, exec, holder, overlap, faults>>
       \/ /\ pass[p].attempt \in past /\ leader = p /\ PassGoto(p, "clear")
          /\ UNCHANGED <<recordVars, chainVars, leader, exec, holder, overlap, faults>>
       \/ pass[p].attempt \in past /\ Deposed(p)
       \/ Interrupted(p)

\* Mutant of Clear: final records are not spared.
ClearAny(p) ==
    /\ pass[p].pc = "clear" /\ AttemptLockFree
    /\ pass' = [pass EXCEPT ![p].pc = "clearing", ![p].snap = rec[pass[p].run]]
    /\ UNCHANGED <<recordVars, chainVars, leader, exec, holder, overlap, faults>>

\* clearTargetPaymentAttempt, of whatever attempt the run has by then.
Clear(p) ==
    /\ pass[p].pc = "clear" /\ AttemptLockFree
    /\ IF rec[pass[p].run].state \in Final THEN PassNext(p)
       ELSE pass' = [pass EXCEPT ![p].pc = "clearing", ![p].snap = rec[pass[p].run]]
    /\ UNCHANGED <<recordVars, chainVars, leader, exec, holder, overlap, faults>>

Cleared(p) ==
    /\ pass[p].pc = "clearing"
    /\ rec' = [rec EXCEPT ![pass[p].run] = [state |-> "paid", attempt |-> None, hash |-> None]]
    /\ column' = [column EXCEPT ![pass[p].run] = "paid"]
    /\ PassNext(p)
    /\ UNCHANGED <<payment, chainVars, leader, exec, holder, overlap, faults>>

\* recordTargetPaymentTransaction, whose errors are not caught here.
PassNotes(p) ==
    /\ pass[p].pc = "note" /\ AttemptLockFree
    /\ \/ /\ Notable(pass[p].run, pass[p].hash)
          /\ pass' = [pass EXCEPT ![p].pc = "noting", ![p].snap = rec[pass[p].run]]
          /\ UNCHANGED <<recordVars, chainVars, leader, exec, holder, overlap, faults>>
       \/ ~Notable(pass[p].run, pass[p].hash) /\ PassThrows(p) /\ UNCHANGED faults

PassNoted(p) ==
    /\ pass[p].pc = "noting"
    /\ rec' = [rec EXCEPT ![pass[p].run] = [pass[p].snap EXCEPT !.hash = pass[p].hash]]
    /\ PassGoto(p, "verify")
    /\ UNCHANGED <<column, payment, chainVars, leader, exec, holder, overlap, faults>>

\* A transfer that does not verify, yet or ever, is left as it is.
PassVerifies(p) ==
    /\ pass[p].pc = "verify"
    /\ LET verified == Verified(pass[p].hash, pass[p].attempt) IN
       \/ /\ verified /\ leader = p /\ PassGoto(p, "save")
          /\ UNCHANGED <<recordVars, chainVars, leader, exec, holder, overlap, faults>>
       \/ verified /\ Deposed(p)
       \/ /\ ~verified /\ PassNext(p)
          /\ UNCHANGED <<recordVars, chainVars, leader, exec, holder, overlap, faults>>
       \/ /\ Fault /\ PassNext(p)
          /\ UNCHANGED <<recordVars, chainVars, leader, exec, holder, overlap>>

\* savePayment, whose errors are swallowed.
PassSaves(p) ==
    /\ pass[p].pc = "save"
    /\ IF Savable(pass[p].run, pass[p].hash) THEN PassGoto(p, "saving") ELSE PassNext(p)
    /\ UNCHANGED <<recordVars, chainVars, leader, exec, holder, overlap, faults>>

PassSaved(p) ==
    /\ pass[p].pc = "saving"
    /\ Upserted(pass[p].run, pass[p].hash)
    /\ PassNext(p)
    /\ UNCHANGED <<rec, column, chainVars, leader, exec, holder, overlap, faults>>

\* recoverPendingRuns awaits one run at a time, whatever has become of it.
Recover(p) ==
    /\ pass[p].pc = "recover"
    /\ \A r \in Run : exec[<<p, "startup", r>>].pc = "idle"
    /\ \/ \E r \in pass[p].todo :
             /\ leader = p
             /\ pass' = [pass EXCEPT ![p].todo = @ \ {r}]
             /\ Goto(<<p, "startup", r>>, "rehearse") /\ Meets(r)
             /\ UNCHANGED <<recordVars, chainVars, leader, holder, faults>>
       \/ /\ pass[p].todo = {}
          /\ pass' = [pass EXCEPT ![p] = PassIdle]
          /\ UNCHANGED <<recordVars, chainVars, leader, exec, holder, overlap, faults>>
       \/ pass[p].todo # {} /\ Deposed(p)

-----------------------------------------------------------------------------
(* The chain and the processes                                             *)

\* The target settles the authorization it was sent.
Charge(a) ==
    /\ chain[a] = "sent" /\ a \notin past
    /\ chain' = [chain EXCEPT ![a] = "used"]
    /\ UNCHANGED <<recordVars, past, filed, leader, exec, pass, holder, overlap, faults>>

Expire(a) ==
    /\ chain[a] # "unused" /\ a \notin past
    /\ past' = past \cup {a}
    /\ UNCHANGED <<recordVars, chain, filed, leader, exec, pass, holder, overlap, faults>>

Elect(p) ==
    /\ leader = None /\ pass[p].pc = "idle"
    /\ leader' = p
    /\ pass' = [pass EXCEPT ![p].pc = "list"]
    /\ UNCHANGED <<recordVars, chainVars, exec, holder, overlap, faults>>

\* The writer lock is lost under a process that lives on.
Depose ==
    /\ leader # None /\ Fault
    /\ leader' = None
    /\ UNCHANGED <<recordVars, chainVars, exec, pass, holder, overlap>>

Crash(p) ==
    /\ exec # [e \in Exec |-> Idle] \/ leader = p
    /\ exec' = [e \in Exec |-> IF Home(e) = p THEN Idle ELSE exec[e]]
    /\ pass' = [pass EXCEPT ![p] = PassIdle]
    /\ leader' = IF leader = p THEN None ELSE leader
    /\ holder' = IF holder # None /\ holder[1] = p THEN None ELSE holder
    /\ UNCHANGED <<recordVars, chainVars, overlap, faults>>

-----------------------------------------------------------------------------
ExecStep(e) ==
    \/ Settled(e) \/ Rehearse(e) \/ Rehearsed(e) \/ StageThrows(e) \/ Target(e) \/ Targeted(e)
    \/ Pay(e) \/ PaysNothing(e) \/ Enter(e) \/ Lapse(e) \/ Lookup(e) \/ Sign(e) \/ File(e) \/ Filed(e) \/ Send(e)
    \/ Respond(e) \/ Note(e) \/ Noted(e) \/ Verify(e) \/ Save(e) \/ Saved(e)
    \/ Caught(e) \/ Publish(e) \/ Published(e) \/ Finish(e) \/ Fail(e) \/ Failed(e) \/ FinishFailed(e)

PassStep(p) ==
    \/ List(p) \/ Take(p) \/ Find(p) \/ Look(p) \/ Clear(p) \/ Cleared(p) \/ PassNotes(p)
    \/ PassNoted(p) \/ PassVerifies(p) \/ PassSaves(p) \/ PassSaved(p) \/ Recover(p)

Next ==
    \/ \E e \in Exec : ExecStep(e)
    \/ \E p \in Proc : PassStep(p) \/ Elect(p) \/ Crash(p)
    \/ \E a \in Auth : Charge(a) \/ Expire(a)
    \/ Depose

Spec == Init /\ [][Next]_vars

\* Every execution and every startup goes on once it has begun.  No customer has
\* to pay, no target to charge, nobody to be elected, and nothing has to fail.
Fairness ==
    /\ \A e \in Exec : WF_vars(exec[e].pc # "idle" /\ ExecStep(e))
    /\ \A p \in Proc : WF_vars(pass[p].pc # "idle" /\ PassStep(p))

FairSpec == Spec /\ Fairness

-----------------------------------------------------------------------------
(* Properties                                                              *)

\* An authorization is charged only after it was recorded for its run; what is
\* saved as the payment of a run is a settlement that pays for no other, stays,
\* and consumed an authorization recorded for the run, unless two actors worked
\* on it at once: then the transaction a target names may be anybody's (pay, its
\* recovery and savePayment against TargetLedger).
Ledger == INSTANCE TargetLedger WITH
    charged <- {a \in Auth : chain[a] = "used"}, credit <- payment, shared <- overlap
ImplementsTargetLedger == Ledger!Spec

\* Authorizations recorded for r that the target may still charge.
Live(r) == {a \in Auth : filed[a] = r /\ chain[a] # "used" /\ a \notin past}

\* docs: no replacement while an authorization is live; the code keeps this
\* through crashes, restarts and recoveries, unless two actors work on the run
\* at once.
NoReplacementWhileLive ==
    \A r \in Run \ overlap : Cardinality(Live(r)) <= 1

\* A final record is not overwritten by a late write of an attempt, unless two
\* actors worked on the run at once.
FinalKept ==
    [][\A r \in Run \ overlap' : rec[r].state \in Final => rec'[r] = rec[r]]_vars

\* No execution that was to pay issues the passport of its rehearsal over an
\* attempt that is not saved as a payment, unless two actors worked on the run at
\* once (the inner catch of execute).  A passport that says not-rehearsable is
\* issued over one, see AttemptKeptRecoverable.
CompleteAwaitsAttempt ==
    [][\A e \in Exec :
          /\ exec[e].pc = "finish" /\ exec'[e].pc = "idle" /\ rec'[RunOf(e)].state = "complete"
          /\ ~exec[e].free /\ RunOf(e) \notin overlap
          => rec[RunOf(e)].attempt = None \/ OnFile(rec[RunOf(e)].attempt)]_vars

\* A charge of r that nobody works on, after a crash or a lost leadership.
Stranded(r, a) == column[r] = "target" /\ rec[r].attempt = a /\ chain[a] = "used" /\ ~Working(r)

Restarted == []<>(\E p \in Proc : pass[p].pc = "recover")

\* If the backend is started again and again, a charge that a crash interrupted is
\* saved as a payment: only a startup looks for it, and only where the target has
\* not named another transaction before the crash.
ChargeCredited ==
    Restarted => \A r \in Run, a \in Auth :
        (Stranded(r, a) /\ rec[r].hash \in {None, a} /\ payment[r] = None) ~> OnFile(a)

\* Violated: target.ts promises to recover a settlement "from the persisted signed
\* EIP-3009 nonce", whatever the target said of it.
SettlementRecovered ==
    Restarted => \A r \in Run, a \in Auth : (Stranded(r, a) /\ payment[r] = None) ~> OnFile(a)

\* Violated: a run is finalised while the outcome of its attempt is unknown, as a
\* not-rehearsable passport, which the comment at rehearsal.ts:541 excludes.
AttemptKeptRecoverable ==
    [][\A r \in Run \ overlap : rec[r].state \notin Final /\ rec'[r].state \in Final
                      => rec[r].attempt = None \/ OnFile(rec[r].attempt)]_vars

\* Violated: an authorization whose outcome is unknown is replaced, and a run
\* that only one actor ever worked on is charged twice.
ChargedOnce ==
    \A r \in Run \ overlap : Cardinality({a \in Auth : filed[a] = r /\ chain[a] = "used"}) <= 1
=============================================================================

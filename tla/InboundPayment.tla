--------------------------- MODULE InboundPayment ---------------------------
(***************************************************************************)
(* Paid admission of a run: the x402 hooks of inbound.ts over the durable  *)
(* run record of prisma-store.ts, the facilitator, the chain, and the      *)
(* reconciliation passes a new leader starts.                              *)
(*                                                                         *)
(* A run stands for its idempotency key, an authorization for the payload  *)
(* the payer signed and for the transaction that carries it.  A repository *)
(* call is one step (each is a transaction under advisory lock 1952002); a *)
(* hook is cut where it awaits something another task can observe.         *)
(***************************************************************************)
EXTENDS Naturals, FiniteSets

CONSTANTS
    Proc,       \* backend processes serving requests
    Call,       \* paid requests, each made once
    Pass,       \* reconciliation passes that may be running at the same time
    Run, Auth,  \* run reservations; signed payment authorizations
    None,
    Limit,      \* GLOBAL_RUN_LIMIT_PER_DAY
    MaxDay,     \* bound: last day of the behaviour
    MaxFaults   \* bound: process crashes

ASSUME NoneAssumption == None \notin Run \cup Auth \cup Call
ASSUME LimitAssumption == Limit \in Nat /\ MaxDay \in Nat /\ MaxFaults \in Nat
ASSUME FiniteAssumption == IsFiniteSet(Run)

VARIABLES
    run,        \* run[r]: the stored record
    today,      \* the UTC day
    transfer,   \* transfer[a]: what the chain made of authorization a
    asked,      \* the settlements the facilitator has been asked for
    chargedFor, \* history: the run for which a was sent to the chain, or None
    attempt,    \* attempt[p][a]: p's attempts map: the call that registered it
    inFlight,   \* inFlight[p]: idempotency keys with an attempt in flight
    call,       \* call[c]: progress of request c
    pass,       \* pass[k]: progress of reconciliation pass k
    faults

vars == <<run, today, transfer, asked, chargedFor, attempt, inFlight, call, pass, faults>>

RunState == {"none", "payment_required", "settlement_claimed", "payment_ambiguous",
             "payment_settled", "queued"}
RunRec == [state : RunState, lease : {"none", "live", "lapsed"},
           settlement : Auth \cup {None}, payment : Auth \cup {None}, day : 0..MaxDay]
NoRun  == [state |-> "none", lease |-> "none", settlement |-> None, payment |-> None, day |-> 0]

AttemptRec == [by : Call \cup {None}, claimed : BOOLEAN]
NoAttempt  == [by |-> None, claimed |-> FALSE]

CallPc  == {"idle", "admit", "admitNew", "reserve", "verify", "claimed", "verifyFailed", "handler",
            "settle", "settled", "confirm", "authorize", "start", "settleFailed", "done"}
CallRec == [pc : CallPc, home : Proc \cup {None}, run : Run \cup {None},
            auth : Auth \cup {None}, got : Call \cup {None}]
NoCall  == [pc |-> "idle", home |-> None, run |-> None, auth |-> None, got |-> None]

PassRec == [pc : {"idle", "list", "reset", "authorize", "mark"},
            todo : SUBSET (Run \X Auth), cur : (Run \X Auth) \cup {<<>>}]
NoPass  == [pc |-> "idle", todo |-> {}, cur |-> <<>>]

TypeOK ==
    /\ run \in [Run -> RunRec]
    /\ today \in 0..MaxDay
    /\ transfer \in [Auth -> {"unused", "pending", "success", "stray", "reverted"}]
    /\ asked \in SUBSET (Run \X Auth)
    /\ chargedFor \in [Auth -> Run \cup {None}]
    /\ attempt \in [Proc -> [Auth -> AttemptRec]]
    /\ inFlight \in [Proc -> SUBSET Run]
    /\ call \in [Call -> CallRec]
    /\ pass \in [Pass -> PassRec]
    /\ faults \in 0..MaxFaults

Init ==
    /\ run = [r \in Run |-> NoRun]
    /\ today = 0
    /\ transfer = [a \in Auth |-> "unused"]
    /\ asked = {}
    /\ chargedFor = [a \in Auth |-> None]
    /\ attempt = [p \in Proc |-> [a \in Auth |-> NoAttempt]]
    /\ inFlight = [p \in Proc |-> {}]
    /\ call = [c \in Call |-> NoCall]
    /\ pass = [k \in Pass |-> NoPass]
    /\ faults = 0

-----------------------------------------------------------------------------
(* The repository's transactions, as functions of the stored records f.    *)

Released(rec) == [rec EXCEPT !.state = "payment_required", !.lease = "none"]

\* expireCapacityClaims
Expired(f) ==
    [r \in Run |-> IF f[r].state = "settlement_claimed" /\ f[r].lease = "lapsed"
                   THEN Released(f[r]) ELSE f[r]]

\* countCapacity: runs created today that have left payment_required
Counted(f) ==
    {r \in Run : f[r].day = today /\ f[r].state \notin {"none", "payment_required"}}

\* Mutant of Reserved: the record is dated a day late.
ReservedLate(f, r) ==
    IF f[r].state # "none" THEN f
    ELSE [f EXCEPT ![r] = [NoRun EXCEPT !.state = "payment_required", !.day = today + 1]]

\* createProgress
Reserved(f, r) ==
    IF f[r].state # "none" THEN f
    ELSE [f EXCEPT ![r] = [NoRun EXCEPT !.state = "payment_required", !.day = today]]

\* Mutant of Claimable: the limit itself is let through.
ClaimableAtLimit(f, r) ==
    /\ Expired(f)[r].state = "payment_required" /\ f[r].payment = None
    /\ Cardinality(Counted(Expired(f))) <= Limit

\* claimRunCapacity: what it requires, and what it writes
Claimable(f, r) ==
    /\ Expired(f)[r].state = "payment_required" /\ f[r].payment = None
    /\ Cardinality(Counted(Expired(f))) < Limit
Claimed(f, r) ==
    [Expired(f) EXCEPT ![r].state = "settlement_claimed", ![r].lease = "live"]

\* Mutant of ReleasedRun: the state is not checked.
ReleasedAnyRun(f, r) == [f EXCEPT ![r] = Released(@)]

\* releaseRunCapacity
ReleasedRun(f, r) ==
    IF f[r].state = "settlement_claimed" THEN [f EXCEPT ![r] = Released(@)] ELSE f

\* Mutant of Recordable: a recorded settlement may be replaced.
RecordableAgain(f, r, a) == f[r].state \in {"settlement_claimed", "payment_ambiguous"}

\* recordPaymentSettlement
Recordable(f, r, a) ==
    \/ f[r].state = "settlement_claimed"
    \/ f[r].state = "payment_ambiguous" /\ f[r].settlement \in {None, a}
Recorded(f, r, a) ==
    [f EXCEPT ![r].state = "payment_ambiguous", ![r].settlement = a, ![r].lease = "none"]

\* markPaymentAmbiguous
Marked(f, r) ==
    IF f[r].state \in {"settlement_claimed", "payment_ambiguous"}
    THEN [f EXCEPT ![r].state = "payment_ambiguous", ![r].lease = "none"] ELSE f

\* resetPaymentAmbiguous: whatever settlement is recorded by now
Reset(f, r) ==
    IF f[r].state = "payment_ambiguous"
    THEN [f EXCEPT ![r] = [Released(@) EXCEPT !.settlement = None]] ELSE f

\* Mutant of Authorizable: the owner of the transaction is not looked up.
AuthorizableTwice(f, r, a) ==
    LET rec == Expired(f)[r] IN
    \/ rec.payment = a
    \/ /\ rec.payment = None
       /\ \/ rec.state = "settlement_claimed"
          \/ rec.state = "payment_ambiguous" /\ rec.settlement = a

\* authorizeRun of a settled payment, with the unique payment rows it inserts
Authorizable(f, r, a) ==
    LET rec == Expired(f)[r] IN
    /\ \/ rec.payment = a
       \/ /\ rec.payment = None
          /\ \/ rec.state = "settlement_claimed"
             \/ rec.state = "payment_ambiguous" /\ rec.settlement = a
    /\ \A q \in Run \ {r} : f[q].payment # a
Authorized(f, r, a) ==
    IF f[r].payment = a THEN Expired(f)
    ELSE [Expired(f) EXCEPT ![r].payment = a, ![r].state = "payment_settled", ![r].lease = "none"]

\* runReserved on an authorized run: authorizeRun again, then updateState
Queued(f, r) ==
    [Expired(f) EXCEPT ![r].state = IF @ = "payment_settled" THEN "queued" ELSE @]

-----------------------------------------------------------------------------
(* The hooks' own maps.                                                    *)

Goto(c, pc) == call' = [call EXCEPT ![c].pc = pc]
Att(c)      == attempt[call[c].home][call[c].auth]
AttRun(c)   == call[Att(c).by].run

\* cleanupAttempt(fingerprint, attempt), with the attempt's idempotency key
Cleanup(p, a, keys) ==
    /\ attempt' = [attempt EXCEPT ![p][a] = NoAttempt]
    /\ inFlight' = [inFlight EXCEPT ![p] = @ \ keys]

CleanupOwn(c) ==
    Cleanup(call[c].home, call[c].auth, IF Att(c).by = None THEN {} ELSE {AttRun(c)})

\* the synchronous end of onProtectedRequest
Register(c) ==
    LET p == call[c].home IN
    IF Att(c).by # None
    THEN Goto(c, "done") /\ UNCHANGED <<attempt, inFlight>>
    ELSE /\ attempt' = [attempt EXCEPT ![p][call[c].auth] = [by |-> c, claimed |-> FALSE]]
         /\ inFlight' = [inFlight EXCEPT ![p] = @ \cup {call[c].run}]
         /\ Goto(c, "verify")

hookVars  == <<attempt, inFlight>>
chainVars == <<transfer, asked, chargedFor>>
rest      == <<today, pass, faults>>

-----------------------------------------------------------------------------
(* onProtectedRequest                                                      *)

\* Reads the run; one that has left payment_required is refused or granted
\* access with nothing changed, which is no step.
Arrive(c) ==
    /\ call[c].pc = "idle"
    /\ \E p \in Proc, r \in Run, a \in Auth :
        /\ run[r].state \in {"none", "payment_required"}
        /\ call' = [call EXCEPT ![c] = [pc |-> IF run[r].state = "none" THEN "admitNew" ELSE "admit",
                                        home |-> p, run |-> r, auth |-> a, got |-> None]]
    /\ UNCHANGED <<run, chainVars, hookVars, rest>>

\* assertLeader has passed: the state read before it is not read again.
Admit(c) ==
    /\ call[c].pc \in {"admit", "admitNew"}
    /\ IF call[c].run \in inFlight[call[c].home]
       THEN Goto(c, "done") /\ UNCHANGED hookVars
       ELSE IF call[c].pc = "admitNew"
            THEN Goto(c, "reserve") /\ UNCHANGED hookVars
            ELSE Register(c)
    /\ UNCHANGED <<run, chainVars, rest>>

Reserve(c) ==
    /\ call[c].pc = "reserve"
    /\ run' = Reserved(run, call[c].run)
    /\ Register(c)
    /\ UNCHANGED <<chainVars, rest>>

\* assertLeader or the reservation throws.
Refuse(c) ==
    /\ call[c].pc \in {"admit", "admitNew", "reserve"}
    /\ Goto(c, "done")
    /\ UNCHANGED <<run, chainVars, hookVars, rest>>

\* The 60 s timer removes an attempt that has not been claimed.
AttemptTimesOut(p, a) ==
    /\ attempt[p][a].by # None /\ ~attempt[p][a].claimed
    /\ Cleanup(p, a, {call[attempt[p][a].by].run})
    /\ UNCHANGED <<run, chainVars, call, rest>>

-----------------------------------------------------------------------------
(* onAfterVerify and onVerifyFailure                                       *)

\* The facilitator finds the authorization valid; the attempt now registered
\* under it is the one whose run is claimed.
Verified(c) ==
    /\ call[c].pc = "verify"
    /\ IF Att(c).by # None /\ Claimable(run, AttRun(c))
       THEN /\ run' = Claimed(run, AttRun(c))
            /\ call' = [call EXCEPT ![c].pc = "claimed", ![c].got = Att(c).by]
       ELSE /\ Goto(c, "verifyFailed")
            /\ UNCHANGED run
    /\ UNCHANGED <<chainVars, hookVars, rest>>

Invalid(c) ==
    /\ call[c].pc = "verify"
    /\ CleanupOwn(c)
    /\ Goto(c, "done")
    /\ UNCHANGED <<run, chainVars, rest>>

\* claimRunCapacity returns; the attempt may have been removed meanwhile.
ClaimReturns(c) ==
    /\ call[c].pc = "claimed"
    /\ attempt' = IF Att(c).by = call[c].got
                  THEN [attempt EXCEPT ![call[c].home][call[c].auth].claimed = TRUE] ELSE attempt
    /\ Goto(c, "handler")
    /\ UNCHANGED <<run, chainVars, inFlight, rest>>

VerifyFailure(c) ==
    /\ call[c].pc = "verifyFailed"
    /\ run' = IF Att(c).claimed THEN ReleasedRun(run, AttRun(c)) ELSE run
    /\ CleanupOwn(c)
    /\ Goto(c, "done")
    /\ UNCHANGED <<chainVars, rest>>

\* The call ends and no hook runs: the route answered an error so nothing is
\* settled, assertLeader threw in onBeforeSettle, or the payment server does not
\* run the failure hook for a hook that threw.
Abandon(c) ==
    /\ call[c].pc \in {"handler", "verifyFailed", "settleFailed"}
    /\ Goto(c, "done")
    /\ UNCHANGED <<run, chainVars, hookVars, rest>>

-----------------------------------------------------------------------------
(* onBeforeSettle, the facilitator's settlement, and onSettleFailure       *)

Settle(c) ==
    /\ call[c].pc = "handler"
    /\ IF Att(c).claimed
       THEN Goto(c, "settle") /\ asked' = asked \cup {<<call[c].run, call[c].auth>>}
       ELSE Goto(c, "done") /\ UNCHANGED asked
    /\ UNCHANGED <<run, transfer, chargedFor, hookVars, rest>>

\* No payer, another payment of the payer settling, or its hourly limit reached.
RefusePayer(c) ==
    /\ call[c].pc = "handler" /\ Att(c).claimed
    /\ run' = ReleasedRun(run, AttRun(c))
    /\ CleanupOwn(c)
    /\ Goto(c, "done")
    /\ UNCHANGED <<chainVars, rest>>

\* The facilitator sends a transaction it was asked for, while the caller waits
\* or at any time after it got an error, timed out or died.
Broadcast(r, a) ==
    /\ <<r, a>> \in asked /\ transfer[a] = "unused"
    /\ transfer' = [transfer EXCEPT ![a] = "pending"]
    /\ chargedFor' = [chargedFor EXCEPT ![a] = r]
    /\ UNCHANGED <<run, asked, hookVars, call, rest>>

\* A "stray" transaction succeeds and does not hold the transfer asked for.
Mine(a) ==
    /\ transfer[a] = "pending"
    /\ \E outcome \in {"success", "stray", "reverted"} : transfer' = [transfer EXCEPT ![a] = outcome]
    /\ UNCHANGED <<run, asked, chargedFor, hookVars, call, rest>>

\* A hash comes back once there is a transaction, final or not; an error
\* comes back whatever happened.
SettleReturns(c) ==
    /\ call[c].pc = "settle"
    /\ \/ transfer[call[c].auth] # "unused" /\ Goto(c, "settled")
       \/ Goto(c, "settleFailed")
    /\ UNCHANGED <<run, chainVars, hookVars, rest>>

SettleFailure(c) ==
    /\ call[c].pc = "settleFailed"
    /\ run' = IF Att(c).claimed THEN Marked(run, AttRun(c)) ELSE run
    /\ CleanupOwn(c)
    /\ Goto(c, "done")
    /\ UNCHANGED <<chainVars, rest>>

-----------------------------------------------------------------------------
(* onAfterSettle: record the hash, prove the transfer, authorize, start    *)

RecordSettlement(c) ==
    /\ call[c].pc = "settled"
    /\ Att(c).claimed /\ AttRun(c) = call[c].run
    /\ Recordable(run, call[c].run, call[c].auth)
    /\ run' = Recorded(run, call[c].run, call[c].auth)
    /\ Goto(c, "confirm")
    /\ UNCHANGED <<chainVars, hookVars, rest>>

\* verifySettlementTransfer: a receipt that is final, successful, and holds the
\* transfer to the payout address for the amount asked.
TransferProved(a) == transfer[a] = "success"

\* settle/status polling and the receipt agree that the transfer is there.
Confirm(c) ==
    /\ call[c].pc = "confirm" /\ TransferProved(call[c].auth)
    /\ Goto(c, "authorize")
    /\ UNCHANGED <<run, chainVars, hookVars, rest>>

Authorize(c) ==
    /\ call[c].pc = "authorize"
    /\ Authorizable(run, call[c].run, call[c].auth)
    /\ run' = Authorized(run, call[c].run, call[c].auth)
    /\ Goto(c, "start")
    /\ UNCHANGED <<chainVars, hookVars, rest>>

Start(c) ==
    /\ call[c].pc = "start"
    /\ run' = Queued(run, call[c].run)
    /\ Cleanup(call[c].home, call[c].auth, {call[c].run})
    /\ Goto(c, "done")
    /\ UNCHANGED <<chainVars, rest>>

\* assertLeader, a guard of the above, the polling or an RPC call throws.
AfterSettleThrows(c) ==
    /\ call[c].pc \in {"settled", "confirm", "authorize", "start"}
    /\ Goto(c, "settleFailed")
    /\ UNCHANGED <<run, chainVars, hookVars, rest>>

-----------------------------------------------------------------------------
(* reconcilePendingLaunchPayments and recoverPendingRuns, run by a new     *)
(* leader; a pass stops at any point when its process dies or is deposed.  *)

\* A deposed pass is refused by its next assertLeader; a write for which its
\* last one was granted may still be under way.
Deposed(ps) ==
    IF ps.pc \in {"reset", "authorize", "mark"} THEN [ps EXCEPT !.todo = {}] ELSE NoPass

PassStarts(k) ==
    /\ pass[k].pc = "idle"
    /\ LET pending == {<<r, run[r].settlement>> :
                         r \in {q \in Run : /\ run[q].state = "payment_ambiguous"
                                            /\ run[q].settlement # None}} IN
       /\ pending # {}
       /\ pass' = [j \in Pass |-> IF j = k THEN [pc |-> "list", todo |-> pending, cur |-> <<>>]
                                  ELSE Deposed(pass[j])]
    /\ UNCHANGED <<run, today, chainVars, hookVars, call, faults>>

\* Reads the receipt of one listed settlement, proves the transfer or fails to
\* (it is not there, or a call throws), and is granted the write that follows;
\* without a receipt it moves on.
PassReadsReceipt(k) ==
    /\ pass[k].pc = "list"
    /\ \E item \in pass[k].todo, next \in {"list", "reset", "authorize", "mark"} :
        /\ next = "reset" => transfer[item[2]] = "reverted"
        /\ next = "authorize" => TransferProved(item[2])
        /\ next = "mark" => transfer[item[2]] \in {"success", "stray"}
        /\ pass' = [pass EXCEPT ![k] = [pc |-> next, todo |-> @.todo \ {item}, cur |-> item]]
    /\ UNCHANGED <<run, today, chainVars, hookVars, call, faults>>

PassResets(k) ==
    /\ pass[k].pc = "reset"
    /\ run' = Reset(run, pass[k].cur[1])
    /\ pass' = [pass EXCEPT ![k].pc = "list"]
    /\ UNCHANGED <<today, chainVars, hookVars, call, faults>>

PassAuthorizes(k) ==
    LET r == pass[k].cur[1]  a == pass[k].cur[2] IN
    /\ pass[k].pc = "authorize"
    /\ IF Authorizable(run, r, a)
       THEN run' = Authorized(run, r, a) /\ pass' = [pass EXCEPT ![k].pc = "list"]
       ELSE UNCHANGED run /\ pass' = [pass EXCEPT ![k].pc = "mark"]
    /\ UNCHANGED <<today, chainVars, hookVars, call, faults>>

PassMarks(k) ==
    /\ pass[k].pc = "mark"
    /\ run' = Marked(run, pass[k].cur[1])
    /\ pass' = [pass EXCEPT ![k].pc = "list"]
    /\ UNCHANGED <<today, chainVars, hookVars, call, faults>>

\* The pass is over, refused, or its process has died.
PassStops(k) ==
    /\ pass[k].pc # "idle"
    /\ pass' = [pass EXCEPT ![k] = NoPass]
    /\ UNCHANGED <<run, today, chainVars, hookVars, call, faults>>

RecoverRun(r) ==
    /\ run[r].state = "payment_settled"
    /\ run' = Queued(run, r)
    /\ UNCHANGED <<chainVars, hookVars, call, rest>>

-----------------------------------------------------------------------------
(* Time and crashes                                                        *)

\* Five minutes have passed since the claim.
LeaseLapses(r) ==
    /\ run[r].state = "settlement_claimed" /\ run[r].lease = "live"
    /\ run' = [run EXCEPT ![r].lease = "lapsed"]
    /\ UNCHANGED <<chainVars, hookVars, call, rest>>

NextDay ==
    /\ today < MaxDay
    /\ today' = today + 1
    /\ UNCHANGED <<run, chainVars, hookVars, call, pass, faults>>

Crash(p) ==
    /\ faults < MaxFaults
    /\ faults' = faults + 1
    /\ call' = [c \in Call |-> IF call[c].home = p THEN [call[c] EXCEPT !.pc = "done"] ELSE call[c]]
    /\ attempt' = [attempt EXCEPT ![p] = [a \in Auth |-> NoAttempt]]
    /\ inFlight' = [inFlight EXCEPT ![p] = {}]
    /\ UNCHANGED <<run, today, chainVars, pass>>

-----------------------------------------------------------------------------
Request(c) ==
    \/ Admit(c) \/ Reserve(c) \/ Refuse(c)
    \/ Verified(c) \/ Invalid(c) \/ ClaimReturns(c) \/ VerifyFailure(c) \/ Abandon(c)
    \/ Settle(c) \/ RefusePayer(c) \/ SettleReturns(c) \/ SettleFailure(c)
    \/ RecordSettlement(c) \/ Confirm(c) \/ Authorize(c) \/ Start(c) \/ AfterSettleThrows(c)

Reconcile(k) ==
    \/ PassStarts(k) \/ PassReadsReceipt(k) \/ PassResets(k) \/ PassAuthorizes(k)
    \/ PassMarks(k) \/ PassStops(k)

Next ==
    \/ \E c \in Call : Arrive(c) \/ Request(c)
    \/ \E k \in Pass : Reconcile(k)
    \/ \E p \in Proc, a \in Auth : AttemptTimesOut(p, a)
    \/ \E r \in Run, a \in Auth : Broadcast(r, a)
    \/ \E a \in Auth : Mine(a)
    \/ \E r \in Run : RecoverRun(r) \/ LeaseLapses(r)
    \/ \E p \in Proc : Crash(p)
    \/ NextDay

Spec == Init /\ [][Next]_vars

\* The event loop, the timers, the chain and a new leader's recovery run; no
\* client has to call, no process has to crash, and the facilitator need not send.
Fairness ==
    /\ \A c \in Call : WF_vars(Request(c))
    /\ \A k \in Pass : WF_vars(Reconcile(k))
    /\ \A p \in Proc, a \in Auth : WF_vars(AttemptTimesOut(p, a))
    /\ \A a \in Auth : WF_vars(Mine(a))
    /\ \A r \in Run : WF_vars(RecoverRun(r)) /\ WF_vars(LeaseLapses(r))

FairSpec == Spec /\ Fairness
-----------------------------------------------------------------------------
(* Properties                                                              *)

\* Every run is paid once, by a transfer that succeeded and pays for no other
\* run: authorizeRun and the reconciliation implement PaymentLedger, whatever
\* the requests, the leases and two processes do (prisma-store.ts:213-287).
Ledger == INSTANCE PaymentLedger WITH paid <- [r \in Run |-> run[r].payment]
ImplementsPaymentLedger == Ledger!Spec

\* An ambiguous run leaves that state only as the chain decided: authorized with
\* the very settlement recorded, or reset by a reconciliation that has read the
\* revert of a settlement of that run (inbound.ts:277-334).  And a recorded
\* settlement is never replaced by another.
AmbiguousResolvedByChain ==
    [][\A r \in Run :
        run[r].state = "payment_ambiguous" =>
            \/ /\ run'[r].state = "payment_ambiguous"
               /\ run[r].settlement # None => run'[r].settlement = run[r].settlement
            \/ /\ run'[r].state = "payment_settled"
               /\ run'[r].payment = run[r].settlement
               /\ transfer[run[r].settlement] = "success"
            \/ /\ run'[r].state = "payment_required"
               /\ \E k \in Pass :
                    /\ pass[k].pc = "reset" /\ pass[k].cur[1] = r
                    /\ transfer[pass[k].cur[2]] = "reverted"]_vars

\* Runs created today never hold more capacity than the daily limit: expiring,
\* counting and claiming are one transaction (prisma-store.ts:289-317), and
\* nothing else takes a run out of payment_required.
CapacityHolds == Cardinality(Counted(run)) <= Limit

\* A live lease belongs to a claim, a settlement to a run that is or was
\* ambiguous, and a payment to a run that never asks for payment again.
RecordConsistent ==
    \A r \in Run :
        /\ run[r].lease # "none" <=> run[r].state = "settlement_claimed"
        /\ run[r].settlement # None => run[r].state \in {"payment_ambiguous", "payment_settled", "queued"}
        /\ run[r].payment # None <=> run[r].state \in {"payment_settled", "queued"}
        /\ run[r].payment # None => run[r].settlement \in {None, run[r].payment}

\* Violated: a settlement of unknown outcome stays on record, and is forgotten
\* only when it is confirmed to have reverted (PROJECT_IMPLEMENTATION.md:215-216).
OnlyRevertedForgotten ==
    [][\A r \in Run :
        run[r].settlement # None /\ run'[r].settlement # run[r].settlement
            => transfer[run[r].settlement] = "reverted"]_vars

\* Violated: PROJECT_IMPLEMENTATION.md:216, a missing result stays ambiguous and the
\* backend will not attempt another charge.
OneChargePerRun ==
    \A a, b \in Auth :
        (transfer[a] = "success" /\ transfer[b] = "success" /\ chargedFor[a] = chargedFor[b]) => a = b

\* Violated: inbound.ts:141, a key refused as "already in flight" has an attempt in flight,
\* so it does not stay refused for ever.
KeyEventuallyFree ==
    \A p \in Proc, r \in Run : (r \in inFlight[p]) ~> (r \notin inFlight[p])
=============================================================================

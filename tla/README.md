# LaunchProof in TLA+

LaunchProof sells a *rehearsal* of an MCP tool: a payer settles an x402 charge, the
backend calls the target as a customer would (discover, challenge, pay, compare),
and anchors the resulting evidence in a write-once registry contract as a
*launch passport*. Money moves before the work is done, three stores have to agree
(PostgreSQL, the payment chain, the registry), and the backend may be running twice
while one instance replaces another. These modules model that part of the system: who
may write, what a payment buys, how a passport is earned, which evidence ends up anchored,
and what a reader of the registry is told.

Paths below are relative to the repository root, lines are `file:line`.

## 1. The system

### 1.1 Components

| Component | State it keeps | Operations | What makes it correct |
|---|---|---|---|
| **Writer leadership** `backend/src/leadership/leader.ts`, `index.ts` | coordinator state, fence, abort signal, one database session per process; in PostgreSQL the advisory lock and the `LeadershipEpoch` row | `start`, `pollNow`, `acquire`, `assertLeader`, `loseLeadership`, `stop`; `tryAcquire`, `ownsLock`, `nextFence`, `release`, `close` of a session | a leader on a live connection owns the lock; no fence numbers two terms; the lock is never leaked |
| **Inbound payments** `payments/inbound.ts` | per process: `attempts` by payload fingerprint, `inFlight` idempotency keys | the x402 hooks `onProtectedRequest`, `onAfterVerify`, `onVerifyFailure`, `onBeforeSettle`, `onAfterSettle`, `onSettleFailure`; `reconcilePendingLaunchPayments` | a run is paid once by one confirmed transfer, and only the chain decides a run whose outcome is unknown |
| **Run repository** `db/prisma-store.ts`, `db/store.ts` | run record: state, capacity lease, settlement, payment, publication candidate, evidence; unique payment rows | `createProgress`, `claimRunCapacity`, `releaseRunCapacity`, `recordPaymentSettlement`, `markPaymentAmbiguous`, `resetPaymentAmbiguous`, `authorizeRun`, `updateState`, `recordPublicationAttempt`, `saveRun` | the daily capacity; a record's parts agree; nothing overwrites a final record |
| **Rehearsal worker** `workers/rehearsal.ts` | `active` set of each service instance, the run being executed: gates, invocations, latencies | `reserve`, `runReserved`, `execute`, `publishNotRehearsable`, `recoverPendingRuns` | a verified passport was earned; a charge is in the evidence; nothing is judged while its outcome is unknown |
| **Target payments** `payments/target.ts` | attempt and payment on the run record, the signed authorization, advisory locks 1952001 and 1952004 | `pay`, `payExclusive`, `verifyTargetTransfer`, `reconcilePendingTargetPayments` | an authorization is on record before it can be charged, is credited to its run, and is not replaced while it can be charged |
| **Evidence** `evidence/*.ts`, `assertions/engine.ts`, `challenges/generator.ts` | none | what is kept of an answer, comparison, classification, `validateCanonicalEvidence` | the worker and the validator read a record alike |
| **Launch contract and target client** `launch-contract/schema.ts`, `mcp/target-client.ts`, `security/*.ts` | a session id | parsing, tool schemas, calls | a tool schema is closed and bounded; its readers agree on it |
| **Registry service** `chain/registry.ts` | `registryWriterLimit` per process; the index cursor | `publish`, `publishExclusive`, `reconcilePendingPublications`, `rebuildIndex`, `load`, `readPublishedRun`, `verifyStrict` | what is sent can be found again; the completed evidence is the anchored one; the index has no hole; what is shown of a run is proved |
| **Registry contract** `contracts/src/LaunchProofRegistry.sol` | `runs` by run id | `publishRun`, views | write-once; the backend's records are accepted |
| **Gates and statuses** `domain/gates.ts`, `packages/passport-gate/src/primitives.ts` | none | bitmap and status encoding, decoding | three readers of one record agree |
| **PassportGate** `packages/passport-gate/src/engine.ts`, `backend/src/passport-gate/service.ts` | none | `check`, `evaluatePassportGate` | a service is allowed only on a passport the chain proves now, for the identity it signs now; the newest one decides |
| **REST and MCP** `rest/app.ts`, `mcp/server.ts` | rate limiters | paid requests, `onSettled`, `GET /runs`, `GET /runs/:runId`, the gate check | a public claim about a run comes from the chain |
| **Config, preflight, wrappers, frontend, fixtures, scripts, acceptance** | caches, sockets | I/O | - |

### 1.2 How they interact

* `index.ts` starts one `LeaderCoordinator`. When it becomes leader,
  `runLeaderStartup` rebuilds the index, reconciles pending publications, then
  payments and target payments, then recovers paid runs; if any of these throws, leadership is given up. A timer
  repeats the publication reconciliation every 30 s while the process leads.
* Every handler that writes calls `assertLeader()` first and writes afterwards: the
  check and the act are separated by at least one `await`.
* REST and MCP requests enter through the payment hooks; `onSettled` starts the run in
  the background through `runReserved`.
* `execute` ends in `publish`; its `onPrepared` callback writes the candidate into the run
  record before the transaction is broadcast.
* `index.ts` makes two `RehearsalService`s, one for requests and one for the startup of a
  leader. Each has an `active` set of its own; they meet in the run record and in the
  advisory locks of PostgreSQL.
* Every execution fetches the launch contract again, a recovered one included: the provider may have changed it.
* `execute` calls `pay` between the challenges and the assembly of the evidence; `pay` writes
  the signed authorization into the run record before the request that may be charged.
* The database is an index of the chain: `rebuildIndex` fills it, the PassportGate takes its
  candidates from it, and every candidate, and the record shown for one run (`GET /runs/:runId`), is then read
  from the chain again. The lists (`GET /runs`, `GET /status`) answer the rows as they are.
* The hooks of a request communicate only through the `attempts` map (keyed by the
  payer's payload) and the run record, not through local variables.

### 1.3 What is hard

Two processes overlap at every deployment; one may not know that it has been deposed.
Every `await` lets another hook, timer or process run. A PostgreSQL
session can vanish under a client that reconnects lazily. A facilitator or an RPC node can
time out after it has acted, or act after it has been given up. Leases and attempt timers run down while a charge is in
flight. A target may answer anything, late or never, after it has taken the money, and name any
transaction as the one that took it. RPC nodes
lag and blocks are replaced. `PROJECT.json` lists the hazards, each at the line where it bites, with the
property that watches it or the reason none does.

## 2. The modules

| Module | Models | Role |
|---|---|---|
| `FencedWriter` | - | abstract: terms numbered by fences used once |
| `Leadership` | `leader.ts`, the lock and the epoch row | implements `FencedWriter` |
| `LeadershipProofs` | - | theorems about `Leadership` |
| `PaymentLedger` | - | abstract: one confirmed transfer pays one run, for good |
| `InboundPayment` | `inbound.ts`, its repository calls, facilitator, chain | implements `PaymentLedger` |
| `InboundPaymentProofs` | - | theorems about `InboundPayment` |
| `Anchoring` | - | abstract: one evidence per run is anchored and completes it |
| `Publication` | the end of `execute`, `publish`, reconciliation, index | implements `Anchoring` |
| `PublicationProofs` | - | theorems about `Publication` |
| `TargetLedger` | - | abstract: a charge was on file first and is credited once, to its run |
| `TargetPayment` | `target.ts`, its calls in `execute`, its repository operations, the startup of a leader | implements `TargetLedger` |
| `TargetPaymentProofs` | - | theorems about `TargetPayment` |
| `ToolSchema` | the three readers of a tool's input schema | operators |
| `Evidence` | what the worker keeps of an answer; `validate.ts` | operators, uses `ToolSchema`, `Gates` |
| `Rehearsal` | the stages of `execute`, its catch clauses, `publishNotRehearsable` | uses `Evidence` |
| `RehearsalProofs` | - | theorems about `Rehearsal` |
| `PassportGate` | `engine.ts`, the proof built by `service.ts` | operators, uses `Gates` |
| `RegistryIndex` | `load`, block search, log chunks, `rebuildIndex`, the chain, the rows | uses `PassportGate` |
| `RegistryIndexProofs` | - | theorems about `RegistryIndex` |
| `PassportService` | `PassportGateService.check` | composed with `RegistryIndex` |
| `PassportServiceProofs` | - | theorems about `PassportService` |
| `Gates` | `gates.ts`, the contract's check, `primitives.ts` | operators |
| `RegistryContract` | `LaunchProofRegistry.sol` and what the backend submits | uses `Gates` |
| `RegistryContractProofs` | - | theorems about `RegistryContract` |
| `MC...` | - | TLC instances: symmetry sets, the enumerated inputs, and two action constraints |

Each model is cut at the awaits of the code: a step is the synchronous code between two
awaits, or one database transaction, or one move of the environment. Operators named
`...` after `\* Mutant of X` in a module are deliberately wrong variants of `X`; nothing refers to
them. They document which mistake each property catches.

### 2.1 Leadership

`state`, `fence`, `session`, `aborted` are the coordinator's fields of the same name
(`current.state`, `current.fence`, `this.session`, the signal of the abort controller);
`phase` is what `start()` and `stop()` do to the timer. `task[p][t]` is the continuation of one
asynchronous task: `"poll"` (`pollNow`, which the `ticking` flag keeps single), `"stop"`, and the
callers of `assertLeader`. A query is three steps: issued by the client, executed by the
database (`ExecTry`, `ExecFence`, `ExecOwns`, `ExecRelease`), consumed by the client.
`Lose` is `loseLeadership` up to its first await and `LoseReturns` the rest, which runs
after other tasks may have changed the coordinator: it notifies with the current state, so a
coordinator that has acquired meanwhile runs its startup again, and a startup that throws skips the reset
to standby (`leader.ts:142`). `holder` and `depth` are the re-entrant
session lock, `gone` the sessions closed by their client, `severed` those whose connection
was lost under a client that still uses them. `ExecFence` does not look at the lock: the
code's upsert does not either, and a reconnecting client runs it on a new connection.

Abstractions: the startup listener is one step that succeeds or fails. A query may fail before or after
the database has executed it (`QueryFails`, a lost reply). A crash
is followed by a restart with a fresh coordinator. `MaxFaults` bounds failed queries,
lost connections, failed startups, crashes and stops together. An `assertLeader` that refuses
at once is not a step.

### 2.2 InboundPayment

`run[r]` is the stored record, `attempt[p]` and `inFlight[p]` the maps of one process,
`call[c]` the progress of one request, `pass[k]` one reconciliation, `transfer[a]` the
chain's view of a payer's authorization. A run stands for its idempotency key, an authorization
for the payload fingerprint and the transaction that carries it. The repository's
transactions are operators on the stored records (`Claimed`, `Released`,
`Recorded`, `Marked`, `Reset`, `Authorized`...), used by hooks and passes alike.
`Att(c)` is looked up again in each hook, as the code does by
fingerprint, so a hook may find the attempt of another request. `asked` are the settlements the facilitator was asked for:
it may send their transactions at any time from then on (`Broadcast`), also after the call has failed and the
lease has lapsed, or never. A sent transaction stays pending, succeeds, reverts, or is `"stray"`: successful
without the transfer asked for, which reconciliation does not take for a payment (`inbound.ts:596`).

Abstractions: the payer's in-flight and hourly limits are a free choice (`RefusePayer`);
`assertLeader` refuses whenever it likes; the payment server may or may not call the
failure hook after a hook has thrown (`Abandon`), which the repository does not determine;
a lease lapses any time after the claim and the attempt timer any time before it;
each request is made once; only settled payments are modelled, not the local-development path, and only the PostgreSQL
repository. Deposed passes (`Deposed`) may complete the one write that their last
`assertLeader` allowed.

### 2.3 Publication

A worker is one execution `<<p, r>>` or one of the reconciliations `<<p, "startup">>`,
`<<p, "timer">>`; it carries what it publishes as (`execute`, `publishNotRehearsable`,
`reconcile`), the evidence and the transaction. `Exclusive` are the program counters that
`registryWriterLimit` serialises within a process, and only there. `Anchored(r)` is
the registry: the first transaction mined for a run succeeds, later ones revert. `Throw`,
`ThrowUnknown` and `Rethrow` are where an error of `publish` goes: the catch block of
`execute`, the swallowing catch of `publishNotRehearsable`, or the reconciliation, which at startup costs the leadership.

A write whose reply is lost stands although its worker throws: the candidate is recorded and its transaction not sent
(`PersistReplyLost`), or the run is saved and its payment is not (`SavedThenThrows`).

Abstractions: a member of `Proc` is one lifetime of a process, and the last one left does
not crash (a successor is another member); a process executes a run once; the stages of
a rehearsal are one step that succeeds or throws, with or without a manifest; evidence is
identified by who made it and its kind, since it is dated; a transaction may stay unmined
for ever and may revert for any reason; an RPC read may always fail, and reading "absent"
when the record is there costs a fault; a record the index refuses to take (quarantine)
is `Index` not happening. The index is the `runs` it writes, the cursor is not modelled.

### 2.4 Gates and RegistryContract

`Gates` has the encoding on both sides: `GateBitmap`, `PassportStatus`, `ContractStatus` of
the backend, `GateStatusIsValid` of the contract, `DecodeGateBitmap` of the gate library.
`RegistryContract` lets anyone call `publishRun` with any record and signature, and the
backend with the records `registry.ts:171-206` builds from the gates a
rehearsal can end with (`Rehearsed`, `NoneTested`). A hash is what was hashed; the
mandatory non-zero fields are one flag.

### 2.5 TargetPayment

`rec[r]` is the run record with its attempt and transaction hash, `column[r]` the state column
the recoveries filter by (written with the record, but not read with it), `payment[r]` the row of
the target payment. `exec[<<p, service, r>>]` is one execution of a run by one of the two services
of a process, `pass[p]` its startup. A read-modify-write of the record is two steps, because
`updateState` and `saveRun` hold advisory lock 1952003 and the operations on the attempt 1952004:
`UpdateReads`/`UpdateWrites`, `File`/`Filed`, `Note`/`Noted`, `Clear`/`Cleared`, `PassNotes`/`PassNoted`.
A `PAYMENT-RESPONSE` may name any transaction (`Respond`): the one that consumed the authorization, one of another run
with the same terms (`Foreign`), or one that moved nothing (`Stray`). `Note` records what was named, and from then on every startup verifies
that one and never searches for the nonce (`PassVerifies`). The nonce is compared only when the record that is read has an attempt (`Verified`). `savePayment` is
two steps (`Save`, `Saved`), its reads and its upsert, and may throw in either.
`holder` is lock 1952001 of `withTargetPaymentLock`; `Lapse` is its 35 s timeout, after which the
callback runs on without the lock. `chain[a]` follows an authorization from signature to charge; the
target may charge what it was sent until `valid_before` has passed. `Find` and
`Look` are the two reads of the reconciliation, in the code's order.

Abstractions: an authorization stands for its nonce and the transaction that consumes it; the terms
a target offers are acceptable or not; waiting for the lock does not time out; the stages before the payment are one step that
succeeds or throws; publication is one step here (its own steps are `Publication`). `overlap`
is a history variable: the runs two actors have worked on at once. The properties that fail
for those say so, since nothing in the code keeps a run to one actor.

### 2.6 ToolSchema, Evidence and Rehearsal

A schema says for each field whether it is declared and takes the value it is given, which fields are
required and which branches `anyOf` has. `Admitted` is the client's parser, `WorkerMatches` the worker's
discovery gate, `ValidatorMatches` the validator's reading of the same schema, `InvalidInputs` the
probe the worker makes from it. An answer is abstracted to what became of the
expected fields, its error code, what the error says and whether it was late; `Evidence` has what is
written down of it and what the validator recomputes from that alone.

`Rehearsal` follows one paid run. `Fetch` takes the contract anew in every execution, and it may be any other one: only what
the request and the configuration say of it stays (`SameRequest`). A payment and an attempt carry the terms they were made under. The target answers any member of the answer sets at each stage,
`StageThrows` may happen at any of them, `Crash` restarts the execution (or strands it
with an attempt on record until `Reconciled`). `published` is the evidence that reached the chain.
`pc = "longcaught"` is an error whose message is too long for the evidence schema. `blind` marks a failed
lookup of the saved payment (`rehearsal.ts:643`).

Abstractions: canonical JSON and hashes are the identity of what they are made of; latencies and texts are left out except for what a
gate or a schema bound reads; publication is one step that succeeds, as `Publication` models its failures.

### 2.7 RegistryIndex, PassportGate and PassportService

`chain` is the sequence of blocks since the registry's deployment, `published` what each run anchored,
`db` the finalized rows, `cursor` and `pass` the index. Reads are answered from a view of the chain that may lag;
`Reorganise` replaces the newest blocks, `Tamper` alters or deletes a row. `head` is the highest block there has been:
a block that `Depth` others have followed is final, so two reorganisations in a row reach no deeper than one.
`IndexSpec` is the index by itself; `GateSpec` adds the checks, which only read. `Load` is the
verification of one run, whose many comparisons are abstracted to the form of the record: `sound`
verifies, `unsettled` lacks a transfer, `flawed` and `unreadable` fail as they say. Whether the settlements of a record are
read is a choice of each verification (`transfersRead`): a receipt the node asked does not have counts as a mismatch (`registry.ts:870`). `Shown` is
`GET /runs/:runId`, `RecentRuns` and `ListedRow` what `GET /runs` and `GET /status` answer. `Overlap` and
`ChunkSize` are the code's 12 and 100 blocks, scaled down. Form is a constant of the evidence: the settlements lie in blocks that are not modelled, so a
reorganisation that removes a settlement and leaves its record is not covered.

`check` is one call of `PassportGateService.check`, a step per read: the contract, the boundary, the
candidates, each verification, the decision. `newest` holds the candidate that decides, or nothing; `listed` when the
candidates were mined, `unseen` those that the node asked did not show. `PassportGate` is the pure decision. The thirteen
verification flags of a proof are kept as four, which the module's header names.

## 3. What the runs check

| Run | Instance | States | Question |
|---|---|---|---|
| `leadership_safety` | 2 processes, 1 caller each, 2 faults, either may be stopped | 1.7 million | `LeaderHoldsLock`, `NoOrphanedLock`, `ClosedSessionUnused`, refinement of `FencedWriter` |
| `leadership_liveness` | the same, 1 fault, nobody stopped | 45 thousand | `LeaderEmerges`, `LostIsTransient` |
| `inbound_safety` | 2 processes, 2 requests, 2 runs, 2 authorizations, 1 pass, limit 1, 2 days, 1 crash | 0.6 million | `CapacityHolds`, `RecordConsistent`, `AmbiguousResolvedByChain`, refinement of `PaymentLedger` |
| `publication_safety` | 2 processes, 1 run, 2 transactions, 1 fault | 1.2 million | `SentIsRecorded`, refinement of `Anchoring` |
| `publication_liveness` | 2 processes, 1 run, 1 transaction, 1 fault | 0.2 million | `MinedCandidateResolved` |
| `target_payment` | 1 process with both services, 1 run, 2 authorizations, 1 foreign transaction, 1 fault, under fairness | 0.6 million | `NoReplacementWhileLive`, `FinalKept`, `CompleteAwaitsAttempt`, `ChargeCredited`, refinement of `TargetLedger` |
| `rehearsal` | 127 contracts, 2 terms of payment, 11 tool schemas, 4 answers to each call, crashes, a contract that changes | 3.1 million | `ReadAlike`, `VerifiedEarned`, `PaymentPublished`, `AttemptNotJudged`, `ProbeRefused` |
| `passport` | 2 runs, 3 kinds of evidence, 4 blocks, 3 times, 1 fault, overlap and chunks of 2 blocks | 1.1 million | `IndexComplete`, `IndexSound`, `ShownProved`, `LocateExact`, `AllowProved`, `NewestDecides` |
| `registry_contract` | 243 gate assignments and malformed bitmaps, 2 accounts | 1,457 | `ReadersAgree`, `BackendAccepted`, `WriteOnce` |

*Why these bounds.* Leadership: the lock has one owner, so two processes are all the roles
there are (owner, contender); two faults allow one to hit the recovery from the other.
InboundPayment: two authorizations are needed to charge twice, two runs to confuse an attempt's
run, two processes because the maps are per process, a limit of 1 to be at the limit with
two runs, a second day for the midnight the capacity count depends on. Publication: two
transactions are needed for a republication and for two processes to race for the same run;
liveness needs one. The contract's records are independent of each other, so one run id is
enough, and all 3^5 gate assignments are enumerated.

TargetPayment: one process has both services, so two actors can meet in one run; its restarts
are new lifetimes; two authorizations are needed for a replacement, a foreign transaction for a credit that is not the run's; a
stray one does what an authorization does that nobody charged. A second run only adds the
budget and the uniqueness of a payment's row, which a foreign transaction cannot show; the refinement is proved for any number. Rehearsal: contracts that differ from a plain
paying one in up to two respects, since each respect is looked at by a check of its own, and free ones with
every combination of sample and schema; two terms are what it takes to change them. Passport: two passports are needed
for one to be newer, four blocks for an index pass that begins above the deployment block
and for a range of two chunks, the lag and the reorganisation together are as deep as the overlap.

`Passport.cfg` sets the action constraint `Commuting`. It leaves out orders of independent steps,
not states of the code: a check reads the rows in one step and from then on only the chain; a
block that arrives in between could have arrived before the rows were read and not
been seen (a view may lag), a row that changes later is not read again. Only a reorganisation takes away what a
check has seen, and stays allowed throughout. Passes run beside the check neither read nor
write what it uses except rows, which `Finalize` also adds, so a check starts where no pass has run.
The index properties are checked on all behaviours of the index without the check.

`Target_payment.cfg` sets `SignedInOrder`: a nonce is random, so of the authorizations not yet signed it does not matter which
is next; the run has a liveness property, for which TLC's symmetry may not be used.

`CHECK_DEADLOCK FALSE` is set where the bounded instance comes to rest: no faults left,
every request made, every run final. `leadership_liveness` keeps the deadlock check: a coordinator polls for ever.

### 3.1 Properties

* `LeaderHoldsLock`: leader, with a session whose connection was not lost, implies lock owner. Racing `loseLeadership`,
  `acquire` and `stop` do not break this, although they share fields across awaits.
* `NoOrphanedLock`: whoever owns the lock is in use, being released, or closed; otherwise every
  other process would be locked out.
* `ClosedSessionUnused`: a session handed to `close()` is not used again; Prisma would
  reconnect it silently.
* `ImplementsFencedWriter`: a fence numbers one term.
* `CapacityHolds`: expiry, count and claim are one transaction; no other route leaves `payment_required`.
* `RecordConsistent`: lease, settlement, payment and state of a record agree.
* `AmbiguousResolvedByChain`: an ambiguous run leaves that state only with its recorded
  settlement confirmed, or reset by a pass that has read a revert of the settlement it looked at
  (which need no longer be the recorded one, see `OnlyRevertedForgotten` in 3.3).
* `ImplementsPaymentLedger`: a run is paid once, by a transfer that succeeded and pays for no other run.
* `SentIsRecorded`: a transaction is a recorded candidate before it can reach the chain.
* `ImplementsAnchoring`: a run is completed once, with the evidence the registry anchored.
* `MinedCandidateResolved`, `LeaderEmerges`, `LostIsTransient`: liveness.
* `ImplementsTargetLedger`: an authorization is charged only after it was recorded for its run; what is saved as the
  payment of a run is a settlement that pays for no other, stays, and consumed an authorization recorded for that run. The
  last holds for runs that two actors have not worked on at once: for those the nonce check may find no attempt to
  compare with, and a foreign settlement that the target names is credited (`target.ts:480`). Lapsed locks,
  overwritten records and whatever a target names do not break the rest.
* `NoReplacementWhileLive`, `FinalKept`, `CompleteAwaitsAttempt`: one live authorization per run, no late write over
  a final record, no passport of a rehearsal over an attempt that is not saved as a payment. They hold through crashes, lost leadership and recovery
  as long as one actor works on the run; with two they do not. A *not-rehearsable* passport is published over an unknown
  attempt (`AttemptKeptRecoverable` in 3.3).
* `ChargeCredited`: with startups again and again, a charge that a crash interrupted is credited, provided that the target
  had not named another transaction before (`SettlementRecovered` in 3.3).
* `ReadAlike`: of everything the worker can publish, the validator refuses exactly the listed cases
  (`Unverifiable`: a text, value or empty field name that the evidence has no room for, an origin or label read otherwise, a failed payment without
  a settlement, a payment whose terms the contract has changed since); everywhere else two programs recompute the same gates and status.
* `VerifiedEarned`: five passed gates mean that every answer matched in time and a payment under the contract's very terms is on file.
* `PaymentPublished`: a payment on file is in the published evidence, whatever threw and after whatever restart, with two exceptions: a
  judged passport leaves it out if the contract fetched since has `payment_mode` none (`rehearsal.ts:529`), a not-rehearsable one if
  the lookup of the payment failed (`rehearsal.ts:643`).
* `AttemptNotJudged`: while an attempt's outcome is unknown, no passport of the rehearsal itself is published.
* `ProbeRefused`: the invalid probe is an input the tool must refuse, except for a tool that requires no field and
  whose every branch can spare one. `docs/PROJECT_IMPLEMENTATION.md:143` says "remove a required field": such a tool has none.
* `IndexComplete`, `IndexSound`: lagging nodes, aborted passes and reorganisations leave no hole, and a row that nobody
  altered holds what its run published and that verifies. That the chain still has the record is claimed only until the first fault: a reorganisation may take it away.
* `LocateExact`: binary search, timestamp ranges and chunks find exactly what they should at every boundary.
* `ShownProved`: of what `GET /runs/:runId` shows: an altered or lost row neither adds a claim about a run nor hides its record, except one whose row names a wrong transaction.
  The lists are not rebuilt from the chain (`ListedProved` in 3.3).
* `AllowProved`, `NewestDecides`: what an ALLOW rests on, and that no newer listed passport was passed over. The only
  exception is a run that the node asked did not show; rows altered and runs mined anew during the check are none.
* `ReadersAgree`, `BackendAccepted`, `WriteOnce`: the contract, the backend and the gate
  library agree on every record; the backend's own are never refused; a stored record is final.

### 3.2 Fairness

Leadership: the event loop runs timers and continuations, the database answers, a dead session
ends (weak fairness per step). Nothing forces a caller, a fault or a stop. InboundPayment: requests, passes, timers and
recovery go on; no client has to call, and the facilitator never has to send what it was asked to. Publication: tasks and timers run and some process is
elected while there is no leader, all weak; strong fairness only for
`PassFinds` of the timer: infinitely often the reconciliation could read the mined
candidate, and an RPC that failed every single time would be no RPC. Nothing has to be mined. TargetPayment: executions and
startups that have begun go on, all weak; no customer has to pay, no target to charge, no leader to be elected. `ChargeCredited` is conditional on
startups reaching their recovery infinitely often, because only a startup looks for charges: the code promises nothing to a process that leads for ever.

### 3.3 What the code does differently

Three runs end in a counterexample on purpose: they check what a comment, an error message or
a document says, and TLC shows the behaviour that differs.

| Run | The statement | The behaviour |
|---|---|---|
| `target_recharge` (`ChargedOnce`) | no replacement while the outcome is unknown, `docs/PROJECT_IMPLEMENTATION.md:192` | the log search misses a charge that is mined before the clock is read; the clock then says the authorization has expired, the attempt is cleared and the recovered run is charged again (`target.ts:377`) |
| `rehearsal_unverifiable` (`PublishedVerifies`) | the validator recalculates the mapping, `:168` | evidence is anchored that the validator refuses: a failed target payment without a settlement (`validate.ts:168`), an over-long reason (`rehearsal.ts:745`), a provider on another port (`rehearsal.ts:346` against `validate.ts:140`), payment terms changed after the charge (`validate.ts:367`), an empty field name (`validate.ts:19`) |
| `inbound_stuckkey` (`KeyEventuallyFree`) | "already in flight" `inbound.ts:141` | a claimed attempt whose settlement is refused, or whose handler answers an error, is never removed |

Further statements that the models refute are kept as definitions next to the properties. Each is
reproduced by checking it alone on the instance given (an `INVARIANT`, or a `PROPERTY` where it is an action or temporal property):

| Definition, instance | The statement | The behaviour |
|---|---|---|
| `StoppedStaysStopped`, `Leadership_safety.cfg` | "Stopped leadership coordinator cannot restart" `leader.ts:73` | `stop()` while `acquire()` awaits: the fence query returns and the stopped coordinator becomes leader (`leader.ts:126`) |
| `PermitCarriesFence`, `Leadership_safety.cfg` | `assertLeader` resolves to a string `leader.ts:32` | another task loses leadership while `ownsLock` is awaited: the promise resolves to null (`leader.ts:108`) |
| `OneChargePerRun`, `Inbound_safety.cfg` | no other charge while a result is missing, `docs/PROJECT_IMPLEMENTATION.md:216` | the five-minute lease lapses under a settlement in flight, the run is claimed again and charged again |
| `OnlyRevertedForgotten`, `Inbound_safety.cfg` with one process, one run, two passes | a missing or pending result stays ambiguous, `:215-216` | a pass that was deposed after its check resets a newer settlement, because the reset names the run only (`inbound.ts:299`) |
| `UnknownNotReplaced`, `Publication_safety.cfg` | recovery does nothing while the outcome is unknown, `:220` | a pass replaces the candidate that the failed execution has recorded and sent since |
| `SettlementRecovered`, `Target_payment.cfg` | "Recover an x402 settlement from the persisted signed EIP-3009 nonce" `target.ts:349` | the target charges and names another transaction, the backend crashes: every startup verifies the named one and none searches for the nonce (`target.ts:367`) |
| `AttemptKeptRecoverable`, `Target_recharge.cfg` | "Keep the durable attempt recoverable and do not overwrite it with a finalized Passport." `rehearsal.ts:541` | the inner catch rethrows, and the outer one marks the run failed and publishes it as not-rehearsable |
| `ListedProved`, `Passport.cfg` | "`GET /runs`, `/runs/:runId`: Verified chain-derived Passports/progress" `:310` | the list answers the rows of the database: an altered one, or one whose record a reorganisation has removed (`app.ts:217`, `293`) |

None of these breaks an abstract specification: a second charge is not
recorded as a second payment, no settlement pays for two runs, and a replaced candidate cannot anchor a second
evidence. That a settlement credited to a run is its own is kept only for runs that one actor works on at a time.

Met while modelling and left in the models as they are: `saveRun` refuses a row whose evidence differs from the chain's, so one altered
row ends every later pass (`prisma-store.ts:75`, `IndexConflict`); a transfer that cannot be read during a pass
quarantines its record while the cursor moves on (`registry.ts:869`, `QuarantineUnread`);
a candidate that is not found on chain is placed at the time its row claims, and may then be the one that decides (`service.ts:219`);
the daily target budget counts saved payments and not what is in flight (`target.ts:75`, `WithinBudget`); confirmed evidence that does
not validate leaves the run in `publishing` (`Rehearsal`, `"unknown"`).

## 4. What is proved

TLAPS proves every safety property of every passing run, its invariants, action properties and
refinements, for every value of the constants: any processes, callers, requests, runs,
authorizations, transactions, blocks, schemas, contracts, answers, bitmaps, limits and number of faults.

| Module | Theorems |
|---|---|
| `LeadershipProofs` | `TypeCorrect`, `LeaderLock` (`LeaderHoldsLock`), `LockNotLeaked` (`NoOrphanedLock`), `NoUseAfterClose` (`ClosedSessionUnused`), `Refinement` (`ImplementsFencedWriter`) |
| `InboundPaymentProofs` | `TypeCorrect`, `RecordsAgree` (`RecordConsistent`), `Capacity` (`CapacityHolds`), `ResolvedByChain` (`AmbiguousResolvedByChain`), `Refinement` (`ImplementsPaymentLedger`) |
| `PublicationProofs` | `TypeCorrect`, `SentRecorded` (`SentIsRecorded`), `Refinement` (`ImplementsAnchoring`) |
| `TargetPaymentProofs` | `TypeCorrect`, `OneLive` (`NoReplacementWhileLive`), `FinalStays` (`FinalKept`), `PassportKnowsAttempt` (`CompleteAwaitsAttempt`), `Refinement` (`ImplementsTargetLedger`) |
| `RehearsalProofs` | `TypeCorrect`, `ReadersAlike` (`ReadAlike`), `Earned` (`VerifiedEarned`), `PaymentReported` (`PaymentPublished`), `UnknownNotJudged` (`AttemptNotJudged`), `ProbesRefused` (`ProbeRefused`) |
| `RegistryContractProofs` | `TypeCorrect`, `AllReadersAgree` (`ReadersAgree`), `NeverRefused` (`BackendAccepted`), `StoredOnce` (`WriteOnce`) |
| `RegistryIndexProofs` | `TypeCorrect`, `NoHole` (`IndexComplete`), `OnlyProved` (`IndexSound`), `Locates` (`LocateExact`) |
| `PassportServiceProofs` | `IndexRefined` (`GateSpec => IndexSpec`), `ShowsProved` (`ShownProved`), `AllowsProved` (`AllowProved`), `DecidesOnNewest` (`NewestDecides`) |

The assumptions are the named `ASSUME`s of the models, which TLC evaluates in every run.

* Names: `None`, `Free` and the absent signature are no process, run, transaction, account or string of the code; authorizations, foreign and stray
  transactions are different; no caller or
  run is called as one of the code's own tasks are; `Challenge` is an input field.
* Numbers: bounds, limits and thresholds are integers, where it matters natural ones; the bitmaps tried are natural numbers;
  the runs, which the capacity limit counts, are finitely many.
* Data: launch contracts have the schema's form; an answer that carries an error has no output
  (`AnswersAssumption`, `target-client.ts` returns the one or the other); records of evidence are not `None`.
* `RegistryIndexAssumption`: `Lag + Depth <= Overlap`, a node lags and the chain is reorganised by no more than
  the overlap of two passes together. This is what the code's 12 blocks stand for; with an overlap of one block less (and the assumption dropped), the TLC instance
  of `passport` breaks `IndexComplete`.

*Leadership.* None of the three invariants is inductive: whether a leader owns the lock
depends on the replies that are under way. The proof strengthens them to `LockInv`, which relates
the tasks in flight to the sessions they use: a `try` or `fence` reply that says "true" belongs to the
session that owns the lock unless it was severed or closed meanwhile; a session is current,
being released by `stop`, or gone; sessions are numbered up to `made`, so a new one is never the
owner. Each action then preserves each part. For the refinement the invariant says that a fence
in a reply was drawn and not spent, that no two replies carry the same fence, and
that a fence in use is spent.

*InboundPayment.* The invariant says what each actor may rely on: the parts of a record agree
(`Sound`); a request that is about to authorize has seen its transfer succeed; a pass about to
write has read the receipt of the transfer it looked at; no run was created after today.
Every step is then classified by what it does to the records (`Change`: quiet, opens a run, claims
it, pays it, forgets it, or a new day), and the action properties and the refinement follow from
the classification alone. The capacity needs cardinalities: a claim adds one run to a set that was below
the limit, in the same transaction in which it was counted.

*Publication.* A worker relies on facts that other workers could take back (`Ready`): its signed
transaction is its own evidence and nobody else's (`OwnTx`), it was recorded before it is sent, what
it saves was read from the registry, and what it listed were candidates of the runs it listed them for.
They survive because a used transaction never changes its run or evidence, a recorded
candidate stays recorded, and the registry's answer for a run never changes once there is one
(`Stable`). Each action is shown to be `Stable` and to keep the invariant, and its effect
on registry and records is classified (`Change`): nothing, one run anchored, or one run completed
with what is anchored.

*TargetPayment.* That a charge was filed first, and that a settlement pays for one run and for good, depends on neither locks nor
leadership. An execution that has signed holds an authorization that belongs to its run (`OwnAuth`), and what it sends was filed before
(`Holds`); a record refers only to authorizations of its run (`RecordInv`); a charge was sent (`ChainInv`). That what is credited to a run is its own
settlement rests on the attempt being in the record when the nonce is compared, which the execution or the recovery can be sure of only while nobody else works
on the run, hence the exception. Each step is classified by what it does to the abstract
ledger (`Change`). The three other properties with an exception for `overlap` need `RunsInv`: a run outside it has one actor
(`Alone`), that actor's copy of the record is the record (`Known`), and whatever can still be charged for the run is in the
record or in that actor's hands (`Tracked`). The last is the reason that an attempt is not replaced while it is live: the step that forgets it is
taken by somebody who has just seen it expire, and nobody else can have filed a new one meanwhile.

*Rehearsal.* `WorkInv` says of each stage what the worker has kept: of the discovered schema, of the probe's answer, of the
challenges and of the payment. `PublishedInv` says that evidence is the last thing a rehearsal makes, and holds the properties of it. The worker's gates
and the validator's are then shown to be equal one by one, from what each reads of the same answer, and the listed cases
(`Unverifiable`) are shown to be refused. `MoneyInv` ties the work to the saved payment and the attempt, with the terms each was made under, which
a contract fetched later need not have; `ProbeInv` the probe's expectation to the
schema.

*RegistryContract.* A bitmap is a sum of powers of four. What `gateBitmap` writes is found in its field again (`Encoded`); a bitmap of
ten bits without a field of 3 is some gates' (`Decoded`); and a bitmap and status that `gateStatusIsValid` accepts
are read alike by the backend and the gate library (`ReadOf`), while what the backend builds is accepted (`BuiltValid`).
The invariant adds that a stored record went through the contract's checks.

*RegistryIndex.* `ChainInv`: block times do not decrease, no run is mined twice, `head` is at most `Depth` above the chain's end.
`RowInv`: a finalized row that was not tampered with is the record of a run that verifies; `Anchored`: until the first fault the chain holds it too. `CursorInv` and `PassInv` are the heart of `IndexComplete`: a run
that is deep, mined where no reorganisation reaches, and lies below the cursor is accounted for, and while a pass is under way, what is deep and
below the pass's end is accounted for or still in its queue. With `Lag + Depth <= Overlap` the next pass begins no higher than what the
last one may have missed. Binary search, the splitting of log ranges and the chunks are recursive functions; an
argument by induction over them is given as one about a least counterexample (`WFMin` of the library on the natural numbers), since no
induction theorem with an operator parameter can be instantiated.

*PassportService.* A check writes nothing the registry has, so `GateSpec => IndexSpec` and the index theorems hold beside
any checks. For the rest the invariant follows one check: what a candidate claims was published by its run, and stays so because
a run publishes once (`ProvedInv`); a run mined anew in a reorganisation is anchored no earlier than when it was listed (`ListedInv`), which is what
keeps the newest of the verified candidates no older than every listed one (`SeenInv`); an ALLOW was computed from the proof at
hand (`AllowInv`).

## 5. Only model-checked, or not modelled

* Only model-checked: the four liveness properties (`LeaderEmerges`, `LostIsTransient`, `MinedCandidateResolved`,
  `ChargeCredited`), which need fairness and ENABLED. The runs that end in a counterexample are TLC's by nature.
* Evidence: canonical JSON, hashing, signatures and the ABI are what they encode. Of the launch contract's
  schema only what a stage reads is modelled.
* Inbound payments: the payer limits are a free choice; the local-development path, which runs
  without settlement, is not modelled.
* Configuration and preflight: pure checks of the environment before anything runs. They decide which of the modelled
  parts are on (`Rehearsal`'s `live`, `PassportService`'s `chainReady`). That `NODE_ENV=test` skips
  them is visible in the code and needs no model.
* REST and MCP beyond the operations named in 1.1: receipts, statistics, listings and status read and format. Rate
  limits are counters of a library.
* Target client transport, URL filtering, DNS: I/O.
* Logging and read-only wrappers delegate or refuse; `MemoryRepository` is a development double of the PostgreSQL repository.
* Frontend, fixtures, deployment scripts, acceptance tooling and infrastructure.

## 6. Plan

Done: `FencedWriter`, `Leadership`; `PaymentLedger`, `InboundPayment`; `Gates`, `RegistryContract`; `Anchoring`,
`Publication`; `TargetLedger`, `TargetPayment`; `ToolSchema`, `Evidence`, `Rehearsal`; `PassportGate`,
`RegistryIndex`, `PassportService`; the proofs of every safety property that a passing run checks.

Next, in this order:

1. The weaker promises that the code does keep where section 3.3 refutes the stronger ones, for instance how many charges one
   run can cost (`OneChargePerRun`), as properties of runs and then as theorems.
2. The blocks the settlements lie in, so that a reorganisation can take a settlement away from its record.
3. What the liveness properties rest on as safety: that the states they start from have a recovery that lists them.
4. The local-development path of the inbound payments, and the hazards listed without a property.

------------------------ MODULE TargetPaymentProofs ------------------------
(***************************************************************************)
(* Proofs about TargetPayment for any processes, runs, authorizations,     *)
(* budget and number of faults.                                            *)
(***************************************************************************)
EXTENDS TargetPayment, FiniteSetTheorems, TLAPS

-----------------------------------------------------------------------------
(* The inductive invariant, in named parts.                                *)

\* Program counters of an execution that has read a record and not yet written
\* it back; that has an authorization not yet recorded; not yet sent; recorded;
\* that was told a transaction; that is saving it as the payment of its run.
Mid      == {"rehearsing", "targeting", "filing", "noting", "publishing", "failing"}
Unfiled  == {"file", "filing"}
Unsent   == {"file", "filing", "send"}
Recorded == {"send", "await", "note", "noting", "verify", "save", "saving"}
Named    == {"note", "noting", "verify", "save", "saving"}
Saving   == {"save", "saving"}
Unpaid   == {"sign", "file", "filing"}
Judging  == {"publish", "publishing", "finish"}

\* ... and of a pass that works on a run; that has its transaction; that has read
\* its record; that takes the attempt for dead.
Reconciling == {"find", "look", "note", "noting", "clear", "clearing", "verify", "save", "saving"}
Traced      == {"note", "noting", "verify", "save", "saving"}
PassMid     == {"noting", "clearing"}
Clearing    == {"clear", "clearing"}
Sweeping    == Reconciling \cup {"each"}

Begun(r)   == rec[r].state # "reserved"
Started(e) == exec[e].pc # "idle"

\* The attempt of a record was recorded for its run.
Refers(x, r) == x.attempt # None => filed[x.attempt] = r

\* Only what is on file is sent, and only what is signed is on file.
ChainInv ==
    \A a \in Auth :
        /\ chain[a] \in {"sent", "used"} => filed[a] # None
        /\ filed[a] # None => chain[a] # "unused"

RecordInv == \A r \in Run : Refers(rec[r], r) /\ (column[r] # "reserved" => Begun(r))

\* What an execution holds: an authorization of its own until it is sent, then
\* one on file for its run; and a settlement, whose ever it is, when it saves one.
Holds(e) ==
    /\ exec[e].pc \in Unfiled \cup Recorded => exec[e].auth \in Auth
    /\ exec[e].pc \in Unfiled => filed[exec[e].auth] = None
    /\ exec[e].pc \in Recorded => filed[exec[e].auth] = RunOf(e)
    /\ exec[e].pc \in Unsent => chain[exec[e].auth] = "signed"
    /\ exec[e].pc \in Named => exec[e].tx \in Tx
    /\ exec[e].pc \in Saving => Transferred(exec[e].tx)
    /\ exec[e].pc \in Mid => /\ Refers(exec[e].snap, RunOf(e))
                             /\ exec[e].snap.state \notin Final \cup {"reserved"}
    /\ Started(e) => Begun(RunOf(e))

OwnAuth ==
    \A e, f \in Exec :
        e # f /\ exec[e].pc \in Unsent /\ exec[f].pc \in Unsent => exec[e].auth # exec[f].auth

\* What a pass holds: attempts of the runs they are on file for, charged when
\* they are saved and expired when they are cleared.
PassHolds(p) ==
    /\ pass[p].run # None <=> pass[p].pc \in Reconciling
    /\ pass[p].pc \in Reconciling =>
        /\ pass[p].attempt \in Auth /\ filed[pass[p].attempt] = pass[p].run
        /\ Begun(pass[p].run)
    /\ pass[p].pc \in Traced => pass[p].hash \in Tx
    /\ pass[p].pc \in Saving => chain[pass[p].attempt] = "used" /\ pass[p].hash = pass[p].attempt
    /\ pass[p].pc \in Clearing => pass[p].attempt \in past
    /\ pass[p].pc \in PassMid => /\ Refers(pass[p].snap, pass[p].run)
                                 /\ pass[p].snap.state \notin Final \cup {"reserved"}
    /\ \A r \in Run : Refers(pass[p].listed[r], r)
    /\ pass[p].run \notin pass[p].todo
    /\ \A r \in pass[p].todo :
           Begun(r) /\ (pass[p].pc \in Sweeping => pass[p].listed[r].attempt # None)

\* A run that no two actors have worked on at once has at most one.
Alone(r) ==
    /\ \A e, f \in Exec : RunOf(e) = r /\ RunOf(f) = r /\ Started(e) /\ Started(f) => e = f
    /\ \A e \in Exec, p \in Proc : RunOf(e) = r /\ Started(e) => pass[p].run # r
    /\ \A p, q \in Proc : pass[p].run = r /\ pass[q].run = r => p = q

\* There is no attempt, or it is saved as a payment.
Paid(a) == a = None \/ OnFile(a)

\* That actor knows the record and the payment of its run.
Knows(e, r) ==
    /\ exec[e].pc \in Mid => exec[e].snap = rec[r]
    /\ exec[e].pc \in Unpaid => rec[r].attempt = None
    /\ exec[e].pc \in Recorded => rec[r].attempt = exec[e].auth
    /\ exec[e].pc \in Unpaid \cup Recorded => payment[r] = None
    /\ exec[e].pc \in Saving => exec[e].tx = exec[e].auth
    /\ exec[e].pc \in Judging /\ ~exec[e].free => Paid(rec[r].attempt)

PassKnows(p, r) ==
    /\ pass[p].pc \in PassMid => pass[p].snap = rec[r]
    /\ rec[r].attempt \in {None, pass[p].attempt}

\* What a leading pass has listed and not come to is as it was, or there is no
\* attempt any more and nobody to record another.
ListedKnown(p, r) ==
    \/ rec[r].attempt = pass[p].listed[r].attempt
    \/ rec[r].attempt = None /\ \A e \in Exec : RunOf(e) = r => ~Started(e)

Known(r) ==
    /\ \A e \in Exec : RunOf(e) = r => Knows(e, r)
    /\ \A p \in Proc : pass[p].run = r => PassKnows(p, r)
    /\ \A p \in Proc : leader = p /\ pass[p].pc \in Sweeping /\ r \in pass[p].todo
                         => ListedKnown(p, r)

\* An authorization that can still be charged is the attempt of its run, unless
\* the run is over, and so is one that was saved as its payment; there is one.
Tracked(r) ==
    /\ payment[r] # None => rec[r].attempt \in {None, payment[r]}
    /\ \A a \in Live(r) : rec[r].attempt = a \/ rec[r].state \in Final
    /\ \A a, b \in Live(r) : a = b

RunsInv == \A r \in Run \ overlap : Alone(r) /\ Known(r) /\ Tracked(r)

ExecsInv  == \A e \in Exec : Holds(e)
PassesInv == \A p \in Proc : PassHolds(p)

Inv == TypeOK /\ ChainInv /\ RecordInv /\ ExecsInv /\ OwnAuth /\ PassesInv /\ RunsInv

-----------------------------------------------------------------------------
(* Types.                                                                  *)

LEMMA ExecHome ==
    ASSUME NEW e \in Exec
    PROVE  Home(e) \in Proc /\ RunOf(e) \in Run /\ e[2] \in Service
BY DEF Exec, Home, RunOf

LEMMA StartupExec ==
    ASSUME NEW p \in Proc, NEW r \in Run
    PROVE  /\ <<p, "startup", r>> \in Exec
           /\ RunOf(<<p, "startup", r>>) = r /\ Home(<<p, "startup", r>>) = p
BY DEF Exec, Home, RunOf, Service

LEMMA Values ==
    /\ NoRecord \in Record /\ NoRecord.attempt = None /\ NoRecord.hash = None
    /\ NoRecord.state = "reserved"
    /\ Idle \in ExecRec /\ Idle.pc = "idle"
    /\ PassIdle \in PassRec /\ PassIdle.pc = "idle" /\ PassIdle.run = None /\ PassIdle.todo = {}
    /\ PassIdle.listed = [r \in Run |-> NoRecord]
BY DEF NoRecord, Record, State, Idle, ExecRec, Pc, PassIdle, PassRec, PassPc

LEMMA RecordFields ==
    ASSUME NEW x \in Record
    PROVE  x.state \in State /\ x.attempt \in Auth \cup {None} /\ x.hash \in Tx \cup {None}
BY DEF Record

LEMMA RecordWith ==
    ASSUME NEW x \in Record
    PROVE  /\ \A s \in State : [x EXCEPT !.state = s] \in Record
           /\ \A a \in Auth \cup {None} : [x EXCEPT !.attempt = a] \in Record
           /\ \A t \in Tx \cup {None} : [x EXCEPT !.hash = t] \in Record
BY DEF Record

LEMMA BecomeType ==
    ASSUME TypeOK, NEW e \in Exec, NEW new \in ExecRec, Become(e, new)
    PROVE  exec' \in [Exec -> ExecRec]
BY DEF TypeOK, Become

LEMMA GotoRec ==
    ASSUME TypeOK, NEW e \in Exec, NEW pc \in Pc
    PROVE  [exec[e] EXCEPT !.pc = pc, !.snap = NoRecord] \in ExecRec
BY Values DEF TypeOK, ExecRec

LEMMA ReadRec ==
    ASSUME TypeOK, NEW e \in Exec, NEW pc \in Pc, NEW r \in Run
    PROVE  [exec[e] EXCEPT !.pc = pc, !.snap = rec[r]] \in ExecRec
BY DEF TypeOK, ExecRec

LEMMA GotoType ==
    ASSUME TypeOK, NEW e \in Exec, NEW pc \in Pc, Goto(e, pc)
    PROVE  exec' \in [Exec -> ExecRec]
BY GotoRec, BecomeType DEF Goto

LEMMA ReadType ==
    ASSUME TypeOK, NEW e \in Exec, NEW pc \in Pc,
           Become(e, [exec[e] EXCEPT !.pc = pc, !.snap = rec[RunOf(e)]])
    PROVE  exec' \in [Exec -> ExecRec]
BY ReadRec, BecomeType, ExecHome

LEMMA FaultType ==
    ASSUME TypeOK, Fault
    PROVE  faults' \in 0..MaxFaults
BY BoundAssumption DEF TypeOK, Fault

LEMMA LeaveType ==
    ASSUME TypeOK, NEW e \in Exec, NEW pc \in Pc, Leave(e, pc)
    PROVE  exec' \in [Exec -> ExecRec] /\ holder' \in Exec \cup {None}
<1>1. [exec[e] EXCEPT !.pc = pc, !.auth = None, !.tx = None, !.snap = NoRecord] \in ExecRec
  BY Values DEF TypeOK, ExecRec
<1>2. exec' \in [Exec -> ExecRec]
  BY <1>1, BecomeType DEF Leave
<1>3. QED
  BY <1>2 DEF Leave, TypeOK

LEMMA ThrowType ==
    ASSUME TypeOK, NEW e \in Exec, ThrowPay(e)
    PROVE  exec' \in [Exec -> ExecRec] /\ holder' \in Exec \cup {None}
BY LeaveType DEF ThrowPay, Pc

LEMMA UpsertedType ==
    ASSUME TypeOK, NEW r \in Run, NEW t \in Tx \cup {None}, Upserted(r, t)
    PROVE  payment' \in [Run -> Tx \cup {None}]
BY DEF TypeOK, Upserted

LEMMA MeetsType ==
    ASSUME TypeOK, NEW r \in Run, Meets(r)
    PROVE  overlap' \in SUBSET Run /\ overlap \subseteq overlap'
BY DEF TypeOK, Meets

\* Pcs of Pc and PassPc are recognised without their lists being opened.
LEMMA UpdateReadsType ==
    ASSUME TypeOK, NEW e \in Exec, NEW pc, NEW to, NEW mid \in Pc, NEW skip \in Pc,
           UpdateReads(e, pc, to, mid, skip)
    PROVE  TypeOK'
<1>1. exec' \in [Exec -> ExecRec]
  BY ReadType, GotoType DEF UpdateReads
<1>2. QED
  BY <1>1 DEF UpdateReads, TypeOK, recordVars, chainVars

LEMMA UpdateWritesType ==
    ASSUME TypeOK, NEW e \in Exec, NEW mid, NEW to \in State, NEW next \in Pc,
           UpdateWrites(e, mid, to, next)
    PROVE  TypeOK'
<1>1. exec' \in [Exec -> ExecRec]
  BY GotoType DEF UpdateWrites
<1>2. [exec[e].snap EXCEPT !.state = to] \in Record
  <2>1. exec[e].snap \in Record
    BY DEF TypeOK, ExecRec
  <2>2. QED
    BY <2>1, RecordWith
<1>3. rec' \in [Run -> Record] /\ column' \in [Run -> State]
  BY <1>2 DEF UpdateWrites, TypeOK
<1>4. QED
  BY <1>1, <1>3 DEF UpdateWrites, TypeOK, chainVars

LEMMA FinalisedType ==
    ASSUME TypeOK, NEW r \in Run, NEW state \in State, Finalised(r, state)
    PROVE  rec' \in [Run -> Record] /\ column' \in [Run -> State]
<1>1. [NoRecord EXCEPT !.state = state] \in Record
  BY Values, RecordWith
<1>2. QED
  BY <1>1 DEF TypeOK, Finalised

LEMMA OverType ==
    ASSUME TypeOK, NEW e \in Exec, NEW threw, Over(e, threw)
    PROVE  /\ exec' \in [Exec -> ExecRec]
           /\ pass' \in [Proc -> PassRec] /\ leader' \in Proc \cup {None}
<1>1. exec' \in [Exec -> ExecRec]
  BY BecomeType, Values DEF Over
<1>2. QED
  BY <1>1, Values DEF Over, TypeOK

LEMMA StageTypes ==
    ASSUME TypeOK, NEW e \in Exec,
           \/ Settled(e) \/ Rehearse(e) \/ Rehearsed(e) \/ StageThrows(e) \/ Target(e) \/ Targeted(e)
           \/ Pay(e) \/ PaysNothing(e) \/ Enter(e) \/ Lapse(e) \/ Lookup(e)
    PROVE  TypeOK'
<1>0. {"rehearse", "target", "rehearsing", "targeting", "pay", "fail", "queue", "lookup", "sign",
        "publish", "caught"} \subseteq Pc /\ {"paid", "target"} \subseteq State
  BY DEF Pc, State
<1>1. CASE Settled(e)
  <2>1. [rec[RunOf(e)] EXCEPT !.state = "paid"] \in Record
    BY <1>0, ExecHome, RecordWith DEF TypeOK
  <2>2. rec' \in [Run -> Record] /\ column' \in [Run -> State]
    BY <1>0, <1>1, <2>1 DEF Settled, TypeOK
  <2>3. exec' \in [Exec -> ExecRec] /\ overlap' \in SUBSET Run
    BY <1>0, <1>1, GotoType, MeetsType, ExecHome DEF Settled
  <2>4. QED
    BY <1>1, <2>2, <2>3 DEF Settled, TypeOK, chainVars
<1>2. CASE Rehearse(e) \/ Target(e)
  BY <1>0, <1>2, UpdateReadsType DEF Rehearse, Target
<1>3. CASE Rehearsed(e) \/ Targeted(e)
  BY <1>0, <1>3, UpdateWritesType DEF Rehearsed, Targeted
<1>4. CASE StageThrows(e)
  <2>1. exec' \in [Exec -> ExecRec]
    BY <1>0, <1>4, GotoType DEF StageThrows
  <2>2. QED
    BY <1>4, <2>1 DEF StageThrows, TypeOK, recordVars, chainVars
<1>5. CASE Pay(e)
  <2>1. exec' \in [Exec -> ExecRec] /\ holder' \in Exec \cup {None}
    BY <1>0, <1>5, GotoType, ThrowType DEF Pay, TypeOK
  <2>2. QED
    BY <1>5, <2>1 DEF Pay, TypeOK, recordVars, chainVars
<1>6. CASE Enter(e)
  <2>1. exec' \in [Exec -> ExecRec] /\ holder' \in Exec \cup {None}
    BY <1>0, <1>6, GotoType, ThrowType DEF Enter, TypeOK
  <2>2. faults' \in 0..MaxFaults
    BY <1>6, FaultType DEF Enter, TypeOK
  <2>3. QED
    BY <1>6, <2>1, <2>2 DEF Enter, TypeOK, recordVars, chainVars
<1>6a. CASE PaysNothing(e)
  <2>1. [exec[e] EXCEPT !.pc = "publish", !.free = TRUE] \in ExecRec
    BY <1>0 DEF TypeOK, ExecRec
  <2>2. exec' \in [Exec -> ExecRec]
    BY <1>6a, <2>1, BecomeType DEF PaysNothing
  <2>3. QED
    BY <1>6a, <2>2 DEF PaysNothing, TypeOK, recordVars, chainVars
<1>7. CASE Lapse(e)
  <2>1. [exec[e] EXCEPT !.lapsed = TRUE] \in ExecRec
    BY DEF TypeOK, ExecRec
  <2>2. exec' \in [Exec -> ExecRec] /\ faults' \in 0..MaxFaults
    BY <1>7, <2>1, BecomeType, FaultType DEF Lapse
  <2>3. QED
    BY <1>7, <2>2 DEF Lapse, TypeOK, recordVars, chainVars
<1>8. CASE Lookup(e)
  <2>1. exec' \in [Exec -> ExecRec] /\ holder' \in Exec \cup {None}
    BY <1>0, <1>8, GotoType, ThrowType, LeaveType DEF Lookup, TypeOK
  <2>2. QED
    BY <1>8, <2>1 DEF Lookup, TypeOK, recordVars, chainVars
<1>9. QED
  BY <1>1, <1>2, <1>3, <1>4, <1>5, <1>6, <1>6a, <1>7, <1>8

LEMMA PayTypes ==
    ASSUME TypeOK, NEW e \in Exec,
           \/ Sign(e) \/ File(e) \/ Filed(e) \/ Send(e) \/ Respond(e)
           \/ Note(e) \/ Noted(e) \/ Verify(e) \/ Save(e) \/ Saved(e)
    PROVE  TypeOK'
<1>0. {"file", "filing", "send", "await", "note", "noting", "verify", "save", "saving",
        "caught", "publish"} \subseteq Pc
  BY DEF Pc
<1>0a. /\ exec[e] \in ExecRec /\ exec[e].auth \in Auth \cup {None} /\ exec[e].snap \in Record
       /\ exec[e].tx \in Tx \cup {None}
  BY DEF TypeOK, ExecRec
<1>1. CASE Sign(e)
  <2>1. CASE ThrowPay(e) /\ UNCHANGED chain
    BY <1>1, <2>1, ThrowType DEF Sign, TypeOK, recordVars
  <2>2. ASSUME NEW a \in Auth, chain' = [chain EXCEPT ![a] = "signed"], UNCHANGED holder,
               Become(e, [exec[e] EXCEPT !.pc = "file", !.auth = a])
        PROVE  TypeOK'
    <3>1. [exec[e] EXCEPT !.pc = "file", !.auth = a] \in ExecRec
      BY <1>0, <1>0a DEF ExecRec
    <3>2. exec' \in [Exec -> ExecRec]
      BY <2>2, <3>1, BecomeType
    <3>3. chain' \in [Auth -> {"unused", "signed", "sent", "used"}]
      BY <2>2 DEF TypeOK
    <3>4. QED
      BY <1>1, <2>2, <3>2, <3>3 DEF Sign, TypeOK, recordVars
  <2>3. QED
    BY <1>1, <2>1, <2>2 DEF Sign
<1>2. CASE File(e) \/ Note(e)
  <2>1. exec' \in [Exec -> ExecRec] /\ holder' \in Exec \cup {None}
    BY <1>0, <1>2, ReadType, ThrowType DEF File, Note, TypeOK
  <2>2. QED
    BY <1>2, <2>1 DEF File, Note, TypeOK, recordVars, chainVars
<1>3. CASE Filed(e)
  <2>1. exec' \in [Exec -> ExecRec]
    BY <1>0, <1>3, GotoType DEF Filed
  <2>2. rec' \in [Run -> Record]
    BY <1>0a, <1>3, RecordWith DEF Filed, TypeOK
  <2>3. filed' \in [Auth -> Run \cup {None}]
    BY <1>3, ExecHome DEF Filed, TypeOK
  <2>4. QED
    BY <1>3, <2>1, <2>2, <2>3 DEF Filed, TypeOK
<1>4. CASE Send(e)
  <2>1. exec' \in [Exec -> ExecRec] /\ holder' \in Exec \cup {None}
    BY <1>0, <1>4, GotoType, ThrowType DEF Send, TypeOK
  <2>2. chain' \in [Auth -> {"unused", "signed", "sent", "used"}]
    BY <1>4 DEF Send, TypeOK
  <2>3. faults' \in 0..MaxFaults
    BY <1>4, FaultType DEF Send, TypeOK
  <2>4. QED
    BY <1>4, <2>1, <2>2, <2>3 DEF Send, TypeOK, recordVars
<1>5. CASE Respond(e)
  <2>1. ASSUME NEW t \in Tx, Become(e, [exec[e] EXCEPT !.pc = "note", !.tx = t])
        PROVE  exec' \in [Exec -> ExecRec]
    <3>1. [exec[e] EXCEPT !.pc = "note", !.tx = t] \in ExecRec
      BY <1>0, <1>0a DEF ExecRec
    <3>2. QED
      BY <2>1, <3>1, BecomeType
  <2>2. exec' \in [Exec -> ExecRec] /\ holder' \in Exec \cup {None}
    BY <1>5, <2>1, ThrowType DEF Respond, TypeOK
  <2>3. QED
    BY <1>5, <2>2 DEF Respond, TypeOK, recordVars, chainVars
<1>6. CASE Noted(e)
  <2>1. exec' \in [Exec -> ExecRec]
    BY <1>0, <1>6, GotoType DEF Noted
  <2>2. rec' \in [Run -> Record]
    BY <1>0a, <1>6, RecordWith DEF Noted, TypeOK
  <2>3. QED
    BY <1>6, <2>1, <2>2 DEF Noted, TypeOK, chainVars
<1>7. CASE Verify(e)
  <2>1. exec' \in [Exec -> ExecRec] /\ holder' \in Exec \cup {None}
    BY <1>0, <1>7, GotoType, ThrowType DEF Verify, TypeOK
  <2>2. faults' \in 0..MaxFaults
    BY <1>7, FaultType DEF Verify, TypeOK
  <2>3. QED
    BY <1>7, <2>1, <2>2 DEF Verify, TypeOK, recordVars, chainVars
<1>8. CASE Save(e)
  <2>1. exec' \in [Exec -> ExecRec] /\ holder' \in Exec \cup {None}
    BY <1>0, <1>8, GotoType, ThrowType DEF Save, TypeOK
  <2>2. QED
    BY <1>8, <2>1 DEF Save, TypeOK, recordVars, chainVars
<1>9. CASE Saved(e)
  <2>1. exec' \in [Exec -> ExecRec] /\ holder' \in Exec \cup {None}
    BY <1>0, <1>9, LeaveType DEF Saved
  <2>2. payment' \in [Run -> Tx \cup {None}]
    BY <1>0a, <1>9, UpsertedType, ExecHome DEF Saved
  <2>3. QED
    BY <1>9, <2>1, <2>2 DEF Saved, TypeOK, chainVars
<1>10. QED
  BY <1>1, <1>2, <1>3, <1>4, <1>5, <1>6, <1>7, <1>8, <1>9

LEMMA EndTypes ==
    ASSUME TypeOK, NEW e \in Exec,
           \/ Caught(e) \/ Publish(e) \/ Published(e) \/ Finish(e)
           \/ Fail(e) \/ Failed(e) \/ FinishFailed(e)
    PROVE  TypeOK'
<1>0. {"caught", "fail", "publish", "publishing", "finish", "failing", "finishFailed"} \subseteq Pc
      /\ {"publishing", "failed", "complete", "notRehearsable"} \subseteq State
  BY DEF Pc, State
<1>1. CASE Caught(e)
  <2>1. exec' \in [Exec -> ExecRec]
    BY <1>0, <1>1, GotoType DEF Caught
  <2>2. QED
    BY <1>1, <2>1 DEF Caught, TypeOK, recordVars, chainVars
<1>2. CASE Publish(e) \/ Fail(e)
  BY <1>0, <1>2, UpdateReadsType DEF Publish, Fail
<1>3. CASE Published(e) \/ Failed(e)
  BY <1>0, <1>3, UpdateWritesType DEF Published, Failed
<1>4. CASE Finish(e) \/ FinishFailed(e)
  <2>1. exec' \in [Exec -> ExecRec] /\ pass' \in [Proc -> PassRec] /\ leader' \in Proc \cup {None}
    BY <1>0, <1>4, GotoType, OverType DEF Finish, FinishFailed, TypeOK
  <2>2. rec' \in [Run -> Record] /\ column' \in [Run -> State]
    BY <1>0, <1>4, FinalisedType, ExecHome DEF Finish, FinishFailed, TypeOK
  <2>3. QED
    BY <1>4, <2>1, <2>2 DEF Finish, FinishFailed, TypeOK, chainVars
<1>5. QED
  BY <1>1, <1>2, <1>3, <1>4

\* A pass in another state, everything else with its type.
LEMMA PassStepType ==
    ASSUME TypeOK, NEW p \in Proc, NEW new \in PassRec, pass' = [pass EXCEPT ![p] = new]
    PROVE  pass' \in [Proc -> PassRec]
BY DEF TypeOK

LEMMA PassGotoType ==
    ASSUME TypeOK, NEW p \in Proc, NEW pc \in PassPc, PassGoto(p, pc)
    PROVE  pass' \in [Proc -> PassRec]
<1>1. pass[p] \in PassRec
  BY DEF TypeOK
<1>2. [pass[p] EXCEPT !.pc = pc, !.snap = NoRecord] \in PassRec
  BY <1>1, Values DEF PassRec
<1>3. pass' = [pass EXCEPT ![p] = [pass[p] EXCEPT !.pc = pc, !.snap = NoRecord]]
  BY DEF PassGoto, TypeOK
<1>4. QED
  BY <1>2, <1>3, PassStepType

LEMMA PassNextType ==
    ASSUME TypeOK, NEW p \in Proc, PassNext(p)
    PROVE  pass' \in [Proc -> PassRec]
<1>1. pass[p] \in PassRec /\ "each" \in PassPc
  BY DEF TypeOK, PassPc
<1>2. pass[p].listed \in [Run -> Record] /\ pass[p].todo \in SUBSET Run
  BY <1>1 DEF PassRec
<1>3. [PassIdle EXCEPT !.pc = "each", !.listed = pass[p].listed, !.todo = pass[p].todo] \in PassRec
  BY <1>1, <1>2, Values DEF PassRec
<1>4. QED
  BY <1>3, PassStepType DEF PassNext

LEMMA PassThrowsType ==
    ASSUME TypeOK, NEW p \in Proc, PassThrows(p), faults' \in 0..MaxFaults
    PROVE  TypeOK'
<1>1. pass' \in [Proc -> PassRec] /\ leader' \in Proc \cup {None}
  BY Values, PassStepType DEF PassThrows, TypeOK
<1>2. QED
  BY <1>1 DEF PassThrows, TypeOK, recordVars, chainVars

LEMMA FallsType ==
    ASSUME TypeOK, NEW p \in Proc, Deposed(p) \/ Interrupted(p)
    PROVE  TypeOK'
<1>1. faults' \in 0..MaxFaults
  BY FaultType DEF Deposed, Interrupted, TypeOK
<1>2. QED
  BY <1>1, PassThrowsType DEF Deposed, Interrupted

\* A step of a pass that leaves everything else alone.
LEMMA PassOnlyType ==
    ASSUME TypeOK, pass' \in [Proc -> PassRec], faults' \in 0..MaxFaults, overlap' \in SUBSET Run,
           UNCHANGED <<recordVars, chainVars, leader, exec, holder>>
    PROVE  TypeOK'
BY DEF TypeOK, recordVars, chainVars

LEMMA PassTypes ==
    ASSUME TypeOK, NEW p \in Proc, PassHolds(p), PassStep(p)
    PROVE  TypeOK'
<1>0. {"each", "find", "look", "note", "noting", "clear", "clearing", "verify", "save", "saving",
        "recover"} \subseteq PassPc
      /\ "rehearse" \in Pc
  BY DEF PassPc, Pc
<1>0a. pass[p] \in PassRec /\ faults \in 0..MaxFaults /\ overlap \in SUBSET Run
       /\ rec \in [Run -> Record]
  BY DEF TypeOK
<1>0b. /\ pass[p].listed \in [Run -> Record] /\ pass[p].todo \in SUBSET Run
       /\ pass[p].run \in Run \cup {None} /\ pass[p].attempt \in Auth \cup {None}
       /\ pass[p].hash \in Tx \cup {None} /\ pass[p].snap \in Record
  BY <1>0a DEF PassRec
<1>1. CASE List(p)
  <2>1. PendingAttempts \in SUBSET Run
    BY DEF PendingAttempts
  <2>2. [PassIdle EXCEPT !.pc = "each", !.listed = rec, !.todo = PendingAttempts] \in PassRec
    BY <1>0, <1>0a, <2>1, Values DEF PassRec
  <2>3. CASE /\ pass' = [pass EXCEPT ![p] = [PassIdle EXCEPT !.pc = "each", !.listed = rec,
                                                            !.todo = PendingAttempts]]
             /\ UNCHANGED <<recordVars, chainVars, leader, exec, holder, overlap, faults>>
    BY <1>0a, <2>2, <2>3, PassStepType, PassOnlyType
  <2>4. QED
    BY <1>1, <2>3, FallsType DEF List
<1>2. CASE Take(p)
  <2>1. ASSUME NEW r \in pass[p].todo,
               pass' = [pass EXCEPT ![p].pc = "find", ![p].todo = @ \ {r}, ![p].run = r,
                                    ![p].attempt = pass[p].listed[r].attempt,
                                    ![p].hash = pass[p].listed[r].hash],
               Meets(r), UNCHANGED <<recordVars, chainVars, leader, exec, holder, faults>>
        PROVE  TypeOK'
    <3>1. r \in Run
      BY <1>0b
    <3>2. pass[p].listed[r].attempt \in Auth \cup {None} /\ pass[p].listed[r].hash \in Tx \cup {None}
      BY <1>0b, <3>1, RecordFields
    <3>3. [pass[p] EXCEPT !.pc = "find", !.todo = @ \ {r}, !.run = r,
                          !.attempt = pass[p].listed[r].attempt,
                          !.hash = pass[p].listed[r].hash] \in PassRec
      BY <1>0, <1>0a, <3>1, <3>2 DEF PassRec
    <3>4. pass' \in [Proc -> PassRec]
      BY <2>1, <3>3 DEF TypeOK
    <3>5. overlap' \in SUBSET Run
      BY <2>1, <3>1, MeetsType
    <3>6. QED
      BY <1>0a, <2>1, <3>4, <3>5, PassOnlyType
  <2>2. CASE /\ pass' = [pass EXCEPT ![p] = [PassIdle EXCEPT !.pc = "recover", !.todo = Recoverable]]
             /\ UNCHANGED <<recordVars, chainVars, leader, exec, holder, overlap, faults>>
    <3>1. Recoverable \in SUBSET Run
      BY DEF Recoverable
    <3>2. [PassIdle EXCEPT !.pc = "recover", !.todo = Recoverable] \in PassRec
      BY <1>0, <3>1, Values DEF PassRec
    <3>3. QED
      BY <1>0a, <2>2, <3>2, PassStepType, PassOnlyType
  <2>3. QED
    BY <1>2, <2>1, <2>2, FallsType DEF Take
<1>3. CASE Find(p)
  <2>1. CASE /\ pass' = [pass EXCEPT ![p].pc = "note", ![p].hash = pass[p].attempt]
             /\ UNCHANGED <<recordVars, chainVars, leader, exec, holder, overlap, faults>>
    <3>1. [pass[p] EXCEPT !.pc = "note", !.hash = pass[p].attempt] \in PassRec
      BY <1>0, <1>0a, <1>0b DEF PassRec, Tx
    <3>2. pass' = [pass EXCEPT ![p] = [pass[p] EXCEPT !.pc = "note", !.hash = pass[p].attempt]]
      BY <2>1 DEF TypeOK
    <3>3. QED
      BY <1>0a, <2>1, <3>1, <3>2, PassStepType, PassOnlyType
  <2>2. ASSUME NEW pc \in PassPc, PassGoto(p, pc),
               UNCHANGED <<recordVars, chainVars, leader, exec, holder, overlap, faults>>
        PROVE  TypeOK'
    BY <1>0a, <2>2, PassGotoType, PassOnlyType
  <2>3. QED
    BY <1>0, <1>3, <2>1, <2>2, FallsType DEF Find
<1>4. CASE Look(p)
  BY <1>0, <1>0a, <1>4, PassGotoType, PassNextType, PassOnlyType, FallsType DEF Look
<1>0c. pass[p].pc \in Reconciling => pass[p].run \in Run /\ rec[pass[p].run] \in Record
  BY <1>0a, <1>0b DEF PassHolds
<1>5. CASE Clear(p)
  <2>1. CASE pass' = [pass EXCEPT ![p].pc = "clearing", ![p].snap = rec[pass[p].run]]
    <3>1. rec[pass[p].run] \in Record
      BY <1>0c, <1>5 DEF Clear, Reconciling
    <3>2. [pass[p] EXCEPT !.pc = "clearing", !.snap = rec[pass[p].run]] \in PassRec
      BY <1>0, <1>0a, <3>1 DEF PassRec
    <3>3. pass' = [pass EXCEPT ![p] = [pass[p] EXCEPT !.pc = "clearing", !.snap = rec[pass[p].run]]]
      BY <2>1 DEF TypeOK
    <3>4. QED
      BY <1>0a, <1>5, <3>2, <3>3, PassStepType, PassOnlyType DEF Clear
  <2>2. CASE PassNext(p)
    BY <1>0a, <1>5, <2>2, PassNextType, PassOnlyType DEF Clear
  <2>3. QED
    BY <1>5, <2>1, <2>2 DEF Clear
<1>6. CASE Cleared(p)
  <2>1. [state |-> "paid", attempt |-> None, hash |-> None] \in Record /\ "paid" \in State
    BY DEF Record, State
  <2>2. rec' \in [Run -> Record] /\ column' \in [Run -> State]
    BY <1>0a, <1>6, <2>1 DEF Cleared, TypeOK
  <2>3. pass' \in [Proc -> PassRec]
    BY <1>6, PassNextType DEF Cleared
  <2>4. QED
    BY <1>6, <2>2, <2>3 DEF Cleared, TypeOK, chainVars
<1>7. CASE PassNotes(p)
  <2>1. CASE pass' = [pass EXCEPT ![p].pc = "noting", ![p].snap = rec[pass[p].run]]
             /\ UNCHANGED <<recordVars, chainVars, leader, exec, holder, overlap, faults>>
    <3>1. rec[pass[p].run] \in Record
      BY <1>0c, <1>7 DEF PassNotes, Reconciling
    <3>2. [pass[p] EXCEPT !.pc = "noting", !.snap = rec[pass[p].run]] \in PassRec
      BY <1>0, <1>0a, <3>1 DEF PassRec
    <3>3. pass' = [pass EXCEPT ![p] = [pass[p] EXCEPT !.pc = "noting", !.snap = rec[pass[p].run]]]
      BY <2>1 DEF TypeOK
    <3>4. QED
      BY <1>0a, <2>1, <3>2, <3>3, PassStepType, PassOnlyType
  <2>2. CASE PassThrows(p) /\ UNCHANGED faults
    BY <1>0a, <2>2, PassThrowsType
  <2>3. QED
    BY <1>7, <2>1, <2>2 DEF PassNotes
<1>8. CASE PassNoted(p)
  <2>1. rec' \in [Run -> Record]
    BY <1>0a, <1>0b, <1>8, RecordWith DEF PassNoted
  <2>2. pass' \in [Proc -> PassRec]
    BY <1>0, <1>8, PassGotoType DEF PassNoted
  <2>3. QED
    BY <1>8, <2>1, <2>2 DEF PassNoted, TypeOK, chainVars
<1>9. CASE PassVerifies(p)
  <2>1. Fault => faults' \in 0..MaxFaults
    BY FaultType
  <2>2. QED
    BY <1>0, <1>0a, <1>9, <2>1, PassGotoType, PassNextType, PassOnlyType, FallsType DEF PassVerifies
<1>10. CASE PassSaves(p)
  BY <1>0, <1>0a, <1>10, PassGotoType, PassNextType, PassOnlyType DEF PassSaves
<1>10a. CASE PassSaved(p)
  <2>1. payment' \in [Run -> Tx \cup {None}]
    BY <1>0b, <1>0c, <1>10a, UpsertedType DEF PassSaved, Reconciling
  <2>2. pass' \in [Proc -> PassRec]
    BY <1>10a, PassNextType DEF PassSaved
  <2>3. QED
    BY <1>10a, <2>1, <2>2 DEF PassSaved, TypeOK, chainVars
<1>11. CASE Recover(p)
  <2>1. ASSUME NEW r \in pass[p].todo,
               pass' = [pass EXCEPT ![p].todo = @ \ {r}],
               Goto(<<p, "startup", r>>, "rehearse"), Meets(r),
               UNCHANGED <<recordVars, chainVars, leader, holder, faults>>
        PROVE  TypeOK'
    <3>1. r \in Run
      BY <1>0b
    <3>2. [pass[p] EXCEPT !.todo = @ \ {r}] \in PassRec
      BY <1>0a, <3>1 DEF PassRec
    <3>3. pass' \in [Proc -> PassRec]
      BY <2>1, <3>2 DEF TypeOK
    <3>4. exec' \in [Exec -> ExecRec]
      BY <1>0, <2>1, <3>1, GotoType, StartupExec
    <3>5. overlap' \in SUBSET Run
      BY <2>1, <3>1, MeetsType
    <3>6. QED
      BY <2>1, <3>3, <3>4, <3>5 DEF TypeOK, recordVars, chainVars
  <2>2. CASE /\ pass' = [pass EXCEPT ![p] = PassIdle]
             /\ UNCHANGED <<recordVars, chainVars, leader, exec, holder, overlap, faults>>
    BY <1>0a, <2>2, Values, PassStepType, PassOnlyType
  <2>3. QED
    BY <1>11, <2>1, <2>2, FallsType DEF Recover
<1>12. QED
  BY <1>1, <1>2, <1>3, <1>4, <1>5, <1>6, <1>7, <1>8, <1>9, <1>10, <1>10a, <1>11
     DEF PassStep

LEMMA EnvironmentTypes ==
    ASSUME TypeOK,
           \/ \E p \in Proc : Elect(p) \/ Crash(p)
           \/ \E a \in Auth : Charge(a) \/ Expire(a)
           \/ Depose
    PROVE  TypeOK'
<1>1. ASSUME NEW p \in Proc, Elect(p)
      PROVE  TypeOK'
  <2>1. [pass[p] EXCEPT !.pc = "list"] \in PassRec
    BY DEF TypeOK, PassRec, PassPc
  <2>2. pass' \in [Proc -> PassRec]
    BY <1>1, <2>1 DEF Elect, TypeOK
  <2>3. QED
    BY <1>1, <2>2 DEF Elect, TypeOK, recordVars, chainVars
<1>2. ASSUME NEW p \in Proc, Crash(p)
      PROVE  TypeOK'
  <2>1. exec' \in [Exec -> ExecRec] /\ pass' \in [Proc -> PassRec]
    BY <1>2, Values DEF Crash, TypeOK
  <2>2. QED
    BY <1>2, <2>1 DEF Crash, TypeOK, recordVars, chainVars
<1>3. ASSUME NEW a \in Auth, Charge(a) \/ Expire(a)
      PROVE  TypeOK'
  BY <1>3 DEF Charge, Expire, TypeOK, recordVars
<1>4. CASE Depose
  BY <1>4, FaultType DEF Depose, TypeOK, recordVars, chainVars
<1>5. QED
  BY <1>1, <1>2, <1>3, <1>4

LEMMA TypeStep ==
    ASSUME TypeOK, PassesInv, Next
    PROVE  TypeOK'
<1>1. ASSUME NEW e \in Exec, ExecStep(e)
      PROVE  TypeOK'
  BY <1>1, StageTypes, PayTypes, EndTypes DEF ExecStep
<1>2. ASSUME NEW p \in Proc, PassStep(p)
      PROVE  TypeOK'
  BY <1>2, PassTypes DEF PassesInv
<1>3. QED
  BY <1>1, <1>2, EnvironmentTypes DEF Next

-----------------------------------------------------------------------------
(* What a step leaves of the others' knowledge.                            *)

\* Nothing recorded, charged, saved, expired or begun is undone.
Grows ==
    /\ \A a \in Auth : filed[a] # None => filed'[a] = filed[a]
    /\ \A a \in Auth : chain[a] = "used" => chain'[a] = "used"
    /\ \A r \in Run : payment[r] # None => payment'[r] = payment[r]
    /\ past \subseteq past' /\ overlap \subseteq overlap'
    /\ \A r \in Run : Begun(r) => Begun(r)'

\* The step leaves run r as it is.
Untouched(r) ==
    /\ rec'[r] = rec[r] /\ column'[r] = column[r] /\ payment'[r] = payment[r]
    /\ \A a \in Auth : filed'[a] = r => filed[a] = r

\* The step leaves the authorization of f alone while f has not sent it.
Undisturbed(f) ==
    exec[f].pc \in Unsent =>
        chain'[exec[f].auth] = chain[exec[f].auth] /\ filed'[exec[f].auth] = filed[exec[f].auth]

LEMMA PaidStays ==
    ASSUME Grows, NEW a, Paid(a)
    PROVE  Paid(a)'
BY DEF Grows, Paid, OnFile

LEMMA RefersGrows ==
    ASSUME Grows, NEW x \in Record, NEW r \in Run, Refers(x, r)
    PROVE  Refers(x, r)'
BY NoneAssumption, RecordFields DEF Grows, Refers

LEMMA HoldsStays ==
    ASSUME TypeOK, Grows, NEW f \in Exec, exec'[f] = exec[f], Undisturbed(f), Holds(f)
    PROVE  Holds(f)'
<1>1. RunOf(f) \in Run /\ RunOf(f) # None /\ exec[f].snap \in Record
  BY ExecHome, NoneAssumption DEF TypeOK, ExecRec
<1>2. exec[f].pc \in Mid => Refers(exec[f].snap, RunOf(f))'
  BY <1>1, RefersGrows DEF Holds
<1>3. exec[f].pc \in Unfiled => exec[f].pc \in Unsent
  BY DEF Unfiled, Unsent
<1>4. Started(f) => Begun(RunOf(f))'
  BY <1>1 DEF Holds, Grows
<1>5. /\ exec[f].pc \in Unfiled => filed'[exec[f].auth] = None
      /\ exec[f].pc \in Recorded => filed'[exec[f].auth] = RunOf(f)
      /\ exec[f].pc \in Unsent => chain'[exec[f].auth] = "signed"
      /\ exec[f].pc \in Saving => Transferred(exec[f].tx)'
  BY <1>1, <1>3 DEF Holds, Grows, Undisturbed, Recorded, Transferred
<1>6. QED
  BY <1>2, <1>4, <1>5 DEF Holds, Started

LEMMA PassHoldsStays ==
    ASSUME TypeOK, Grows, NEW p \in Proc, pass'[p] = pass[p], PassHolds(p)
    PROVE  PassHolds(p)'
<1>1. /\ pass[p] \in PassRec /\ pass[p].snap \in Record /\ pass[p].listed \in [Run -> Record]
      /\ pass[p].run \in Run \cup {None} /\ pass[p].todo \in SUBSET Run
  BY DEF TypeOK, PassRec
<1>2. \A r \in Run : Refers(pass[p].listed[r], r)'
  BY <1>1, RefersGrows DEF PassHolds
<1>3. \A r \in pass[p].todo : Begun(r)'
  BY <1>1 DEF PassHolds, Grows
<1>4. pass[p].pc \in Reconciling =>
        /\ pass[p].run \in Run /\ filed'[pass[p].attempt] = pass[p].run
        /\ Begun(pass[p].run)'
  BY <1>1, NoneAssumption DEF PassHolds, Grows
<1>5. pass[p].pc \in Saving => chain'[pass[p].attempt] = "used"
  BY DEF PassHolds, Grows, Saving, Reconciling
<1>6. pass[p].pc \in PassMid => Refers(pass[p].snap, pass[p].run)'
  BY <1>1, <1>4, RefersGrows DEF PassHolds, PassMid, Reconciling
<1>7. pass[p].pc \in Clearing => pass[p].attempt \in past'
  BY DEF PassHolds, Grows
<1>8. QED
  BY <1>2, <1>3, <1>4, <1>5, <1>6, <1>7 DEF PassHolds

LEMMA IdleHolds ==
    /\ \A e \in Exec : exec[e] = Idle => Holds(e)
    /\ \A p \in Proc : pass[p] = PassIdle => PassHolds(p)
    /\ \A e \in Exec : (exec[e] = Idle)' => Holds(e)'
    /\ \A p \in Proc : (pass[p] = PassIdle)' => PassHolds(p)'
BY Values
   DEF Holds, Unfiled, Recorded, Unsent, Named, Saving, Mid, Started, PassHolds, Reconciling,
       Traced, Clearing, PassMid, Refers

\* Who is idle, or works on another run, has nothing to know of r.
LEMMA IdleKnows ==
    ASSUME NEW r
    PROVE  /\ \A f \in Exec : ~Started(f) => Knows(f, r)
           /\ \A f \in Exec : ~Started(f)' => Knows(f, r)'
BY DEF Started, Knows, Mid, Unpaid, Recorded, Saving, Judging

LEMMA KnowsStays ==
    ASSUME Grows, NEW r, Untouched(r)
    PROVE  /\ \A f \in Exec : exec'[f] = exec[f] /\ Knows(f, r) => Knows(f, r)'
           /\ \A p \in Proc : pass'[p] = pass[p] /\ PassKnows(p, r) => PassKnows(p, r)'
<1>1. Paid(rec[r].attempt) => Paid(rec[r].attempt)'
  BY PaidStays DEF Untouched, Paid, OnFile
<1>2. QED
  BY <1>1 DEF Untouched, Knows, PassKnows, Paid, OnFile

\* An authorization that may still be charged, may have been before.
LEMMA LiveStays ==
    ASSUME Grows, NEW r, \A a \in Auth : filed'[a] = r => filed[a] = r
    PROVE  Live(r)' \subseteq Live(r)
BY DEF Live, Grows

LEMMA TrackedStays ==
    ASSUME Grows, NEW r, Untouched(r), Tracked(r)
    PROVE  Tracked(r)'
BY LiveStays DEF Untouched, Tracked

\* A run that the step leaves as it is, with nobody new to work on it, is known
\* as before.
LEMMA KnownStays ==
    ASSUME TypeOK, Inv, Grows, NEW r \in Run \ overlap, Untouched(r),
           \A e \in Exec : RunOf(e) = r => exec'[e] = exec[e] \/ ~Started(e)',
           \A p \in Proc : pass'[p] = pass[p] \/ (pass'[p].run # r /\ pass'[p].pc \notin Sweeping),
           leader' \in {leader, None}
    PROVE  Alone(r)' /\ Known(r)' /\ Tracked(r)'
<1>1. Alone(r) /\ Known(r) /\ Tracked(r)
  BY DEF Inv, RunsInv
<1>2. Alone(r)'
  BY <1>1 DEF Alone, Started
<1>3. \A e \in Exec : RunOf(e) = r => Knows(e, r)'
  BY <1>1, IdleKnows, KnowsStays DEF Known
<1>4. \A p \in Proc : pass'[p].run = r => PassKnows(p, r)'
  BY <1>1, KnowsStays DEF Known
<1>5. ASSUME NEW p \in Proc, leader' = p, pass'[p].pc \in Sweeping, r \in pass'[p].todo
      PROVE  ListedKnown(p, r)'
  <2>1. leader = p /\ pass'[p] = pass[p]
    BY <1>5, NoneAssumption
  <2>2. ListedKnown(p, r)
    BY <1>1, <1>5, <2>1 DEF Known
  <2>3. QED
    BY <2>1, <2>2 DEF ListedKnown, Untouched, Started
<1>6. QED
  BY <1>1, <1>2, <1>3, <1>4, <1>5, TrackedStays DEF Known

-----------------------------------------------------------------------------
(* A step of an execution that works on its run.                           *)

\* What a step must show of a run to keep FinalKept.
Written(r) == r \notin overlap' /\ rec[r].state \in Final => rec'[r] = rec[r]

LedgerStep ==
    [Ledger!Next]_<<filed, {a \in Auth : chain[a] = "used"}, payment, overlap>>

\* At most one run becomes one that two actors have worked on at once.
Shares == overlap' = overlap \/ \E r \in Run : overlap' = overlap \cup {r}

Change == LedgerStep /\ \A r \in Run : Written(r)

\* e goes on; everybody else stays or stops.
Moves(e) ==
    /\ \A f \in Exec \ {e} : exec'[f] = exec[f] /\ Undisturbed(f)
    /\ \A p \in Proc : pass'[p] \in {pass[p], PassIdle}
    /\ leader' \in {leader, None} /\ overlap' = overlap
    /\ \A r \in Run \ {RunOf(e)} : Untouched(r)
    /\ exec'[e].pc \in Unsent =>
           \/ exec[e].pc \in Unsent /\ exec'[e].auth = exec[e].auth
           \/ chain[exec'[e].auth] = "unused"

\* What it leaves of its run.
Leaves(e, r) ==
    /\ Knows(e, r)' /\ Tracked(r)'
    /\ \/ rec'[r].attempt = rec[r].attempt
       \/ rec[r].attempt = None
       \/ rec'[r].attempt = None /\ ~Started(e)'

LEMMA MovesOthers ==
    ASSUME TypeOK, Inv, Grows, NEW e \in Exec, Moves(e), Holds(e)'
    PROVE  ExecsInv' /\ OwnAuth' /\ PassesInv'
<1>1. ExecsInv'
  BY HoldsStays DEF Inv, ExecsInv, Moves
<1>2. PassesInv'
  BY PassHoldsStays, IdleHolds DEF Inv, PassesInv, Moves
<1>3. ASSUME NEW f \in Exec \ {e}, exec'[e].pc \in Unsent, exec'[f].pc \in Unsent
      PROVE  exec'[e].auth # exec'[f].auth
  <2>1. exec'[f] = exec[f] /\ chain[exec[f].auth] = "signed"
    BY <1>3 DEF Moves, Inv, ExecsInv, Holds
  <2>2. exec[e].pc \in Unsent => exec[e].auth # exec[f].auth
    BY <1>3, <2>1 DEF Inv, OwnAuth
  <2>3. QED
    BY <1>3, <2>1, <2>2 DEF Moves
<1>4. ASSUME NEW f \in Exec \ {e}, NEW g \in Exec \ {e}, f # g,
             exec'[f].pc \in Unsent, exec'[g].pc \in Unsent
      PROVE  exec'[f].auth # exec'[g].auth
  BY <1>4 DEF Moves, Inv, OwnAuth
<1>5. OwnAuth'
  BY <1>3, <1>4 DEF OwnAuth
<1>6. QED
  BY <1>1, <1>2, <1>5

LEMMA MovesRuns ==
    ASSUME TypeOK, Inv, Grows, NEW e \in Exec, Moves(e), Started(e),
           RunOf(e) \notin overlap => Leaves(e, RunOf(e))
    PROVE  RunsInv'
<1>0. RunOf(e) \in Run
  BY ExecHome
<1>1. ASSUME NEW r \in Run \ overlap, r # RunOf(e)
      PROVE  Alone(r)' /\ Known(r)' /\ Tracked(r)'
  <2>1. \A f \in Exec : RunOf(f) = r => exec'[f] = exec[f]
    BY <1>1 DEF Moves
  <2>2. \A p \in Proc : pass'[p] = pass[p] \/ (pass'[p].run # r /\ pass'[p].pc \notin Sweeping)
    BY Values, NoneAssumption DEF Moves, Sweeping, Reconciling
  <2>3. QED
    BY <1>1, <2>1, <2>2, KnownStays DEF Moves
<1>2. ASSUME RunOf(e) \notin overlap
      PROVE  Alone(RunOf(e))' /\ Known(RunOf(e))' /\ Tracked(RunOf(e))'
  <2> DEFINE r == RunOf(e)
  <2>1. Alone(r) /\ Known(r) /\ Leaves(e, r)
    BY <1>0, <1>2 DEF Inv, RunsInv
  <2>2. \A f \in Exec \ {e} : RunOf(f) = r => ~Started(f) /\ exec'[f] = exec[f]
    BY <2>1 DEF Alone, Moves
  <2>3. \A p \in Proc : pass[p].run # r /\ pass'[p].run # r
    BY <1>0, <2>1, Values, NoneAssumption DEF Alone, Moves
  <2>4. Alone(r)'
    BY <2>2, <2>3 DEF Alone, Started
  <2>5. \A f \in Exec : RunOf(f) = r => Knows(f, r)'
    BY <2>1, <2>2, IdleKnows DEF Leaves, Started
  <2>6. ASSUME NEW p \in Proc, leader' = p, pass'[p].pc \in Sweeping, r \in pass'[p].todo
        PROVE  ListedKnown(p, r)'
    <3>1. leader = p /\ pass'[p] = pass[p]
      BY <2>6, Values, NoneAssumption DEF Moves
    <3>2. ListedKnown(p, r)
      BY <2>1, <2>6, <3>1 DEF Known
    <3>3. rec[r].attempt = pass[p].listed[r].attempt
      BY <3>2 DEF ListedKnown, Moves
    <3>4. pass[p].listed[r].attempt # None
      BY <2>6, <3>1 DEF Inv, PassesInv, PassHolds
    <3>5. CASE rec'[r].attempt = rec[r].attempt
      BY <3>1, <3>3, <3>5 DEF ListedKnown
    <3>6. CASE rec'[r].attempt = None /\ ~Started(e)'
      BY <2>2, <3>6 DEF ListedKnown, Started
    <3>7. QED
      BY <2>1, <3>3, <3>4, <3>5, <3>6 DEF Leaves
  <2>7. QED
    BY <2>1, <2>3, <2>4, <2>5, <2>6 DEF Known, Leaves
<1>3. overlap' = overlap
  BY DEF Moves
<1>4. QED
  BY <1>1, <1>2, <1>3 DEF RunsInv

\* Every step of an execution that has started reduces to this.
LEMMA MovesInv ==
    ASSUME TypeOK, TypeOK', Inv, Grows, NEW e \in Exec, Moves(e), Started(e), Holds(e)',
           RunOf(e) \notin overlap => Leaves(e, RunOf(e)), ChainInv', RecordInv'
    PROVE  Inv'
BY MovesOthers, MovesRuns DEF Inv

-----------------------------------------------------------------------------
(* Steps of an execution that write nothing.                               *)

Unwritten == UNCHANGED <<rec, column, payment, filed, chain, past>>

LEMMA ShareStep ==
    ASSUME Shares, UNCHANGED <<payment, filed, chain>>
    PROVE  LedgerStep
<1>1. CASE overlap' = overlap
  BY <1>1 DEF LedgerStep
<1>2. ASSUME NEW r \in Run, overlap' = overlap \cup {r}
      PROVE  LedgerStep
  <2>1. Ledger!Share(r)
    BY <1>2 DEF Ledger!Share
  <2>2. QED
    BY <2>1 DEF LedgerStep, Ledger!Next
<1>3. QED
  BY <1>1, <1>2 DEF Shares

LEMMA UnwrittenStep ==
    ASSUME Inv, Unwritten, Shares
    PROVE  Grows /\ ChainInv' /\ RecordInv' /\ Change /\ \A r : Untouched(r)
<1>1. Grows /\ \A r : Untouched(r)
  BY DEF Unwritten, Grows, Untouched, Begun, Shares
<1>2. ChainInv' /\ RecordInv'
  BY DEF Inv, ChainInv, RecordInv, Refers, Begun, Unwritten
<1>3. \A r \in Run : Written(r)
  BY DEF Written, Unwritten
<1>4. LedgerStep
  BY ShareStep DEF Unwritten
<1>5. QED
  BY <1>1, <1>2, <1>3, <1>4 DEF Change

\* e goes on to new and holds no more than it held.
Quiet(e, new) ==
    /\ Unwritten /\ UNCHANGED overlap
    /\ exec' = [exec EXCEPT ![e] = new]
    /\ \A p \in Proc : pass'[p] \in {pass[p], PassIdle}
    /\ leader' \in {leader, None}

LEMMA QuietInv ==
    ASSUME TypeOK, TypeOK', Inv, NEW e \in Exec, NEW new, Quiet(e, new), Started(e), Holds(e)',
           RunOf(e) \notin overlap => Knows(e, RunOf(e))',
           new.pc \in Unsent => exec[e].pc \in Unsent /\ new.auth = exec[e].auth
    PROVE  Inv' /\ Change
<1>1. Grows /\ ChainInv' /\ RecordInv' /\ Change /\ \A r : Untouched(r)
  BY UnwrittenStep DEF Quiet, Shares
<1>2. exec'[e] = new /\ \A f \in Exec \ {e} : exec'[f] = exec[f]
  BY DEF Quiet, TypeOK
<1>3. Moves(e)
  BY <1>1, <1>2 DEF Moves, Undisturbed, Quiet, Unwritten
<1>4. RunOf(e) \notin overlap => Leaves(e, RunOf(e))
  BY <1>1, TrackedStays, ExecHome DEF Leaves, Untouched, Inv, RunsInv
<1>5. QED
  BY <1>1, <1>3, <1>4, MovesInv

\* Program counters of an execution that holds nothing and knows nothing.
Plain == {"rehearse", "target", "pay", "queue", "lookup", "caught", "fail", "finishFailed"}

LEMMA PlainInv ==
    ASSUME TypeOK, TypeOK', Inv, NEW e \in Exec, NEW new, Quiet(e, new), Started(e),
           new.pc \in Plain \cup {"idle"}
    PROVE  Inv' /\ Change
<1>1. exec'[e] = new
  BY DEF Quiet, TypeOK
<1>2. Begun(RunOf(e))'
  BY DEF Inv, ExecsInv, Holds, Quiet, Unwritten, Begun
<1>3. Holds(e)' /\ Knows(e, RunOf(e))' /\ new.pc \notin Unsent
  BY <1>1, <1>2
     DEF Plain, Holds, Knows, Unfiled, Recorded, Unsent, Named, Saving, Mid, Unpaid, Judging
<1>4. QED
  BY <1>3, QuietInv

\* ... and where it goes with Goto, or with an error of pay.
LEMMA GotoQuiet ==
    ASSUME TypeOK, NEW e \in Exec, NEW pc, Goto(e, pc), Unwritten,
           UNCHANGED <<leader, pass, overlap>>
    PROVE  \E new : /\ Quiet(e, new) /\ exec'[e] = new /\ new.pc = pc /\ new.auth = exec[e].auth
                    /\ new.tx = exec[e].tx /\ new.free = exec[e].free
<1> DEFINE new == [exec[e] EXCEPT !.pc = pc, !.snap = NoRecord]
<1>1. new.pc = pc /\ new.auth = exec[e].auth /\ new.tx = exec[e].tx /\ new.free = exec[e].free
  BY DEF TypeOK, ExecRec
<1>2. Quiet(e, new) /\ exec'[e] = new
  BY DEF Goto, Become, Quiet, TypeOK
<1>3. QED
  BY <1>1, <1>2

LEMMA PlainGoto ==
    ASSUME TypeOK, TypeOK', Inv, NEW e \in Exec, NEW pc \in Plain, Goto(e, pc), Started(e),
           Unwritten, UNCHANGED <<leader, pass, overlap>>
    PROVE  Inv' /\ Change
BY GotoQuiet, PlainInv

\* What an execution is whose call of pay is over.
LEMMA LeaveMoves ==
    ASSUME TypeOK, NEW e \in Exec, NEW pc, Leave(e, pc)
    PROVE  \E new : /\ exec' = [exec EXCEPT ![e] = new] /\ exec'[e] = new
                    /\ new.pc = pc /\ new.free = exec[e].free
<1> DEFINE new == [exec[e] EXCEPT !.pc = pc, !.auth = None, !.tx = None, !.snap = NoRecord]
<1>1. new.pc = pc /\ new.free = exec[e].free
  BY DEF TypeOK, ExecRec
<1>2. exec' = [exec EXCEPT ![e] = new] /\ exec'[e] = new
  BY DEF Leave, Become, TypeOK
<1>3. QED
  BY <1>1, <1>2

LEMMA LeaveInv ==
    ASSUME TypeOK, TypeOK', Inv, NEW e \in Exec, NEW pc \in {"caught", "publish"}, Leave(e, pc),
           Started(e), Unwritten, UNCHANGED <<leader, pass, overlap>>,
           pc = "publish" /\ RunOf(e) \notin overlap => Paid(rec[RunOf(e)].attempt)
    PROVE  Inv' /\ Change
<1>1. PICK new : /\ exec' = [exec EXCEPT ![e] = new] /\ exec'[e] = new
                 /\ new.pc = pc /\ new.free = exec[e].free
  BY LeaveMoves
<1>2. Quiet(e, new)
  BY <1>1 DEF Quiet
<1>3. Begun(RunOf(e))'
  BY DEF Inv, ExecsInv, Holds, Unwritten, Begun
<1>4. Holds(e)' /\ new.pc \notin Unsent
  BY <1>1, <1>3 DEF Holds, Unfiled, Recorded, Unsent, Named, Saving, Mid
<1>5. RunOf(e) \notin overlap => Knows(e, RunOf(e))'
  BY <1>1 DEF Knows, Unfiled, Recorded, Saving, Mid, Unpaid, Judging, Unwritten, Paid, OnFile
<1>6. QED
  BY <1>2, <1>4, <1>5, QuietInv

LEMMA ThrowInv ==
    ASSUME TypeOK, TypeOK', Inv, NEW e \in Exec, ThrowPay(e), Started(e),
           Unwritten, UNCHANGED <<leader, pass, overlap>>
    PROVE  Inv' /\ Change
BY LeaveInv DEF ThrowPay

\* Reading the record: what is read is known.
LEMMA ReadInv ==
    ASSUME TypeOK, TypeOK', Inv, NEW e \in Exec, Started(e), NEW pc \in Mid,
           Become(e, [exec[e] EXCEPT !.pc = pc, !.snap = rec[RunOf(e)]]),
           Unwritten, UNCHANGED <<leader, pass, overlap>>,
           rec[RunOf(e)].state \notin Final,
           pc = "filing" => exec[e].pc = "file",
           pc = "noting" => exec[e].pc = "note",
           pc = "publishing" => exec[e].pc = "publish"
    PROVE  Inv' /\ Change
<1> DEFINE new == [exec[e] EXCEPT !.pc = pc, !.snap = rec[RunOf(e)]]
           r == RunOf(e)
<1>1. /\ new.pc = pc /\ new.snap = rec[r] /\ new.auth = exec[e].auth
      /\ new.tx = exec[e].tx /\ new.free = exec[e].free
  BY DEF TypeOK, ExecRec
<1>2. exec'[e] = new
  BY DEF Become, TypeOK
<1>3. Quiet(e, new)
  BY DEF Quiet, Become
<1> HIDE DEF new
<1>4. Holds(e) /\ Begun(r) /\ Refers(rec[r], r) /\ r \in Run
  BY ExecHome DEF Inv, ExecsInv, RecordInv, Holds
<1>5. Refers(rec[r], r)' /\ Begun(r)' /\ rec' = rec /\ payment' = payment /\ chain' = chain /\ filed' = filed
  BY <1>4 DEF Unwritten, Refers, Begun
<1>6. Holds(e)'
  BY <1>1, <1>2, <1>4, <1>5 DEF Holds, Unfiled, Recorded, Unsent, Named, Saving, Mid, Begun
<1>7. r \notin overlap => Knows(e, r)'
  <2>1. r \notin overlap => Knows(e, r)
    BY <1>4 DEF Inv, RunsInv, Known
  <2>2. QED
    BY <1>1, <1>2, <1>5, <2>1 DEF Knows, Unpaid, Recorded, Saving, Mid, Judging, Paid, OnFile
<1>8. QED
  BY <1>1, <1>3, <1>6, <1>7, QuietInv DEF Unsent, Mid

LEMMA UpdateReadsInv ==
    ASSUME TypeOK, TypeOK', Inv, NEW e \in Exec, NEW pc \in Pc \ {"idle"}, NEW to,
           NEW mid \in Mid \ {"filing", "noting"}, NEW skip, UpdateReads(e, pc, to, mid, skip),
           mid = "publishing" => pc = "publish",
           skip \in Plain \/ (pc = "publish" /\ skip = "finish")
    PROVE  Inv' /\ Change
<1>1. Started(e) /\ Unwritten /\ UNCHANGED <<leader, pass, overlap>> /\ exec[e].pc = pc
  BY DEF UpdateReads, Started, Unwritten, recordVars, chainVars
<1>2. CASE Become(e, [exec[e] EXCEPT !.pc = mid, !.snap = rec[RunOf(e)]])
           /\ CanAdvance(rec[RunOf(e)].state, to)
  BY <1>1, <1>2, ReadInv DEF CanAdvance
<1>3. CASE Goto(e, skip) /\ skip \in Plain
  BY <1>1, <1>3, PlainGoto
<1>4. CASE Goto(e, skip) /\ pc = "publish" /\ skip = "finish"
  <2>1. PICK new : Quiet(e, new) /\ exec'[e] = new /\ new.pc = "finish" /\ new.free = exec[e].free
    BY <1>1, <1>4, GotoQuiet
  <2>2. Holds(e)'
    BY <1>1, <2>1
       DEF Holds, Unfiled, Recorded, Unsent, Named, Saving, Mid, Inv, ExecsInv, Unwritten, Begun
  <2>3. RunOf(e) \notin overlap => Knows(e, RunOf(e))
    BY ExecHome DEF Inv, RunsInv, Known
  <2>4. RunOf(e) \notin overlap => Knows(e, RunOf(e))'
    BY <1>1, <1>4, <2>1, <2>3
       DEF Knows, Unpaid, Recorded, Saving, Mid, Judging, Unwritten, Paid, OnFile
  <2>5. QED
    BY <1>1, <2>1, <2>2, <2>4, QuietInv DEF Unsent
<1>5. QED
  BY <1>2, <1>3, <1>4 DEF UpdateReads

-----------------------------------------------------------------------------
LEMMA StageInv ==
    ASSUME TypeOK, TypeOK', Inv, NEW e \in Exec,
           \/ Rehearse(e) \/ StageThrows(e) \/ Target(e) \/ Pay(e) \/ PaysNothing(e) \/ Enter(e)
           \/ Publish(e) \/ Fail(e)
    PROVE  Inv' /\ Change
<1>1. /\ {"rehearse", "target", "publish", "fail", "pay", "queue"} \subseteq Pc \ {"idle"}
      /\ {"rehearsing", "targeting", "publishing", "failing"} \subseteq Mid \ {"filing", "noting"}
      /\ {"target", "pay", "finishFailed", "fail", "queue", "lookup"} \subseteq Plain
  BY DEF Pc, Mid, Plain
<1>2. CASE Rehearse(e) \/ Target(e) \/ Publish(e) \/ Fail(e)
  BY <1>1, <1>2, UpdateReadsInv DEF Rehearse, Target, Publish, Fail
<1>3. CASE StageThrows(e) \/ Pay(e) \/ Enter(e)
  <2>1. Started(e) /\ Unwritten /\ UNCHANGED <<leader, pass, overlap>>
    BY <1>3 DEF StageThrows, Pay, Enter, Started, Unwritten, recordVars, chainVars
  <2>2. QED
    BY <1>1, <1>3, <2>1, PlainGoto, ThrowInv DEF StageThrows, Pay, Enter
<1>4. CASE PaysNothing(e)
  <2> DEFINE new == [exec[e] EXCEPT !.pc = "publish", !.free = TRUE]
  <2>1. new.pc = "publish" /\ new.free
    BY DEF TypeOK, ExecRec
  <2>2. Quiet(e, new) /\ exec'[e] = new /\ Started(e)
    BY <1>4 DEF PaysNothing, Become, Quiet, Started, Unwritten, recordVars, chainVars, TypeOK
  <2> HIDE DEF new
  <2>3. Begun(RunOf(e))'
    BY <2>2 DEF Inv, ExecsInv, Holds, Quiet, Unwritten, Begun
  <2>4. Holds(e)' /\ Knows(e, RunOf(e))' /\ new.pc \notin Unsent
    BY <2>1, <2>2, <2>3
       DEF Holds, Knows, Unfiled, Recorded, Unsent, Named, Saving, Mid, Unpaid, Judging
  <2>5. QED
    BY <2>2, <2>4, QuietInv
<1>5. QED
  BY <1>2, <1>3, <1>4

LEMMA LapseInv ==
    ASSUME TypeOK, TypeOK', Inv, NEW e \in Exec, Lapse(e)
    PROVE  Inv' /\ Change
<1> DEFINE new == [exec[e] EXCEPT !.lapsed = TRUE]
<1>1. /\ new.pc = exec[e].pc /\ new.auth = exec[e].auth /\ new.snap = exec[e].snap
      /\ new.tx = exec[e].tx /\ new.free = exec[e].free
  BY DEF TypeOK, ExecRec
<1>2. Quiet(e, new) /\ exec'[e] = new
  BY DEF Lapse, Become, Quiet, Unwritten, recordVars, chainVars, TypeOK
<1> HIDE DEF new
<1>3. Grows /\ ChainInv' /\ RecordInv' /\ Change /\ \A r : Untouched(r)
  BY <1>2, UnwrittenStep DEF Quiet, Shares
<1>4. Holds(e)'
  BY <1>1, <1>2 DEF Inv, ExecsInv, Holds, Started, Quiet, Unwritten, Refers, Begun, Transferred
<1>5. CASE Started(e)
  <2>1. RunOf(e) \notin overlap => Knows(e, RunOf(e))
    BY ExecHome DEF Inv, RunsInv, Known
  <2>2. RunOf(e) \notin overlap => Knows(e, RunOf(e))'
    BY <1>1, <1>2, <2>1 DEF Knows, Quiet, Unwritten, Paid, OnFile
  <2>3. QED
    BY <1>1, <1>2, <1>4, <1>5, <2>2, QuietInv
<1>6. CASE ~Started(e)
  <2>1. exec'[e].pc \notin Unsent /\ ~Started(e)'
    BY <1>1, <1>2, <1>6 DEF Started, Unsent
  <2>2. Moves(e) /\ pass' = pass /\ leader' = leader /\ overlap' = overlap
    BY <1>2, <1>3, <2>1 DEF Moves, Undisturbed, Quiet, Unwritten, Lapse, Become, TypeOK
  <2>3. \A f \in Exec : exec'[f] = exec[f] \/ ~Started(f)'
    BY <2>1, <2>2 DEF Moves
  <2>4. RunsInv'
    BY <1>3, <2>2, <2>3, KnownStays DEF RunsInv, TypeOK
  <2>5. QED
    BY <1>3, <1>4, <2>2, <2>4, MovesOthers DEF Inv
<1>7. QED
  BY <1>5, <1>6

\* Going on to a program counter that knows, or holds, something.
LEMMA OnInv ==
    ASSUME TypeOK, TypeOK', Inv, NEW e \in Exec, Started(e), NEW pc, Goto(e, pc), Unwritten,
           UNCHANGED <<leader, pass, overlap>>,
           pc \notin Mid \cup Unfiled \cup {"send"},
           pc \in Recorded => exec[e].pc \in Recorded,
           pc \in Named => exec[e].pc \in Named,
           pc \in Saving => Transferred(exec[e].tx),
           RunOf(e) \notin overlap =>
               /\ pc \in Unpaid => rec[RunOf(e)].attempt = None /\ payment[RunOf(e)] = None
               /\ pc \in Saving => exec[e].tx \in {exec[e].auth, rec[RunOf(e)].attempt}
               /\ pc \in Judging => Paid(rec[RunOf(e)].attempt)
    PROVE  Inv' /\ Change
<1>1. PICK new : /\ Quiet(e, new) /\ exec'[e] = new /\ new.pc = pc /\ new.auth = exec[e].auth
                 /\ new.tx = exec[e].tx
  BY GotoQuiet
<1>2. Holds(e)
  BY DEF Inv, ExecsInv
<1>3. Holds(e)'
  BY <1>1, <1>2 DEF Holds, Started, Unwritten, Begun, Unsent, Unfiled, Transferred
<1>4. RunOf(e) \notin overlap => Knows(e, RunOf(e))
  BY ExecHome DEF Inv, RunsInv, Known
<1>5. RunOf(e) \notin overlap => Knows(e, RunOf(e))'
  BY <1>1, <1>4 DEF Knows, Unwritten, Saving, Recorded, Paid, OnFile
<1>6. QED
  BY <1>1, <1>3, <1>5, QuietInv DEF Unsent, Unfiled

LEMMA LookupInv ==
    ASSUME TypeOK, TypeOK', Inv, NEW e \in Exec, Lookup(e)
    PROVE  Inv' /\ Change
<1>1. Started(e) /\ Unwritten /\ UNCHANGED <<leader, pass, overlap>>
  BY DEF Lookup, Started, Unwritten, recordVars, chainVars
<1>2. CASE payment[RunOf(e)] # None /\ Leave(e, "publish")
  <2>1. RunOf(e) \notin overlap => Paid(rec[RunOf(e)].attempt)
    BY <1>2, ExecHome DEF Inv, RunsInv, Tracked, Paid, OnFile
  <2>2. QED
    BY <1>1, <1>2, <2>1, LeaveInv
<1>3. CASE payment[RunOf(e)] = None /\ rec[RunOf(e)].attempt = None /\ Goto(e, "sign")
  BY <1>1, <1>3, OnInv DEF Mid, Unfiled, Recorded, Named, Saving, Unpaid, Judging
<1>4. CASE ThrowPay(e)
  BY <1>1, <1>4, ThrowInv
<1>5. QED
  BY <1>2, <1>3, <1>4 DEF Lookup

LEMMA FileInv ==
    ASSUME TypeOK, TypeOK', Inv, NEW e \in Exec, File(e) \/ Note(e)
    PROVE  Inv' /\ Change
<1>1. Started(e) /\ Unwritten /\ UNCHANGED <<leader, pass, overlap>>
  BY DEF File, Note, Started, Unwritten, recordVars, chainVars
<1>2. CASE /\ exec[e].pc = "file" /\ rec[RunOf(e)].state \notin Final
           /\ Become(e, [exec[e] EXCEPT !.pc = "filing", !.snap = rec[RunOf(e)]])
  BY <1>1, <1>2, ReadInv DEF Mid
<1>3. CASE /\ exec[e].pc = "note" /\ rec[RunOf(e)].state \notin Final
           /\ Become(e, [exec[e] EXCEPT !.pc = "noting", !.snap = rec[RunOf(e)]])
  BY <1>1, <1>3, ReadInv DEF Mid
<1>4. CASE ThrowPay(e)
  BY <1>1, <1>4, ThrowInv
<1>5. QED
  BY <1>2, <1>3, <1>4 DEF File, Note, Notable

LEMMA AnswerInv ==
    ASSUME TypeOK, TypeOK', Inv, NEW e \in Exec, Respond(e) \/ Verify(e) \/ Save(e) \/ Caught(e)
    PROVE  Inv' /\ Change
<1>1. Started(e) /\ Unwritten /\ UNCHANGED <<leader, pass, overlap>> /\ Holds(e)
      /\ (RunOf(e) \notin overlap => Knows(e, RunOf(e)))
  BY ExecHome
     DEF Respond, Verify, Save, Caught, Started, Unwritten, recordVars, chainVars, Inv, ExecsInv,
         RunsInv, Known
<1>2. ASSUME NEW t \in Tx, exec[e].pc = "await", Become(e, [exec[e] EXCEPT !.pc = "note", !.tx = t])
      PROVE  Inv' /\ Change
  <2> DEFINE new == [exec[e] EXCEPT !.pc = "note", !.tx = t]
  <2>1. new.pc = "note" /\ new.tx = t /\ new.auth = exec[e].auth
    BY DEF TypeOK, ExecRec
  <2>2. Quiet(e, new) /\ exec'[e] = new
    BY <1>1, <1>2 DEF Become, Quiet, TypeOK
  <2> HIDE DEF new
  <2>3. Holds(e)'
    BY <1>1, <1>2, <2>1, <2>2
       DEF Holds, Unfiled, Recorded, Unsent, Named, Saving, Mid, Unwritten, Begun
  <2>4. RunOf(e) \notin overlap => Knows(e, RunOf(e))'
    BY <1>1, <1>2, <2>1, <2>2 DEF Knows, Recorded, Saving, Mid, Unpaid, Judging, Unwritten
  <2>5. QED
    BY <1>1, <2>1, <2>2, <2>3, <2>4, QuietInv DEF Unsent
<1>3. CASE exec[e].pc = "verify" /\ Verified(exec[e].tx, rec[RunOf(e)].attempt) /\ Goto(e, "save")
  <2>1. RunOf(e) \notin overlap => exec[e].tx = exec[e].auth
    BY <1>1, <1>3, NoneAssumption DEF Knows, Verified, Recorded, Holds
  <2>2. QED
    BY <1>1, <1>3, <2>1, OnInv DEF Mid, Unfiled, Recorded, Named, Saving, Unpaid, Judging, Verified
<1>3a. CASE exec[e].pc = "save" /\ Goto(e, "saving")
  BY <1>1, <1>3a, OnInv DEF Mid, Unfiled, Recorded, Named, Saving, Unpaid, Judging, Holds, Knows
<1>4. CASE rec[RunOf(e)].attempt = None /\ Goto(e, "publish")
  BY <1>1, <1>4, OnInv DEF Mid, Unfiled, Recorded, Named, Saving, Unpaid, Judging, Paid
<1>5. CASE ThrowPay(e) \/ Goto(e, "fail")
  BY <1>1, <1>5, ThrowInv, PlainGoto DEF Plain
<1>6. QED
  BY <1>2, <1>3, <1>3a, <1>4, <1>5 DEF Respond, Verify, Save, Caught

-----------------------------------------------------------------------------
(* Steps of an execution that write the record of its run.                 *)

\* The record of r becomes x, and that is all that is written.
Writes(r, x) ==
    /\ rec' = [rec EXCEPT ![r] = x]
    /\ \E s \in State : column' = [column EXCEPT ![r] = s] \/ column' = column
    /\ UNCHANGED <<payment, filed, chain, past>>

LEMMA WritesStep ==
    ASSUME TypeOK, Inv, NEW r \in Run, NEW x \in Record, Writes(r, x), Shares,
           Refers(x, r), x.state # "reserved"
    PROVE  /\ Grows /\ ChainInv' /\ RecordInv' /\ LedgerStep
           /\ rec'[r] = x /\ payment' = payment /\ filed' = filed /\ chain' = chain
           /\ \A q \in Run \ {r} : Untouched(q)
<1>1. rec'[r] = x /\ \A q \in Run \ {r} : rec'[q] = rec[q] /\ column'[q] = column[q]
  BY DEF Writes, TypeOK
<1>2. \A q \in Run \ {r} : Untouched(q)
  BY <1>1 DEF Untouched, Writes
<1>3. Grows
  BY <1>1 DEF Grows, Writes, Begun, Shares
<1>4. ChainInv' /\ LedgerStep
  BY ShareStep DEF Inv, ChainInv, Writes
<1>5. RecordInv'
  BY <1>1 DEF Inv, RecordInv, Refers, Begun, Writes
<1>6. QED
  BY <1>1, <1>2, <1>3, <1>4, <1>5 DEF Writes

LEMMA WritesMoves ==
    ASSUME TypeOK, Inv, NEW e \in Exec, NEW new, NEW x \in Record, Writes(RunOf(e), x),
           exec' = [exec EXCEPT ![e] = new], new.pc \notin Unsent, Refers(x, RunOf(e)),
           x.state # "reserved",
           \A p \in Proc : pass'[p] \in {pass[p], PassIdle}, leader' \in {leader, None},
           overlap' = overlap
    PROVE  Moves(e) /\ exec'[e] = new
<1>1. \A q \in Run \ {RunOf(e)} : Untouched(q)
  BY WritesStep, ExecHome DEF Shares
<1>2. exec'[e] = new /\ \A f \in Exec \ {e} : exec'[f] = exec[f]
  BY DEF TypeOK
<1>3. QED
  BY <1>1, <1>2 DEF Moves, Undisturbed, Writes

\* An execution writes back what it read, with another state or transaction.
LEMMA WriteBackInv ==
    ASSUME TypeOK, TypeOK', Inv, NEW e \in Exec, exec[e].pc \in Mid, NEW pc, Goto(e, pc),
           NEW x \in Record, Writes(RunOf(e), x), UNCHANGED <<leader, pass, overlap>>,
           Refers(x, RunOf(e)), x.attempt = exec[e].snap.attempt,
           x.state \notin {"reserved", "complete"},
           \/ pc \in Plain
           \/ pc = "finish" /\ exec[e].pc = "publishing"
           \/ pc = "verify" /\ exec[e].pc = "noting"
    PROVE  Inv' /\ Change
<1> DEFINE r == RunOf(e)
<1>0. r \in Run /\ Started(e) /\ Holds(e)
  BY ExecHome DEF Mid, Started, Inv, ExecsInv
<1>1. PICK new : /\ exec' = [exec EXCEPT ![e] = new] /\ exec'[e] = new
                 /\ new.pc = pc /\ new.auth = exec[e].auth
                 /\ new.tx = exec[e].tx /\ new.free = exec[e].free
  <2> DEFINE new == [exec[e] EXCEPT !.pc = pc, !.snap = NoRecord]
  <2>1. new.pc = pc /\ new.auth = exec[e].auth /\ new.tx = exec[e].tx /\ new.free = exec[e].free
    BY DEF TypeOK, ExecRec
  <2>2. exec' = [exec EXCEPT ![e] = new] /\ exec'[e] = new
    BY DEF Goto, Become, TypeOK
  <2>3. QED
    BY <2>1, <2>2
<1>2. /\ Grows /\ ChainInv' /\ RecordInv' /\ LedgerStep
      /\ rec'[r] = x /\ payment' = payment /\ filed' = filed /\ chain' = chain
      /\ \A q \in Run \ {r} : Untouched(q)
  BY <1>0, WritesStep DEF Shares
<1>3. pc \notin Unsent
  BY DEF Plain, Unsent
<1>4. Moves(e)
  BY <1>1, <1>3, WritesMoves
<1>5. Holds(e)'
  <2>1. Begun(r)'
    BY <1>2 DEF Begun
  <2>2. /\ pc \notin Mid \cup Unfiled \cup Unsent \cup Saving
        /\ pc \in Recorded => exec[e].pc \in Recorded
        /\ pc \in Named => exec[e].pc \in Named
    BY DEF Plain, Mid, Unfiled, Unsent, Recorded, Named, Saving
  <2>3. QED
    BY <1>0, <1>1, <1>2, <2>1, <2>2 DEF Holds
<1>6. ASSUME r \notin overlap
      PROVE  Leaves(e, r) /\ rec[r].state \notin Final
  <2>1. Knows(e, r) /\ Tracked(r)
    BY <1>0, <1>6 DEF Inv, RunsInv, Known
  <2>2. exec[e].snap = rec[r] /\ rec[r].state \notin Final /\ x.attempt = rec[r].attempt
    BY <1>0, <2>1 DEF Knows, Holds
  <2>3. Knows(e, r)'
    BY <1>1, <1>2, <2>1, <2>2
       DEF Knows, Plain, Mid, Unpaid, Recorded, Saving, Judging, Paid, OnFile
  <2>4. Live(r)' \subseteq Live(r)
    BY <1>2, LiveStays
  <2>5. Tracked(r)'
    BY <1>2, <2>1, <2>2, <2>4 DEF Tracked
  <2>6. QED
    BY <1>2, <2>2, <2>3, <2>5 DEF Leaves
<1>7. \A q \in Run : Written(q)
  <2>1. \A q \in Run \ {r} : rec'[q] = rec[q]
    BY <1>2 DEF Untouched
  <2>2. overlap' = overlap
    OBVIOUS
  <2>3. QED
    BY <1>2, <1>6, <2>1, <2>2 DEF Written
<1>8. QED
  BY <1>0, <1>2, <1>4, <1>5, <1>6, <1>7, MovesInv DEF Change

LEMMA UpdateWritesInv ==
    ASSUME TypeOK, TypeOK', Inv, NEW e \in Exec, NEW mid \in Mid,
           NEW to \in State \ {"reserved", "complete"}, NEW next,
           UpdateWrites(e, mid, to, next),
           next \in Plain \/ (next = "finish" /\ mid = "publishing")
    PROVE  Inv' /\ Change
<1> DEFINE x == [exec[e].snap EXCEPT !.state = to]
<1>1. exec[e].snap \in Record
  BY DEF TypeOK, ExecRec
<1>2. x \in Record /\ x.state = to /\ x.attempt = exec[e].snap.attempt /\ x.hash = exec[e].snap.hash
  BY <1>1, RecordWith DEF Record
<1>3. Writes(RunOf(e), x)
  BY DEF UpdateWrites, Writes, chainVars
<1> HIDE DEF x
<1>4. Refers(x, RunOf(e))
  BY <1>2 DEF UpdateWrites, Inv, ExecsInv, Holds, Refers
<1>5. QED
  BY <1>2, <1>3, <1>4, WriteBackInv DEF UpdateWrites

LEMMA NotedInv ==
    ASSUME TypeOK, TypeOK', Inv, NEW e \in Exec, Noted(e)
    PROVE  Inv' /\ Change
<1> DEFINE x == [exec[e].snap EXCEPT !.hash = exec[e].tx]
<1>0. exec[e].pc = "noting" /\ exec[e].pc \in Mid /\ exec[e].pc \in Named
  BY DEF Noted, Mid, Named
<1>1. exec[e].snap \in Record /\ exec[e].tx \in Tx /\ Holds(e)
  BY <1>0 DEF TypeOK, ExecRec, Inv, ExecsInv, Holds
<1>2. x \in Record /\ x.state = exec[e].snap.state /\ x.attempt = exec[e].snap.attempt
      /\ x.hash = exec[e].tx
  BY <1>1, RecordWith DEF Record
<1>3. Writes(RunOf(e), x)
  BY DEF Noted, Writes, chainVars, State
<1> HIDE DEF x
<1>4. Refers(x, RunOf(e)) /\ x.state \notin {"reserved", "complete"}
  BY <1>0, <1>1, <1>2 DEF Holds, Refers, Final
<1>5. QED
  BY <1>0, <1>2, <1>3, <1>4, WriteBackInv DEF Noted

LEMMA WrittenBackInv ==
    ASSUME TypeOK, TypeOK', Inv, NEW e \in Exec,
           Rehearsed(e) \/ Targeted(e) \/ Published(e) \/ Failed(e)
    PROVE  Inv' /\ Change
<1>1. /\ {"rehearsing", "targeting", "publishing", "failing"} \subseteq Mid
      /\ {"paid", "target", "publishing", "failed"} \subseteq State \ {"reserved", "complete"}
      /\ {"target", "pay", "finishFailed"} \subseteq Plain
  BY DEF Mid, State, Plain
<1>2. QED
  BY <1>1, UpdateWritesInv DEF Rehearsed, Targeted, Published, Failed

LEMMA FiledInv ==
    ASSUME TypeOK, TypeOK', Inv, NEW e \in Exec, Filed(e)
    PROVE  Inv' /\ Change
<1> DEFINE r == RunOf(e)
           a == exec[e].auth
           x == [exec[e].snap EXCEPT !.attempt = a]
           new == [exec[e] EXCEPT !.pc = "send", !.snap = NoRecord]
<1>0. /\ r \in Run /\ r # None /\ exec[e].pc = "filing" /\ Started(e) /\ Holds(e)
      /\ exec[e].pc \in Mid \cap Unfiled \cap Unsent \cap Unpaid
  BY ExecHome, NoneAssumption DEF Filed, Started, Inv, ExecsInv, Mid, Unfiled, Unsent, Unpaid
<1>1. /\ exec[e].snap \in Record /\ a \in Auth /\ filed[a] = None /\ chain[a] = "signed"
      /\ exec[e].snap.state \notin Final \cup {"reserved"} /\ Refers(exec[e].snap, r)
  BY <1>0 DEF TypeOK, ExecRec, Holds
<1>2. x \in Record /\ x.state = exec[e].snap.state /\ x.attempt = a /\ x.hash = exec[e].snap.hash
  BY <1>1 DEF Record
<1>3. new.pc = "send" /\ new.auth = a
  BY DEF TypeOK, ExecRec
<1>4. /\ exec'[e] = new /\ \A f \in Exec \ {e} : exec'[f] = exec[f]
      /\ rec' = [rec EXCEPT ![r] = x] /\ rec'[r] = x /\ \A q \in Run \ {r} : rec'[q] = rec[q]
      /\ filed' = [filed EXCEPT ![a] = r] /\ filed'[a] = r
      /\ \A b \in Auth \ {a} : filed'[b] = filed[b]
      /\ UNCHANGED <<column, payment, chain, past, leader, pass, holder, overlap, faults>>
  BY <1>0, <1>1 DEF Filed, Goto, Become, TypeOK
<1> HIDE DEF x, new
<1>5. \A q \in Run \ {r} : Untouched(q)
  BY <1>4 DEF Untouched
<1>6. Grows
  BY <1>1, <1>2, <1>4 DEF Grows, Begun
<1>7. ChainInv'
  BY <1>0, <1>1, <1>4 DEF Inv, ChainInv
<1>8. RecordInv'
  <2>1. x.attempt # None => filed'[x.attempt] = r
    BY <1>0, <1>1, <1>2, <1>4, <1>6, RecordFields DEF Refers, Grows
  <2>2. ASSUME NEW q \in Run
        PROVE  Refers(rec[q], q)'
    <3>1. CASE q = r
      BY <1>4, <2>1, <3>1 DEF Refers
    <3>2. CASE q # r
      <4>1. rec'[q] = rec[q] /\ rec[q] \in Record /\ Refers(rec[q], q)
        BY <1>4, <3>2 DEF Inv, RecordInv, TypeOK
      <4>2. QED
        BY <1>6, <4>1, NoneAssumption, RecordFields DEF Refers, Grows
    <3>3. QED
      BY <3>1, <3>2
  <2>3. \A q \in Run : (column[q] # "reserved" => Begun(q))'
    BY <1>1, <1>2, <1>4 DEF Inv, RecordInv, Begun
  <2>4. QED
    BY <2>2, <2>3 DEF RecordInv
<1>9. \A f \in Exec \ {e} : Undisturbed(f)
  <2>1. ASSUME NEW f \in Exec \ {e}, exec[f].pc \in Unsent
        PROVE  exec[f].auth \in Auth \ {a}
    BY <1>0, <2>1 DEF Inv, OwnAuth, ExecsInv, Holds, Unsent, Unfiled, Recorded
  <2>2. QED
    BY <1>4, <2>1 DEF Undisturbed
<1>10. Moves(e)
  BY <1>0, <1>3, <1>4, <1>5, <1>9 DEF Moves
<1>11. Holds(e)'
  BY <1>0, <1>1, <1>2, <1>3, <1>4 DEF Holds, Unfiled, Unsent, Recorded, Named, Saving, Mid, Begun
<1>12. ASSUME r \notin overlap
       PROVE  Leaves(e, r) /\ rec[r].state \notin Final
  <2>1. Knows(e, r) /\ Tracked(r)
    BY <1>0, <1>12 DEF Inv, RunsInv, Known
  <2>2. rec[r].attempt = None /\ payment[r] = None /\ rec[r].state \notin Final
    BY <1>0, <1>1, <2>1 DEF Knows
  <2>3. Knows(e, r)'
    BY <1>2, <1>3, <1>4, <2>2 DEF Knows, Mid, Unpaid, Recorded, Saving, Judging
  <2>4. ASSUME NEW b \in Live(r)'
        PROVE  b = a
    <3>1. b \in Auth /\ filed'[b] = r /\ chain[b] # "used" /\ b \notin past
      BY <1>4, <2>4 DEF Live
    <3>2. CASE b # a
      BY <1>4, <2>1, <2>2, <3>1, <3>2, NoneAssumption DEF Tracked, Live
    <3>3. QED
      BY <3>2
  <2>5. Tracked(r)'
    BY <1>2, <1>4, <2>2, <2>4 DEF Tracked
  <2>6. QED
    BY <2>2, <2>3, <2>5 DEF Leaves
<1>13. \A q \in Run : Written(q)
  BY <1>1, <1>2, <1>4, <1>12 DEF Written, Final
<1>14. Ledger!File(r, a)
  BY <1>1, <1>4 DEF Ledger!File
<1>15. LedgerStep
  BY <1>0, <1>1, <1>14 DEF LedgerStep, Ledger!Next
<1>16. QED
  BY <1>0, <1>6, <1>7, <1>8, <1>10, <1>11, <1>12, <1>13, <1>15, MovesInv DEF Change

\* Writing the chain: the statuses of one authorization that is not charged.
LEMMA ChainStep ==
    ASSUME TypeOK, Inv, NEW e \in Exec, NEW a \in Auth, NEW status \in {"signed", "sent"},
           chain' = [chain EXCEPT ![a] = status], chain[a] # "used",
           UNCHANGED <<recordVars, past, filed, overlap>>,
           status = "sent" => filed[a] # None
    PROVE  Grows /\ ChainInv' /\ RecordInv' /\ Change /\ (\A r : Untouched(r))
           /\ chain'[a] = status /\ \A b \in Auth \ {a} : chain'[b] = chain[b]
<1>1. chain'[a] = status /\ \A b \in Auth \ {a} : chain'[b] = chain[b]
  BY DEF TypeOK
<1>2. Grows /\ \A r : Untouched(r)
  BY <1>1 DEF Grows, Untouched, Begun, recordVars
<1>3. ChainInv' /\ RecordInv'
  BY <1>1 DEF Inv, ChainInv, RecordInv, Refers, Begun, recordVars
<1>4. {b \in Auth : chain'[b] = "used"} = {b \in Auth : chain[b] = "used"}
  BY <1>1
<1>5. LedgerStep
  BY <1>4 DEF LedgerStep, recordVars
<1>6. \A r \in Run : Written(r)
  BY DEF Written, recordVars
<1>7. QED
  BY <1>1, <1>2, <1>3, <1>5, <1>6 DEF Change

LEMMA SignInv ==
    ASSUME TypeOK, TypeOK', Inv, NEW e \in Exec, Sign(e)
    PROVE  Inv' /\ Change
<1>0. exec[e].pc = "sign" /\ Started(e) /\ UNCHANGED <<recordVars, past, filed, leader, pass, overlap>>
      /\ Holds(e) /\ RunOf(e) \in Run
  BY ExecHome DEF Sign, Started, Inv, ExecsInv
<1>1. CASE ThrowPay(e) /\ UNCHANGED chain
  BY <1>0, <1>1, ThrowInv DEF Unwritten, recordVars
<1>2. ASSUME NEW a \in Auth, chain[a] = "unused", chain' = [chain EXCEPT ![a] = "signed"],
             Become(e, [exec[e] EXCEPT !.pc = "file", !.auth = a])
      PROVE  Inv' /\ Change
  <2> DEFINE new == [exec[e] EXCEPT !.pc = "file", !.auth = a]
  <2>1. new.pc = "file" /\ new.auth = a
    BY DEF TypeOK, ExecRec
  <2>2. exec'[e] = new /\ \A f \in Exec \ {e} : exec'[f] = exec[f]
    BY <1>2 DEF Become, TypeOK
  <2> HIDE DEF new
  <2>3. Grows /\ ChainInv' /\ RecordInv' /\ Change /\ (\A r : Untouched(r))
        /\ chain'[a] = "signed" /\ \A b \in Auth \ {a} : chain'[b] = chain[b]
    BY <1>0, <1>2, ChainStep
  <2>4. \A f \in Exec \ {e} : Undisturbed(f)
    BY <1>0, <1>2, <2>3 DEF Undisturbed, Inv, ExecsInv, Holds, Unsent, Unfiled, Recorded
  <2>5. Moves(e)
    BY <1>0, <1>2, <2>1, <2>2, <2>3, <2>4 DEF Moves
  <2>6. filed'[a] = None
    BY <1>0, <1>2 DEF Inv, ChainInv
  <2>7. Holds(e)'
    BY <1>0, <2>1, <2>2, <2>3, <2>6
       DEF Holds, Unfiled, Unsent, Recorded, Named, Saving, Mid, Begun, recordVars
  <2>8. ASSUME RunOf(e) \notin overlap
        PROVE  Leaves(e, RunOf(e))
    <3>1. Knows(e, RunOf(e)) /\ Tracked(RunOf(e))
      BY <1>0, <2>8 DEF Inv, RunsInv, Known
    <3>2. Knows(e, RunOf(e))'
      BY <1>0, <2>1, <2>2, <3>1 DEF Knows, Mid, Unpaid, Recorded, Saving, Judging, recordVars
    <3>3. QED
      BY <2>3, <3>1, <3>2, TrackedStays DEF Leaves, Untouched
  <2>9. QED
    BY <1>0, <2>3, <2>5, <2>7, <2>8, MovesInv
<1>3. QED
  BY <1>1, <1>2 DEF Sign

LEMMA SendInv ==
    ASSUME TypeOK, TypeOK', Inv, NEW e \in Exec, Send(e)
    PROVE  Inv' /\ Change
<1>0. exec[e].pc = "send" /\ Started(e) /\ UNCHANGED <<recordVars, past, filed, leader, pass, overlap>>
      /\ Holds(e) /\ RunOf(e) \in Run
  BY ExecHome DEF Send, Started, Inv, ExecsInv
<1>1. CASE ThrowPay(e) /\ UNCHANGED chain
  BY <1>0, <1>1, ThrowInv DEF Unwritten, recordVars
<1>2. CASE chain' = [chain EXCEPT ![exec[e].auth] = "sent"] /\ Goto(e, "await")
  <2> DEFINE new == [exec[e] EXCEPT !.pc = "await", !.snap = NoRecord]
             a == exec[e].auth
  <2>1. new.pc = "await" /\ new.auth = a
    BY DEF TypeOK, ExecRec
  <2>2. exec'[e] = new /\ \A f \in Exec \ {e} : exec'[f] = exec[f]
    BY <1>2 DEF Goto, Become, TypeOK
  <2> HIDE DEF new
  <2>3. a \in Auth /\ filed[a] = RunOf(e) /\ filed[a] # None /\ chain[a] = "signed"
    BY <1>0, NoneAssumption DEF Holds, Recorded, Unsent
  <2>4. Grows /\ ChainInv' /\ RecordInv' /\ Change /\ (\A r : Untouched(r))
        /\ chain'[a] = "sent" /\ \A b \in Auth \ {a} : chain'[b] = chain[b]
    BY <1>0, <1>2, <2>3, ChainStep
  <2>5. \A f \in Exec \ {e} : exec[f].pc \in Unsent => exec[f].auth \in Auth \ {a}
    BY <1>0 DEF Inv, OwnAuth, ExecsInv, Holds, Unsent, Unfiled, Recorded
  <2>6. \A f \in Exec \ {e} : Undisturbed(f)
    BY <1>0, <2>4, <2>5 DEF Undisturbed
  <2>7. Moves(e)
    BY <1>0, <2>1, <2>2, <2>4, <2>6 DEF Moves, Unsent
  <2>8. Holds(e)'
    BY <1>0, <2>1, <2>2, <2>3
       DEF Holds, Unfiled, Unsent, Recorded, Named, Saving, Mid, Begun, recordVars
  <2>9. ASSUME RunOf(e) \notin overlap
        PROVE  Leaves(e, RunOf(e))
    <3>1. Knows(e, RunOf(e)) /\ Tracked(RunOf(e))
      BY <1>0, <2>9 DEF Inv, RunsInv, Known
    <3>2. Knows(e, RunOf(e))'
      BY <1>0, <2>1, <2>2, <3>1 DEF Knows, Mid, Unpaid, Recorded, Saving, Judging, recordVars
    <3>3. QED
      BY <2>4, <3>1, <3>2, TrackedStays DEF Leaves, Untouched
  <2>10. QED
    BY <1>0, <2>4, <2>7, <2>8, <2>9, MovesInv
<1>3. QED
  BY <1>1, <1>2 DEF Send

-----------------------------------------------------------------------------
(* Saving the payment, and the end of an execution.                        *)

LEMMA CreditStep ==
    ASSUME TypeOK, Inv, NEW r \in Run, NEW t \in Tx, Upserted(r, t),
           Transferred(t), r \in overlap \/ (t \in Auth /\ filed[t] = r),
           UNCHANGED <<rec, column, chainVars, overlap>>
    PROVE  /\ Grows /\ ChainInv' /\ RecordInv' /\ Change
           /\ \A q \in Run \ {r} : Untouched(q)
           /\ payment'[r] \in {payment[r], t}
           /\ payment[r] = None => Paid(t)'
<1>0. t # None
  BY NoneAssumption DEF Tx
<1>1. /\ \A q \in Run \ {r} : payment'[q] = payment[q]
      /\ payment[r] # None => payment'[r] = payment[r]
      /\ payment'[r] \in {payment[r], t}
  BY DEF Upserted, Refused, TypeOK
<1>2. Grows /\ \A q \in Run \ {r} : Untouched(q)
  BY <1>1 DEF Grows, Untouched, Begun, chainVars
<1>3. ChainInv' /\ RecordInv'
  BY DEF Inv, ChainInv, RecordInv, Refers, Begun, chainVars
<1>4. \A q \in Run : Written(q)
  BY DEF Written
<1>5. LedgerStep
  <2>1. CASE payment' = payment
    BY <2>1 DEF LedgerStep, chainVars
  <2>2. CASE ~OnFile(t) /\ payment[r] = None /\ payment' = [payment EXCEPT ![r] = t]
    <3>1. t \in {a \in Auth : chain[a] = "used"} \cup Foreign
      BY DEF Transferred
    <3>2. r \in overlap \/ (t \in {a \in Auth : chain[a] = "used"} /\ filed[t] = r)
      BY NamesAssumption DEF Transferred
    <3>3. Ledger!Credit(r, t)
      BY <2>2, <3>1, <3>2 DEF Ledger!Credit, OnFile, chainVars
    <3>4. QED
      BY <3>1, <3>3 DEF LedgerStep, Ledger!Next
  <2>3. QED
    BY <2>1, <2>2 DEF Upserted, Refused
<1>6. payment[r] = None => Paid(t)'
  BY <1>1 DEF Upserted, Refused, Paid, OnFile, TypeOK
<1>7. QED
  BY <1>1, <1>2, <1>3, <1>4, <1>5, <1>6 DEF Change

LEMMA SavedInv ==
    ASSUME TypeOK, TypeOK', Inv, NEW e \in Exec, Saved(e)
    PROVE  Inv' /\ Change
<1> DEFINE r == RunOf(e)
<1>0. exec[e].pc = "saving" /\ Started(e) /\ Holds(e) /\ r \in Run
      /\ UNCHANGED <<rec, column, chainVars, leader, pass, overlap>>
  BY ExecHome DEF Saved, Started, Inv, ExecsInv
<1>1. PICK t \in Tx : t = exec[e].tx /\ Transferred(t)
                     /\ exec[e].auth \in Auth /\ filed[exec[e].auth] = r
  BY <1>0 DEF Holds, Recorded, Named, Saving
<1>2. ASSUME r \notin overlap
      PROVE  /\ Knows(e, r) /\ Tracked(r) /\ t = exec[e].auth
             /\ rec[r].attempt = t /\ payment[r] = None
  BY <1>0, <1>1, <1>2 DEF Inv, RunsInv, Known, Knows, Saving, Recorded
<1>3. /\ Grows /\ ChainInv' /\ RecordInv' /\ Change
      /\ \A q \in Run \ {r} : Untouched(q)
      /\ payment'[r] \in {payment[r], t}
      /\ payment[r] = None => Paid(t)'
  <2>1. r \in overlap \/ (t \in Auth /\ filed[t] = r)
    BY <1>1, <1>2
  <2>2. Upserted(r, t)
    BY <1>1 DEF Saved
  <2>3. QED
    BY <1>0, <1>1, <2>1, <2>2, CreditStep
<1>4. PICK pc \in {"publish", "caught"} : Leave(e, pc)
  BY DEF Saved
<1>5. PICK new : /\ exec' = [exec EXCEPT ![e] = new] /\ exec'[e] = new
                 /\ new.pc = pc /\ new.free = exec[e].free
  BY <1>4, LeaveMoves
<1>6. Moves(e)
  BY <1>0, <1>3, <1>5 DEF Moves, Undisturbed, Unsent, chainVars, TypeOK
<1>7. Holds(e)'
  BY <1>0, <1>5 DEF Holds, Begun, Unfiled, Unsent, Recorded, Named, Saving, Mid
<1>8. ASSUME r \notin overlap
      PROVE  Leaves(e, r)
  <2>0. Paid(rec[r].attempt)'
    BY <1>0, <1>2, <1>3, <1>8 DEF Paid, OnFile
  <2>1. Knows(e, r)'
    BY <1>5, <2>0 DEF Knows, Mid, Unpaid, Recorded, Saving, Judging
  <2>2. Tracked(r)'
    BY <1>0, <1>2, <1>3, <1>8 DEF Tracked, Live, chainVars
  <2>3. QED
    BY <1>0, <2>1, <2>2 DEF Leaves
<1>9. QED
  BY <1>0, <1>3, <1>6, <1>7, <1>8, MovesInv

\* An execution that is over may take the startup of its process with it.
LEMMA OverMoves ==
    ASSUME TypeOK, NEW e \in Exec, NEW threw, Over(e, threw)
    PROVE  /\ exec' = [exec EXCEPT ![e] = Idle] /\ exec'[e] = Idle
           /\ \A p \in Proc : pass'[p] \in {pass[p], PassIdle}
           /\ leader' \in {leader, None}
<1>1. exec' = [exec EXCEPT ![e] = Idle] /\ exec'[e] = Idle
  BY DEF Over, Become, TypeOK
<1>2. QED
  BY <1>1 DEF Over, TypeOK

\* The final record of a run whose execution is over.
LEMMA FinalisedInv ==
    ASSUME TypeOK, TypeOK', Inv, NEW e \in Exec, Started(e), NEW threw, Over(e, threw),
           NEW state \in Final, Finalised(RunOf(e), state), rec[RunOf(e)].state \notin Final,
           UNCHANGED <<payment, chainVars, overlap>>
    PROVE  Inv' /\ Change
<1> DEFINE r == RunOf(e)
           x == [NoRecord EXCEPT !.state = state]
<1>0. r \in Run /\ state \in State /\ state # "reserved"
  BY ExecHome DEF Final, State
<1>1. x \in Record /\ x.state = state /\ x.attempt = None /\ x.hash = None
  BY <1>0, Values DEF Record
<1>2. Writes(r, x)
  BY <1>0 DEF Finalised, Writes, chainVars
<1> HIDE DEF x
<1>3. Refers(x, r)
  BY <1>1 DEF Refers
<1>4. /\ Grows /\ ChainInv' /\ RecordInv' /\ LedgerStep
      /\ rec'[r] = x /\ payment' = payment /\ filed' = filed /\ chain' = chain
      /\ \A q \in Run \ {r} : Untouched(q)
  BY <1>0, <1>1, <1>2, <1>3, WritesStep DEF Shares
<1>5. exec'[e] = Idle /\ ~Started(e)' /\ Idle.pc \notin Unsent
  BY OverMoves, Values DEF Started, Unsent
<1>6. Moves(e)
  BY <1>0, <1>1, <1>2, <1>3, <1>5, OverMoves, WritesMoves
<1>7. Holds(e)' /\ Knows(e, r)'
  BY <1>5, IdleHolds, IdleKnows
<1>8. r \notin overlap => Tracked(r)'
  <2>1. Live(r)' \subseteq Live(r)
    BY <1>4, LiveStays
  <2>2. QED
    BY <1>0, <1>1, <1>4, <2>1 DEF Tracked, Inv, RunsInv
<1>9. r \notin overlap => Leaves(e, r)
  BY <1>1, <1>4, <1>5, <1>7, <1>8 DEF Leaves
<1>10. \A q \in Run : Written(q)
  <2>1. \A q \in Run \ {r} : rec'[q] = rec[q]
    BY <1>4 DEF Untouched
  <2>2. QED
    BY <1>1, <1>4, <2>1 DEF Written
<1>11. QED
  BY <1>4, <1>6, <1>7, <1>9, <1>10, MovesInv DEF Change

LEMMA FinishInv ==
    ASSUME TypeOK, TypeOK', Inv, NEW e \in Exec, Finish(e) \/ FinishFailed(e)
    PROVE  Inv' /\ Change
<1>0. /\ exec[e].pc \in {"finish", "finishFailed"} /\ Started(e) /\ RunOf(e) \in Run
      /\ UNCHANGED <<payment, chainVars, overlap>>
      /\ {"complete", "notRehearsable"} \subseteq Final
  BY ExecHome DEF Finish, FinishFailed, Started, Final
<1>1. CASE /\ exec[e].pc = "finish" /\ rec[RunOf(e)].state \notin Final
           /\ Finalised(RunOf(e), "complete") /\ Over(e, FALSE)
  BY <1>0, <1>1, FinalisedInv
<1>2. CASE Goto(e, "fail") /\ UNCHANGED <<rec, column, leader, pass>>
  BY <1>0, <1>2, PlainGoto DEF Plain, Unwritten, chainVars
<1>3. CASE /\ rec[RunOf(e)].state \notin Final
           /\ Finalised(RunOf(e), "notRehearsable") /\ Over(e, TRUE)
  BY <1>0, <1>3, FinalisedInv
<1>4. CASE Over(e, TRUE) /\ UNCHANGED <<rec, column>>
  <2>1. Quiet(e, Idle) /\ Idle.pc = "idle"
    BY <1>0, <1>4, OverMoves, Values DEF Quiet, Unwritten, chainVars
  <2>2. QED
    BY <1>0, <2>1, PlainInv
<1>5. QED
  BY <1>1, <1>2, <1>3, <1>4 DEF Finish, FinishFailed

-----------------------------------------------------------------------------
(* An execution starts.                                                    *)

LEMMA StartInv ==
    ASSUME TypeOK, TypeOK', Inv, Grows, ChainInv', RecordInv', NEW e \in Exec, ~Started(e),
           NEW new, new.pc = "rehearse", exec' = [exec EXCEPT ![e] = new], Begun(RunOf(e))',
           Meets(RunOf(e)), UNCHANGED <<payment, filed, chain, past, leader>>, PassesInv',
           \A q \in Run \ {RunOf(e)} : Untouched(q),
           \A p \in Proc : pass'[p] = pass[p] \/ (pass'[p].run = None /\ pass'[p].pc \notin Sweeping),
           \A p \in Proc : leader = p /\ pass[p].pc \in Sweeping => RunOf(e) \notin pass[p].todo,
           RunOf(e) \notin overlap => Tracked(RunOf(e))'
    PROVE  Inv'
<1> DEFINE r == RunOf(e)
<1>0. r \in Run /\ r # None
  BY ExecHome, NoneAssumption
<1>1. exec'[e] = new /\ \A f \in Exec \ {e} : exec'[f] = exec[f]
  BY DEF TypeOK
<1>2. Holds(e)'
  BY <1>1 DEF Holds, Unfiled, Recorded, Unsent, Named, Saving, Mid
<1>3. ExecsInv'
  BY <1>1, <1>2, HoldsStays DEF Inv, ExecsInv, Undisturbed
<1>4. OwnAuth'
  BY <1>1 DEF Inv, OwnAuth, Unsent
<1>5. ASSUME NEW q \in Run \ overlap', q # r
      PROVE  Alone(q)' /\ Known(q)' /\ Tracked(q)'
  <2>1. q \notin overlap /\ Untouched(q)
    BY <1>5 DEF Meets
  <2>2. \A f \in Exec : RunOf(f) = q => exec'[f] = exec[f]
    BY <1>1, <1>5
  <2>3. \A p \in Proc : pass'[p] = pass[p] \/ (pass'[p].run # q /\ pass'[p].pc \notin Sweeping)
    BY <1>5, NoneAssumption
  <2>4. QED
    BY <2>1, <2>2, <2>3, KnownStays
<1>6. ASSUME r \notin overlap'
      PROVE  Alone(r)' /\ Known(r)' /\ Tracked(r)'
  <2>1. ~Working(r) /\ r \notin overlap
    BY <1>6 DEF Meets
  <2>2. \A f \in Exec \ {e} : RunOf(f) = r => ~Started(f)'
    BY <1>1, <2>1 DEF Working, Started
  <2>3. \A p \in Proc : pass'[p].run # r
    BY <1>0, <2>1 DEF Working
  <2>4. Alone(r)'
    BY <2>2, <2>3 DEF Alone
  <2>5. Knows(e, r)'
    BY <1>1 DEF Knows, Mid, Unpaid, Recorded, Saving, Judging
  <2>6. Known(r)'
    BY <1>0, <2>2, <2>3, <2>5, IdleKnows DEF Known
  <2>7. QED
    BY <2>1, <2>4, <2>6
<1>7. RunsInv'
  BY <1>5, <1>6 DEF RunsInv
<1>8. QED
  BY <1>3, <1>4, <1>7 DEF Inv

LEMMA SettledInv ==
    ASSUME TypeOK, TypeOK', Inv, NEW e \in Exec, Settled(e)
    PROVE  Inv' /\ Change
<1> DEFINE r == RunOf(e)
           x == [rec[r] EXCEPT !.state = "paid"]
           new == [exec[e] EXCEPT !.pc = "rehearse", !.snap = NoRecord]
<1>0. /\ r \in Run /\ ~Started(e) /\ rec[r].state = "reserved" /\ rec[r] \in Record
      /\ UNCHANGED <<payment, chainVars, leader, pass>> /\ Meets(r) /\ "paid" \in State
  BY ExecHome DEF Settled, Started, TypeOK, State
<1>1. x \in Record /\ x.state = "paid" /\ x.attempt = rec[r].attempt /\ x.hash = rec[r].hash
  BY <1>0 DEF Record
<1>2. Writes(r, x)
  BY <1>0 DEF Settled, Writes, chainVars
<1>3. new.pc = "rehearse" /\ exec' = [exec EXCEPT ![e] = new]
  BY DEF Settled, Goto, Become, TypeOK, ExecRec
<1> HIDE DEF x, new
<1>4. Refers(x, r)
  BY <1>0, <1>1 DEF Inv, RecordInv, Refers
<1>5. Shares
  BY <1>0 DEF Meets, Shares
<1>6. /\ Grows /\ ChainInv' /\ RecordInv' /\ LedgerStep
      /\ rec'[r] = x /\ payment' = payment /\ filed' = filed /\ chain' = chain
      /\ \A q \in Run \ {r} : Untouched(q)
  BY <1>0, <1>1, <1>2, <1>4, <1>5, WritesStep
<1>7. PassesInv'
  BY <1>0, <1>6, PassHoldsStays DEF Inv, PassesInv
<1>8. r \notin overlap => Tracked(r)'
  BY <1>0, <1>1, <1>6, LiveStays DEF Inv, RunsInv, Tracked, Final
<1>9. \A p \in Proc : r \notin pass[p].todo
  BY <1>0 DEF Inv, PassesInv, PassHolds, Begun
<1>10. Begun(r)'
  BY <1>1, <1>6 DEF Begun
<1>11. Inv'
  BY <1>0, <1>3, <1>6, <1>7, <1>8, <1>9, <1>10, StartInv DEF chainVars
<1>12. \A q \in Run : Written(q)
  BY <1>0, <1>1, <1>6 DEF Written, Untouched, Final
<1>13. QED
  BY <1>6, <1>11, <1>12 DEF Change

LEMMA ExecInv ==
    ASSUME TypeOK, TypeOK', Inv, NEW e \in Exec, ExecStep(e)
    PROVE  Inv' /\ Change
BY SettledInv, StageInv, LapseInv, LookupInv, FileInv, AnswerInv, WrittenBackInv, NotedInv,
   FiledInv, SignInv, SendInv, SavedInv, FinishInv DEF ExecStep

-----------------------------------------------------------------------------
(* Steps of the startup of a process.                                      *)

\* The startup of p goes on; everybody else stays.
PassMoves(p) ==
    /\ UNCHANGED <<exec, chain, filed, past>>
    /\ \A s \in Proc \ {p} : pass'[s] = pass[s]
    /\ leader' \in {leader, None, p} /\ overlap \subseteq overlap'

\* What it leaves of run q.
PassLeaves(p, q) ==
    /\ \/ Untouched(q)
       \/ pass[p].run = q /\ rec'[q].attempt \in {rec[q].attempt, None}
    /\ pass'[p].run = q => PassKnows(p, q)' /\ (pass[p].run = q \/ ~Working(q))
    /\ leader' = p /\ pass'[p].pc \in Sweeping /\ q \in pass'[p].todo => ListedKnown(p, q)'
    /\ Tracked(q)'

LEMMA PassMovesInv ==
    ASSUME TypeOK, TypeOK', Inv, Grows, ChainInv', RecordInv', NEW p \in Proc, PassMoves(p),
           PassHolds(p)', \A q \in Run \ overlap' : PassLeaves(p, q)
    PROVE  Inv'
<1>1. ExecsInv' /\ OwnAuth'
  BY HoldsStays DEF Inv, ExecsInv, OwnAuth, PassMoves, Undisturbed
<1>2. PassesInv'
  BY PassHoldsStays DEF Inv, PassesInv, PassMoves
<1>3. ASSUME NEW q \in Run \ overlap'
      PROVE  Alone(q)' /\ Known(q)' /\ Tracked(q)'
  <2>1. Alone(q) /\ Known(q) /\ Tracked(q) /\ q # None
    BY <1>3, NoneAssumption DEF Inv, RunsInv, PassMoves
  <2>2. PassLeaves(p, q) /\ exec' = exec /\ \A s \in Proc \ {p} : pass'[s] = pass[s]
    BY <1>3 DEF PassMoves
  <2>3. Alone(q)'
    BY <2>1, <2>2 DEF Alone, PassLeaves, Working, Started
  <2>4. ASSUME NEW f \in Exec, RunOf(f) = q
        PROVE  Knows(f, q)'
    <3>1. CASE Untouched(q)
      BY <2>1, <2>2, <2>4, <3>1, KnowsStays DEF Known
    <3>2. CASE pass[p].run = q
      BY <2>1, <2>2, <2>4, <3>2, IdleKnows DEF Alone, Started
    <3>3. QED
      BY <2>2, <3>1, <3>2 DEF PassLeaves
  <2>5. ASSUME NEW s \in Proc, pass'[s].run = q
        PROVE  PassKnows(s, q)'
    <3>1. CASE s # p /\ Untouched(q)
      BY <2>1, <2>2, <2>5, <3>1, KnowsStays DEF Known
    <3>2. CASE s # p /\ pass[p].run = q
      BY <2>1, <2>2, <2>5, <3>2 DEF Alone
    <3>3. QED
      BY <2>2, <2>5, <3>1, <3>2 DEF PassLeaves
  <2>6. ASSUME NEW s \in Proc, leader' = s, pass'[s].pc \in Sweeping, q \in pass'[s].todo
        PROVE  ListedKnown(s, q)'
    <3>1. CASE s # p
      <4>1. leader = s /\ pass'[s] = pass[s]
        BY <2>2, <2>6, <3>1, NoneAssumption DEF PassMoves
      <4>2. ListedKnown(s, q)
        BY <2>1, <2>6, <4>1 DEF Known
      <4>3. CASE Untouched(q)
        BY <2>2, <4>1, <4>2, <4>3 DEF ListedKnown, Untouched, Started
      <4>4. CASE pass[p].run = q /\ rec'[q].attempt \in {rec[q].attempt, None}
        <5>1. \A f \in Exec : RunOf(f) = q => ~Started(f)'
          BY <2>1, <2>2, <4>4 DEF Alone, Started
        <5>2. QED
          BY <4>1, <4>2, <4>4, <5>1 DEF ListedKnown
      <4>5. QED
        BY <2>2, <4>3, <4>4 DEF PassLeaves
    <3>2. QED
      BY <2>2, <2>6, <3>1 DEF PassLeaves
  <2>7. QED
    BY <2>2, <2>3, <2>4, <2>5, <2>6 DEF Known, PassLeaves
<1>4. RunsInv'
  BY <1>3 DEF RunsInv
<1>5. QED
  BY <1>1, <1>2, <1>4 DEF Inv

\* Steps that write nothing and take no run.
LEMMA PassQuietInv ==
    ASSUME TypeOK, TypeOK', Inv, NEW p \in Proc, NEW new, pass' = [pass EXCEPT ![p] = new],
           Unwritten, UNCHANGED <<exec, overlap>>, leader' \in {leader, None}, PassHolds(p)',
           new.run \in {None, pass[p].run}, new.todo \subseteq pass[p].todo,
           new.pc \in Sweeping => pass[p].pc \in Sweeping /\ new.listed = pass[p].listed,
           new.run # None => new.attempt = pass[p].attempt,
           new.run # None /\ new.pc \in PassMid => new.snap = rec[pass[p].run]
    PROVE  Inv' /\ Change
<1>1. Grows /\ ChainInv' /\ RecordInv' /\ Change /\ \A r : Untouched(r)
  BY UnwrittenStep DEF Shares
<1>2. pass'[p] = new /\ \A s \in Proc \ {p} : pass'[s] = pass[s]
  BY DEF TypeOK
<1>3. PassMoves(p)
  BY <1>2 DEF PassMoves, Unwritten
<1>4. ASSUME NEW q \in Run \ overlap
      PROVE  PassLeaves(p, q)
  <2>1. Known(q) /\ Tracked(q) /\ q # None
    BY <1>4, NoneAssumption DEF Inv, RunsInv
  <2>2. Tracked(q)'
    BY <1>1, <2>1, TrackedStays
  <2>3. pass'[p].run = q => PassKnows(p, q)' /\ pass[p].run = q
    BY <1>2, <2>1 DEF Known, PassKnows, Unwritten
  <2>4. leader' = p /\ pass'[p].pc \in Sweeping /\ q \in pass'[p].todo => ListedKnown(p, q)'
    BY <1>2, <2>1, NoneAssumption DEF Known, ListedKnown, Unwritten, Started
  <2>5. QED
    BY <1>1, <2>2, <2>3, <2>4 DEF PassLeaves
<1>5. QED
  BY <1>1, <1>3, <1>4, PassMovesInv

LEMMA PassFields ==
    ASSUME TypeOK, NEW p \in Proc
    PROVE  /\ pass[p] \in PassRec
           /\ pass[p].pc \in PassPc /\ pass[p].listed \in [Run -> Record]
           /\ pass[p].todo \in SUBSET Run /\ pass[p].run \in Run \cup {None}
           /\ pass[p].attempt \in Auth \cup {None} /\ pass[p].hash \in Tx \cup {None}
           /\ pass[p].snap \in Record
BY DEF TypeOK, PassRec

\* A pass that goes on with its run.
LEMMA PassOnInv ==
    ASSUME TypeOK, TypeOK', Inv, NEW p \in Proc, NEW pc \in Reconciling, NEW hash, NEW snap,
           pass[p].pc \in Reconciling,
           pass' = [pass EXCEPT ![p] = [pass[p] EXCEPT !.pc = pc, !.hash = hash, !.snap = snap]],
           Unwritten, UNCHANGED <<exec, leader, overlap>>,
           pc \in Traced => hash \in Tx,
           pc \in Saving => chain[pass[p].attempt] = "used" /\ hash = pass[p].attempt,
           pc \in Clearing => pass[p].attempt \in past,
           pc \in PassMid => snap = rec[pass[p].run] /\ snap.state \notin Final
    PROVE  Inv' /\ Change
<1> DEFINE new == [pass[p] EXCEPT !.pc = pc, !.hash = hash, !.snap = snap]
<1>1. /\ new.pc = pc /\ new.hash = hash /\ new.snap = snap /\ new.run = pass[p].run
      /\ new.todo = pass[p].todo /\ new.listed = pass[p].listed /\ new.attempt = pass[p].attempt
  BY PassFields DEF PassRec
<1>2. pass'[p] = new
  BY DEF TypeOK
<1> HIDE DEF new
<1>3. PassHolds(p) /\ pass[p].run \in Run /\ Refers(rec[pass[p].run], pass[p].run)
      /\ Begun(pass[p].run) /\ pass[p].todo \subseteq Run
  <2>1. PassHolds(p)
    BY DEF Inv, PassesInv
  <2>2. pass[p].run \in Run /\ Begun(pass[p].run) /\ pass[p].todo \subseteq Run
    BY <2>1, PassFields DEF PassHolds
  <2>3. QED
    BY <2>1, <2>2 DEF Inv, RecordInv
<1>4. /\ pc \in PassMid => Refers(snap, pass[p].run)' /\ snap.state \notin Final \cup {"reserved"}
      /\ \A r \in Run : Refers(pass[p].listed[r], r)'
      /\ \A r \in Run : Begun(r)' = Begun(r)
  BY <1>3 DEF PassHolds, Refers, Begun, Unwritten
<1>5. PassHolds(p)'
  BY <1>1, <1>2, <1>3, <1>4, PassFields DEF PassHolds, Sweeping, Unwritten
<1>6. pass' = [pass EXCEPT ![p] = new]
  BY DEF new
<1>7. QED
  BY <1>1, <1>5, <1>6, PassQuietInv DEF Sweeping

LEMMA PassGotoInv ==
    ASSUME TypeOK, TypeOK', Inv, NEW p \in Proc, NEW pc \in Reconciling \ PassMid,
           pass[p].pc \in Reconciling, PassGoto(p, pc),
           Unwritten, UNCHANGED <<exec, leader, overlap>>,
           pc \in Traced => pass[p].hash \in Tx,
           pc \in Saving => chain[pass[p].attempt] = "used" /\ pass[p].hash = pass[p].attempt,
           pc \in Clearing => pass[p].attempt \in past
    PROVE  Inv' /\ Change
<1>1. [pass[p] EXCEPT !.pc = pc, !.hash = pass[p].hash, !.snap = NoRecord]
          = [pass[p] EXCEPT !.pc = pc, !.snap = NoRecord]
  BY PassFields DEF PassRec
<1>2. pass' = [pass EXCEPT ![p] = [pass[p] EXCEPT !.pc = pc, !.snap = NoRecord]]
  BY DEF PassGoto, TypeOK
<1>3. QED
  BY <1>1, <1>2, PassOnInv

\* A pass that leaves its run, or falls.
LEMMA NextRec ==
    ASSUME TypeOK, NEW p \in Proc, PassNext(p)
    PROVE  \E new : /\ pass' = [pass EXCEPT ![p] = new] /\ pass'[p] = new
                    /\ new.pc = "each" /\ new.run = None
                    /\ new.todo = pass[p].todo /\ new.listed = pass[p].listed
<1> DEFINE new == [PassIdle EXCEPT !.pc = "each", !.listed = pass[p].listed, !.todo = pass[p].todo]
<1>1. /\ new.pc = "each" /\ new.run = None
      /\ new.todo = pass[p].todo /\ new.listed = pass[p].listed
  BY Values DEF PassRec
<1>2. pass' = [pass EXCEPT ![p] = new] /\ pass'[p] = new
  BY DEF PassNext, TypeOK
<1>3. QED
  BY <1>1, <1>2

LEMMA NextHolds ==
    ASSUME TypeOK, Inv, Grows, NEW p \in Proc, pass[p].pc \in Reconciling, PassNext(p)
    PROVE  PassHolds(p)'
<1>1. PICK new : /\ pass'[p] = new /\ new.pc = "each" /\ new.run = None
                 /\ new.todo = pass[p].todo /\ new.listed = pass[p].listed
  BY NextRec
<1>2. PassHolds(p) /\ pass[p].todo \subseteq Run /\ None \notin Run
  BY PassFields, NoneAssumption DEF Inv, PassesInv
<1>3. ASSUME NEW r \in Run
      PROVE  Refers(pass[p].listed[r], r)'
  <2>1. pass[p].listed[r] \in Record /\ Refers(pass[p].listed[r], r)
    BY <1>2, PassFields DEF PassHolds
  <2>2. QED
    BY <1>1, <2>1, RefersGrows DEF Refers
<1>4. \A r \in pass[p].todo : Begun(r)' /\ pass[p].listed[r].attempt # None
  BY <1>2 DEF PassHolds, Grows, Sweeping
<1>5. QED
  BY <1>1, <1>2, <1>3, <1>4
     DEF PassHolds, Sweeping, Reconciling, Traced, Saving, Clearing, PassMid

LEMMA PassNextInv ==
    ASSUME TypeOK, TypeOK', Inv, NEW p \in Proc, pass[p].pc \in Reconciling, PassNext(p),
           Unwritten, UNCHANGED <<exec, leader, overlap>>
    PROVE  Inv' /\ Change
<1>1. PICK new : /\ pass' = [pass EXCEPT ![p] = new] /\ new.pc = "each" /\ new.run = None
                 /\ new.todo = pass[p].todo /\ new.listed = pass[p].listed
  BY NextRec
<1>2. Grows
  BY UnwrittenStep DEF Shares
<1>3. PassHolds(p)'
  BY <1>2, NextHolds
<1>4. QED
  BY <1>1, <1>3, PassQuietInv DEF Sweeping

LEMMA PassFallInv ==
    ASSUME TypeOK, TypeOK', Inv, NEW p \in Proc, PassThrows(p)
    PROVE  Inv' /\ Change
<1>1. pass' = [pass EXCEPT ![p] = PassIdle] /\ pass'[p] = PassIdle
  BY DEF PassThrows, TypeOK
<1>2. Unwritten /\ UNCHANGED <<exec, overlap>> /\ leader' \in {leader, None}
  BY DEF PassThrows, Unwritten, recordVars, chainVars
<1>3. PassHolds(p)'
  BY <1>1, IdleHolds
<1>4. QED
  BY <1>1, <1>2, <1>3, PassQuietInv, Values DEF Sweeping, Reconciling

LEMMA FallsInv ==
    ASSUME TypeOK, TypeOK', Inv, NEW p \in Proc, Deposed(p) \/ Interrupted(p)
    PROVE  Inv' /\ Change
BY PassFallInv DEF Deposed, Interrupted

\* Listing the attempts: what is listed is known.
LEMMA ListInv ==
    ASSUME TypeOK, TypeOK', Inv, NEW p \in Proc, List(p)
    PROVE  Inv' /\ Change
<1> DEFINE new == [PassIdle EXCEPT !.pc = "each", !.listed = rec, !.todo = PendingAttempts]
<1>1. CASE /\ pass' = [pass EXCEPT ![p] = new]
           /\ UNCHANGED <<recordVars, chainVars, leader, exec, holder, overlap, faults>>
  <2>1. new.pc = "each" /\ new.listed = rec /\ new.todo = PendingAttempts /\ new.run = None
    BY Values DEF PassRec
  <2>2. pass'[p] = new /\ \A s \in Proc \ {p} : pass'[s] = pass[s]
    BY <1>1 DEF TypeOK
  <2> HIDE DEF new
  <2>3. Unwritten /\ UNCHANGED <<leader, exec, overlap>>
    BY <1>1 DEF Unwritten, recordVars, chainVars
  <2>4. Grows /\ ChainInv' /\ RecordInv' /\ Change /\ \A r : Untouched(r)
    BY <2>3, UnwrittenStep DEF Shares
  <2>5. \A r \in PendingAttempts : r \in Run /\ rec[r].attempt # None /\ Begun(r)'
    BY <2>3 DEF PendingAttempts, Inv, RecordInv, Begun, Unwritten
  <2>6. \A r \in Run : Refers(rec[r], r)'
    BY <2>4 DEF RecordInv
  <2>7. PassHolds(p)'
    BY <2>1, <2>2, <2>3, <2>5, <2>6, NoneAssumption
       DEF PassHolds, Reconciling, Traced, Saving, Clearing, PassMid, Refers, Unwritten
  <2>8. PassMoves(p)
    BY <2>2, <2>3 DEF PassMoves, Unwritten
  <2>9. \A q \in Run \ overlap' : PassLeaves(p, q)
    <3>1. ASSUME NEW q \in Run \ overlap
          PROVE  PassLeaves(p, q)
      <4>1. Tracked(q)' /\ q # None
        BY <2>4, TrackedStays, NoneAssumption DEF Inv, RunsInv
      <4>2. ListedKnown(p, q)'
        BY <2>1, <2>2, <2>3 DEF ListedKnown, Unwritten
      <4>3. QED
        BY <2>1, <2>2, <2>4, <4>1, <4>2 DEF PassLeaves
    <3>2. QED
      BY <2>3, <3>1
  <2>10. QED
    BY <2>4, <2>7, <2>8, <2>9, PassMovesInv
<1>2. QED
  BY <1>1, FallsInv DEF List

\* Taking a listed run, which nobody may be working on.
LEMMA TakeInv ==
    ASSUME TypeOK, TypeOK', Inv, NEW p \in Proc, Take(p)
    PROVE  Inv' /\ Change
<1>0. pass[p].pc = "each" /\ PassHolds(p) /\ pass[p].todo \subseteq Run
  BY PassFields DEF Take, Inv, PassesInv
<1>1. ASSUME NEW r \in pass[p].todo, leader = p,
             pass' = [pass EXCEPT ![p].pc = "find", ![p].todo = @ \ {r}, ![p].run = r,
                                  ![p].attempt = pass[p].listed[r].attempt,
                                  ![p].hash = pass[p].listed[r].hash],
             Meets(r),
             UNCHANGED <<recordVars, chainVars, leader, exec, holder, faults>>
      PROVE  Inv' /\ Change
  <2> DEFINE new == [pass[p] EXCEPT !.pc = "find", !.todo = @ \ {r}, !.run = r,
                                    !.attempt = pass[p].listed[r].attempt,
                                    !.hash = pass[p].listed[r].hash]
  <2>1. /\ new.pc = "find" /\ new.todo = pass[p].todo \ {r} /\ new.run = r
        /\ new.attempt = pass[p].listed[r].attempt /\ new.hash = pass[p].listed[r].hash
        /\ new.listed = pass[p].listed
    BY PassFields DEF PassRec
  <2>2. pass'[p] = new /\ \A s \in Proc \ {p} : pass'[s] = pass[s]
    BY <1>1 DEF TypeOK
  <2> HIDE DEF new
  <2>3. r \in Run /\ r # None /\ Unwritten /\ Shares /\ overlap \subseteq overlap'
    BY <1>0, <1>1, NoneAssumption DEF Unwritten, recordVars, chainVars, Meets, Shares
  <2>4. Grows /\ ChainInv' /\ RecordInv' /\ Change /\ \A q : Untouched(q)
    BY <2>3, UnwrittenStep
  <2>5. /\ pass[p].listed[r] \in Record /\ Refers(pass[p].listed[r], r)
        /\ pass[p].listed[r].attempt # None /\ Begun(r)
    BY <1>0, <2>3, PassFields DEF PassHolds, Sweeping
  <2>6. pass[p].listed[r].attempt \in Auth
    BY <2>5, RecordFields
  <2>7. PassHolds(p)'
    BY <1>0, <2>1, <2>2, <2>3, <2>5, <2>6
       DEF PassHolds, Sweeping, Reconciling, Traced, Saving, Clearing, PassMid, Refers, Begun, Unwritten
  <2>8. PassMoves(p)
    BY <1>1, <2>2, <2>3 DEF PassMoves, Unwritten
  <2>9. ASSUME NEW q \in Run \ overlap'
        PROVE  PassLeaves(p, q)
    <3>1. Known(q) /\ Tracked(q)
      BY <2>3, <2>9 DEF Inv, RunsInv
    <3>2. Tracked(q)'
      BY <2>4, <3>1, TrackedStays
    <3>3. ASSUME q = r
          PROVE  PassKnows(p, q)' /\ ~Working(q)
      <4>1. ListedKnown(p, r)
        BY <1>0, <1>1, <3>1, <3>3 DEF Known, Sweeping
      <4>2. rec[r].attempt \in {None, pass[p].listed[r].attempt}
        BY <4>1 DEF ListedKnown
      <4>3. ~Working(q)
        BY <1>1, <2>9, <3>3 DEF Meets
      <4>4. QED
        BY <2>1, <2>2, <2>3, <3>3, <4>2, <4>3 DEF PassKnows, PassMid, Unwritten
    <3>4. ASSUME q \in pass'[p].todo
          PROVE  ListedKnown(p, q)'
      <4>1. ListedKnown(p, q) /\ exec' = exec
        BY <1>0, <1>1, <2>1, <2>2, <3>1, <3>4 DEF Known, Sweeping
      <4>2. QED
        BY <2>1, <2>2, <2>3, <4>1 DEF ListedKnown, Unwritten, Started
    <3>5. QED
      BY <2>1, <2>2, <2>4, <3>2, <3>3, <3>4 DEF PassLeaves
  <2>10. QED
    BY <2>4, <2>7, <2>8, <2>9, PassMovesInv
<1>2. ASSUME pass' = [pass EXCEPT ![p] = [PassIdle EXCEPT !.pc = "recover", !.todo = Recoverable]],
             UNCHANGED <<recordVars, chainVars, leader, exec, holder, overlap, faults>>
      PROVE  Inv' /\ Change
  <2> DEFINE new == [PassIdle EXCEPT !.pc = "recover", !.todo = Recoverable]
  <2>1. new.pc = "recover" /\ new.todo = Recoverable /\ new.run = None /\ new.listed = PassIdle.listed
    BY Values DEF PassRec
  <2>2. pass'[p] = new /\ \A s \in Proc \ {p} : pass'[s] = pass[s]
    BY <1>2 DEF TypeOK
  <2> HIDE DEF new
  <2>3. Unwritten
    BY <1>2 DEF Unwritten, recordVars, chainVars
  <2>4. Grows /\ ChainInv' /\ RecordInv' /\ Change /\ \A q : Untouched(q)
    BY <1>2, <2>3, UnwrittenStep DEF Shares
  <2>5. \A r \in Recoverable : r \in Run /\ Begun(r)'
    BY <2>3 DEF Recoverable, Inv, RecordInv, Begun, Unwritten
  <2>6. PassHolds(p)'
    BY <2>1, <2>2, <2>5, Values, NoneAssumption
       DEF PassHolds, Sweeping, Reconciling, Traced, Saving, Clearing, PassMid, Refers
  <2>7. PassMoves(p)
    BY <1>2, <2>2, <2>3 DEF PassMoves, Unwritten
  <2>8. \A q \in Run \ overlap' : PassLeaves(p, q)
    <3>1. \A q \in Run \ overlap : Tracked(q)' /\ q # None
      BY <2>4, TrackedStays, NoneAssumption DEF Inv, RunsInv
    <3>2. QED
      BY <1>2, <2>1, <2>2, <2>4, <3>1 DEF PassLeaves, Sweeping, Reconciling
  <2>9. QED
    BY <2>4, <2>6, <2>7, <2>8, PassMovesInv
<1>3. QED
  BY <1>1, <1>2, FallsInv DEF Take

\* Looking for the transaction, and reading the record to note or to clear it.
LEMMA SearchInv ==
    ASSUME TypeOK, TypeOK', Inv, NEW p \in Proc,
           Find(p) \/ Look(p) \/ Clear(p) \/ PassNotes(p) \/ PassVerifies(p) \/ PassSaves(p)
    PROVE  Inv' /\ Change
<1>0. /\ pass[p].pc \in {"find", "look", "clear", "note", "verify", "save"}
      /\ pass[p].pc \in Reconciling
      /\ pass[p].attempt \in Auth /\ filed[pass[p].attempt] = pass[p].run
      /\ pass[p].hash \in Tx \cup {None} /\ Auth \subseteq Tx
      /\ pass[p].pc \in Traced => pass[p].hash \in Tx
      /\ pass[p].pc \in Clearing => pass[p].attempt \in past
      /\ pass[p].pc \in Saving => chain[pass[p].attempt] = "used" /\ pass[p].hash = pass[p].attempt
  BY PassFields
     DEF Find, Look, Clear, PassNotes, PassVerifies, PassSaves, Reconciling, Inv, PassesInv,
         PassHolds, Tx
<1>1. CASE Deposed(p) \/ Interrupted(p) \/ PassThrows(p)
  BY <1>1, FallsInv, PassFallInv
<1>2. CASE PassNext(p) /\ UNCHANGED <<recordVars, chainVars, leader, exec, overlap>>
  BY <1>0, <1>2, PassNextInv DEF Unwritten, recordVars, chainVars
<1>3. CASE UNCHANGED <<recordVars, chainVars, leader, exec, overlap>>
           /\ \/ PassGoto(p, "look")
              \/ PassGoto(p, "verify") /\ pass[p].hash # None
              \/ PassGoto(p, "clear") /\ pass[p].attempt \in past
              \/ /\ PassGoto(p, "save") /\ pass[p].pc = "verify"
                 /\ Verified(pass[p].hash, pass[p].attempt)
              \/ PassGoto(p, "saving") /\ pass[p].pc = "save"
  <2>1. Unwritten /\ UNCHANGED <<exec, leader, overlap>>
    BY <1>3 DEF Unwritten, recordVars, chainVars
  <2>2. CASE PassGoto(p, "look")
    BY <1>0, <2>1, <2>2, PassGotoInv DEF Reconciling, PassMid, Traced, Clearing, Saving
  <2>3. CASE PassGoto(p, "verify") /\ pass[p].hash # None
    BY <1>0, <2>1, <2>3, PassGotoInv DEF Reconciling, PassMid, Clearing, Saving
  <2>4. CASE PassGoto(p, "clear") /\ pass[p].attempt \in past
    BY <1>0, <2>1, <2>4, PassGotoInv DEF Reconciling, PassMid, Traced, Saving
  <2>5. CASE /\ PassGoto(p, "save") /\ pass[p].pc = "verify"
             /\ Verified(pass[p].hash, pass[p].attempt)
    <3>1. chain[pass[p].attempt] = "used" /\ pass[p].hash = pass[p].attempt
      BY <1>0, <2>5, NoneAssumption, NamesAssumption DEF Verified, Transferred
    <3>2. QED
      BY <1>0, <2>1, <2>5, <3>1, PassGotoInv DEF Reconciling, PassMid, Clearing
  <2>6. CASE PassGoto(p, "saving") /\ pass[p].pc = "save"
    BY <1>0, <2>1, <2>6, PassGotoInv DEF Reconciling, PassMid, Clearing, Traced, Saving
  <2>7. QED
    BY <1>3, <2>2, <2>3, <2>4, <2>5, <2>6
<1>4. CASE /\ pass' = [pass EXCEPT ![p].pc = "note", ![p].hash = pass[p].attempt]
           /\ UNCHANGED <<recordVars, chainVars, leader, exec, overlap>>
  <2>1. Unwritten
    BY <1>4 DEF Unwritten, recordVars, chainVars
  <2>2. pass' = [pass EXCEPT ![p] = [pass[p] EXCEPT !.pc = "note", !.hash = pass[p].attempt,
                                                    !.snap = pass[p].snap]]
    BY <1>4, PassFields DEF PassRec, TypeOK
  <2>3. "note" \in Reconciling /\ "note" \notin Clearing \cup PassMid \cup Saving
    BY DEF Reconciling, Clearing, PassMid, Saving
  <2>4. QED
    BY <1>0, <1>4, <2>1, <2>2, <2>3, PassOnInv
<1>5. ASSUME NEW pc \in PassMid, pc = "clearing" => pass[p].pc = "clear",
             pc = "noting" => pass[p].pc = "note",
             rec[pass[p].run].state \notin Final,
             pass' = [pass EXCEPT ![p].pc = pc, ![p].snap = rec[pass[p].run]],
             UNCHANGED <<recordVars, chainVars, leader, exec, overlap>>
      PROVE  Inv' /\ Change
  <2>1. Unwritten
    BY <1>5 DEF Unwritten, recordVars, chainVars
  <2>2. pass' = [pass EXCEPT ![p] = [pass[p] EXCEPT !.pc = pc, !.hash = pass[p].hash,
                                                    !.snap = rec[pass[p].run]]]
    BY <1>5, PassFields DEF PassRec, TypeOK
  <2>3. /\ pc \in Reconciling /\ pc \notin Saving
        /\ pc \in Clearing => pass[p].pc \in Clearing
        /\ pc \in Traced => pass[p].pc \in Traced
    BY <1>5 DEF Reconciling, Clearing, PassMid, Traced, Saving
  <2>4. /\ pc \in Traced => pass[p].hash \in Tx
        /\ pc \in Clearing => pass[p].attempt \in past
    BY <1>0, <2>3
  <2>5. QED
    BY <1>0, <1>5, <2>1, <2>2, <2>3, <2>4, PassOnInv
<1>6. CASE Find(p)
  BY <1>0, <1>1, <1>3, <1>4, <1>6 DEF Find
<1>7. CASE Look(p)
  BY <1>1, <1>2, <1>3, <1>7 DEF Look
<1>8. CASE Clear(p)
  BY <1>2, <1>5, <1>8 DEF Clear, PassMid
<1>9. CASE PassNotes(p)
  BY <1>1, <1>5, <1>9 DEF PassNotes, PassMid, Notable
<1>10. CASE PassVerifies(p)
  BY <1>1, <1>2, <1>3, <1>10 DEF PassVerifies
<1>11. CASE PassSaves(p)
  BY <1>2, <1>3, <1>11 DEF PassSaves
<1>12. QED
  BY <1>6, <1>7, <1>8, <1>9, <1>10, <1>11

\* A pass writes back what it read, with the transaction or without the attempt.
LEMMA PassWritesInv ==
    ASSUME TypeOK, TypeOK', Inv, NEW p \in Proc, pass[p].pc \in PassMid,
           NEW x \in Record, Writes(pass[p].run, x), Refers(x, pass[p].run),
           x.state \notin {"reserved", "complete"},
           \/ x.attempt = pass[p].snap.attempt
           \/ x.attempt = None /\ pass[p].pc \in Clearing,
           UNCHANGED <<exec, leader, overlap>>, \A s \in Proc \ {p} : pass'[s] = pass[s],
           Grows => PassHolds(p)', pass'[p].run \in {None, pass[p].run},
           pass'[p].run # None => pass'[p].attempt = pass[p].attempt,
           pass'[p].pc \notin PassMid,
           pass'[p].todo = pass[p].todo, pass'[p].listed = pass[p].listed
    PROVE  Inv' /\ Change
<1>0. PICK r \in Run :
          /\ r = pass[p].run /\ PassHolds(p) /\ pass[p].pc \in Sweeping /\ r \notin pass[p].todo
          /\ pass[p].pc \in Clearing => pass[p].attempt \in past
  <2>1. PassHolds(p) /\ pass[p].pc \in Reconciling
    BY DEF Inv, PassesInv, PassMid, Reconciling
  <2>2. QED
    BY <2>1, PassFields DEF PassHolds, Sweeping
<1>1. /\ Grows /\ ChainInv' /\ RecordInv' /\ LedgerStep
      /\ rec'[r] = x /\ payment' = payment /\ filed' = filed /\ chain' = chain
      /\ \A q \in Run \ {r} : Untouched(q)
  BY <1>0, WritesStep DEF Shares
<1>2. PassMoves(p)
  BY <1>1 DEF PassMoves, Writes
<1>3. ASSUME r \notin overlap
      PROVE  /\ Tracked(r)' /\ (pass'[p].run = r => PassKnows(p, r)')
             /\ rec[r].state \notin Final /\ rec'[r].attempt \in {rec[r].attempt, None}
  <2>1. PassKnows(p, r) /\ Tracked(r)
    BY <1>0, <1>3 DEF Inv, RunsInv, Known
  <2>2. pass[p].snap = rec[r] /\ rec[r].attempt \in {None, pass[p].attempt}
    BY <2>1 DEF PassKnows
  <2>3. rec[r].state \notin Final /\ x.attempt \in {rec[r].attempt, None}
    BY <1>0, <2>2 DEF PassHolds
  <2>4. Live(r)' \subseteq Live(r)
    BY <1>1, LiveStays
  <2>5. \A a \in Live(r) : rec[r].attempt = a /\ a \notin past
    BY <2>1, <2>3 DEF Tracked, Live
  <2>6. x.attempt # rec[r].attempt => Live(r) = {}
    BY <1>0, <2>2, <2>5, NoneAssumption DEF Live
  <2>7. Tracked(r)'
    BY <1>1, <2>1, <2>3, <2>4, <2>5, <2>6 DEF Tracked
  <2>8. pass'[p].run = r => PassKnows(p, r)'
    BY <1>0, <1>1, <2>2, <2>3, NoneAssumption DEF PassKnows
  <2>9. QED
    BY <1>1, <2>3, <2>7, <2>8
<1>4. ASSUME NEW q \in Run \ overlap'
      PROVE  PassLeaves(p, q)
  <2>1. Known(q) /\ Tracked(q) /\ q # None
    BY <1>4, NoneAssumption DEF Inv, RunsInv
  <2>2. CASE q = r
    BY <1>0, <1>3, <1>4, <2>2 DEF PassLeaves
  <2>3. CASE q # r
    <3>1. Untouched(q) /\ pass'[p].run # q
      BY <1>0, <1>1, <1>4, <2>1, <2>3
    <3>2. leader' = p /\ q \in pass'[p].todo => ListedKnown(p, q)'
      BY <1>0, <2>1, <3>1 DEF Known, ListedKnown, Untouched, Started
    <3>3. QED
      BY <1>1, <2>1, <3>1, <3>2, TrackedStays DEF PassLeaves
  <2>4. QED
    BY <2>2, <2>3
<1>5. \A q \in Run : Written(q)
  <2>1. \A q \in Run \ {r} : rec'[q] = rec[q]
    BY <1>1 DEF Untouched
  <2>2. overlap' = overlap
    OBVIOUS
  <2>3. QED
    BY <1>1, <1>3, <2>1, <2>2 DEF Written
<1>6. QED
  BY <1>1, <1>2, <1>4, <1>5, PassMovesInv DEF Change

LEMMA PassWrittenInv ==
    ASSUME TypeOK, TypeOK', Inv, NEW p \in Proc, PassNoted(p) \/ Cleared(p)
    PROVE  Inv' /\ Change
<1>0. /\ PassHolds(p) /\ pass[p].pc \in PassMid /\ pass[p].pc \in Reconciling
      /\ pass[p].run \in Run /\ None \notin Run /\ pass[p].snap \in Record
      /\ {"paid", "target"} \subseteq State /\ {"paid"} \cap Final = {}
      /\ UNCHANGED <<exec, leader, overlap>>
  BY PassFields, NoneAssumption
     DEF PassNoted, Cleared, PassMid, Reconciling, Inv, PassesInv, PassHolds, State, Final
<1>1. CASE PassNoted(p)
  <2> DEFINE x   == [pass[p].snap EXCEPT !.hash = pass[p].hash]
             new == [pass[p] EXCEPT !.pc = "verify", !.snap = NoRecord]
  <2>1. pass[p].pc = "noting" /\ pass[p].hash \in Tx
    BY <1>0, <1>1 DEF PassNoted, PassHolds, Traced
  <2>2. /\ x \in Record /\ x.state = pass[p].snap.state /\ x.attempt = pass[p].snap.attempt
        /\ x.hash = pass[p].hash
    BY <1>0, <2>1 DEF Record
  <2>3. Writes(pass[p].run, x)
    BY <1>0, <1>1 DEF PassNoted, Writes, chainVars
  <2>4. /\ new.pc = "verify" /\ new.run = pass[p].run /\ new.attempt = pass[p].attempt
        /\ new.hash = pass[p].hash /\ new.todo = pass[p].todo /\ new.listed = pass[p].listed
    BY PassFields DEF PassRec
  <2>5. pass'[p] = new /\ \A s \in Proc \ {p} : pass'[s] = pass[s]
    BY <1>1 DEF PassNoted, PassGoto, TypeOK
  <2> HIDE DEF x, new
  <2>6. Refers(x, pass[p].run) /\ x.state \notin Final \cup {"reserved"}
    BY <1>0, <2>1, <2>2 DEF PassHolds, Refers
  <2>7. ASSUME Grows
        PROVE  PassHolds(p)'
    <3>1. \A r \in Run : Begun(r) => Begun(r)'
      BY <2>7 DEF Grows
    <3>2. filed' = filed
      BY <2>3 DEF Writes
    <3>3. \A r \in Run : Refers(pass[p].listed[r], r)'
      BY <1>0, <2>4, <2>5, <3>2 DEF Refers, PassHolds
    <3>4. QED
      BY <1>0, <2>1, <2>4, <2>5, <3>1, <3>2, <3>3, PassFields
         DEF PassHolds, Sweeping, Reconciling, Traced, Saving, Clearing, PassMid
  <2>8. QED
    BY <1>0, <2>2, <2>3, <2>4, <2>5, <2>6, <2>7, PassWritesInv DEF PassMid, Final
<1>2. CASE Cleared(p)
  <2> DEFINE x == [state |-> "paid", attempt |-> None, hash |-> None]
  <2>1. x \in Record /\ x.state = "paid" /\ x.attempt = None /\ x.hash = None
    BY <1>0 DEF Record
  <2>2. Writes(pass[p].run, x) /\ Refers(x, pass[p].run)
    BY <1>0, <1>2, <2>1 DEF Cleared, Writes, Refers, chainVars
  <2> HIDE DEF x
  <2>3. PassNext(p) /\ pass[p].pc \in Clearing
    BY <1>2 DEF Cleared, Clearing
  <2>4. PICK new : /\ pass' = [pass EXCEPT ![p] = new] /\ pass'[p] = new
                   /\ new.pc = "each" /\ new.run = None
                   /\ new.todo = pass[p].todo /\ new.listed = pass[p].listed
    BY <2>3, NextRec
  <2>5. Grows => PassHolds(p)'
    BY <1>0, <2>3, NextHolds
  <2>6. \A s \in Proc \ {p} : pass'[s] = pass[s]
    BY <2>4 DEF TypeOK
  <2>7. QED
    BY <1>0, <2>1, <2>2, <2>3, <2>4, <2>5, <2>6, PassWritesInv DEF PassMid
<1>3. QED
  BY <1>1, <1>2

LEMMA PassSavedInv ==
    ASSUME TypeOK, TypeOK', Inv, NEW p \in Proc, PassSaved(p)
    PROVE  Inv' /\ Change
<1>0. PICK r \in Run : r = pass[p].run /\ PassHolds(p) /\ pass[p].pc = "saving" /\ pass[p].pc \in Reconciling
  BY PassFields DEF PassSaved, Inv, PassesInv, PassHolds, Reconciling
<1>1. PICK a \in Auth : /\ a = pass[p].hash /\ a = pass[p].attempt
                        /\ chain[a] = "used" /\ filed[a] = r
  BY <1>0 DEF PassHolds, Saving
<1>2. PassNext(p) /\ UNCHANGED <<rec, column, chainVars, leader, exec, overlap>>
  BY DEF PassSaved
<1>3. Upserted(r, a)
  BY <1>0, <1>1 DEF PassSaved
<1>4. Inv' /\ Change
  <2>1. /\ Grows /\ ChainInv' /\ RecordInv' /\ Change
        /\ \A q \in Run \ {r} : Untouched(q)
        /\ payment'[r] \in {payment[r], a}
    BY <1>1, <1>2, <1>3, CreditStep DEF Transferred, Tx
  <2>2. PICK new : /\ pass' = [pass EXCEPT ![p] = new] /\ pass'[p] = new
                   /\ new.pc = "each" /\ new.run = None
                   /\ new.todo = pass[p].todo /\ new.listed = pass[p].listed
    BY <1>2, NextRec
  <2>3. PassHolds(p)'
    BY <1>0, <1>2, <2>1, NextHolds
  <2>4. PassMoves(p)
    BY <1>2, <2>2 DEF PassMoves, chainVars, TypeOK
  <2>5. ASSUME NEW q \in Run \ overlap'
        PROVE  PassLeaves(p, q)
    <3>1. Known(q) /\ Tracked(q) /\ q # None
      BY <1>2, <2>5, NoneAssumption DEF Inv, RunsInv
    <3>2. Tracked(q)'
      <4>1. CASE q = r
        <5>1. rec[r].attempt \in {None, a}
          BY <1>0, <1>1, <3>1, <4>1 DEF Known, PassKnows
        <5>2. QED
          BY <1>2, <2>1, <3>1, <4>1, <5>1 DEF Tracked, Live, chainVars
      <4>2. CASE q # r
        BY <2>1, <2>5, <3>1, <4>2, TrackedStays
      <4>3. QED
        BY <4>1, <4>2
    <3>3. leader' = p /\ q \in pass'[p].todo => ListedKnown(p, q)'
      BY <1>0, <1>2, <2>2, <3>1 DEF Known, ListedKnown, Started, Sweeping
    <3>4. Untouched(q) \/ (pass[p].run = q /\ rec'[q].attempt = rec[q].attempt)
      BY <1>0, <1>2, <2>1, <2>5
    <3>5. QED
      BY <2>2, <3>1, <3>2, <3>3, <3>4 DEF PassLeaves
  <2>6. QED
    BY <2>1, <2>3, <2>4, <2>5, PassMovesInv
<1>5. QED
  BY <1>4

LEMMA RecoverInv ==
    ASSUME TypeOK, TypeOK', Inv, NEW p \in Proc, Recover(p)
    PROVE  Inv' /\ Change
<1>0. pass[p].pc = "recover" /\ PassHolds(p) /\ pass[p].todo \subseteq Run /\ pass[p].run = None
  BY PassFields DEF Recover, Inv, PassesInv, PassHolds, Reconciling
<1>1. ASSUME NEW r \in pass[p].todo, leader = p,
             exec[<<p, "startup", r>>].pc = "idle",
             pass' = [pass EXCEPT ![p].todo = @ \ {r}],
             Goto(<<p, "startup", r>>, "rehearse"), Meets(r),
             UNCHANGED <<recordVars, chainVars, leader, holder, faults>>
      PROVE  Inv' /\ Change
  <2> DEFINE e    == <<p, "startup", r>>
             new  == [exec[e] EXCEPT !.pc = "rehearse", !.snap = NoRecord]
             next == [pass[p] EXCEPT !.todo = @ \ {r}]
  <2>1. r \in Run /\ e \in Exec /\ RunOf(e) = r /\ ~Started(e) /\ Begun(r)
    BY <1>0, <1>1, StartupExec DEF Started, PassHolds
  <2>2. new.pc = "rehearse" /\ exec' = [exec EXCEPT ![e] = new]
    BY <1>1, <2>1 DEF Goto, Become, TypeOK, ExecRec
  <2>3. /\ next.pc = "recover" /\ next.run = None /\ next.todo = pass[p].todo \ {r}
        /\ next.listed = pass[p].listed
    BY <1>0, PassFields DEF PassRec
  <2>4. pass'[p] = next /\ \A s \in Proc \ {p} : pass'[s] = pass[s]
    BY <1>1 DEF TypeOK
  <2> HIDE DEF new, next, e
  <2>5. Unwritten /\ Shares
    BY <1>1, <2>1 DEF Unwritten, recordVars, chainVars, Meets, Shares
  <2>6. Grows /\ ChainInv' /\ RecordInv' /\ Change /\ \A q : Untouched(q)
    BY <2>5, UnwrittenStep
  <2>7. PassHolds(p)'
    <3>1. \A q \in Run : Refers(pass[p].listed[q], q)'
      BY <1>0, <2>3, <2>4, <2>5 DEF PassHolds, Refers, Unwritten
    <3>2. \A q \in Run : Begun(q) => Begun(q)'
      BY <2>6 DEF Grows
    <3>3. "recover" \notin Sweeping \cup Reconciling \cup Traced \cup Saving \cup Clearing \cup PassMid
      BY DEF Sweeping, Reconciling, Traced, Saving, Clearing, PassMid
    <3>4. QED
      BY <1>0, <2>3, <2>4, <3>1, <3>2, <3>3, NoneAssumption DEF PassHolds, Reconciling
  <2>8. PassesInv'
    BY <2>4, <2>6, <2>7, PassHoldsStays DEF Inv, PassesInv
  <2>9. \A s \in Proc : leader = s /\ pass[s].pc \in Sweeping => r \notin pass[s].todo
    BY <1>0, <1>1 DEF Sweeping, Reconciling
  <2>10. r \notin overlap => Tracked(r)'
    BY <2>1, <2>6, TrackedStays DEF Inv, RunsInv
  <2>11. Begun(r)'
    BY <2>1, <2>6 DEF Grows
  <2>12. \A s \in Proc : pass'[s] = pass[s] \/ (pass'[s].run = None /\ pass'[s].pc \notin Sweeping)
    BY <2>3, <2>4 DEF Sweeping, Reconciling
  <2>13. Inv'
    BY <1>1, <2>1, <2>2, <2>5, <2>6, <2>8, <2>9, <2>10, <2>11, <2>12, StartInv DEF Unwritten
  <2>14. QED
    BY <2>6, <2>13
<1>2. CASE /\ pass' = [pass EXCEPT ![p] = PassIdle]
           /\ UNCHANGED <<recordVars, chainVars, leader, exec, holder, overlap, faults>>
  <2>1. pass'[p] = PassIdle /\ Unwritten
    BY <1>2 DEF TypeOK, Unwritten, recordVars, chainVars
  <2>2. PassHolds(p)'
    BY <2>1, IdleHolds
  <2>3. QED
    BY <1>2, <2>1, <2>2, PassQuietInv, Values DEF Sweeping, Reconciling
<1>3. QED
  BY <1>0, <1>1, <1>2, FallsInv DEF Recover

LEMMA PassInv ==
    ASSUME TypeOK, TypeOK', Inv, NEW p \in Proc, PassStep(p)
    PROVE  Inv' /\ Change
BY ListInv, TakeInv, SearchInv, PassWrittenInv, PassSavedInv, RecoverInv DEF PassStep

-----------------------------------------------------------------------------
(* The chain and the processes.                                            *)

\* Nobody goes on, and some may stop.
LEMMA StopsInv ==
    ASSUME TypeOK, TypeOK', Inv, Grows, ChainInv', RecordInv', \A r \in Run : Untouched(r),
           \A e \in Exec : exec'[e] \in {exec[e], Idle} /\ Undisturbed(e),
           \A p \in Proc : pass'[p] \in {pass[p], PassIdle},
           leader' \in {leader, None}, overlap' = overlap
    PROVE  Inv'
<1>1. ExecsInv'
  BY HoldsStays, IdleHolds DEF Inv, ExecsInv
<1>2. OwnAuth'
  BY Values DEF Inv, OwnAuth, Unsent
<1>3. PassesInv'
  BY PassHoldsStays, IdleHolds DEF Inv, PassesInv
<1>4. ASSUME NEW r \in Run \ overlap
      PROVE  Alone(r)' /\ Known(r)' /\ Tracked(r)'
  <2>1. \A e \in Exec : exec'[e] = exec[e] \/ ~Started(e)'
    BY Values DEF Started
  <2>2. \A p \in Proc : pass'[p] = pass[p] \/ (pass'[p].run # r /\ pass'[p].pc \notin Sweeping)
    BY Values, NoneAssumption DEF Sweeping, Reconciling
  <2>3. QED
    BY <2>1, <2>2, KnownStays
<1>5. RunsInv'
  BY <1>4 DEF RunsInv
<1>6. QED
  BY <1>1, <1>2, <1>3, <1>5 DEF Inv

LEMMA ElectInv ==
    ASSUME TypeOK, TypeOK', Inv, NEW p \in Proc, Elect(p)
    PROVE  Inv' /\ Change
<1> DEFINE new == [pass[p] EXCEPT !.pc = "list"]
<1>0. pass[p].pc = "idle" /\ PassHolds(p) /\ pass[p].run = None /\ pass[p].todo \subseteq Run
  BY PassFields DEF Elect, Inv, PassesInv, PassHolds, Reconciling
<1>1. /\ new.pc = "list" /\ new.run = None /\ new.todo = pass[p].todo
      /\ new.listed = pass[p].listed
  BY <1>0, PassFields DEF PassRec
<1>2. pass'[p] = new /\ \A s \in Proc \ {p} : pass'[s] = pass[s]
  BY DEF Elect, TypeOK
<1> HIDE DEF new
<1>3. Unwritten /\ UNCHANGED <<exec, overlap>> /\ leader' = p
  BY DEF Elect, Unwritten, recordVars, chainVars
<1>4. Grows /\ ChainInv' /\ RecordInv' /\ Change /\ \A q : Untouched(q)
  BY <1>3, UnwrittenStep DEF Shares
<1>5. "list" \notin Sweeping \cup Reconciling \cup Traced \cup Saving \cup Clearing \cup PassMid
  BY DEF Sweeping, Reconciling, Traced, Saving, Clearing, PassMid
<1>6. PassHolds(p)'
  <2>1. \A q \in Run : Refers(pass[p].listed[q], q)'
    BY <1>0, <1>1, <1>2, <1>3 DEF PassHolds, Refers, Unwritten
  <2>2. \A q \in Run : Begun(q) => Begun(q)'
    BY <1>4 DEF Grows
  <2>3. QED
    BY <1>0, <1>1, <1>2, <1>5, <2>1, <2>2, NoneAssumption DEF PassHolds
<1>7. PassMoves(p)
  BY <1>2, <1>3 DEF PassMoves, Unwritten
<1>8. \A q \in Run \ overlap' : PassLeaves(p, q)
  <2>1. \A q \in Run \ overlap : Tracked(q)' /\ q # None
    BY <1>4, TrackedStays, NoneAssumption DEF Inv, RunsInv
  <2>2. QED
    BY <1>1, <1>2, <1>3, <1>4, <1>5, <2>1 DEF PassLeaves
<1>9. QED
  BY <1>4, <1>6, <1>7, <1>8, PassMovesInv

LEMMA ChargeInv ==
    ASSUME TypeOK, TypeOK', Inv, NEW a \in Auth, Charge(a)
    PROVE  Inv' /\ Change
<1>0. /\ chain[a] = "sent" /\ chain'[a] = "used" /\ \A b \in Auth \ {a} : chain'[b] = chain[b]
      /\ UNCHANGED <<recordVars, past, filed, leader, exec, pass, overlap>>
  BY DEF Charge, TypeOK
<1>1. Grows /\ \A r \in Run : Untouched(r)
  BY <1>0 DEF Grows, Untouched, Begun, recordVars
<1>2. filed[a] # None
  BY <1>0 DEF Inv, ChainInv
<1>3. ChainInv' /\ RecordInv'
  BY <1>0, <1>2 DEF Inv, ChainInv, RecordInv, Refers, Begun, recordVars
<1>4. \A e \in Exec : Undisturbed(e)
  BY <1>0 DEF Undisturbed, Inv, ExecsInv, Holds, Unsent, Unfiled, Recorded
<1>5. Inv'
  BY <1>0, <1>1, <1>3, <1>4, StopsInv
<1>6. {b \in Auth : chain'[b] = "used"} = {b \in Auth : chain[b] = "used"} \cup {a}
  BY <1>0
<1>7. Ledger!Charge(a)
  BY <1>0, <1>2, <1>6 DEF Ledger!Charge, recordVars
<1>8. LedgerStep
  BY <1>7 DEF LedgerStep, Ledger!Next
<1>9. \A r \in Run : Written(r)
  BY <1>0 DEF Written, recordVars
<1>10. QED
  BY <1>5, <1>8, <1>9 DEF Change

LEMMA EnvironmentInv ==
    ASSUME TypeOK, TypeOK', Inv,
           \/ \E p \in Proc : Elect(p) \/ Crash(p)
           \/ \E a \in Auth : Charge(a) \/ Expire(a)
           \/ Depose
    PROVE  Inv' /\ Change
<1>1. ASSUME NEW p \in Proc, Crash(p)
      PROVE  Inv' /\ Change
  <2>1. /\ \A e \in Exec : exec'[e] \in {exec[e], Idle}
        /\ \A q \in Proc : pass'[q] \in {pass[q], PassIdle}
        /\ leader' \in {leader, None} /\ overlap' = overlap /\ Unwritten
    BY <1>1 DEF Crash, TypeOK, Unwritten, recordVars, chainVars
  <2>2. Grows /\ ChainInv' /\ RecordInv' /\ Change /\ \A r : Untouched(r)
    BY <2>1, UnwrittenStep DEF Shares
  <2>3. \A e \in Exec : Undisturbed(e)
    BY <2>1 DEF Undisturbed, Unwritten
  <2>4. QED
    BY <2>1, <2>2, <2>3, StopsInv
<1>2. CASE Depose
  <2>1. exec' = exec /\ pass' = pass /\ leader' = None /\ overlap' = overlap /\ Unwritten
    BY <1>2 DEF Depose, Unwritten, recordVars, chainVars
  <2>2. Grows /\ ChainInv' /\ RecordInv' /\ Change /\ \A r : Untouched(r)
    BY <2>1, UnwrittenStep DEF Shares
  <2>3. \A e \in Exec : Undisturbed(e)
    BY <2>1 DEF Undisturbed, Unwritten
  <2>4. QED
    BY <2>1, <2>2, <2>3, StopsInv
<1>3. ASSUME NEW a \in Auth, Expire(a)
      PROVE  Inv' /\ Change
  <2>1. past \subseteq past' /\ UNCHANGED <<recordVars, chain, filed, leader, exec, pass, overlap>>
    BY <1>3 DEF Expire
  <2>2. Grows /\ \A r \in Run : Untouched(r)
    BY <2>1 DEF Grows, Untouched, Begun, recordVars
  <2>3. ChainInv' /\ RecordInv'
    BY <2>1 DEF Inv, ChainInv, RecordInv, Refers, Begun, recordVars
  <2>4. \A e \in Exec : Undisturbed(e)
    BY <2>1 DEF Undisturbed
  <2>5. Inv'
    BY <2>1, <2>2, <2>3, <2>4, StopsInv
  <2>6. LedgerStep /\ \A r \in Run : Written(r)
    BY <2>1 DEF LedgerStep, Written, recordVars
  <2>7. QED
    BY <2>5, <2>6 DEF Change
<1>4. QED
  BY <1>1, <1>2, <1>3, ElectInv, ChargeInv

-----------------------------------------------------------------------------
(* Invariance.                                                             *)

LEMMA InitInv == Init => Inv
<1> SUFFICES ASSUME Init
             PROVE  Inv
  OBVIOUS
<1>1. TypeOK
  BY Values, BoundAssumption DEF Init, TypeOK, State
<1>2. \A r \in Run : rec[r] = NoRecord /\ column[r] = "reserved" /\ payment[r] = None
  BY DEF Init
<1>3. \A a \in Auth : filed[a] = None /\ chain[a] = "unused"
  BY DEF Init
<1>4. \A e \in Exec : exec[e] = Idle /\ ~Started(e) /\ exec[e].pc \notin Unsent
  BY Values DEF Init, Started, Unsent
<1>5. \A p \in Proc : pass[p] = PassIdle /\ pass[p].run = None
  BY Values DEF Init
<1>6. ChainInv /\ RecordInv
  BY <1>2, <1>3, Values DEF ChainInv, RecordInv, Refers
<1>7. ExecsInv /\ OwnAuth /\ PassesInv
  BY <1>4, <1>5, IdleHolds DEF ExecsInv, OwnAuth, PassesInv
<1>8. ASSUME NEW r \in Run
      PROVE  Alone(r) /\ Known(r) /\ Tracked(r)
  <2>1. Alone(r)
    BY <1>4, <1>5, NoneAssumption DEF Alone
  <2>2. \A e \in Exec : Knows(e, r)
    BY <1>4, IdleKnows
  <2>3. Known(r)
    BY <1>5, <2>2, Values, NoneAssumption DEF Known
  <2>4. Live(r) = {}
    BY <1>3, NoneAssumption DEF Live
  <2>5. QED
    BY <1>2, <2>1, <2>3, <2>4 DEF Tracked
<1>9. QED
  BY <1>1, <1>6, <1>7, <1>8 DEF Inv, RunsInv

LEMMA NextInv ==
    ASSUME Inv, Next
    PROVE  Inv' /\ Change
<1>1. TypeOK /\ TypeOK'
  BY TypeStep DEF Inv
<1>2. QED
  BY <1>1, ExecInv, PassInv, EnvironmentInv DEF Next

LEMMA StepInv ==
    ASSUME Inv, [Next]_vars
    PROVE  Inv' /\ Change
<1>1. CASE UNCHANGED vars
  <2>1. Inv'
    BY <1>1
       DEF vars, Inv, TypeOK, ChainInv, RecordInv, ExecsInv, OwnAuth, PassesInv, RunsInv, Refers,
           Begun, Started, Holds, PassHolds, Alone, Known, Knows, PassKnows, ListedKnown, Tracked,
           Live, Paid, OnFile, Transferred
  <2>2. Change
    BY <1>1 DEF vars, Change, LedgerStep, Written
  <2>3. QED
    BY <2>1, <2>2
<1>2. QED
  BY <1>1, NextInv

LEMMA Invariance == Spec => []Inv
<1>1. Inv /\ [Next]_vars => Inv'
  BY StepInv
<1>2. QED
  BY InitInv, <1>1, PTL DEF Spec

\* Every variable keeps its type: a reconciliation never works on no run or
\* without an attempt (target.ts:160-249).
THEOREM TypeCorrect == Spec => []TypeOK
<1>1. Inv => TypeOK
  BY DEF Inv
<1>2. QED
  BY Invariance, <1>1, PTL

\* Through crashes, restarts, lost leaderships and lapsed locks, a run has at
\* most one authorization that the target may still charge, unless two actors
\* worked on the run at once (recordTargetPaymentAttempt before the request is
\* sent, clearTargetPaymentAttempt only after valid_before).
THEOREM OneLive == Spec => []NoReplacementWhileLive
<1>1. ASSUME Inv
      PROVE  NoReplacementWhileLive
  <2>1. ASSUME NEW r \in Run \ overlap
        PROVE  Cardinality(Live(r)) <= 1
    <3>1. \A a, b \in Live(r) : a = b
      BY <1>1 DEF Inv, RunsInv, Tracked
    <3>2. Live(r) = {} \/ \E a : Live(r) = {a}
      BY <3>1
    <3>3. Cardinality(Live(r)) \in {0, 1}
      BY <3>2, FS_EmptySet, FS_Singleton
    <3>4. QED
      BY <3>3
  <2>2. QED
    BY <2>1 DEF NoReplacementWhileLive
<1>2. QED
  BY Invariance, <1>1, PTL

\* A run that was finalised is not written again by an execution or a
\* reconciliation that read it before, unless two actors worked on it at once
\* (saveRun, updateState and the operations on the attempt, prisma-store.ts).
THEOREM FinalStays == Spec => FinalKept
<1>1. Inv /\ [Next]_vars =>
        [\A r \in Run \ overlap' : rec[r].state \in Final => rec'[r] = rec[r]]_vars
  BY StepInv DEF Change, Written
<1>2. QED
  BY Invariance, <1>1, PTL DEF Spec, FinalKept

\* An execution that was to pay issues a passport of the rehearsal only for a run
\* without an attempt, or whose attempt is saved as a payment, unless two actors
\* worked on the run at once (the inner catch of execute, which rethrows while an
\* attempt is on file).  It says nothing of a not-rehearsable passport.
THEOREM PassportKnowsAttempt == Spec => CompleteAwaitsAttempt
<1>1. ASSUME Inv, NEW e \in Exec, exec[e].pc = "finish", ~exec[e].free, RunOf(e) \notin overlap
      PROVE  rec[RunOf(e)].attempt = None \/ OnFile(rec[RunOf(e)].attempt)
  BY <1>1, ExecHome DEF Inv, RunsInv, Known, Knows, Judging, Paid
<1>2. Inv /\ [Next]_vars =>
        [\A e \in Exec :
            /\ exec[e].pc = "finish" /\ exec'[e].pc = "idle" /\ rec'[RunOf(e)].state = "complete"
            /\ ~exec[e].free /\ RunOf(e) \notin overlap
            => rec[RunOf(e)].attempt = None \/ OnFile(rec[RunOf(e)].attempt)]_vars
  BY <1>1
<1>3. QED
  BY Invariance, <1>2, PTL DEF Spec, CompleteAwaitsAttempt

-----------------------------------------------------------------------------
(* TargetPayment implements TargetLedger.                                  *)

LEMMA InitRefines == Init => Ledger!Init
<1>1. Init => {a \in Auth : chain[a] = "used"} = {}
  BY DEF Init
<1>2. QED
  BY <1>1 DEF Init, Ledger!Init

\* An authorization is charged only after it was recorded for its run; what is
\* saved as the payment of a run is a settlement that pays for no other, stays, and
\* consumed an authorization that was recorded for the run, unless two actors
\* worked on it at once, whatever transaction a target names (target.ts:62-249,
\* prisma-store.ts savePayment).
THEOREM Refinement == Spec => ImplementsTargetLedger
<1>1. Inv /\ [Next]_vars =>
        [Ledger!Next]_<<filed, {a \in Auth : chain[a] = "used"}, payment, overlap>>
  BY StepInv DEF Change, LedgerStep
<1>2. QED
  BY InitRefines, Invariance, <1>1, PTL DEF Spec, ImplementsTargetLedger, Ledger!Spec
=============================================================================

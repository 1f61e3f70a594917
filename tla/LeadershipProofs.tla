-------------------------- MODULE LeadershipProofs --------------------------
(***************************************************************************)
(* Proofs about Leadership for any processes, callers and number of faults. *)
(***************************************************************************)
EXTENDS Leadership, TLAPS

-----------------------------------------------------------------------------
(* The inductive invariant, in named parts.                                *)

Releasing(p, k) == task[p]["stop"].pc = "release" /\ task[p]["stop"].sess = k

\* Session numbers in use have been created.
SessionsMade ==
    \A p \in Proc :
        /\ session[p] <= made[p]
        /\ \A t \in Task : task[p][t].sess <= made[p]
        /\ \A k \in Nat : holder = <<p, k>> \/ <<p, k>> \in gone => k <= made[p]

\* Session k, which acquire() works with, is still its coordinator's, or was
\* taken from it by stop() or a close().
Acquires(p, k) ==
    /\ k # 0
    /\ \/ session[p] = k
       \/ session[p] = 0 /\ (<<p, k>> \in gone \/ Releasing(p, k))

\* acquire() runs only while the process does not lead.
Acquiring ==
    \A p \in Proc :
        /\ task[p]["poll"].pc \in {"create", "try", "fence"} => state[p] # "leader"
        /\ task[p]["poll"].pc = "create" => session[p] = 0
        /\ task[p]["poll"].pc \in {"try", "fence"} => Acquires(p, task[p]["poll"].sess)

\* What stop() releases is no longer the coordinator's session.
ReleasedGivenUp ==
    \A p \in Proc :
        task[p]["stop"].pc = "release" =>
            task[p]["stop"].sess # 0 /\ session[p] # task[p]["stop"].sess

\* A successful tryAcquire still counts when its epoch is being drawn.
AcquirerHoldsLock ==
    \A p \in Proc :
        LET t == task[p]["poll"] IN
        /\ t.pc = "fence" \/ (t.pc = "try" /\ t.reply = "true")
        /\ session[p] # 0 /\ <<p, session[p]>> \notin severed
        => holder = <<p, session[p]>>

LockInv ==
    /\ SessionsMade /\ Acquiring /\ ReleasedGivenUp /\ AcquirerHoldsLock
    /\ LeaderHoldsLock /\ NoOrphanedLock /\ ClosedSessionUnused

\* p's poll has drawn a fence and has not led with it yet.
Drawn(p) == task[p]["poll"].pc = "fence" /\ task[p]["poll"].reply = "true"

\* Fences drawn and on their way to a coordinator are distinct and unused.
FenceInv ==
    /\ \A p \in Proc : state[p] # "leader" => fence[p] = 0
    /\ spent \subseteq 1..epoch
    /\ \A p \in Proc : Drawn(p) => task[p]["poll"].num \in (1..epoch) \ spent
    /\ \A p, q \in Proc :
        Drawn(p) /\ Drawn(q) /\ p # q => task[p]["poll"].num # task[q]["poll"].num

-----------------------------------------------------------------------------
(* Types                                                                   *)

LEMMA RecTypes ==
    /\ Idle \in TaskRec
    /\ \A pc \in Pc, s \in Nat : At(pc, s) \in TaskRec
    /\ \A f \in Nat : Granted(f) \in TaskRec
    /\ Refused \in TaskRec
BY DEF TaskRec, Pc, Reply, Idle, At, Granted, Refused

\* The record of a task that awaits close(), and of one that reruns startup.
LEMMA ClosingIs ==
    ASSUME TypeOK, NEW p \in Proc, NEW t \in Task
    PROVE  /\ Closing(p, t) \in TaskRec
           /\ Closing(p, t).pc \in {"closing", "leaving"}
           /\ Closing(p, t).sess = session[p]
<1> DEFINE pc == IF state[p] = "leader" THEN "leaving" ELSE "closing"
           r == IF t \in Caller THEN task[p][t].reply ELSE "none"
<1>1. session[p] \in Nat /\ task[p][t].reply \in Reply
  BY DEF TypeOK, TaskRec
<1>2. pc \in {"closing", "leaving"} /\ r \in Reply
  BY <1>1 DEF Reply
<1>3. Closing(p, t) = [pc |-> pc, sess |-> session[p], reply |-> r, num |-> 0]
  BY DEF Closing, At
<1> HIDE DEF pc, r
<1>4. QED
  BY <1>1, <1>2, <1>3 DEF TaskRec, Pc

LEMMA RestartIs ==
    ASSUME TypeOK, NEW p \in Proc, NEW t \in Task
    PROVE  LET rec == [task[p][t] EXCEPT !.pc = "restart"]
           IN  rec \in TaskRec /\ rec.pc = "restart" /\ rec.sess = task[p][t].sess
<1>1. task[p][t] \in TaskRec
  BY DEF TypeOK
<1>2. QED
  BY <1>1 DEF TaskRec, Pc

\* Moving one task, or one field of it, keeps the table of tasks well typed.
LEMMA GotoType ==
    ASSUME TypeOK, NEW p \in Proc, NEW t \in Task, NEW rec \in TaskRec, Goto(p, t, rec)
    PROVE  task' \in [Proc -> [Task -> TaskRec]]
<1>1. task[p] \in [Task -> TaskRec]
  BY DEF TypeOK
<1>2. [task[p] EXCEPT ![t] = rec] \in [Task -> TaskRec]
  BY <1>1
<1>3. QED
  BY <1>2 DEF Goto, TypeOK

LEMMA FinishType ==
    ASSUME TypeOK, NEW p \in Proc, NEW t \in Task, Finish(p, t)
    PROVE  /\ task' \in [Proc -> [Task -> TaskRec]]
           /\ phase' \in [Proc -> {"boot", "up", "down"}]
<1>1. task' \in [Proc -> [Task -> TaskRec]]
  BY GotoType, RecTypes DEF Finish
<1>2. QED
  BY <1>1 DEF Finish, TypeOK

LEMMA AnswerType ==
    ASSUME TypeOK, NEW p \in Proc, NEW t \in Task, NEW r \in Reply, Answer(p, t, r)
    PROVE  task' \in [Proc -> [Task -> TaskRec]]
<1>1. task[p] \in [Task -> TaskRec] /\ task[p][t] \in TaskRec
  BY DEF TypeOK
<1>2. [task[p][t] EXCEPT !.reply = r] \in TaskRec
  BY <1>1 DEF TaskRec
<1>3. [task[p] EXCEPT ![t] = [task[p][t] EXCEPT !.reply = r]] \in [Task -> TaskRec]
  BY <1>1, <1>2
<1>4. task' = [task EXCEPT ![p] = [task[p] EXCEPT ![t] = [task[p][t] EXCEPT !.reply = r]]]
  BY DEF Answer
<1>5. QED
  BY <1>3, <1>4 DEF TypeOK

\* What loseLeadership leaves behind is well typed.
LEMMA LoseType ==
    ASSUME TypeOK, NEW p \in Proc, NEW t \in Task, Lose(p, t)
    PROVE  /\ state' \in [Proc -> States]
           /\ fence' \in [Proc -> Nat]
           /\ session' \in [Proc -> Nat]
           /\ aborted' \in [Proc -> BOOLEAN]
           /\ phase' \in [Proc -> {"boot", "up", "down"}]
           /\ task' \in [Proc -> [Task -> TaskRec]]
           /\ gone' \in SUBSET Session
<1>1. CASE state[p] = "stopped"
  BY <1>1, FinishType DEF Lose, TypeOK
<1>2. CASE state[p] # "stopped" /\ session[p] # 0
  <2>1. Closing(p, t) \in TaskRec
    BY ClosingIs
  <2>2. task' \in [Proc -> [Task -> TaskRec]]
    BY <1>2, <2>1, GotoType DEF Lose
  <2>3. gone' \in SUBSET Session
    BY <1>2 DEF Lose, TypeOK, Session
  <2>4. state' \in [Proc -> States]
    BY <1>2 DEF Lose, TypeOK, States
  <2>5. fence' \in [Proc -> Nat] /\ session' \in [Proc -> Nat]
    <3>1. fence' = [fence EXCEPT ![p] = 0] /\ session' = [session EXCEPT ![p] = 0]
      BY <1>2 DEF Lose
    <3>2. QED
      BY <3>1 DEF TypeOK
  <2>6. aborted' \in [Proc -> BOOLEAN] /\ phase' \in [Proc -> {"boot", "up", "down"}]
    BY <1>2 DEF Lose, TypeOK
  <2>7. QED
    BY <2>2, <2>3, <2>4, <2>5, <2>6
<1>3. CASE state[p] # "stopped" /\ session[p] = 0
  <2>1. Finish(p, t) /\ UNCHANGED gone
    BY <1>3 DEF Lose
  <2>2. state' \in [Proc -> States]
    BY <1>3 DEF Lose, TypeOK, States
  <2>3. fence' \in [Proc -> Nat] /\ session' \in [Proc -> Nat]
    BY <1>3 DEF Lose, TypeOK
  <2>4. aborted' \in [Proc -> BOOLEAN]
    BY <1>3 DEF Lose, TypeOK
  <2>5. QED
    BY <2>1, <2>2, <2>3, <2>4, FinishType DEF TypeOK
<1>4. QED
  BY <1>1, <1>2, <1>3

\* No step, whatever fails or crashes, leaves the declared types
\* (the states of leader.ts:19-23 and the fields of leader.ts:46-50).
THEOREM TypeCorrect == Spec => []TypeOK
<1>1. Init => TypeOK
  BY RecTypes, MaxFaultsAssumption DEF Init, TypeOK, States
<1>2. TypeOK /\ [Next]_vars => TypeOK'
  <2> SUFFICES ASSUME TypeOK, [Next]_vars
               PROVE  TypeOK'
    OBVIOUS
  <2> USE DEF coordVars, dbVars
  <2> "poll" \in Task /\ "stop" \in Task /\ Caller \subseteq Task
    BY DEF Task
  <2>1. ASSUME NEW p \in Proc, Poll(p)
       PROVE  TypeOK'
    <3>1. CASE state[p] = "leader" /\ session[p] = 0
      BY <2>1, <3>1, LoseType DEF Poll, TypeOK
    <3>2. CASE ~(state[p] = "leader" /\ session[p] = 0)
      <4>1. session[p] \in Nat
        BY DEF TypeOK
      <4>2. \E rec \in TaskRec : Goto(p, "poll", rec)
        BY <2>1, <3>2, <4>1, RecTypes DEF Poll, Pc
      <4>3. QED
        BY <2>1, <3>2, <4>2, GotoType DEF Poll, TypeOK
    <3>3. QED
      BY <3>1, <3>2
  <2>2. ASSUME NEW p \in Proc, PollOwnsReturns(p)
       PROVE  TypeOK'
    BY <2>2, LoseType, FinishType DEF PollOwnsReturns, TypeOK
  <2>3. ASSUME NEW p \in Proc, CreateReturns(p)
       PROVE  TypeOK'
    <3>1. made' \in [Proc -> Nat] /\ made'[p] \in Nat
      BY <2>3 DEF CreateReturns, TypeOK
    <3>2. At("try", made'[p]) \in TaskRec
      BY <3>1, RecTypes DEF Pc
    <3>3. QED
      BY <2>3, <3>1, <3>2, GotoType DEF CreateReturns, TypeOK
  <2>4. ASSUME NEW p \in Proc, CreateFails(p)
       PROVE  TypeOK'
    BY <2>4, LoseType DEF CreateFails, Fault, TypeOK
  <2>5. ASSUME NEW p \in Proc, TryReturns(p)
       PROVE  TypeOK'
    <3>1. \/ Finish(p, "poll") /\ UNCHANGED <<state, fence, session, aborted, gone>>
          \/ Goto(p, "poll", At("fence", session[p])) /\ UNCHANGED <<coordVars, gone>>
          \/ Lose(p, "poll")
      BY <2>5 DEF TryReturns
    <3>2. At("fence", session[p]) \in TaskRec
      BY RecTypes DEF Pc, TypeOK
    <3>3. UNCHANGED <<made, dbVars, spent, faults>>
      BY <2>5 DEF TryReturns
    <3>4. QED
      BY <3>1, <3>2, <3>3, LoseType, FinishType, GotoType DEF TypeOK
  <2>6. ASSUME NEW p \in Proc, FenceReturns(p)
       PROVE  TypeOK'
    <3>1. task[p]["poll"].num \in Nat
      BY DEF TypeOK, TaskRec
    <3>2. CASE task[p]["poll"].reply = "true"
      <4>1. task' \in [Proc -> [Task -> TaskRec]]
        BY <2>6, <3>2, GotoType, RecTypes DEF FenceReturns, Pc
      <4>2. state' \in [Proc -> States] /\ fence' \in [Proc -> Nat] /\ spent' \in SUBSET Nat
        BY <2>6, <3>1, <3>2 DEF FenceReturns, TypeOK, States
      <4>3. aborted' \in [Proc -> BOOLEAN]
        BY <2>6, <3>2 DEF FenceReturns, TypeOK
      <4>4. QED
        BY <2>6, <3>2, <4>1, <4>2, <4>3 DEF FenceReturns, TypeOK
    <3>3. CASE task[p]["poll"].reply # "true"
      BY <2>6, <3>3, LoseType DEF FenceReturns, TypeOK
    <3>4. QED
      BY <3>2, <3>3
  <2>7. ASSUME NEW p \in Proc, StartupReturns(p)
       PROVE  TypeOK'
    BY <2>7, FinishType DEF StartupReturns, TypeOK
  <2>8. ASSUME NEW p \in Proc, StartupFails(p)
       PROVE  TypeOK'
    BY <2>8, LoseType DEF StartupFails, Fault, TypeOK
  <2>9. ASSUME NEW p \in Proc, Stop(p)
       PROVE  TypeOK'
    <3>1. state' \in [Proc -> States] /\ fence' \in [Proc -> Nat] /\ session' \in [Proc -> Nat]
      BY <2>9 DEF Stop, TypeOK, States
    <3>2. aborted' \in [Proc -> BOOLEAN] /\ phase' \in [Proc -> {"boot", "up", "down"}]
      BY <2>9 DEF Stop, TypeOK
    <3>3. faults' \in Nat
      BY <2>9 DEF Stop, Fault, TypeOK
    <3>4. task' \in [Proc -> [Task -> TaskRec]]
      <4>1. At("release", session[p]) \in TaskRec
        BY RecTypes DEF Pc, TypeOK
      <4>2. QED
        BY <2>9, <4>1, GotoType DEF Stop, TypeOK
    <3>5. QED
      BY <2>9, <3>1, <3>2, <3>3, <3>4 DEF Stop, TypeOK
  <2>10. ASSUME NEW p \in Proc, ReleaseReturns(p)
       PROVE  TypeOK'
    <3>1. task[p]["stop"].sess \in Nat
      BY DEF TypeOK, TaskRec
    <3>2. task' \in [Proc -> [Task -> TaskRec]]
      BY <2>10, GotoType, RecTypes DEF ReleaseReturns
    <3>3. gone' \in SUBSET Session
      BY <2>10, <3>1 DEF ReleaseReturns, TypeOK, Session
    <3>4. QED
      BY <2>10, <3>2, <3>3 DEF ReleaseReturns, TypeOK
  <2>11. ASSUME NEW p \in Proc, Crash(p)
       PROVE  TypeOK'
    <3>1. state' \in [Proc -> States] /\ fence' \in [Proc -> Nat] /\ session' \in [Proc -> Nat]
      BY <2>11 DEF Crash, TypeOK, States
    <3>2. aborted' \in [Proc -> BOOLEAN] /\ phase' \in [Proc -> {"boot", "up", "down"}]
      BY <2>11 DEF Crash, TypeOK
    <3>3. faults' \in Nat
      BY <2>11 DEF Crash, Fault, TypeOK
    <3>4. task' \in [Proc -> [Task -> TaskRec]]
      BY <2>11, RecTypes DEF Crash, TypeOK
    <3>5. gone' \in SUBSET Session
      BY <2>11 DEF Crash, TypeOK, Session
    <3>6. QED
      BY <2>11, <3>1, <3>2, <3>3, <3>4, <3>5 DEF Crash, TypeOK
  <2>12. ASSUME NEW p \in Proc, ExecTry(p)
       PROVE  TypeOK'
    <3>1. task' \in [Proc -> [Task -> TaskRec]]
      BY <2>12, AnswerType DEF ExecTry, Reply
    <3>2. Backend(p, "poll") \in Session
      BY DEF Backend, Session, TypeOK, TaskRec
    <3>3. depth' \in Nat /\ (depth' = 0 <=> holder' = Free)
      BY <2>12, <3>2, FreeAssumption DEF ExecTry, TypeOK, Session
    <3>4. QED
      BY <2>12, <3>1, <3>2, <3>3 DEF ExecTry, TypeOK
  <2>13. ASSUME NEW p \in Proc, ExecFence(p)
       PROVE  TypeOK'
    <3>1. epoch' \in Nat
      BY <2>13 DEF ExecFence, TypeOK
    <3>2. task[p] \in [Task -> TaskRec] /\ task[p]["poll"] \in TaskRec
      BY DEF TypeOK
    <3>3. [task[p]["poll"] EXCEPT !.reply = "true", !.num = epoch'] \in TaskRec
      BY <3>1, <3>2 DEF TaskRec, Reply
    <3>4. [task[p] EXCEPT !["poll"] = [task[p]["poll"] EXCEPT !.reply = "true", !.num = epoch']] \in [Task -> TaskRec]
      BY <3>2, <3>3
    <3>5. task' = [task EXCEPT ![p] = [task[p] EXCEPT !["poll"] = [task[p]["poll"] EXCEPT !.reply = "true", !.num = epoch']]]
      BY <2>13, <3>2 DEF ExecFence, TypeOK
    <3>6. task' \in [Proc -> [Task -> TaskRec]]
      BY <3>4, <3>5 DEF TypeOK
    <3>7. QED
      BY <2>13, <3>1, <3>6 DEF ExecFence, TypeOK
  <2>14. ASSUME NEW p \in Proc, ExecRelease(p)
       PROVE  TypeOK'
    <3>1. task' \in [Proc -> [Task -> TaskRec]]
      BY <2>14, AnswerType DEF ExecRelease, Reply
    <3>2. depth' \in Nat /\ holder' \in Session \cup {Free} /\ (depth' = 0 <=> holder' = Free)
      <4>1. CASE holder = Backend(p, "stop")
        <5>1. depth' = depth - 1 /\ holder' = (IF depth = 1 THEN Free ELSE holder)
          BY <2>14, <4>1 DEF ExecRelease
        <5>2. holder # Free
          BY <2>14, <4>1, FreeAssumption DEF Backend, TypeOK, TaskRec
        <5>3. QED
          BY <5>1, <5>2 DEF TypeOK
      <4>2. CASE holder # Backend(p, "stop")
        BY <2>14, <4>2 DEF ExecRelease, TypeOK
      <4>3. QED
        BY <4>1, <4>2
    <3>3. QED
      BY <2>14, <3>1, <3>2 DEF ExecRelease, TypeOK
  <2>15. ASSUME NEW p \in Proc, NEW c \in Caller, AssertLeader(p, c)
       PROVE  TypeOK'
    <3>1. At("owns", session[p]) \in TaskRec
      BY RecTypes DEF Pc, TypeOK
    <3>2. QED
      BY <2>15, <3>1, GotoType DEF AssertLeader, TypeOK
  <2>16. ASSUME NEW p \in Proc, NEW c \in Caller, AssertReturns(p, c)
       PROVE  TypeOK'
    <3>1. Granted(fence[p]) \in TaskRec
      BY RecTypes DEF TypeOK
    <3>2. \/ Goto(p, c, Granted(fence[p])) /\ UNCHANGED <<coordVars, gone>>
          \/ Lose(p, c)
      BY <2>16 DEF AssertReturns
    <3>3. UNCHANGED <<made, dbVars, spent, faults>>
      BY <2>16 DEF AssertReturns
    <3>4. QED
      BY <3>1, <3>2, <3>3, LoseType, GotoType DEF TypeOK
  <2>17. ASSUME NEW p \in Proc, NEW c \in Caller, UsePermit(p, c)
       PROVE  TypeOK'
    BY <2>17, GotoType, RecTypes DEF UsePermit, TypeOK
  <2>18. ASSUME NEW p \in Proc, NEW t \in Task, LoseReturns(p, t)
       PROVE  TypeOK'
    <3>1. state' \in [Proc -> States] /\ fence' \in [Proc -> Nat]
      <4>1. \/ UNCHANGED <<state, fence>>
            \/ state' = [state EXCEPT ![p] = "standby"] /\ fence' = [fence EXCEPT ![p] = 0]
        BY <2>18 DEF LoseReturns
      <4>2. CASE UNCHANGED <<state, fence>>
        BY <4>2 DEF TypeOK
      <4>3. CASE state' = [state EXCEPT ![p] = "standby"] /\ fence' = [fence EXCEPT ![p] = 0]
        <5>1. state \in [Proc -> States] /\ fence \in [Proc -> Nat] /\ "standby" \in States
          BY DEF TypeOK, States
        <5>2. QED
          BY <4>3, <5>1
      <4>4. QED
        BY <4>1, <4>2, <4>3
    <3>2. CASE task[p][t].pc = "leaving" /\ state[p] = "leader"
      <4>1. task' \in [Proc -> [Task -> TaskRec]]
        BY <2>18, <3>2, RestartIs, GotoType DEF LoseReturns
      <4>2. QED
        BY <2>18, <3>1, <3>2, <4>1 DEF LoseReturns, TypeOK
    <3>3. CASE ~(task[p][t].pc = "leaving" /\ state[p] = "leader")
      BY <2>18, <3>1, <3>3, FinishType DEF LoseReturns, TypeOK
    <3>4. QED
      BY <3>2, <3>3
  <2>19. ASSUME NEW p \in Proc, NEW t \in Task, QueryFails(p, t)
       PROVE  TypeOK'
    <3>1. task' \in [Proc -> [Task -> TaskRec]]
      BY <2>19, AnswerType DEF QueryFails, Reply
    <3>2. faults' \in Nat
      BY <2>19 DEF QueryFails, Fault, TypeOK
    <3>3. QED
      BY <2>19, <3>1, <3>2 DEF QueryFails, TypeOK
  <2>20. ASSUME NEW p \in Proc, NEW t \in Task, ExecOwns(p, t)
       PROVE  TypeOK'
    BY <2>20, AnswerType DEF ExecOwns, Reply, TypeOK
  <2>21. ASSUME SessionEnds
       PROVE  TypeOK'
    BY <2>21 DEF SessionEnds, Unlock, TypeOK
  <2>22. ASSUME ConnectionLost
       PROVE  TypeOK'
    BY <2>22 DEF ConnectionLost, Unlock, Fault, TypeOK
  <2>23. CASE UNCHANGED vars
    BY <2>23 DEF vars, TypeOK
  <2>25. ASSUME NEW p \in Proc, NEW c \in Caller, RestartFails(p, c)
       PROVE  TypeOK'
    <3>1. task' \in [Proc -> [Task -> TaskRec]]
      BY <2>25, RecTypes, GotoType DEF RestartFails
    <3>2. faults' \in Nat
      BY <2>25 DEF RestartFails, Fault, TypeOK
    <3>3. QED
      BY <2>25, <3>1, <3>2 DEF RestartFails, TypeOK
  <2>24. QED
    BY <2>25, <2>1, <2>2, <2>3, <2>4, <2>5, <2>6, <2>7, <2>8, <2>9, <2>10, <2>11, <2>12, <2>13, <2>14, <2>15, <2>16, <2>17, <2>18, <2>19, <2>20, <2>21, <2>22, <2>23
    DEF Next, Coordinator
<1>3. QED
  BY <1>1, <1>2, PTL DEF Spec

-----------------------------------------------------------------------------
(* The lock                                                                *)

\* The table of tasks after one task moved.
LEMMA GotoEffect ==
    ASSUME TypeOK, NEW p \in Proc, NEW t \in Task, NEW rec, Goto(p, t, rec)
    PROVE  \A q \in Proc : \A u \in Task :
               task'[q][u] = IF q = p /\ u = t THEN rec ELSE task[q][u]
<1>1. task \in [Proc -> [Task -> TaskRec]]
  BY DEF TypeOK
<1>2. QED
  BY <1>1 DEF Goto

LEMMA AnswerEffect ==
    ASSUME TypeOK, NEW p \in Proc, NEW t \in Task, NEW r, Answer(p, t, r)
    PROVE  /\ \A q \in Proc : \A u \in Task :
                  /\ task'[q][u].pc = task[q][u].pc
                  /\ task'[q][u].sess = task[q][u].sess
                  /\ (q # p \/ u # t) => task'[q][u] = task[q][u]
           /\ task'[p][t].reply = r
<1>1. task \in [Proc -> [Task -> TaskRec]]
  BY DEF TypeOK
<1>2. task[p][t] \in [pc : Pc, sess : Nat, reply : Reply, num : Nat]
  BY <1>1 DEF TaskRec
<1>3. \A q \in Proc : \A u \in Task :
          task'[q][u] = IF q = p /\ u = t THEN [task[p][t] EXCEPT !.reply = r] ELSE task[q][u]
  BY <1>1 DEF Answer
<1>4. QED
  BY <1>2, <1>3

\* A step that only moves a task out of harm's way, or at most deposes leaders,
\* keeps the lock invariant.
LEMMA QuietStep ==
    ASSUME TypeOK, LockInv, NEW p \in Proc, NEW t \in Task, NEW rec \in TaskRec,
           Goto(p, t, rec),
           rec.pc \notin {"create", "try", "fence", "release"},
           rec.sess <= made[p],
           task[p][t].pc # "release",
           UNCHANGED <<session, made, gone, severed, holder>>,
           \A q \in Proc : state'[q] = "leader" => state[q] = "leader"
    PROVE  LockInv'
<1> DEFINE T(q, u) == IF q = p /\ u = t THEN rec ELSE task[q][u]
<1>1. \A q \in Proc : \A u \in Task : task'[q][u] = T(q, u)
  BY GotoEffect
<1>2. "poll" \in Task /\ "stop" \in Task
  BY DEF Task
<1> HIDE DEF T
<1>3. SessionsMade'
  BY <1>1 DEF T, LockInv, SessionsMade
<1>4. Acquiring' /\ ReleasedGivenUp' /\ AcquirerHoldsLock'
  BY <1>1, <1>2 DEF T, LockInv, Acquiring, Acquires, ReleasedGivenUp, AcquirerHoldsLock, Releasing
<1>5. LeaderHoldsLock' /\ ClosedSessionUnused'
  BY DEF LockInv, LeaderHoldsLock, ClosedSessionUnused, Leads
<1>6. NoOrphanedLock'
  BY <1>1, <1>2 DEF T, LockInv, NoOrphanedLock
<1>7. QED
  BY <1>3, <1>4, <1>5, <1>6 DEF LockInv

\* A reply that does not announce an acquisition keeps the lock invariant.
LEMMA ReplyStep ==
    ASSUME TypeOK, LockInv, NEW p \in Proc, NEW t \in Task, NEW r, Answer(p, t, r),
           r = "true" => task[p][t].pc # "try",
           UNCHANGED <<state, session, made, gone, severed, holder>>
    PROVE  LockInv'
<1>1. /\ \A q \in Proc : \A u \in Task :
             /\ task'[q][u].pc = task[q][u].pc
             /\ task'[q][u].sess = task[q][u].sess
             /\ (q # p \/ u # t) => task'[q][u] = task[q][u]
      /\ task'[p][t].reply = r
  BY AnswerEffect
<1>2. "poll" \in Task /\ "stop" \in Task
  BY DEF Task
<1>3. SessionsMade'
  BY <1>1 DEF LockInv, SessionsMade
<1>4. Acquiring' /\ ReleasedGivenUp'
  BY <1>1, <1>2 DEF LockInv, Acquiring, Acquires, ReleasedGivenUp, Releasing
<1>5. AcquirerHoldsLock'
  BY <1>1, <1>2 DEF LockInv, AcquirerHoldsLock
<1>6. LeaderHoldsLock' /\ ClosedSessionUnused'
  BY DEF LockInv, LeaderHoldsLock, ClosedSessionUnused, Leads
<1>7. NoOrphanedLock'
  BY <1>1, <1>2 DEF LockInv, NoOrphanedLock
<1>8. QED
  BY <1>3, <1>4, <1>5, <1>6, <1>7 DEF LockInv

\* loseLeadership, up to its first await, keeps the lock invariant: the session
\* it drops is closed, so the lock cannot be left with a forgotten session.
LEMMA LoseStep ==
    ASSUME TypeOK, LockInv, NEW p \in Proc, NEW t \in Task, Lose(p, t),
           task[p][t].pc # "release",
           UNCHANGED <<made, severed, holder>>
    PROVE  LockInv'
<1>1. Idle \in TaskRec /\ Idle.pc = "idle" /\ Idle.sess = 0 /\ made[p] \in Nat /\ session[p] \in Nat
  BY RecTypes DEF Idle, TypeOK
<1>2. CASE state[p] = "stopped"
  <2>1. Goto(p, t, Idle) /\ UNCHANGED <<state, session, gone>>
    BY <1>2 DEF Lose, Finish
  <2>2. QED
    BY <1>1, <2>1, QuietStep
<1>3. CASE state[p] # "stopped"
  <2> DEFINE k == session[p]
             rec == IF k # 0 THEN Closing(p, t) ELSE Idle
             T(q, u) == IF q = p /\ u = t THEN rec ELSE task[q][u]
  <2>1. Goto(p, t, rec)
    BY <1>3 DEF Lose, Finish
  <2>2. \A q \in Proc : \A u \in Task : task'[q][u] = T(q, u)
    BY <2>1, GotoEffect
  <2>3. /\ rec.pc \in {"idle", "closing", "leaving"}
        /\ rec.sess = k
    BY ClosingIs DEF Idle
  <2>4. \A q \in Proc : session'[q] = IF q = p THEN 0 ELSE session[q]
    BY <1>3 DEF Lose, TypeOK
  <2>5. \A q \in Proc : state'[q] = "leader" => state[q] = "leader" /\ q # p
    BY <1>3 DEF Lose, TypeOK
  <2>6. gone' = IF k # 0 THEN gone \cup {<<p, k>>} ELSE gone
    BY <1>3 DEF Lose
  <2>7. "poll" \in Task /\ "stop" \in Task
    BY DEF Task
  <2>8. k <= made[p]
    BY DEF LockInv, SessionsMade
  <2>17. gone \subseteq gone' /\ (k # 0 => <<p, k>> \in gone')
    BY <2>6
  <2>18. \A q \in Proc : \A j \in Nat :
             <<q, j>> \in gone' => <<q, j>> \in gone \/ (q = p /\ j = k)
    BY <2>6
  <2> HIDE DEF T, rec, k
  <2>9. SessionsMade'
    <3>1. \A q \in Proc : session'[q] <= made'[q]
      <4>1. \A q \in Proc : session[q] <= made[q] /\ made[q] \in Nat
        BY DEF LockInv, SessionsMade, TypeOK
      <4>2. QED
        BY <2>4, <4>1
    <3>2. \A q \in Proc : \A u \in Task : task'[q][u].sess <= made'[q]
      BY <2>2, <2>3, <2>8 DEF T, LockInv, SessionsMade
    <3>3. \A q \in Proc : \A j \in Nat :
              holder' = <<q, j>> \/ <<q, j>> \in gone' => j <= made'[q]
      BY <2>8, <2>18 DEF LockInv, SessionsMade
    <3>4. QED
      BY <3>1, <3>2, <3>3 DEF SessionsMade
  <2>10. Acquiring'
    <3> SUFFICES ASSUME NEW q \in Proc
                 PROVE  /\ task'[q]["poll"].pc \in {"create", "try", "fence"} => state'[q] # "leader"
                        /\ task'[q]["poll"].pc = "create" => session'[q] = 0
                        /\ task'[q]["poll"].pc \in {"try", "fence"} =>
                               Acquires(q, task[q]["poll"].sess)'
      BY DEF Acquiring
    <3>1. /\ task[q]["poll"].pc \in {"create", "try", "fence"} => state[q] # "leader"
          /\ task[q]["poll"].pc = "create" => session[q] = 0
          /\ task[q]["poll"].pc \in {"try", "fence"} => Acquires(q, task[q]["poll"].sess)
      BY DEF LockInv, Acquiring
    <3>2. CASE q # p
      <4>1. task'[q]["poll"] = task[q]["poll"] /\ task'[q]["stop"] = task[q]["stop"]
        BY <2>2, <2>7, <3>2 DEF T
      <4>2. session'[q] = session[q] /\ (state'[q] = "leader" => state[q] = "leader")
        BY <2>4, <2>5, <3>2
      <4>3. QED
        BY <2>17, <3>1, <4>1, <4>2 DEF Acquires, Releasing
    <3>3. CASE q = p /\ t = "poll"
      BY <2>2, <2>3, <2>7, <3>3 DEF T
    <3>4. CASE q = p /\ t # "poll"
      <4>1. task'[p]["poll"] = task[p]["poll"]
        BY <2>2, <2>7, <3>4 DEF T
      <4>2. task[p]["stop"].pc = "release" => task'[p]["stop"] = task[p]["stop"]
        BY <2>2, <2>7, <3>4 DEF T
      <4>3. session'[p] = 0 /\ state'[p] # "leader"
        BY <2>4, <2>5
      <4>4. QED
        BY <2>17, <3>1, <3>4, <4>1, <4>2, <4>3 DEF Acquires, Releasing, k
    <3>5. QED
      BY <3>2, <3>3, <3>4
  <2>11. ReleasedGivenUp'
    BY <2>2, <2>3, <2>4, <2>7 DEF T, LockInv, ReleasedGivenUp
  <2>12. AcquirerHoldsLock'
    BY <2>2, <2>4, <2>7 DEF T, LockInv, AcquirerHoldsLock
  <2>13. LeaderHoldsLock'
    BY <2>4, <2>5 DEF LockInv, LeaderHoldsLock, Leads
  <2>14. ClosedSessionUnused'
    BY <2>4, <2>6 DEF LockInv, ClosedSessionUnused
  <2>15. NoOrphanedLock'
    BY <2>2, <2>4, <2>6, <2>7 DEF T, k, LockInv, NoOrphanedLock, TypeOK
  <2>16. QED
    BY <2>9, <2>10, <2>11, <2>12, <2>13, <2>14, <2>15 DEF LockInv
<1>4. QED
  BY <1>2, <1>3

\* A session just created is new: nothing refers to it yet.
LEMMA CreateStep ==
    ASSUME TypeOK, LockInv, NEW p \in Proc, CreateReturns(p)
    PROVE  LockInv'
<1> DEFINE k == made[p] + 1
           T(q, u) == IF q = p /\ u = "poll" THEN At("try", k) ELSE task[q][u]
<1>1. "poll" \in Task /\ "stop" \in Task
  BY DEF Task
<1>2. /\ \A q \in Proc : made[q] \in Nat /\ session[q] \in Nat
      /\ \A q \in Proc : made'[q] = IF q = p THEN k ELSE made[q]
      /\ \A q \in Proc : session'[q] = IF q = p THEN k ELSE session[q]
  BY DEF CreateReturns, TypeOK
<1>3. \A q \in Proc : \A u \in Task : task'[q][u] = T(q, u)
  <2>1. Goto(p, "poll", At("try", k))
    BY <1>2 DEF CreateReturns
  <2>2. QED
    BY <1>1, <2>1, GotoEffect
<1>4. UNCHANGED <<state, gone, severed, holder>> /\ task[p]["poll"].pc = "create"
  BY DEF CreateReturns, dbVars
<1>5. /\ \A q \in Proc : session[q] <= made[q]
      /\ \A q \in Proc : \A u \in Task : task[q][u].sess <= made[q] /\ task[q][u].sess \in Nat
      /\ \A q \in Proc : \A j \in Nat : holder = <<q, j>> \/ <<q, j>> \in gone => j <= made[q]
  BY DEF LockInv, SessionsMade, TypeOK, TaskRec
<1>6. At("try", k).pc = "try" /\ At("try", k).sess = k /\ At("try", k).reply = "none"
  BY DEF At
<1>7. state[p] # "leader" /\ session[p] = 0
  BY <1>4 DEF LockInv, Acquiring
<1>8. k \in Nat /\ k > made[p] /\ k # 0
  BY <1>2
<1> HIDE DEF T, k
<1>9. SessionsMade'
  <2>1. \A q \in Proc : session'[q] <= made'[q]
    BY <1>2, <1>5, <1>8
  <2>2. \A q \in Proc : \A u \in Task : task'[q][u].sess <= made'[q]
    BY <1>2, <1>3, <1>5, <1>6, <1>8 DEF T
  <2>3. \A q \in Proc : \A j \in Nat : holder' = <<q, j>> \/ <<q, j>> \in gone' => j <= made'[q]
    BY <1>2, <1>4, <1>5, <1>8
  <2>4. QED
    BY <2>1, <2>2, <2>3 DEF SessionsMade
<1>10. Acquiring'
  BY <1>1, <1>2, <1>3, <1>4, <1>6, <1>7, <1>8 DEF T, LockInv, Acquiring, Acquires, Releasing
<1>11. ReleasedGivenUp'
  BY <1>1, <1>2, <1>3, <1>4, <1>5, <1>6, <1>8 DEF T, LockInv, ReleasedGivenUp
<1>12. AcquirerHoldsLock' /\ LeaderHoldsLock'
  BY <1>1, <1>2, <1>3, <1>4, <1>6, <1>7 DEF T, LockInv, AcquirerHoldsLock, LeaderHoldsLock, Leads
<1>13. ClosedSessionUnused'
  <2>1. <<p, k>> \notin gone
    BY <1>5, <1>8, <1>2
  <2>2. QED
    BY <1>2, <1>4, <2>1 DEF LockInv, ClosedSessionUnused
<1>14. NoOrphanedLock'
  <2> SUFFICES ASSUME NEW q \in Proc, NEW j \in 1..made'[q], holder' = <<q, j>>
               PROVE  \/ session'[q] = j
                      \/ <<q, j>> \in gone'
                      \/ task'[q]["stop"].pc = "release" /\ task'[q]["stop"].sess = j
    BY DEF NoOrphanedLock
  <2>1. j \in Nat /\ j \in 1..made[q]
    BY <1>2, <1>4, <1>5
  <2>2. \/ session[q] = j
        \/ <<q, j>> \in gone
        \/ task[q]["stop"].pc = "release" /\ task[q]["stop"].sess = j
    BY <1>4, <2>1 DEF LockInv, NoOrphanedLock
  <2>3. session[q] = j => q # p
    BY <1>7, <2>1
  <2>4. task'[q]["stop"] = task[q]["stop"]
    BY <1>1, <1>3 DEF T
  <2>5. QED
    BY <1>2, <1>4, <2>2, <2>3, <2>4
<1>15. QED
  BY <1>9, <1>10, <1>11, <1>12, <1>13, <1>14 DEF LockInv

\* Entering a query of acquire() with the coordinator's session, or creating one.
LEMMA AcquireStep ==
    ASSUME TypeOK, LockInv, NEW p \in Proc, NEW pc \in {"create", "try", "fence"}, NEW k \in Nat,
           Goto(p, "poll", At(pc, k)),
           state[p] # "leader", k = session[p], pc = "create" <=> k = 0,
           pc = "fence" => task[p]["poll"].pc = "try" /\ task[p]["poll"].reply = "true",
           UNCHANGED <<state, session, made, gone, severed, holder>>
    PROVE  LockInv'
<1> DEFINE T(q, u) == IF q = p /\ u = "poll" THEN At(pc, k) ELSE task[q][u]
<1>1. "poll" \in Task /\ "stop" \in Task
  BY DEF Task
<1>2. \A q \in Proc : \A u \in Task : task'[q][u] = T(q, u)
  BY <1>1, GotoEffect
<1>3. At(pc, k).pc = pc /\ At(pc, k).sess = k /\ At(pc, k).reply = "none"
  BY DEF At
<1> HIDE DEF T
<1>4. SessionsMade'
  BY <1>2, <1>3 DEF T, LockInv, SessionsMade
<1>5. Acquiring'
  BY <1>1, <1>2, <1>3 DEF T, LockInv, Acquiring, Acquires, Releasing
<1>6. ReleasedGivenUp' /\ AcquirerHoldsLock'
  BY <1>1, <1>2, <1>3 DEF T, LockInv, ReleasedGivenUp, AcquirerHoldsLock
<1>7. LeaderHoldsLock' /\ ClosedSessionUnused'
  BY DEF LockInv, LeaderHoldsLock, ClosedSessionUnused, Leads
<1>8. NoOrphanedLock'
  BY <1>1, <1>2 DEF T, LockInv, NoOrphanedLock
<1>9. QED
  BY <1>4, <1>5, <1>6, <1>7, <1>8 DEF LockInv

-----------------------------------------------------------------------------
(* stop() runs once                                                        *)

\* Only a process that was told to stop is releasing a session.
StopOnce == \A p \in Proc : phase[p] # "down" => task[p]["stop"].pc # "release"

LEMMA LosePhase ==
    ASSUME TypeOK, StopOnce, NEW p \in Proc, NEW t \in Task, Lose(p, t)
    PROVE  StopOnce'
<1>1. \E rec \in {Idle, Closing(p, t)} : Goto(p, t, rec)
  BY DEF Lose, Finish
<1>2. PICK rec \in {Idle, Closing(p, t)} : Goto(p, t, rec)
  BY <1>1
<1>3. rec.pc # "release"
  BY <1>2, ClosingIs DEF Idle
<1>4. \A q \in Proc : \A u \in Task :
          task'[q][u] = IF q = p /\ u = t THEN rec ELSE task[q][u]
  BY <1>2, GotoEffect
<1>5. \A q \in Proc : phase'[q] # "down" => phase[q] # "down"
  BY DEF Lose, Finish, TypeOK
<1>6. QED
  BY <1>3, <1>4, <1>5 DEF StopOnce, Task

LEMMA GotoPhase ==
    ASSUME TypeOK, StopOnce, NEW p \in Proc, NEW t \in Task, NEW rec, Goto(p, t, rec),
           rec.pc # "release", UNCHANGED phase \/ Finish(p, t)
    PROVE  StopOnce'
<1>1. \A q \in Proc : \A u \in Task :
          task'[q][u] = IF q = p /\ u = t THEN rec ELSE task[q][u]
  BY GotoEffect
<1>2. \A q \in Proc : phase'[q] # "down" => phase[q] # "down"
  BY DEF Finish, TypeOK
<1>3. QED
  BY <1>1, <1>2 DEF StopOnce, Task

LEMMA FinishPhase ==
    ASSUME TypeOK, StopOnce, NEW p \in Proc, NEW t \in Task, Finish(p, t)
    PROVE  StopOnce'
<1>1. Goto(p, t, Idle) /\ Idle.pc # "release"
  BY DEF Finish, Idle
<1>2. QED
  BY <1>1, GotoPhase

LEMMA AnswerPhase ==
    ASSUME TypeOK, StopOnce, NEW p \in Proc, NEW t \in Task, NEW r, Answer(p, t, r),
           UNCHANGED phase
    PROVE  StopOnce'
BY AnswerEffect DEF StopOnce, Task

LEMMA StopOnceStep ==
    ASSUME TypeOK, StopOnce, [Next]_vars
    PROVE  StopOnce'
<1> USE DEF coordVars, dbVars
<1> "poll" \in Task /\ "stop" \in Task /\ Caller \subseteq Task
  BY DEF Task
<1>0. /\ \A pc, s : At(pc, s).pc = pc
      /\ \A f : Granted(f).pc = "granted"
      /\ Idle.pc = "idle" /\ Refused.pc = "owns"
  BY DEF At, Granted, Idle, Refused
<1>1. ASSUME NEW p \in Proc, Poll(p)
      PROVE  StopOnce'
  <2>1. \/ Lose(p, "poll")
        \/ \E pc \in {"owns", "create", "try"} : \E k : Goto(p, "poll", At(pc, k)) /\ UNCHANGED phase
    BY <1>1 DEF Poll
  <2>2. QED
    BY <1>0, <2>1, LosePhase, GotoPhase
<1>2. ASSUME NEW p \in Proc, PollOwnsReturns(p)
      PROVE  StopOnce'
  BY <1>2, LosePhase, FinishPhase DEF PollOwnsReturns
<1>3. ASSUME NEW p \in Proc, CreateReturns(p)
      PROVE  StopOnce'
  BY <1>0, <1>3, GotoPhase DEF CreateReturns
<1>4. ASSUME NEW p \in Proc, CreateFails(p)
      PROVE  StopOnce'
  BY <1>4, LosePhase DEF CreateFails
<1>5. ASSUME NEW p \in Proc, TryReturns(p)
      PROVE  StopOnce'
  <2>1. \/ Lose(p, "poll") \/ Finish(p, "poll")
        \/ Goto(p, "poll", At("fence", session[p])) /\ UNCHANGED phase
    BY <1>5 DEF TryReturns
  <2>2. QED
    BY <1>0, <2>1, LosePhase, FinishPhase, GotoPhase
<1>6. ASSUME NEW p \in Proc, FenceReturns(p)
      PROVE  StopOnce'
  BY <1>0, <1>6, LosePhase, GotoPhase DEF FenceReturns
<1>7. ASSUME NEW p \in Proc, StartupReturns(p) \/ StartupFails(p)
      PROVE  StopOnce'
  BY <1>7, LosePhase, FinishPhase DEF StartupReturns, StartupFails
<1>8. ASSUME NEW p \in Proc, Stop(p)
      PROVE  StopOnce'
  <2>1. phase'[p] = "down" /\ \A q \in Proc : q # p => phase'[q] = phase[q]
    BY <1>8 DEF Stop, TypeOK
  <2>2. \A q \in Proc : q # p => task'[q] = task[q]
    BY <1>8 DEF Stop, Goto, TypeOK
  <2>3. QED
    BY <2>1, <2>2 DEF StopOnce
<1>9. ASSUME NEW p \in Proc, ReleaseReturns(p)
      PROVE  StopOnce'
  BY <1>0, <1>9, GotoPhase DEF ReleaseReturns
<1>10. ASSUME NEW p \in Proc, Crash(p)
       PROVE  StopOnce'
  <2>1. task'[p]["stop"] = Idle /\ \A q \in Proc : q # p => task'[q] = task[q] /\ phase'[q] = phase[q]
    BY <1>10 DEF Crash, TypeOK
  <2>2. QED
    BY <1>0, <2>1 DEF StopOnce
<1>11. ASSUME NEW p \in Proc, ExecTry(p) \/ ExecRelease(p)
       PROVE  StopOnce'
  BY <1>11, AnswerPhase DEF ExecTry, ExecRelease
<1>12. ASSUME NEW p \in Proc, ExecFence(p)
       PROVE  StopOnce'
  <2>1. \A q \in Proc : task'[q]["stop"] = task[q]["stop"]
    BY <1>12 DEF ExecFence, TypeOK
  <2>2. QED
    BY <1>12, <2>1 DEF ExecFence, StopOnce
<1>13. ASSUME NEW p \in Proc, NEW c \in Caller,
              AssertLeader(p, c) \/ AssertReturns(p, c) \/ RestartFails(p, c) \/ UsePermit(p, c)
       PROVE  StopOnce'
  BY <1>0, <1>13, LosePhase, GotoPhase DEF AssertLeader, AssertReturns, RestartFails, UsePermit
<1>14. ASSUME NEW p \in Proc, NEW t \in Task, LoseReturns(p, t)
       PROVE  StopOnce'
  BY <1>14, RestartIs, FinishPhase, GotoPhase DEF LoseReturns
<1>15. ASSUME NEW p \in Proc, NEW t \in Task, QueryFails(p, t) \/ ExecOwns(p, t)
       PROVE  StopOnce'
  BY <1>15, AnswerPhase DEF QueryFails, ExecOwns
<1>16. CASE SessionEnds \/ ConnectionLost \/ UNCHANGED vars
  BY <1>16 DEF SessionEnds, ConnectionLost, vars, StopOnce
<1>17. QED
  BY <1>1, <1>2, <1>3, <1>4, <1>5, <1>6, <1>7, <1>8, <1>9, <1>10, <1>11, <1>12, <1>13,
     <1>14, <1>15, <1>16
  DEF Next, Coordinator

\* A fence returned in time makes a leader that owns the lock.
LEMMA LeadStep ==
    ASSUME TypeOK, LockInv, NEW p \in Proc, FenceReturns(p)
    PROVE  LockInv'
<1>1. "poll" \in Task /\ "stop" \in Task
  BY DEF Task
<1>2. UNCHANGED <<made, severed, holder>> /\ task[p]["poll"].pc = "fence"
  BY DEF FenceReturns, dbVars
<1>3. CASE task[p]["poll"].reply # "true"
  <2>1. Lose(p, "poll")
    BY <1>3 DEF FenceReturns
  <2>2. QED
    BY <1>1, <1>2, <2>1, LoseStep
<1>4. CASE task[p]["poll"].reply = "true"
  <2> DEFINE T(q, u) == IF q = p /\ u = "poll" THEN At("startup", 0) ELSE task[q][u]
  <2>1. \A q \in Proc : \A u \in Task : task'[q][u] = T(q, u)
    BY <1>1, <1>4, GotoEffect DEF FenceReturns
  <2>2. At("startup", 0).pc = "startup" /\ At("startup", 0).sess = 0
    BY DEF At
  <2>3. UNCHANGED <<session, gone>>
    BY <1>4 DEF FenceReturns
  <2>4. \A q \in Proc : q # p => state'[q] = state[q]
    BY <1>4 DEF FenceReturns, TypeOK
  <2>5. \A q \in Proc : made[q] \in Nat
    BY DEF TypeOK
  <2> HIDE DEF T
  <2>6. SessionsMade'
    BY <1>2, <2>1, <2>2, <2>3, <2>5 DEF T, LockInv, SessionsMade
  <2>7. Acquiring'
    BY <1>1, <2>1, <2>2, <2>3, <2>4 DEF T, LockInv, Acquiring, Acquires, Releasing
  <2>8. ReleasedGivenUp' /\ AcquirerHoldsLock'
    BY <1>1, <1>2, <2>1, <2>2, <2>3 DEF T, LockInv, ReleasedGivenUp, AcquirerHoldsLock
  <2>9. LeaderHoldsLock'
    BY <1>2, <2>3, <2>4 DEF LockInv, LeaderHoldsLock, AcquirerHoldsLock, Leads
  <2>10. ClosedSessionUnused' /\ NoOrphanedLock'
    BY <1>1, <1>2, <2>1, <2>3 DEF T, LockInv, ClosedSessionUnused, NoOrphanedLock
  <2>11. QED
    BY <2>6, <2>7, <2>8, <2>9, <2>10 DEF LockInv
<1>5. QED
  BY <1>3, <1>4

\* stop() takes the session from the coordinator and owes its release.
LEMMA StopStep ==
    ASSUME TypeOK, StopOnce, LockInv, NEW p \in Proc, Stop(p)
    PROVE  LockInv'
<1> DEFINE k == session[p]
           T(q, u) == IF k # 0 /\ q = p /\ u = "stop" THEN At("release", k) ELSE task[q][u]
<1>1. "poll" \in Task /\ "stop" \in Task /\ "poll" # "stop"
  BY DEF Task
<1>2. UNCHANGED <<made, gone, severed, holder>>
  BY DEF Stop, dbVars
<1>3. \A q \in Proc : \A u \in Task : task'[q][u] = T(q, u)
  BY <1>1, GotoEffect DEF Stop
<1>4. At("release", k).pc = "release" /\ At("release", k).sess = k
  BY DEF At
<1>5. \A q \in Proc : session'[q] = IF q = p THEN 0 ELSE session[q]
  BY DEF Stop, TypeOK
<1>6. \A q \in Proc : state'[q] = IF q = p THEN "stopped" ELSE state[q]
  BY DEF Stop, TypeOK
<1>7. \A q \in Proc : made[q] \in Nat /\ session[q] \in Nat /\ session[q] <= made[q]
  BY DEF LockInv, SessionsMade, TypeOK
<1> HIDE DEF T
<1>8. SessionsMade'
  BY <1>2, <1>3, <1>4, <1>5, <1>7 DEF T, k, LockInv, SessionsMade
<1>9. ReleasedGivenUp'
  BY <1>1, <1>3, <1>4, <1>5 DEF T, LockInv, ReleasedGivenUp
<1>10. AcquirerHoldsLock' /\ LeaderHoldsLock'
  BY <1>1, <1>2, <1>3, <1>5, <1>6 DEF T, LockInv, AcquirerHoldsLock, LeaderHoldsLock, Leads
<1>11. ClosedSessionUnused'
  BY <1>2, <1>5 DEF LockInv, ClosedSessionUnused
<1>12. Acquiring'
  <2> SUFFICES ASSUME NEW q \in Proc
               PROVE  /\ task'[q]["poll"].pc \in {"create", "try", "fence"} => state'[q] # "leader"
                      /\ task'[q]["poll"].pc = "create" => session'[q] = 0
                      /\ task'[q]["poll"].pc \in {"try", "fence"} =>
                             Acquires(q, task[q]["poll"].sess)'
    BY DEF Acquiring
  <2>1. /\ task[q]["poll"].pc \in {"create", "try", "fence"} => state[q] # "leader"
        /\ task[q]["poll"].pc = "create" => session[q] = 0
        /\ task[q]["poll"].pc \in {"try", "fence"} => Acquires(q, task[q]["poll"].sess)
    BY DEF LockInv, Acquiring
  <2>2. task'[q]["poll"] = task[q]["poll"]
    BY <1>1, <1>3 DEF T
  <2>3. CASE q # p \/ k = 0
    <3>1. task'[q]["stop"] = task[q]["stop"] /\ session'[q] = session[q]
      BY <1>1, <1>3, <1>5, <2>3 DEF T, k
    <3>2. QED
      BY <1>2, <1>6, <2>1, <2>2, <3>1 DEF Acquires, Releasing
  <2>4. CASE q = p /\ k # 0
    <3>1. task'[p]["stop"].pc = "release" /\ task'[p]["stop"].sess = k /\ session'[p] = 0
      BY <1>1, <1>3, <1>4, <1>5, <2>4 DEF T
    <3>2. task[p]["poll"].pc \in {"try", "fence"} => task[p]["poll"].sess = k /\ k # 0
      BY <2>1, <2>4 DEF Acquires, k
    <3>3. QED
      BY <1>6, <2>1, <2>2, <2>4, <3>1, <3>2 DEF Acquires, Releasing
  <2>5. QED
    BY <2>3, <2>4
<1>13. NoOrphanedLock'
  <2> SUFFICES ASSUME NEW q \in Proc, NEW j \in 1..made[q], holder = <<q, j>>
               PROVE  \/ session'[q] = j
                      \/ <<q, j>> \in gone'
                      \/ task'[q]["stop"].pc = "release" /\ task'[q]["stop"].sess = j
    BY <1>2 DEF NoOrphanedLock
  <2>1. \/ session[q] = j
        \/ <<q, j>> \in gone
        \/ task[q]["stop"].pc = "release" /\ task[q]["stop"].sess = j
    BY DEF LockInv, NoOrphanedLock
  <2>2. task[p]["stop"].pc # "release"
    BY DEF Stop, StopOnce
  <2>3. QED
    BY <1>1, <1>2, <1>3, <1>4, <1>5, <2>1, <2>2 DEF T, k
<1>14. QED
  BY <1>8, <1>9, <1>10, <1>11, <1>12, <1>13 DEF LockInv

\* Steps that only free the lock, close or sever sessions: the table of tasks
\* is untouched and no process becomes a leader.
LEMMA UnlockStep ==
    ASSUME TypeOK, LockInv, SessionEnds \/ ConnectionLost
    PROVE  LockInv'
<1>1. /\ UNCHANGED <<state, session, task, made, gone>>
      /\ holder # Free /\ holder' = Free
      /\ severed' = severed \/ (holder \notin gone /\ severed' = severed \cup {holder})
      /\ holder \in gone \/ holder \in severed'
  BY FreeAssumption DEF SessionEnds, ConnectionLost, Unlock, coordVars, TypeOK, Session
<1>2. \A q \in Proc : \A k \in Nat : holder' # <<q, k>>
  BY <1>1, FreeAssumption
<1>3. \A q \in Proc : session[q] \in Nat /\ made[q] \in Nat
  BY DEF TypeOK
<1>4. SessionsMade'
  BY <1>1, <1>2 DEF LockInv, SessionsMade
<1>5. Acquiring' /\ ReleasedGivenUp' /\ ClosedSessionUnused'
  BY <1>1 DEF LockInv, Acquiring, Acquires, Releasing, ReleasedGivenUp, ClosedSessionUnused
<1>6. ASSUME NEW q \in Proc, session[q] # 0, holder = <<q, session[q]>>
      PROVE  <<q, session[q]>> \in severed'
  BY <1>1, <1>6 DEF LockInv, ClosedSessionUnused
<1>7. AcquirerHoldsLock'
  BY <1>1, <1>6 DEF LockInv, AcquirerHoldsLock
<1>8. LeaderHoldsLock'
  BY <1>1, <1>6 DEF LockInv, LeaderHoldsLock, Leads
<1>9. NoOrphanedLock'
  BY <1>1, <1>2, <1>3 DEF NoOrphanedLock
<1>10. QED
  BY <1>4, <1>5, <1>7, <1>8, <1>9 DEF LockInv

\* pg_try_advisory_lock grants only a free lock or one its session owns.
LEMMA TryStep ==
    ASSUME TypeOK, LockInv, NEW p \in Proc, ExecTry(p)
    PROVE  LockInv'
<1> DEFINE k == task[p]["poll"].sess
<1>1. "poll" \in Task /\ "stop" \in Task
  BY DEF Task
<1>2. /\ task[p]["poll"].pc = "try" /\ <<p, k>> \notin gone
      /\ UNCHANGED <<state, session, made, gone>>
  BY DEF ExecTry, Awaits, Backend, coordVars
<1>3. CASE holder \notin {Free, <<p, k>>}
  <2>1. Answer(p, "poll", "false") /\ UNCHANGED <<holder, severed>>
    BY <1>3 DEF ExecTry, Backend
  <2>2. QED
    BY <1>1, <1>2, <2>1, ReplyStep
<1>4. CASE holder \in {Free, <<p, k>>}
  <2>1. /\ Answer(p, "poll", "true") /\ holder' = <<p, k>> /\ severed' = severed \ {<<p, k>>}
    BY <1>4 DEF ExecTry, Backend
  <2>2. /\ \A q \in Proc : \A u \in Task :
               /\ task'[q][u].pc = task[q][u].pc
               /\ task'[q][u].sess = task[q][u].sess
               /\ (q # p \/ u # "poll") => task'[q][u] = task[q][u]
    BY <1>1, <2>1, AnswerEffect
  <2>3. k \in Nat /\ k <= made[p] /\ Acquires(p, k)
    BY <1>1, <1>2 DEF LockInv, SessionsMade, Acquiring, TypeOK, TaskRec
  <2>4. \A q \in Proc : \A j \in Nat : holder = <<q, j>> => q = p /\ j = k
    BY <1>4, FreeAssumption
  <2>5. \A q \in Proc : session[q] \in Nat
    BY DEF TypeOK
  <2> HIDE DEF k
  <2>6. SessionsMade'
    BY <1>2, <2>1, <2>2, <2>3 DEF LockInv, SessionsMade
  <2>7. Acquiring' /\ ReleasedGivenUp'
    BY <1>1, <1>2, <2>2 DEF LockInv, Acquiring, Acquires, Releasing, ReleasedGivenUp
  <2>8. \A q \in Proc : session[q] # 0 /\ holder = <<q, session[q]>> => holder' = <<q, session[q]>>
    BY <2>1, <2>4, <2>5
  <2>9. \A q \in Proc : q # p => (<<q, session[q]>> \in severed' <=> <<q, session[q]>> \in severed)
    BY <2>1
  <2>10. session[p] # 0 => session[p] = k
    BY <2>3 DEF Acquires
  <2>11. AcquirerHoldsLock' /\ LeaderHoldsLock'
    BY <1>1, <1>2, <2>1, <2>2, <2>8, <2>9, <2>10 DEF LockInv, AcquirerHoldsLock, LeaderHoldsLock, Leads
  <2>12. ClosedSessionUnused'
    BY <1>2 DEF LockInv, ClosedSessionUnused
  <2>13. NoOrphanedLock'
    <3>1. session[p] = k \/ Releasing(p, k)
      BY <1>2, <2>3 DEF Acquires
    <3>2. QED
      BY <1>1, <1>2, <2>1, <2>2, <2>3, <3>1 DEF NoOrphanedLock, Releasing, TypeOK
  <2>14. QED
    BY <2>6, <2>7, <2>11, <2>12, <2>13 DEF LockInv
<1>5. QED
  BY <1>3, <1>4

\* Drawing a fence leaves sessions and the lock alone.
LEMMA DrawStep ==
    ASSUME TypeOK, LockInv, NEW p \in Proc, ExecFence(p)
    PROVE  LockInv'
<1>1. "poll" \in Task /\ "stop" \in Task
  BY DEF Task
<1>2. /\ UNCHANGED <<state, session, made, gone, severed, holder>>
      /\ task[p]["poll"].pc = "fence"
  BY DEF ExecFence, Awaits, coordVars
<1>3. \A q \in Proc : \A u \in Task :
          /\ task'[q][u].pc = task[q][u].pc
          /\ task'[q][u].sess = task[q][u].sess
          /\ (q # p \/ u # "poll") => task'[q][u] = task[q][u]
  <2>1. task \in [Proc -> [Task -> TaskRec]] /\ task[p]["poll"] \in TaskRec
    BY <1>1 DEF TypeOK
  <2>2. QED
    BY <1>1, <2>1 DEF ExecFence, TaskRec
<1>4. SessionsMade' /\ Acquiring' /\ ReleasedGivenUp'
  BY <1>1, <1>2, <1>3 DEF LockInv, SessionsMade, Acquiring, Acquires, Releasing, ReleasedGivenUp
<1>5. AcquirerHoldsLock' /\ LeaderHoldsLock'
  BY <1>1, <1>2, <1>3 DEF LockInv, AcquirerHoldsLock, LeaderHoldsLock, Leads
<1>6. ClosedSessionUnused' /\ NoOrphanedLock'
  BY <1>1, <1>2, <1>3 DEF LockInv, ClosedSessionUnused, NoOrphanedLock
<1>7. QED
  BY <1>4, <1>5, <1>6 DEF LockInv

\* pg_advisory_unlock by stop() frees a lock its coordinator no longer uses.
LEMMA ReleaseStep ==
    ASSUME TypeOK, LockInv, NEW p \in Proc, ExecRelease(p)
    PROVE  LockInv'
<1> DEFINE k == task[p]["stop"].sess
<1>1. "poll" \in Task /\ "stop" \in Task
  BY DEF Task
<1>2. /\ task[p]["stop"].pc = "release"
      /\ Answer(p, "stop", "true")
      /\ UNCHANGED <<state, session, made, gone, severed>>
      /\ holder' = holder \/ (holder = <<p, k>> /\ holder' = Free)
  BY DEF ExecRelease, Awaits, Backend, coordVars
<1>3. /\ \A q \in Proc : \A u \in Task :
             /\ task'[q][u].pc = task[q][u].pc
             /\ task'[q][u].sess = task[q][u].sess
             /\ (q # p \/ u # "stop") => task'[q][u] = task[q][u]
  BY <1>1, <1>2, AnswerEffect
<1>4. CASE holder' = holder
  BY <1>1, <1>2, <1>4, ReplyStep
<1>5. CASE holder = <<p, k>> /\ holder' = Free
  <2>1. \A q \in Proc : \A j \in Nat : holder' # <<q, j>>
    BY <1>5, FreeAssumption
  <2>2. session[p] # k
    BY <1>2 DEF LockInv, ReleasedGivenUp
  <2>3. \A q \in Proc : session[q] \in Nat /\ made[q] \in Nat
    BY DEF TypeOK
  <2>4. \A q \in Proc : holder # <<q, session[q]>>
    BY <1>5, <2>2
  <2>5. SessionsMade' /\ Acquiring' /\ ReleasedGivenUp'
    BY <1>1, <1>2, <1>3, <2>1 DEF LockInv, SessionsMade, Acquiring, Acquires, Releasing, ReleasedGivenUp
  <2>6. AcquirerHoldsLock' /\ LeaderHoldsLock'
    BY <1>1, <1>2, <1>3, <2>4 DEF LockInv, AcquirerHoldsLock, LeaderHoldsLock, Leads
  <2>7. ClosedSessionUnused' /\ NoOrphanedLock'
    BY <1>2, <2>1, <2>3 DEF LockInv, ClosedSessionUnused, NoOrphanedLock
  <2>8. QED
    BY <2>5, <2>6, <2>7 DEF LockInv
<1>6. QED
  BY <1>2, <1>4, <1>5

\* After release() the session stop() held is closed.
LEMMA ClosedStep ==
    ASSUME TypeOK, LockInv, NEW p \in Proc, ReleaseReturns(p)
    PROVE  LockInv'
<1> DEFINE k == task[p]["stop"].sess
           T(q, u) == IF q = p /\ u = "stop" THEN Idle ELSE task[q][u]
<1>1. "poll" \in Task /\ "stop" \in Task
  BY DEF Task
<1>2. /\ task[p]["stop"].pc = "release"
      /\ UNCHANGED <<state, session, made, severed, holder>>
      /\ gone' = gone \cup {<<p, k>>}
  BY DEF ReleaseReturns, coordVars, dbVars
<1>3. \A q \in Proc : \A u \in Task : task'[q][u] = T(q, u)
  BY <1>1, GotoEffect DEF ReleaseReturns
<1>4. Idle.pc = "idle" /\ Idle.sess = 0
  BY DEF Idle
<1>5. k <= made[p] /\ k # 0 /\ session[p] # k /\ made[p] \in Nat
  BY <1>1, <1>2 DEF LockInv, SessionsMade, ReleasedGivenUp, TypeOK
<1>6. /\ gone \subseteq gone' /\ <<p, k>> \in gone'
      /\ \A q \in Proc : \A j : <<q, j>> \in gone' => <<q, j>> \in gone \/ (q = p /\ j = k)
  BY <1>2
<1> HIDE DEF T, k
<1>7. SessionsMade'
  <2>1. \A q \in Proc : \A u \in Task : task'[q][u].sess <= made'[q]
    BY <1>2, <1>3, <1>4, <1>5 DEF T, LockInv, SessionsMade
  <2>2. \A q \in Proc : \A j \in Nat : holder' = <<q, j>> \/ <<q, j>> \in gone' => j <= made'[q]
    BY <1>2, <1>5, <1>6 DEF LockInv, SessionsMade
  <2>3. QED
    BY <1>2, <2>1, <2>2 DEF LockInv, SessionsMade
<1>8. Acquiring'
  <2>1. \A q \in Proc : task'[q]["poll"] = task[q]["poll"]
    BY <1>1, <1>3 DEF T
  <2>2. \A q \in Proc : \A j : Acquires(q, j) => Acquires(q, j)'
    BY <1>1, <1>2, <1>3, <1>6 DEF T, k, Acquires, Releasing
  <2>3. QED
    BY <1>2, <2>1, <2>2 DEF LockInv, Acquiring
<1>9. ReleasedGivenUp'
  BY <1>1, <1>2, <1>3, <1>4 DEF T, LockInv, ReleasedGivenUp
<1>10. AcquirerHoldsLock' /\ LeaderHoldsLock'
  BY <1>1, <1>2, <1>3 DEF T, LockInv, AcquirerHoldsLock, LeaderHoldsLock, Leads
<1>11. ClosedSessionUnused'
  BY <1>2, <1>5, <1>6 DEF LockInv, ClosedSessionUnused
<1>12. NoOrphanedLock'
  BY <1>1, <1>2, <1>3, <1>6 DEF T, k, LockInv, NoOrphanedLock
<1>13. QED
  BY <1>7, <1>8, <1>9, <1>10, <1>11, <1>12 DEF LockInv

\* A crashed process leaves only closed sessions behind.
LEMMA CrashStep ==
    ASSUME TypeOK, LockInv, NEW p \in Proc, Crash(p)
    PROVE  LockInv'
<1>1. "poll" \in Task /\ "stop" \in Task
  BY DEF Task
<1>2. /\ UNCHANGED <<made, severed, holder>>
      /\ gone' = gone \cup {<<p, j>> : j \in 1..made[p]}
  BY DEF Crash, dbVars
<1>3. \A q \in Proc : \A u \in Task : task'[q][u] = IF q = p THEN Idle ELSE task[q][u]
  BY DEF Crash, TypeOK
<1>4. Idle.pc = "idle" /\ Idle.sess = 0
  BY DEF Idle
<1>5. \A q \in Proc : session'[q] = IF q = p THEN 0 ELSE session[q]
  BY DEF Crash, TypeOK
<1>6. \A q \in Proc : q # p => state'[q] = state[q]
  BY DEF Crash, TypeOK
<1>7. \A q \in Proc : made[q] \in Nat
  BY DEF TypeOK
<1>8. /\ gone \subseteq gone'
      /\ \A j \in 1..made[p] : <<p, j>> \in gone'
      /\ \A q \in Proc : \A j : <<q, j>> \in gone' => <<q, j>> \in gone \/ (q = p /\ j \in 1..made[p])
  BY <1>2
<1>9. SessionsMade'
  <2>1. \A q \in Proc : session'[q] <= made'[q]
    BY <1>2, <1>5, <1>7 DEF LockInv, SessionsMade
  <2>2. \A q \in Proc : \A u \in Task : task'[q][u].sess <= made'[q]
    BY <1>2, <1>3, <1>4, <1>7 DEF LockInv, SessionsMade
  <2>3. \A q \in Proc : \A j \in Nat : holder' = <<q, j>> \/ <<q, j>> \in gone' => j <= made'[q]
    BY <1>2, <1>7, <1>8 DEF LockInv, SessionsMade
  <2>4. QED
    BY <2>1, <2>2, <2>3 DEF SessionsMade
<1>10. Acquiring' /\ ReleasedGivenUp'
  BY <1>1, <1>3, <1>4, <1>5, <1>6, <1>8
  DEF LockInv, Acquiring, Acquires, Releasing, ReleasedGivenUp
<1>11. AcquirerHoldsLock' /\ LeaderHoldsLock'
  BY <1>1, <1>2, <1>3, <1>4, <1>5, <1>6 DEF LockInv, AcquirerHoldsLock, LeaderHoldsLock, Leads
<1>12. ClosedSessionUnused'
  BY <1>5, <1>8 DEF LockInv, ClosedSessionUnused
<1>13. NoOrphanedLock'
  BY <1>1, <1>2, <1>3, <1>5, <1>8 DEF LockInv, NoOrphanedLock
<1>14. QED
  BY <1>9, <1>10, <1>11, <1>12, <1>13 DEF LockInv

\* Every step keeps the lock invariant.
LEMMA LockInvStep ==
    ASSUME TypeOK, StopOnce, LockInv, [Next]_vars
    PROVE  LockInv'
<1> USE DEF coordVars, dbVars
<1> "poll" \in Task /\ "stop" \in Task /\ Caller \subseteq Task
  BY DEF Task
<1>0. /\ \A pc, k : At(pc, k).pc = pc /\ At(pc, k).sess = k
      /\ \A pc \in Pc, k \in Nat : At(pc, k) \in TaskRec
      /\ \A f : Granted(f).pc = "granted" /\ Granted(f).sess = 0
      /\ \A f \in Nat : Granted(f) \in TaskRec
      /\ Idle.pc = "idle" /\ Idle.sess = 0 /\ Idle \in TaskRec
      /\ Refused.pc = "owns" /\ Refused.sess = 0 /\ Refused \in TaskRec
  BY RecTypes DEF At, Granted, Idle, Refused
<1>a. \A p \in Proc : /\ session[p] \in Nat /\ made[p] \in Nat /\ fence[p] \in Nat
                      /\ session[p] <= made[p] /\ 0 <= made[p]
  BY DEF LockInv, SessionsMade, TypeOK
<1>b. ASSUME NEW p \in Proc, NEW t \in Task, Finish(p, t), task[p][t].pc # "release",
             UNCHANGED <<session, made, gone, severed, holder>>,
             \A q \in Proc : state'[q] = "leader" => state[q] = "leader"
      PROVE  LockInv'
  BY <1>0, <1>a, <1>b, QuietStep DEF Finish
<1>1. ASSUME NEW p \in Proc, Poll(p)
      PROVE  LockInv'
  <2>1. CASE state[p] = "leader" /\ session[p] = 0
    BY <1>1, <2>1, LoseStep DEF Poll
  <2>2. CASE state[p] = "leader" /\ session[p] # 0
    <3>1. Goto(p, "poll", At("owns", session[p]))
      BY <1>1, <2>2 DEF Poll
    <3>2. QED
      BY <1>0, <1>1, <1>a, <2>2, <3>1, QuietStep DEF Poll, Pc
  <2>3. CASE state[p] # "leader" /\ session[p] = 0
    <3>1. Goto(p, "poll", At("create", session[p]))
      BY <1>1, <2>3 DEF Poll
    <3>2. QED
      BY <1>1, <1>a, <2>3, <3>1, AcquireStep DEF Poll
  <2>4. CASE state[p] # "leader" /\ session[p] # 0
    <3>1. Goto(p, "poll", At("try", session[p]))
      BY <1>1, <2>4 DEF Poll
    <3>2. QED
      BY <1>1, <1>a, <2>4, <3>1, AcquireStep DEF Poll
  <2>5. QED
    BY <2>1, <2>2, <2>3, <2>4
<1>2. ASSUME NEW p \in Proc, PollOwnsReturns(p)
      PROVE  LockInv'
  BY <1>2, <1>b, LoseStep DEF PollOwnsReturns
<1>3. ASSUME NEW p \in Proc, CreateReturns(p)
      PROVE  LockInv'
  BY <1>3, CreateStep
<1>4. ASSUME NEW p \in Proc, CreateFails(p)
      PROVE  LockInv'
  BY <1>4, LoseStep DEF CreateFails
<1>5. ASSUME NEW p \in Proc, TryReturns(p)
      PROVE  LockInv'
  <2>1. /\ task[p]["poll"].pc = "try"
        /\ UNCHANGED <<made, severed, holder>>
        /\ \/ Lose(p, "poll")
           \/ Finish(p, "poll") /\ UNCHANGED <<state, session, gone>>
           \/ /\ task[p]["poll"].reply = "true" /\ session[p] # 0
              /\ Goto(p, "poll", At("fence", session[p])) /\ UNCHANGED <<state, session, gone>>
    BY <1>5 DEF TryReturns
  <2>2. state[p] # "leader"
    BY <2>1 DEF LockInv, Acquiring
  <2>3. QED
    BY <1>a, <1>b, <2>1, <2>2, LoseStep, AcquireStep
<1>6. ASSUME NEW p \in Proc, FenceReturns(p)
      PROVE  LockInv'
  BY <1>6, LeadStep
<1>7. ASSUME NEW p \in Proc, StartupReturns(p)
      PROVE  LockInv'
  BY <1>7, <1>b DEF StartupReturns
<1>8. ASSUME NEW p \in Proc, StartupFails(p)
      PROVE  LockInv'
  BY <1>8, LoseStep DEF StartupFails
<1>9. ASSUME NEW p \in Proc, Stop(p)
      PROVE  LockInv'
  BY <1>9, StopStep
<1>10. ASSUME NEW p \in Proc, ReleaseReturns(p)
       PROVE  LockInv'
  BY <1>10, ClosedStep
<1>11. ASSUME NEW p \in Proc, Crash(p)
       PROVE  LockInv'
  BY <1>11, CrashStep
<1>12. ASSUME NEW p \in Proc, ExecTry(p)
       PROVE  LockInv'
  BY <1>12, TryStep
<1>13. ASSUME NEW p \in Proc, ExecFence(p)
       PROVE  LockInv'
  BY <1>13, DrawStep
<1>14. ASSUME NEW p \in Proc, ExecRelease(p)
       PROVE  LockInv'
  BY <1>14, ReleaseStep
<1>15. ASSUME NEW p \in Proc, NEW c \in Caller, AssertLeader(p, c)
       PROVE  LockInv'
  BY <1>0, <1>15, <1>a, QuietStep DEF AssertLeader, Pc
<1>16. ASSUME NEW p \in Proc, NEW c \in Caller, AssertReturns(p, c)
       PROVE  LockInv'
  BY <1>0, <1>16, <1>a, QuietStep, LoseStep DEF AssertReturns
<1>17. ASSUME NEW p \in Proc, NEW c \in Caller, UsePermit(p, c)
       PROVE  LockInv'
  BY <1>0, <1>17, <1>a, QuietStep DEF UsePermit
<1>18. ASSUME NEW p \in Proc, NEW t \in Task, LoseReturns(p, t)
       PROVE  LockInv'
  <2>1. \A q \in Proc : state'[q] = "leader" => state[q] = "leader"
    BY <1>18 DEF LoseReturns, TypeOK
  <2>2. CASE task[p][t].pc = "leaving" /\ state[p] = "leader"
    <3>1. task[p][t].sess <= made[p]
      BY DEF LockInv, SessionsMade
    <3>2. QED
      BY <1>18, <2>1, <2>2, <3>1, RestartIs, QuietStep DEF LoseReturns
  <2>3. CASE ~(task[p][t].pc = "leaving" /\ state[p] = "leader")
    BY <1>18, <1>b, <2>1, <2>3 DEF LoseReturns
  <2>4. QED
    BY <2>2, <2>3
<1>19. ASSUME NEW p \in Proc, NEW t \in Task, QueryFails(p, t)
       PROVE  LockInv'
  BY <1>19, ReplyStep DEF QueryFails
<1>20. ASSUME NEW p \in Proc, NEW t \in Task, ExecOwns(p, t)
       PROVE  LockInv'
  BY <1>20, ReplyStep DEF ExecOwns, Awaits
<1>21. CASE SessionEnds \/ ConnectionLost
  BY <1>21, UnlockStep
<1>22. CASE UNCHANGED vars
  BY <1>22 DEF vars, LockInv, SessionsMade, Acquiring, Acquires, Releasing, ReleasedGivenUp,
       AcquirerHoldsLock, LeaderHoldsLock, NoOrphanedLock, ClosedSessionUnused, Leads
<1>24. ASSUME NEW p \in Proc, NEW c \in Caller, RestartFails(p, c)
       PROVE  LockInv'
  <2>1. PICK rec \in {Idle, Refused} : Goto(p, c, rec)
    BY <1>24 DEF RestartFails
  <2>2. task[p][c].pc = "restart" /\ UNCHANGED <<state, session, made, gone, severed, holder>>
    BY <1>24 DEF RestartFails
  <2>3. QED
    BY <1>0, <1>a, <2>1, <2>2, QuietStep
<1>23. QED
  BY <1>24, <1>1, <1>2, <1>3, <1>4, <1>5, <1>6, <1>7, <1>8, <1>9, <1>10, <1>11, <1>12, <1>13,
     <1>14, <1>15, <1>16, <1>17, <1>18, <1>19, <1>20, <1>21, <1>22
  DEF Next, Coordinator

\* The lock invariant holds in every reachable state.
THEOREM LockInvariant == Spec => []LockInv
<1>1. Init => StopOnce /\ LockInv
  BY FreeAssumption
  DEF Init, Idle, StopOnce, LockInv, SessionsMade, Acquiring, Acquires, ReleasedGivenUp,
      AcquirerHoldsLock, LeaderHoldsLock, NoOrphanedLock, ClosedSessionUnused, Leads, Task
<1>2. TypeOK /\ StopOnce /\ LockInv /\ [Next]_vars => StopOnce' /\ LockInv'
  BY StopOnceStep, LockInvStep
<1>3. QED
  BY <1>1, <1>2, TypeCorrect, PTL DEF Spec

\* A coordinator that leads with a session owns the advisory lock unless its
\* connection was lost: what makes assertLeader's check of pg_locks meaningful
\* (leader.ts:97-144), for any number of processes, callers and faults.
THEOREM LeaderLock == Spec => []LeaderHoldsLock
BY LockInvariant, PTL DEF LockInv

\* The advisory lock is never left with a session nobody will close
\* (leader.ts:111-144).
THEOREM LockNotLeaked == Spec => []NoOrphanedLock
BY LockInvariant, PTL DEF LockInv

\* No coordinator goes on using a session it has closed (leader.ts:134-144).
THEOREM NoUseAfterClose == Spec => []ClosedSessionUnused
BY LockInvariant, PTL DEF LockInv

-----------------------------------------------------------------------------
(* Fences                                                                  *)

\* Only an answered draw gives a coordinator a fence to lead with.
LEMMA FenceQuiet ==
    ASSUME FenceInv, UNCHANGED <<epoch, spent>>,
           \A q \in Proc : Drawn(q)' => task'[q]["poll"] = task[q]["poll"],
           \A q \in Proc : state'[q] # "leader" => fence'[q] = 0
    PROVE  FenceInv'
<1>1. \A q \in Proc : Drawn(q)' => Drawn(q) /\ task'[q]["poll"].num = task[q]["poll"].num
  BY DEF Drawn
<1>2. QED
  BY <1>1 DEF FenceInv

\* loseLeadership ends a term or changes nothing about it.
LEMMA LoseFence ==
    ASSUME TypeOK, FenceInv, NEW p \in Proc, NEW t \in Task, Lose(p, t), UNCHANGED <<epoch, spent>>
    PROVE  FenceInv' /\ (UNCHANGED fence \/ fence' = [fence EXCEPT ![p] = 0])
<1>1. \E rec \in {Idle, Closing(p, t)} : Goto(p, t, rec)
  BY DEF Lose, Finish
<1>2. PICK rec \in {Idle, Closing(p, t)} : Goto(p, t, rec)
  BY <1>1
<1>3. rec.pc # "fence"
  BY <1>2, ClosingIs DEF Idle
<1>4. \A q \in Proc : \A u \in Task :
          task'[q][u] = IF q = p /\ u = t THEN rec ELSE task[q][u]
  BY <1>2, GotoEffect
<1>5. \A q \in Proc : Drawn(q)' => task'[q]["poll"] = task[q]["poll"]
  BY <1>3, <1>4 DEF Drawn, Task
<1>6. CASE state[p] = "stopped"
  <2>1. UNCHANGED <<state, fence>>
    BY <1>6 DEF Lose
  <2>2. QED
    BY <1>5, <2>1, FenceQuiet DEF FenceInv
<1>7. CASE state[p] # "stopped"
  <2>1. fence' = [fence EXCEPT ![p] = 0]
    BY <1>7 DEF Lose
  <2>2. \A q \in Proc : q # p => state'[q] = state[q] /\ fence'[q] = fence[q]
    BY <1>7, <2>1 DEF Lose, TypeOK
  <2>3. fence'[p] = 0
    BY <2>1 DEF TypeOK
  <2>4. \A q \in Proc : state'[q] # "leader" => fence'[q] = 0
    BY <2>2, <2>3 DEF FenceInv
  <2>5. QED
    BY <1>5, <2>1, <2>4, FenceQuiet
<1>8. QED
  BY <1>6, <1>7

\* Moving a task anywhere but to an answered draw leaves fences alone.
LEMMA GotoFence ==
    ASSUME TypeOK, FenceInv, NEW p \in Proc, NEW t \in Task, NEW rec, Goto(p, t, rec),
           rec.reply # "true", UNCHANGED <<state, fence, epoch, spent>>
    PROVE  FenceInv'
<1>1. \A q \in Proc : \A u \in Task :
          task'[q][u] = IF q = p /\ u = t THEN rec ELSE task[q][u]
  BY GotoEffect
<1>2. \A q \in Proc : Drawn(q)' => task'[q]["poll"] = task[q]["poll"]
  BY <1>1 DEF Drawn, Task
<1>3. QED
  BY <1>2, FenceQuiet DEF FenceInv

LEMMA AnswerFence ==
    ASSUME TypeOK, FenceInv, NEW p \in Proc, NEW t \in Task, NEW r, Answer(p, t, r),
           r = "true" => t # "poll" \/ task[p][t].pc # "fence",
           UNCHANGED <<state, fence, epoch, spent>>
    PROVE  FenceInv'
<1>1. \A q \in Proc : Drawn(q)' => task'[q]["poll"] = task[q]["poll"]
  BY AnswerEffect DEF Drawn, Task
<1>2. QED
  BY <1>1, FenceQuiet DEF FenceInv

\* Every step keeps fences distinct and is a step of FencedWriter, or none.
LEMMA FenceStep ==
    ASSUME TypeOK, LockInv, FenceInv, [Next]_vars
    PROVE  FenceInv' /\ [Writer!Next]_<<epoch, fence, spent>>
<1> USE DEF coordVars, dbVars
<1> "poll" \in Task /\ "stop" \in Task /\ Caller \subseteq Task /\ "poll" # "stop"
  BY DEF Task
<1>0. /\ \A pc, k : At(pc, k).reply = "none"
      /\ \A f : Granted(f).reply = "none"
      /\ Idle.reply = "none" /\ Refused.reply = "error"
  BY DEF At, Granted, Idle, Refused
<1>a. ASSUME NEW p \in Proc, FenceInv', UNCHANGED <<epoch, spent>>,
             UNCHANGED fence \/ fence' = [fence EXCEPT ![p] = 0]
      PROVE  FenceInv' /\ [Writer!Next]_<<epoch, fence, spent>>
  BY <1>a DEF Writer!Next, Writer!StepDown
<1>b. ASSUME NEW p \in Proc, NEW t \in Task, Lose(p, t), UNCHANGED <<epoch, spent>>
      PROVE  FenceInv' /\ [Writer!Next]_<<epoch, fence, spent>>
  BY <1>a, <1>b, LoseFence
<1>c. ASSUME NEW p \in Proc, NEW t \in Task, Finish(p, t), UNCHANGED <<state, fence, epoch, spent>>
      PROVE  FenceInv' /\ [Writer!Next]_<<epoch, fence, spent>>
  BY <1>0, <1>a, <1>c, GotoFence DEF Finish
<1>1. ASSUME NEW p \in Proc, Poll(p)
      PROVE  FenceInv' /\ [Writer!Next]_<<epoch, fence, spent>>
  <2>1. \/ Lose(p, "poll")
        \/ UNCHANGED <<state, fence>> /\ \E pc, k : Goto(p, "poll", At(pc, k))
    BY <1>1 DEF Poll
  <2>2. UNCHANGED <<epoch, spent>>
    BY <1>1 DEF Poll
  <2>3. QED
    BY <1>0, <1>a, <1>b, <2>1, <2>2, GotoFence
<1>2. ASSUME NEW p \in Proc, PollOwnsReturns(p)
      PROVE  FenceInv' /\ [Writer!Next]_<<epoch, fence, spent>>
  BY <1>2, <1>b, <1>c DEF PollOwnsReturns
<1>3. ASSUME NEW p \in Proc, CreateReturns(p)
      PROVE  FenceInv' /\ [Writer!Next]_<<epoch, fence, spent>>
  BY <1>0, <1>3, <1>a, GotoFence DEF CreateReturns
<1>4. ASSUME NEW p \in Proc, CreateFails(p)
      PROVE  FenceInv' /\ [Writer!Next]_<<epoch, fence, spent>>
  BY <1>4, <1>b DEF CreateFails
<1>5. ASSUME NEW p \in Proc, TryReturns(p)
      PROVE  FenceInv' /\ [Writer!Next]_<<epoch, fence, spent>>
  <2>1. /\ UNCHANGED <<epoch, spent>>
        /\ \/ Lose(p, "poll")
           \/ Finish(p, "poll") /\ UNCHANGED <<state, fence>>
           \/ Goto(p, "poll", At("fence", session[p])) /\ UNCHANGED <<state, fence>>
    BY <1>5 DEF TryReturns
  <2>2. QED
    BY <1>0, <1>a, <1>b, <1>c, <2>1, GotoFence
<1>6. ASSUME NEW p \in Proc, FenceReturns(p)
      PROVE  FenceInv' /\ [Writer!Next]_<<epoch, fence, spent>>
  <2>1. CASE task[p]["poll"].reply # "true"
    BY <1>6, <1>b, <2>1 DEF FenceReturns
  <2>2. CASE task[p]["poll"].reply = "true"
    <3> DEFINE f == task[p]["poll"].num
    <3>1. Drawn(p)
      BY <1>6, <2>2 DEF FenceReturns, Drawn
    <3>2. f \in (1..epoch) \ spent
      BY <3>1 DEF FenceInv
    <3>3. state[p] # "leader"
      BY <3>1 DEF LockInv, Acquiring, Drawn
    <3>4. fence[p] = 0
      BY <3>3 DEF FenceInv
    <3>5. /\ fence' = [fence EXCEPT ![p] = f]
          /\ state' = [state EXCEPT ![p] = "leader"]
          /\ spent' = spent \cup {f}
          /\ UNCHANGED epoch
          /\ Goto(p, "poll", At("startup", 0))
      BY <1>6, <2>2 DEF FenceReturns
    <3>6. Writer!Lead(p)
      BY <3>2, <3>4, <3>5 DEF Writer!Lead
    <3>7. \A q \in Proc : \A u \in Task :
              task'[q][u] = IF q = p /\ u = "poll" THEN At("startup", 0) ELSE task[q][u]
      BY <3>5, GotoEffect
    <3>8. \A q \in Proc : Drawn(q)' => q # p /\ Drawn(q) /\ task'[q]["poll"] = task[q]["poll"]
      BY <1>0, <3>7 DEF Drawn
    <3>9. \A q \in Proc : state'[q] # "leader" => fence'[q] = 0
      BY <3>5 DEF FenceInv, TypeOK
    <3>10. FenceInv'
      BY <3>1, <3>2, <3>5, <3>8, <3>9 DEF FenceInv
    <3>11. QED
      BY <3>6, <3>10 DEF Writer!Next
  <2>3. QED
    BY <2>1, <2>2
<1>7. ASSUME NEW p \in Proc, StartupReturns(p) \/ StartupFails(p)
      PROVE  FenceInv' /\ [Writer!Next]_<<epoch, fence, spent>>
  BY <1>7, <1>b, <1>c DEF StartupReturns, StartupFails
<1>8. ASSUME NEW p \in Proc, Stop(p)
      PROVE  FenceInv' /\ [Writer!Next]_<<epoch, fence, spent>>
  <2>1. fence' = [fence EXCEPT ![p] = 0] /\ UNCHANGED <<epoch, spent>>
    BY <1>8 DEF Stop
  <2>2. \A q \in Proc : task'[q]["poll"] = task[q]["poll"]
    BY <1>8, GotoEffect DEF Stop
  <2>3. \A q \in Proc : state'[q] # "leader" => fence'[q] = 0
    BY <1>8, <2>1 DEF Stop, FenceInv, TypeOK
  <2>4. QED
    BY <1>a, <2>1, <2>2, <2>3, FenceQuiet
<1>9. ASSUME NEW p \in Proc, ReleaseReturns(p)
      PROVE  FenceInv' /\ [Writer!Next]_<<epoch, fence, spent>>
  BY <1>0, <1>9, <1>a, GotoFence DEF ReleaseReturns
<1>10. ASSUME NEW p \in Proc, Crash(p)
       PROVE  FenceInv' /\ [Writer!Next]_<<epoch, fence, spent>>
  <2>1. fence' = [fence EXCEPT ![p] = 0] /\ UNCHANGED <<epoch, spent>>
    BY <1>10 DEF Crash
  <2>2. \A q \in Proc : Drawn(q)' => task'[q]["poll"] = task[q]["poll"]
    BY <1>0, <1>10 DEF Crash, Drawn, TypeOK
  <2>3. \A q \in Proc : state'[q] # "leader" => fence'[q] = 0
    BY <1>10, <2>1 DEF Crash, FenceInv, TypeOK
  <2>4. QED
    BY <1>a, <2>1, <2>2, <2>3, FenceQuiet
<1>11. ASSUME NEW p \in Proc, ExecTry(p) \/ ExecRelease(p)
       PROVE  FenceInv' /\ [Writer!Next]_<<epoch, fence, spent>>
  <2>1. UNCHANGED <<state, fence, epoch, spent>>
    BY <1>11 DEF ExecTry, ExecRelease
  <2>2. FenceInv'
    BY <1>11, <2>1, AnswerFence DEF ExecTry, ExecRelease, Awaits
  <2>3. QED
    BY <1>a, <1>11, <2>1, <2>2
<1>12. ASSUME NEW p \in Proc, ExecFence(p)
       PROVE  FenceInv' /\ [Writer!Next]_<<epoch, fence, spent>>
  <2>1. epoch' = epoch + 1 /\ UNCHANGED <<state, fence, spent>> /\ epoch \in Nat
    BY <1>12 DEF ExecFence, TypeOK
  <2>2. Writer!Draw
    BY <2>1 DEF Writer!Draw
  <2>3. task'[p]["poll"].num = epoch' /\ \A q \in Proc : q # p => task'[q] = task[q]
    BY <1>12 DEF ExecFence, TypeOK, TaskRec
  <2>4. \A q \in Proc : q # p /\ Drawn(q)' => Drawn(q) /\ task'[q]["poll"].num = task[q]["poll"].num
    BY <2>3 DEF Drawn
  <2>5. epoch' \in 1..epoch' /\ (1..epoch) \subseteq (1..epoch') /\ epoch' \notin 1..epoch
    BY <2>1
  <2>6. FenceInv'
    BY <2>1, <2>3, <2>4, <2>5 DEF FenceInv
  <2>7. QED
    BY <2>2, <2>6 DEF Writer!Next
<1>13. ASSUME NEW p \in Proc, NEW c \in Caller,
              AssertLeader(p, c) \/ AssertReturns(p, c) \/ RestartFails(p, c) \/ UsePermit(p, c)
       PROVE  FenceInv' /\ [Writer!Next]_<<epoch, fence, spent>>
  BY <1>0, <1>13, <1>a, <1>b, GotoFence DEF AssertLeader, AssertReturns, RestartFails, UsePermit
<1>14. ASSUME NEW p \in Proc, NEW t \in Task, LoseReturns(p, t)
       PROVE  FenceInv' /\ [Writer!Next]_<<epoch, fence, spent>>
  <2>1. /\ UNCHANGED <<epoch, spent>>
        /\ \E rec \in {Idle, [task[p][t] EXCEPT !.pc = "restart"]} : Goto(p, t, rec) /\ rec.pc # "fence"
    BY <1>14, RestartIs DEF LoseReturns, Finish, Idle
  <2>2. \/ UNCHANGED <<state, fence>>
        \/ state' = [state EXCEPT ![p] = "standby"] /\ fence' = [fence EXCEPT ![p] = 0]
    BY <1>14 DEF LoseReturns
  <2>3. \A q \in Proc : state'[q] # "leader" => fence'[q] = 0
    BY <2>2 DEF FenceInv, TypeOK
  <2>4. \A q \in Proc : Drawn(q)' => task'[q]["poll"] = task[q]["poll"]
    BY <1>0, <2>1, GotoEffect DEF Drawn
  <2>5. QED
    BY <1>a, <2>1, <2>2, <2>3, <2>4, FenceQuiet
<1>15. ASSUME NEW p \in Proc, NEW t \in Task, QueryFails(p, t) \/ ExecOwns(p, t)
       PROVE  FenceInv' /\ [Writer!Next]_<<epoch, fence, spent>>
  BY <1>15, <1>a, AnswerFence DEF QueryFails, ExecOwns, Awaits
<1>16. CASE SessionEnds \/ ConnectionLost \/ UNCHANGED vars
  <2>1. UNCHANGED <<task, state, fence, epoch, spent>>
    BY <1>16 DEF SessionEnds, ConnectionLost, vars
  <2>2. FenceInv'
    BY <2>1, FenceQuiet DEF FenceInv
  <2>3. QED
    BY <2>1, <2>2
<1>17. QED
  BY <1>1, <1>2, <1>3, <1>4, <1>5, <1>6, <1>7, <1>8, <1>9, <1>10, <1>11, <1>12, <1>13,
     <1>14, <1>15, <1>16
  DEF Next, Coordinator

\* Whatever is lost, retried or crashes, the coordinators and their database
\* implement FencedWriter: no fence ever numbers two terms
\* (leader.ts:125-144, 211-224).
THEOREM Refinement == Spec => ImplementsFencedWriter
<1>1. Init => FenceInv /\ Writer!Init
  BY DEF Init, Idle, FenceInv, Drawn, Writer!Init, Task
<1>2. TypeOK /\ LockInv /\ FenceInv /\ [Next]_vars
        => FenceInv' /\ [Writer!Next]_<<epoch, fence, spent>>
  BY FenceStep
<1>3. QED
  BY <1>1, <1>2, TypeCorrect, LockInvariant, PTL DEF Spec, ImplementsFencedWriter, Writer!Spec
=============================================================================

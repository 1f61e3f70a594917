----------------------------- MODULE Leadership -----------------------------
(***************************************************************************)
(* Writer leadership: the LeaderCoordinator of each backend process over   *)
(* one PostgreSQL session advisory lock and one fencing epoch row.         *)
(*                                                                         *)
(* A step is the code between two awaits.  A query is issued by one step,  *)
(* executed by the database in another and its reply is consumed in a      *)
(* third, so a connection may be lost, or another task of the same process *)
(* may run, between any two of them.                                       *)
(*                                                                         *)
(* Tasks of a process: "poll" (pollNow with acquire and loseLeadership,    *)
(* never two at once because of the ticking flag), "stop" (stop), and one  *)
(* per concurrent caller of assertLeader.                                  *)
(***************************************************************************)
EXTENDS Naturals, FiniteSets

CONSTANTS
    Proc,       \* backend processes sharing the database
    Caller,     \* concurrent callers of assertLeader in one process
    Stopping,   \* processes that may be told to stop
    Free,       \* value of holder when no session owns the lock
    MaxFaults   \* bound: failed queries, lost connections, failed startups, crashes, stops

ASSUME FreeAssumption == Free \notin Proc \X Nat
ASSUME CallerAssumption == Caller \cap {"poll", "stop"} = {}
ASSUME MaxFaultsAssumption == MaxFaults \in Nat

VARIABLES
    state,    \* state[p]: current.state of the coordinator
    fence,    \* fence[p]: current.fence, 0 for null
    session,  \* session[p]: the number of p's advisory session, 0 for null
    aborted,  \* aborted[p]: whether the current abort signal has fired
    phase,    \* phase[p]: "boot" before start() returns, "up" with the poll timer, "down" after stop()
    task,     \* task[p][t]: what task t of p awaits
    made,     \* made[p]: sessions p has created
    gone,     \* sessions whose client called close() or died
    severed,  \* sessions whose connection was lost since their last acquisition
    holder,   \* the session that owns the advisory lock, or Free
    depth,    \* how often holder has acquired the re-entrant lock
    epoch,    \* the fencing epoch row
    spent,    \* history: fences some coordinator has led with
    faults    \* faults so far

coordVars == <<state, fence, session, aborted, phase>>
dbVars    == <<severed, holder, depth, epoch>>
vars == <<state, fence, session, aborted, phase, task, made, gone,
          severed, holder, depth, epoch, spent, faults>>

Task    == {"poll", "stop"} \cup Caller
Session == Proc \X Nat
States  == {"standby", "leader", "lost", "stopped"}
Pc      == {"idle", "owns", "create", "try", "fence", "startup", "closing", "leaving", "restart",
            "release", "granted"}
Reply   == {"none", "true", "false", "error"}
TaskRec == [pc : Pc, sess : Nat, reply : Reply, num : Nat]

Idle         == [pc |-> "idle", sess |-> 0, reply |-> "none", num |-> 0]
At(pc, s)    == [pc |-> pc, sess |-> s, reply |-> "none", num |-> 0]
Granted(f)   == [pc |-> "granted", sess |-> 0, reply |-> "none", num |-> f]
Refused      == [pc |-> "owns", sess |-> 0, reply |-> "error", num |-> 0]

TypeOK ==
    /\ state \in [Proc -> States]
    /\ fence \in [Proc -> Nat]
    /\ session \in [Proc -> Nat]
    /\ aborted \in [Proc -> BOOLEAN]
    /\ phase \in [Proc -> {"boot", "up", "down"}]
    /\ task \in [Proc -> [Task -> TaskRec]]
    /\ made \in [Proc -> Nat]
    /\ gone \in SUBSET Session
    /\ severed \in SUBSET Session
    /\ holder \in Session \cup {Free}
    /\ depth \in Nat /\ (depth = 0 <=> holder = Free)
    /\ epoch \in Nat
    /\ spent \in SUBSET Nat
    /\ faults \in Nat

Init ==
    /\ state = [p \in Proc |-> "standby"]
    /\ fence = [p \in Proc |-> 0]
    /\ session = [p \in Proc |-> 0]
    /\ aborted = [p \in Proc |-> TRUE]
    /\ phase = [p \in Proc |-> "boot"]
    /\ task = [p \in Proc |-> [t \in Task |-> Idle]]
    /\ made = [p \in Proc |-> 0]
    /\ gone = {} /\ severed = {}
    /\ holder = Free /\ depth = 0
    /\ epoch = 0
    /\ spent = {}
    /\ faults = 0

-----------------------------------------------------------------------------
(* Fragments shared by the steps of a coordinator.                         *)

Goto(p, t, rec) == task' = [task EXCEPT ![p][t] = rec]

\* start() installs the timer once its own poll has returned, stopped or not.
Finish(p, t) ==
    /\ Goto(p, t, Idle)
    /\ phase' = IF t = "poll" /\ phase[p] = "boot" THEN [phase EXCEPT ![p] = "up"] ELSE phase

\* Mutant of Lose: the session is dropped without close().
LoseUnclosed(p, t) ==
    IF state[p] = "stopped"
    THEN /\ Finish(p, t)
         /\ UNCHANGED <<state, fence, session, aborted, gone>>
    ELSE /\ aborted' = [aborted EXCEPT ![p] = TRUE]
         /\ fence' = [fence EXCEPT ![p] = 0]
         /\ session' = [session EXCEPT ![p] = 0]
         /\ state' = [state EXCEPT ![p] = "standby"]
         /\ Finish(p, t)
         /\ UNCHANGED gone

\* What awaits close(): it remembers whether the coordinator led ("leaving") and,
\* for a caller of assertLeader, whether ownsLock() had answered or thrown.
Closing(p, t) ==
    [At(IF state[p] = "leader" THEN "leaving" ELSE "closing", session[p])
        EXCEPT !.reply = IF t \in Caller THEN task[p][t].reply ELSE "none"]

\* Mutant of Lose: this.session is not set to null before close().
LoseKeepsSession(p, t) ==
    IF state[p] = "stopped" \/ session[p] = 0
    THEN /\ Finish(p, t)
         /\ UNCHANGED <<state, fence, session, aborted, gone>>
    ELSE /\ aborted' = [aborted EXCEPT ![p] = TRUE]
         /\ fence' = [fence EXCEPT ![p] = 0]
         /\ state' = [state EXCEPT ![p] = IF @ = "leader" THEN "lost" ELSE "standby"]
         /\ gone' = gone \cup {<<p, session[p]>>}
         /\ Goto(p, t, Closing(p, t))
         /\ UNCHANGED <<session, phase>>

\* loseLeadership up to its first await.  With a session it goes on to await
\* close(); without one it only awaits listeners that ignore "lost".
Lose(p, t) ==
    IF state[p] = "stopped"
    THEN /\ Finish(p, t)
         /\ UNCHANGED <<state, fence, session, aborted, gone>>
    ELSE /\ aborted' = [aborted EXCEPT ![p] = TRUE]
         /\ fence' = [fence EXCEPT ![p] = 0]
         /\ session' = [session EXCEPT ![p] = 0]
         /\ IF session[p] # 0
            THEN /\ state' = [state EXCEPT ![p] = IF @ = "leader" THEN "lost" ELSE "standby"]
                 /\ gone' = gone \cup {<<p, session[p]>>}
                 /\ Goto(p, t, Closing(p, t))
                 /\ UNCHANGED phase
            ELSE /\ state' = [state EXCEPT ![p] = "standby"]
                 /\ Finish(p, t)
                 /\ UNCHANGED gone

\* Mutant of LoseReturns: the second transition, back to standby, is missing.
LoseReturnsLost(p, t) ==
    /\ task[p][t].pc \in {"closing", "leaving", "restart"}
    /\ Finish(p, t)
    /\ UNCHANGED <<state, fence, session, aborted, made, gone, dbVars, spent, faults>>

\* The rest of loseLeadership after close().  One that led notifies the listeners
\* of what the coordinator is by now: when the poll has acquired meanwhile, that is
\* a leader, and startup runs again, here.  Then it is back to standby unless
\* stopped, whatever another task has made of the coordinator.
LoseReturns(p, t) ==
    /\ task[p][t].pc \in {"closing", "leaving", "restart"}
    /\ IF task[p][t].pc = "leaving" /\ state[p] = "leader"
       THEN /\ Goto(p, t, [task[p][t] EXCEPT !.pc = "restart"])
            /\ UNCHANGED <<state, fence, phase>>
       ELSE /\ Finish(p, t)
            /\ IF state[p] = "stopped"
               THEN UNCHANGED <<state, fence>>
               ELSE /\ state' = [state EXCEPT ![p] = "standby"]
                    /\ fence' = [fence EXCEPT ![p] = 0]
    /\ UNCHANGED <<session, aborted, made, gone, dbVars, spent, faults>>

Fault == faults < MaxFaults /\ faults' = faults + 1

-----------------------------------------------------------------------------
(* pollNow and acquire                                                     *)

\* Mutant of Poll: a standby that already has a session does not acquire.
PollWithoutRetry(p) ==
    /\ phase[p] \in {"boot", "up"}
    /\ task[p]["poll"].pc = "idle"
    /\ state[p] # "stopped"
    /\ state[p] = "standby" => session[p] = 0
    /\ IF state[p] = "leader" /\ session[p] = 0
       THEN Lose(p, "poll")
       ELSE /\ Goto(p, "poll", CASE state[p] = "leader" -> At("owns", session[p])
                                 [] session[p] = 0      -> At("create", 0)
                                 [] OTHER               -> At("try", session[p]))
            /\ UNCHANGED <<coordVars, gone>>
    /\ UNCHANGED <<made, dbVars, spent, faults>>

\* start() or the timer enters pollNow, up to its first await.
Poll(p) ==
    /\ phase[p] \in {"boot", "up"}
    /\ task[p]["poll"].pc = "idle"
    /\ state[p] # "stopped"
    /\ IF state[p] = "leader" /\ session[p] = 0
       THEN Lose(p, "poll")
       ELSE /\ Goto(p, "poll", CASE state[p] = "leader" -> At("owns", session[p])
                                 [] session[p] = 0      -> At("create", 0)
                                 [] OTHER               -> At("try", session[p]))
            /\ UNCHANGED <<coordVars, gone>>
    /\ UNCHANGED <<made, dbVars, spent, faults>>

PollOwnsReturns(p) ==
    LET t == task[p]["poll"] IN
    /\ t.pc = "owns" /\ t.reply # "none"
    /\ IF t.reply = "true"
       THEN Finish(p, "poll") /\ UNCHANGED <<state, fence, session, aborted, gone>>
       ELSE Lose(p, "poll")
    /\ UNCHANGED <<made, dbVars, spent, faults>>

\* createSession() returns: the session is kept even if stop() ran meanwhile.
CreateReturns(p) ==
    /\ task[p]["poll"].pc = "create"
    /\ made' = [made EXCEPT ![p] = @ + 1]
    /\ session' = [session EXCEPT ![p] = made'[p]]
    /\ Goto(p, "poll", At("try", made'[p]))
    /\ UNCHANGED <<state, fence, aborted, phase, gone, dbVars, spent, faults>>

CreateFails(p) ==
    /\ task[p]["poll"].pc = "create"
    /\ Fault
    /\ Lose(p, "poll")
    /\ UNCHANGED <<made, dbVars, spent>>

\* Mutant of TryReturns: the result of pg_try_advisory_lock is not looked at.
TryReturnsUnread(p) ==
    LET t == task[p]["poll"] IN
    /\ t.pc = "try" /\ t.reply # "none"
    /\ IF t.reply # "error" /\ session[p] # 0
       THEN Goto(p, "poll", At("fence", session[p])) /\ UNCHANGED <<coordVars, gone>>
       ELSE Lose(p, "poll")
    /\ UNCHANGED <<made, dbVars, spent, faults>>

\* A session nulled by another task makes this.session.nextFence throw.
TryReturns(p) ==
    LET t == task[p]["poll"] IN
    /\ t.pc = "try" /\ t.reply # "none"
    /\ CASE t.reply = "false" ->
                Finish(p, "poll") /\ UNCHANGED <<state, fence, session, aborted, gone>>
         [] t.reply = "true" /\ session[p] # 0 ->
                Goto(p, "poll", At("fence", session[p])) /\ UNCHANGED <<coordVars, gone>>
         [] OTHER -> Lose(p, "poll")
    /\ UNCHANGED <<made, dbVars, spent, faults>>

FenceReturns(p) ==
    LET t == task[p]["poll"] IN
    /\ t.pc = "fence" /\ t.reply # "none"
    /\ IF t.reply = "true"
       THEN /\ aborted' = [aborted EXCEPT ![p] = FALSE]
            /\ state' = [state EXCEPT ![p] = "leader"]
            /\ fence' = [fence EXCEPT ![p] = t.num]
            /\ spent' = spent \cup {t.num}
            /\ Goto(p, "poll", At("startup", 0))
            /\ UNCHANGED <<session, phase, gone>>
       ELSE Lose(p, "poll") /\ UNCHANGED spent
    /\ UNCHANGED <<made, dbVars, faults>>

\* notify() resolves once runLeaderStartup has recovered everything.
StartupReturns(p) ==
    /\ task[p]["poll"].pc = "startup"
    /\ Finish(p, "poll")
    /\ UNCHANGED <<state, fence, session, aborted, made, gone, dbVars, spent, faults>>

\* runLeaderStartup throws: a recovery step failed, or assertLeader refused it.
StartupFails(p) ==
    /\ task[p]["poll"].pc = "startup"
    /\ IF state[p] = "leader" THEN Fault ELSE UNCHANGED faults
    /\ Lose(p, "poll")
    /\ UNCHANGED <<made, dbVars, spent>>

-----------------------------------------------------------------------------
(* assertLeader and stop                                                   *)

\* The call that is refused at once changes nothing and is not a step.
AssertLeader(p, c) ==
    /\ task[p][c].pc = "idle"
    /\ state[p] = "leader" /\ fence[p] # 0 /\ session[p] # 0
    /\ Goto(p, c, At("owns", session[p]))
    /\ UNCHANGED <<coordVars, made, gone, dbVars, spent, faults>>

\* On success the caller is handed current.fence as it is now, null included.
AssertReturns(p, c) ==
    LET t == task[p][c] IN
    /\ t.pc = "owns" /\ t.reply # "none"
    /\ IF t.reply = "true"
       THEN Goto(p, c, Granted(fence[p])) /\ UNCHANGED <<coordVars, gone>>
       ELSE Lose(p, c)
    /\ UNCHANGED <<made, dbVars, spent, faults>>

\* The startup that loseLeadership reran throws, and with it loseLeadership: the
\* coordinator is not put back to standby.  assertLeader catches it as it catches
\* a failed ownsLock(), unless it is a NotLeaderError or was thrown in the catch.
RestartFails(p, c) ==
    LET t == task[p][c] IN
    /\ t.pc = "restart"
    /\ IF state[p] = "leader" THEN Fault ELSE UNCHANGED faults
    /\ \E rec \in {Idle, Refused} :
          /\ rec = Refused => t.reply = "false"
          /\ Goto(p, c, rec)
    /\ UNCHANGED <<coordVars, made, gone, dbVars, spent>>

\* The caller has done what it asked permission for.
UsePermit(p, c) ==
    /\ task[p][c].pc = "granted"
    /\ Goto(p, c, Idle)
    /\ UNCHANGED <<coordVars, made, gone, dbVars, spent, faults>>

\* SIGTERM or SIGINT, handled once start() has returned.
Stop(p) ==
    /\ p \in Stopping /\ phase[p] = "up"
    /\ Fault
    /\ phase' = [phase EXCEPT ![p] = "down"]
    /\ aborted' = [aborted EXCEPT ![p] = TRUE]
    /\ session' = [session EXCEPT ![p] = 0]
    /\ state' = [state EXCEPT ![p] = "stopped"]
    /\ fence' = [fence EXCEPT ![p] = 0]
    /\ IF session[p] # 0 THEN Goto(p, "stop", At("release", session[p])) ELSE UNCHANGED task
    /\ UNCHANGED <<made, gone, dbVars, spent>>

\* release() is answered or fails; either way close() follows.
ReleaseReturns(p) ==
    LET t == task[p]["stop"] IN
    /\ t.pc = "release" /\ t.reply # "none"
    /\ gone' = gone \cup {<<p, t.sess>>}
    /\ Goto(p, "stop", Idle)
    /\ UNCHANGED <<coordVars, made, dbVars, spent, faults>>

\* The process dies with all its sessions, and the platform starts a new one.
Crash(p) ==
    /\ Fault
    /\ state' = [state EXCEPT ![p] = "standby"]
    /\ fence' = [fence EXCEPT ![p] = 0]
    /\ session' = [session EXCEPT ![p] = 0]
    /\ aborted' = [aborted EXCEPT ![p] = TRUE]
    /\ phase' = [phase EXCEPT ![p] = "boot"]
    /\ task' = [task EXCEPT ![p] = [t \in Task |-> Idle]]
    /\ gone' = gone \cup {<<p, k>> : k \in 1..made[p]}
    /\ UNCHANGED <<made, dbVars, spent>>

-----------------------------------------------------------------------------
(* The database                                                            *)

Awaits(p, t, pc) == task[p][t].pc = pc /\ task[p][t].reply = "none"
Backend(p, t)    == <<p, task[p][t].sess>>
Answer(p, t, r)  == task' = [task EXCEPT ![p][t].reply = r]

\* A query that never ran, or that ran and whose reply was lost, rejects at the
\* client: the lock may be held and the epoch drawn.
QueryFails(p, t) ==
    /\ task[p][t].pc \in {"owns", "try", "fence", "release"} /\ task[p][t].reply # "error"
    /\ IF Backend(p, t) \in gone THEN UNCHANGED faults ELSE Fault
    /\ Answer(p, t, "error")
    /\ UNCHANGED <<coordVars, made, gone, dbVars, spent>>

ExecOwns(p, t) ==
    /\ Awaits(p, t, "owns") /\ Backend(p, t) \notin gone
    /\ Answer(p, t, IF holder = Backend(p, t) THEN "true" ELSE "false")
    /\ UNCHANGED <<coordVars, made, gone, dbVars, spent, faults>>

\* pg_try_advisory_lock: re-entrant for the session that already owns it.
ExecTry(p) ==
    /\ Awaits(p, "poll", "try") /\ Backend(p, "poll") \notin gone
    /\ IF holder \in {Free, Backend(p, "poll")}
       THEN /\ holder' = Backend(p, "poll")
            /\ depth' = depth + 1
            /\ severed' = severed \ {Backend(p, "poll")}
            /\ Answer(p, "poll", "true")
       ELSE Answer(p, "poll", "false") /\ UNCHANGED <<holder, depth, severed>>
    /\ UNCHANGED <<coordVars, made, gone, epoch, spent, faults>>

\* Mutant of ExecFence: the upsert returns the row without incrementing it.
ExecFenceStill(p) ==
    /\ Awaits(p, "poll", "fence") /\ Backend(p, "poll") \notin gone
    /\ epoch' = IF epoch = 0 THEN 1 ELSE epoch
    /\ task' = [task EXCEPT ![p]["poll"].reply = "true", ![p]["poll"].num = epoch']
    /\ UNCHANGED <<coordVars, made, gone, severed, holder, depth, spent, faults>>

\* The upsert of the epoch row.  It does not look at the lock, and a client
\* whose connection was lost runs it on a new one.
ExecFence(p) ==
    /\ Awaits(p, "poll", "fence") /\ Backend(p, "poll") \notin gone
    /\ epoch' = epoch + 1
    /\ task' = [task EXCEPT ![p]["poll"].reply = "true", ![p]["poll"].num = epoch']
    /\ UNCHANGED <<coordVars, made, gone, severed, holder, depth, spent, faults>>

\* Mutant of ExecRelease: unlocks for a session that does not own the lock.
ExecReleaseAnyone(p) ==
    /\ Awaits(p, "stop", "release") /\ Backend(p, "stop") \notin gone
    /\ depth' = depth - 1
    /\ holder' = IF depth = 1 THEN Free ELSE holder
    /\ Answer(p, "stop", "true")
    /\ UNCHANGED <<coordVars, made, gone, severed, epoch, spent, faults>>

\* pg_advisory_unlock undoes one acquisition.
ExecRelease(p) ==
    /\ Awaits(p, "stop", "release") /\ Backend(p, "stop") \notin gone
    /\ IF holder = Backend(p, "stop")
       THEN /\ depth' = depth - 1
            /\ holder' = IF depth = 1 THEN Free ELSE holder
       ELSE UNCHANGED <<holder, depth>>
    /\ Answer(p, "stop", "true")
    /\ UNCHANGED <<coordVars, made, gone, severed, epoch, spent, faults>>

\* PostgreSQL ends the owning session: all its advisory locks are dropped.
Unlock == holder' = Free /\ depth' = 0

\* ... because the client closed it or died,
SessionEnds ==
    /\ holder \in gone
    /\ Unlock
    /\ UNCHANGED <<coordVars, task, made, gone, severed, epoch, spent, faults>>

\* ... or because its connection was lost under a client that goes on using it.
ConnectionLost ==
    /\ holder # Free /\ holder \notin gone
    /\ Fault
    /\ Unlock
    /\ severed' = severed \cup {holder}
    /\ UNCHANGED <<coordVars, task, made, gone, epoch, spent>>

-----------------------------------------------------------------------------
Coordinator(p) ==
    \/ Poll(p) \/ PollOwnsReturns(p) \/ CreateReturns(p) \/ CreateFails(p)
    \/ TryReturns(p) \/ FenceReturns(p) \/ StartupReturns(p) \/ StartupFails(p)
    \/ Stop(p) \/ ReleaseReturns(p) \/ Crash(p)
    \/ ExecTry(p) \/ ExecFence(p) \/ ExecRelease(p)

Next ==
    \/ \E p \in Proc : Coordinator(p)
    \/ \E p \in Proc, c \in Caller : AssertLeader(p, c) \/ AssertReturns(p, c) \/ RestartFails(p, c)
                                 \/ UsePermit(p, c)
    \/ \E p \in Proc, t \in Task : LoseReturns(p, t) \/ QueryFails(p, t) \/ ExecOwns(p, t)
    \/ SessionEnds
    \/ ConnectionLost

Spec == Init /\ [][Next]_vars

\* The event loop runs timers and continuations, the database answers or ends
\* what it was asked; nothing forces a caller, a fault or a stop.
Fairness ==
    /\ \A p \in Proc :
        /\ WF_vars(Poll(p)) /\ WF_vars(PollOwnsReturns(p)) /\ WF_vars(CreateReturns(p))
        /\ WF_vars(TryReturns(p)) /\ WF_vars(FenceReturns(p)) /\ WF_vars(StartupReturns(p))
        /\ WF_vars(ReleaseReturns(p)) /\ WF_vars(ExecTry(p)) /\ WF_vars(ExecFence(p))
        /\ WF_vars(ExecRelease(p))
        /\ \A t \in Task :
            /\ WF_vars(LoseReturns(p, t)) /\ WF_vars(ExecOwns(p, t))
            /\ WF_vars(QueryFails(p, t) /\ Backend(p, t) \in gone /\ task[p][t].reply = "none")
        /\ \A c \in Caller : WF_vars(AssertReturns(p, c))
    /\ WF_vars(SessionEnds)

FairSpec == Spec /\ Fairness
-----------------------------------------------------------------------------
(* Properties                                                              *)

Leads(p) == state[p] = "leader"

\* Every term is numbered with a fence of its own, drawn from the epoch row,
\* and never resumed: acquire and loseLeadership implement FencedWriter
\* (leader.ts:125-144), whatever fails between their queries.
Writer == INSTANCE FencedWriter WITH term <- fence
ImplementsFencedWriter == Writer!Spec

\* A coordinator that leads with a session owns the advisory lock, unless its
\* connection was lost since it acquired: tasks racing in one process, stop(),
\* failed queries and failed startups never leave a leader without the lock.
LeaderHoldsLock ==
    \A p \in Proc :
        LET s == <<p, session[p]>> IN
        Leads(p) /\ session[p] # 0 /\ s \notin severed => holder = s

\* The lock is never leaked: the owning session is the one its coordinator
\* still uses, or is being released by stop(), or is closed and about to end.
\* A leaked session would keep every other process out for ever.
NoOrphanedLock ==
    \A p \in Proc : \A k \in 1..made[p] :
        holder = <<p, k>> =>
            \/ session[p] = k
            \/ <<p, k>> \in gone
            \/ task[p]["stop"].pc = "release" /\ task[p]["stop"].sess = k

\* A session handed to close() is never used again for a new query, so a
\* Prisma client that reconnects lazily cannot revive a closed lease.
ClosedSessionUnused ==
    \A p \in Proc : session[p] # 0 => <<p, session[p]>> \notin gone

SomeoneLeads ==
    \E p \in Proc :
        /\ Leads(p) /\ session[p] # 0 /\ holder = <<p, session[p]>>
        /\ phase[p] = "up"

\* Where nobody is stopped, the lock is not lost: once faults cease, some
\* coordinator owns it, leads and keeps leading, also when loseLeadership has
\* left a standby coordinator holding the owning session (leader.ts:143).
LeaderEmerges == <>[]SomeoneLeads

\* The "lost" state is transient: loseLeadership always returns to standby or
\* the process was stopped.
LostIsTransient == \A p \in Proc : (state[p] = "lost") ~> (state[p] # "lost")

\* leader.ts:73: a stopped coordinator cannot restart.
StoppedStaysStopped == \A p \in Proc : phase[p] = "down" => state[p] = "stopped"

\* leader.ts:32, 97: assertLeader promises its caller the fence as a string.
PermitCarriesFence ==
    \A p \in Proc, c \in Caller : task[p][c].pc = "granted" => task[p][c].num # 0
=============================================================================

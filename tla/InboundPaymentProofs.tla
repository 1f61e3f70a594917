------------------------ MODULE InboundPaymentProofs ------------------------
(***************************************************************************)
(* Proofs about InboundPayment for any processes, requests, concurrent     *)
(* passes, runs, authorizations, limit, days and crashes.                  *)
(***************************************************************************)
EXTENDS InboundPayment, FiniteSetTheorems, TLAPS

-----------------------------------------------------------------------------
(* Stored records.                                                         *)

\* What RecordConsistent says of one record.
Sound(rec) ==
    /\ rec.lease # "none" <=> rec.state = "settlement_claimed"
    /\ rec.settlement # None => rec.state \in {"payment_ambiguous", "payment_settled", "queued"}
    /\ rec.payment # None <=> rec.state \in {"payment_settled", "queued"}
    /\ rec.payment # None => rec.settlement \in {None, rec.payment}

Holding(rec) == rec.state \notin {"none", "payment_required"}

\* A change that takes no capacity, pays nothing and resolves no ambiguity.
Moves(old, new) ==
    /\ new.payment = old.payment /\ new.day = old.day
    /\ Holding(new) => Holding(old)
    /\ old.state = "payment_ambiguous" =>
        /\ new.state = "payment_ambiguous"
        /\ old.settlement # None => new.settlement = old.settlement

GoodRecords(f) == f \in [Run -> RunRec] /\ \A q \in Run : Sound(f[q])

LEMMA ReleasedRecord ==
    ASSUME NEW rec \in RunRec
    PROVE  /\ Released(rec) \in RunRec
           /\ Released(rec).state = "payment_required" /\ Released(rec).lease = "none"
           /\ Released(rec).payment = rec.payment /\ Released(rec).day = rec.day
           /\ Released(rec).settlement = rec.settlement
BY DEF Released, RunRec, RunState

\* Each transaction of the repository, on sound records.
LEMMA ExpiredRecords ==
    ASSUME NEW f, GoodRecords(f)
    PROVE  /\ GoodRecords(Expired(f))
           /\ \A q \in Run : Moves(f[q], Expired(f)[q])
           /\ \A q \in Run :
                \/ Expired(f)[q] = f[q]
                \/ f[q].state = "settlement_claimed" /\ Expired(f)[q] = Released(f[q])
<1>1. ASSUME NEW q \in Run
      PROVE  /\ Expired(f)[q] \in RunRec
             /\ Sound(Expired(f)[q])
             /\ Moves(f[q], Expired(f)[q])
             /\ \/ Expired(f)[q] = f[q]
                \/ f[q].state = "settlement_claimed" /\ Expired(f)[q] = Released(f[q])
  <2>0. f[q] \in RunRec /\ Sound(f[q])
    BY DEF GoodRecords
  <2>1. CASE f[q].state = "settlement_claimed" /\ f[q].lease = "lapsed"
    <3>1. Expired(f)[q] = Released(f[q])
      BY <2>1 DEF Expired
    <3>2. QED
      BY <2>0, <2>1, <3>1, ReleasedRecord DEF Sound, Moves, Holding
  <2>2. CASE ~(f[q].state = "settlement_claimed" /\ f[q].lease = "lapsed")
    <3>1. Expired(f)[q] = f[q]
      BY <2>2 DEF Expired
    <3>2. QED
      BY <2>0, <3>1 DEF Moves
  <2>3. QED
    BY <2>1, <2>2
<1>2. Expired(f) \in [Run -> RunRec]
  BY <1>1 DEF Expired
<1>3. QED
  BY <1>1, <1>2 DEF GoodRecords

LEMMA ReservedRecords ==
    ASSUME NEW f, GoodRecords(f), NEW r \in Run, today \in 0..MaxDay,
           NEW g, g = Reserved(f, r)
    PROVE  /\ GoodRecords(g)
           /\ \A q \in Run \ {r} : g[q] = f[q]
           /\ \/ g[r] = f[r]
              \/ /\ f[r].state = "none" /\ f[r].payment = None
                 /\ g[r].state = "payment_required" /\ g[r].payment = None /\ g[r].day = today
<1>0. f \in [Run -> RunRec] /\ Sound(f[r]) /\ f[r] \in RunRec
  BY DEF GoodRecords
<1>1. CASE f[r].state # "none"
  BY <1>1 DEF Reserved
<1>2. CASE f[r].state = "none"
  <2> DEFINE new == [NoRun EXCEPT !.state = "payment_required", !.day = today]
  <2>1. g = [f EXCEPT ![r] = new]
    BY <1>2 DEF Reserved
  <2>2. /\ new \in RunRec
        /\ new.state = "payment_required" /\ new.payment = None /\ new.day = today
        /\ Sound(new)
    BY DEF NoRun, RunRec, RunState, Sound
  <2> HIDE DEF new
  <2>3. g[r] = new /\ g \in [Run -> RunRec] /\ \A q \in Run \ {r} : g[q] = f[q]
    BY <1>0, <2>1, <2>2
  <2>4. \A q \in Run : Sound(g[q])
    BY <2>2, <2>3 DEF GoodRecords
  <2>5. QED
    BY <1>0, <1>2, <2>2, <2>3, <2>4 DEF GoodRecords, Sound
<1>3. QED
  BY <1>1, <1>2

LEMMA ClaimedRecords ==
    ASSUME NEW f, GoodRecords(f), NEW r \in Run, Claimable(f, r),
           NEW g, g = Claimed(f, r)
    PROVE  /\ GoodRecords(g)
           /\ \A q \in Run \ {r} : g[q] = Expired(f)[q]
           /\ g[r].payment = f[r].payment /\ g[r].day = f[r].day
           /\ f[r].state # "payment_ambiguous"
<1> DEFINE old == Expired(f)[r]
           new == [Expired(f)[r] EXCEPT !.state = "settlement_claimed", !.lease = "live"]
<1>1. GoodRecords(Expired(f)) /\ Moves(f[r], old)
  BY ExpiredRecords
<1>2. old \in RunRec /\ Sound(old) /\ Expired(f) \in [Run -> RunRec]
  BY <1>1 DEF GoodRecords
<1>3. old.state = "payment_required"
  BY DEF Claimable
<1>4. g = [Expired(f) EXCEPT ![r] = new]
  BY <1>2 DEF Claimed
<1>5. /\ new \in RunRec /\ Sound(new)
      /\ new.payment = old.payment /\ new.day = old.day
  BY <1>2, <1>3 DEF RunRec, RunState, Sound
<1> HIDE DEF old, new
<1>6. g[r] = new /\ g \in [Run -> RunRec] /\ \A q \in Run \ {r} : g[q] = Expired(f)[q]
  BY <1>2, <1>4, <1>5
<1>7. \A q \in Run : Sound(g[q])
  BY <1>1, <1>5, <1>6 DEF GoodRecords
<1>8. QED
  BY <1>1, <1>3, <1>5, <1>6, <1>7 DEF GoodRecords, Moves

LEMMA ReleasedRecords ==
    ASSUME NEW f, GoodRecords(f), NEW r, NEW g, g = ReleasedRun(f, r)
    PROVE  GoodRecords(g) /\ \A q \in Run : Moves(f[q], g[q])
<1>0. f \in [Run -> RunRec]
  BY DEF GoodRecords
<1>1. CASE r \in Run /\ f[r].state = "settlement_claimed"
  <2>0. f[r] \in RunRec /\ Sound(f[r])
    BY <1>1 DEF GoodRecords
  <2>1. g = [f EXCEPT ![r] = Released(f[r])]
    BY <1>1, <1>0 DEF ReleasedRun
  <2>2. Released(f[r]) \in RunRec /\ Sound(Released(f[r])) /\ Moves(f[r], Released(f[r]))
    BY <1>1, <2>0, ReleasedRecord DEF Sound, Moves, Holding
  <2>3. g \in [Run -> RunRec] /\ g[r] = Released(f[r]) /\ \A q \in Run \ {r} : g[q] = f[q]
    BY <1>0, <1>1, <2>1, <2>2
  <2>4. QED
    BY <2>2, <2>3 DEF GoodRecords, Moves
<1>2. CASE ~(r \in Run /\ f[r].state = "settlement_claimed")
  <2>1. g = f
    BY <1>0, <1>2 DEF ReleasedRun
  <2>2. QED
    BY <2>1 DEF Moves
<1>3. QED
  BY <1>1, <1>2

LEMMA RecordedRecords ==
    ASSUME NEW f, GoodRecords(f), NEW r \in Run, NEW a \in Auth, Recordable(f, r, a),
           NEW g, g = Recorded(f, r, a)
    PROVE  GoodRecords(g) /\ \A q \in Run : Moves(f[q], g[q])
<1> DEFINE new == [f[r] EXCEPT !.state = "payment_ambiguous", !.settlement = a, !.lease = "none"]
<1>1. f \in [Run -> RunRec] /\ f[r] \in RunRec /\ Sound(f[r])
  BY DEF GoodRecords
<1>2. g = [f EXCEPT ![r] = new]
  BY <1>1 DEF Recorded
<1>3. \/ f[r].state = "settlement_claimed"
      \/ f[r].state = "payment_ambiguous" /\ f[r].settlement \in {None, a}
  BY DEF Recordable
<1>4. a # None
  BY NoneAssumption
<1>5. /\ new \in RunRec /\ new.state = "payment_ambiguous" /\ new.settlement = a
      /\ new.lease = "none" /\ new.payment = f[r].payment /\ new.day = f[r].day
  BY <1>1 DEF RunRec, RunState
<1> HIDE DEF new
<1>8. Sound(new) /\ Moves(f[r], new)
  BY <1>1, <1>3, <1>4, <1>5 DEF Sound, Moves, Holding
<1>6. g \in [Run -> RunRec] /\ g[r] = new /\ \A q \in Run \ {r} : g[q] = f[q]
  BY <1>1, <1>2, <1>5
<1>7. QED
  BY <1>6, <1>8 DEF GoodRecords, Moves

LEMMA MarkedRecords ==
    ASSUME NEW f, GoodRecords(f), NEW r, NEW g, g = Marked(f, r)
    PROVE  GoodRecords(g) /\ \A q \in Run : Moves(f[q], g[q])
<1> DEFINE new == [f[r] EXCEPT !.state = "payment_ambiguous", !.lease = "none"]
<1>0. f \in [Run -> RunRec]
  BY DEF GoodRecords
<1>1. CASE r \in Run /\ f[r].state \in {"settlement_claimed", "payment_ambiguous"}
  <2>0. f[r] \in RunRec /\ Sound(f[r])
    BY <1>1 DEF GoodRecords
  <2>1. g = [f EXCEPT ![r] = new]
    BY <1>0, <1>1 DEF Marked
  <2>2. new \in RunRec /\ Sound(new) /\ Moves(f[r], new)
    BY <1>1, <2>0 DEF RunRec, RunState, Sound, Moves, Holding
  <2> HIDE DEF new
  <2>3. g \in [Run -> RunRec] /\ g[r] = new /\ \A q \in Run \ {r} : g[q] = f[q]
    BY <1>0, <1>1, <2>1, <2>2
  <2>4. QED
    BY <2>2, <2>3 DEF GoodRecords, Moves
<1>2. CASE ~(r \in Run /\ f[r].state \in {"settlement_claimed", "payment_ambiguous"})
  <2>1. g = f
    BY <1>0, <1>2 DEF Marked
  <2>2. QED
    BY <2>1 DEF Moves
<1>3. QED
  BY <1>1, <1>2

LEMMA ResetRecords ==
    ASSUME NEW f, GoodRecords(f), NEW r \in Run, NEW g, g = Reset(f, r)
    PROVE  /\ GoodRecords(g)
           /\ \A q \in Run \ {r} : g[q] = f[q]
           /\ g[r].payment = f[r].payment /\ g[r].day = f[r].day
           /\ g[r] = f[r] \/ g[r].state = "payment_required"
<1> DEFINE new == [Released(f[r]) EXCEPT !.settlement = None]
<1>1. f \in [Run -> RunRec] /\ f[r] \in RunRec /\ Sound(f[r])
  BY DEF GoodRecords
<1>2. CASE f[r].state = "payment_ambiguous"
  <2>1. g = [f EXCEPT ![r] = new]
    BY <1>1, <1>2 DEF Reset
  <2>2. /\ new \in RunRec /\ Sound(new) /\ new.state = "payment_required"
        /\ new.payment = f[r].payment /\ new.day = f[r].day
    BY <1>1, <1>2, ReleasedRecord DEF RunRec, RunState, Sound
  <2> HIDE DEF new
  <2>3. g \in [Run -> RunRec] /\ g[r] = new /\ \A q \in Run \ {r} : g[q] = f[q]
    BY <1>1, <2>1, <2>2
  <2>4. QED
    BY <2>2, <2>3 DEF GoodRecords
<1>3. CASE f[r].state # "payment_ambiguous"
  BY <1>3 DEF Reset
<1>4. QED
  BY <1>2, <1>3

LEMMA AuthorizedRecords ==
    ASSUME NEW f, GoodRecords(f), NEW r \in Run, NEW a \in Auth, Authorizable(f, r, a),
           NEW g, g = Authorized(f, r, a)
    PROVE  /\ GoodRecords(g)
           /\ \A q \in Run \ {r} : Moves(f[q], g[q]) /\ f[q].payment # a
           /\ \/ Moves(f[r], g[r])
              \/ /\ f[r].payment = None /\ g[r].payment = a
                 /\ g[r].state = "payment_settled" /\ g[r].day = f[r].day
                 /\ Holding(f[r])
                 /\ f[r].state = "payment_ambiguous" => f[r].settlement = a
<1> DEFINE old == Expired(f)[r]
           new == [Expired(f)[r] EXCEPT !.payment = a, !.state = "payment_settled", !.lease = "none"]
<1>1. /\ GoodRecords(Expired(f)) /\ \A q \in Run : Moves(f[q], Expired(f)[q])
      /\ \/ old = f[r]
         \/ f[r].state = "settlement_claimed" /\ old = Released(f[r])
  BY ExpiredRecords
<1>2. old \in RunRec /\ Sound(old) /\ Expired(f) \in [Run -> RunRec] /\ f[r] \in RunRec
  BY <1>1 DEF GoodRecords
<1>3. a # None /\ \A q \in Run \ {r} : f[q].payment # a
  BY NoneAssumption DEF Authorizable
<1>4. CASE f[r].payment = a
  <2>1. g = Expired(f)
    BY <1>4 DEF Authorized
  <2>2. QED
    BY <1>1, <1>3, <2>1
<1>5. CASE f[r].payment # a
  <2>1. g = [Expired(f) EXCEPT ![r] = new]
    BY <1>2, <1>5 DEF Authorized
  <2>2. old.payment = f[r].payment
    BY <1>1 DEF Moves
  <2>3. /\ old.payment = None
        /\ \/ old.state = "settlement_claimed"
           \/ old.state = "payment_ambiguous" /\ old.settlement = a
    BY <1>5, <2>2 DEF Authorizable
  <2>4. old = f[r]
    BY <1>1, <1>2, <2>3, ReleasedRecord
  <2>5. /\ new \in RunRec /\ Sound(new) /\ new.payment = a
        /\ new.state = "payment_settled" /\ new.day = old.day
    BY <1>2, <1>3, <2>3 DEF RunRec, RunState, Sound
  <2> HIDE DEF old, new
  <2>6. g \in [Run -> RunRec] /\ g[r] = new /\ \A q \in Run \ {r} : g[q] = Expired(f)[q]
    BY <1>2, <2>1, <2>5
  <2>7. \A q \in Run : Sound(g[q])
    BY <1>1, <2>5, <2>6 DEF GoodRecords
  <2>8. /\ f[r].payment = None /\ Holding(f[r])
        /\ f[r].state = "payment_ambiguous" => f[r].settlement = a
    BY <2>3, <2>4 DEF Holding
  <2>9. QED
    BY <1>1, <1>3, <2>4, <2>5, <2>6, <2>7, <2>8 DEF GoodRecords
<1>6. QED
  BY <1>4, <1>5

LEMMA QueuedRecords ==
    ASSUME NEW f, GoodRecords(f), NEW r \in Run, NEW g, g = Queued(f, r)
    PROVE  GoodRecords(g) /\ \A q \in Run : Moves(f[q], g[q])
<1> DEFINE old == Expired(f)[r]
           new == [Expired(f)[r] EXCEPT !.state =
                     IF old.state = "payment_settled" THEN "queued" ELSE old.state]
<1>1. GoodRecords(Expired(f)) /\ \A q \in Run : Moves(f[q], Expired(f)[q])
  BY ExpiredRecords
<1>2. old \in RunRec /\ Sound(old) /\ Expired(f) \in [Run -> RunRec] /\ f[r] \in RunRec
  BY <1>1 DEF GoodRecords
<1>3. g = [Expired(f) EXCEPT ![r] = new]
  BY <1>2 DEF Queued
<1>4. new \in RunRec /\ Sound(new) /\ Moves(old, new)
  BY <1>2 DEF RunRec, RunState, Sound, Moves, Holding
<1>5. Moves(f[r], new)
  BY <1>1, <1>4 DEF Moves
<1> HIDE DEF old, new
<1>6. g \in [Run -> RunRec] /\ g[r] = new /\ \A q \in Run \ {r} : g[q] = Expired(f)[q]
  BY <1>2, <1>3, <1>4
<1>7. QED
  BY <1>1, <1>4, <1>5, <1>6 DEF GoodRecords

-----------------------------------------------------------------------------
(* The inductive invariant.                                                *)

\* A request under way knows its process, run and authorization, and one that
\* authorizes has seen its transfer succeed.
CallInv ==
    \A c \in Call :
        /\ call[c].pc \notin {"idle", "done"} =>
            call[c].home \in Proc /\ call[c].run \in Run /\ call[c].auth \in Auth
        /\ call[c].pc = "authorize" => transfer[call[c].auth] = "success"

\* A registered attempt was made for some run.
AttemptInv ==
    \A p \in Proc, a \in Auth :
        attempt[p][a].by # None => call[attempt[p][a].by].run \in Run

\* A pass that is about to write has read the receipt which allows it.
PassInv ==
    \A k \in Pass :
        /\ pass[k].pc \in {"reset", "authorize", "mark"} => pass[k].cur \in Run \X Auth
        /\ pass[k].pc = "authorize" => transfer[pass[k].cur[2]] = "success"
        /\ pass[k].pc = "reset" => transfer[pass[k].cur[2]] = "reverted"

\* No run was created after today.
DayInv == \A r \in Run : run[r].day <= today

Tables ==
    /\ today \in 0..MaxDay
    /\ transfer \in [Auth -> {"unused", "pending", "success", "stray", "reverted"}]
    /\ asked \in SUBSET (Run \X Auth)
    /\ chargedFor \in [Auth -> Run \cup {None}]
    /\ attempt \in [Proc -> [Auth -> AttemptRec]]
    /\ inFlight \in [Proc -> SUBSET Run]
    /\ call \in [Call -> CallRec]
    /\ pass \in [Pass -> PassRec]
    /\ faults \in 0..MaxFaults

Inv ==
    /\ GoodRecords(run) /\ Tables
    /\ CallInv /\ AttemptInv /\ PassInv /\ DayInv
    /\ CapacityHolds

-----------------------------------------------------------------------------
(* Requests and the hooks' maps.                                           *)

\* What a later step of a request may rely on is left as it is.
CallsKept ==
    /\ call' \in [Call -> CallRec]
    /\ \A d \in Call : call[d].run \in Run => call'[d].run \in Run

LEMMA CallGoes ==
    ASSUME Tables, CallInv, NEW c \in Call, NEW pc \in CallPc, Goto(c, pc),
           call[c].pc \notin {"idle", "done"},
           pc = "authorize" => transfer[call[c].auth] = "success",
           UNCHANGED transfer
    PROVE  CallsKept /\ CallInv'
<1> DEFINE new == [call[c] EXCEPT !.pc = pc]
<1>1. call \in [Call -> CallRec] /\ call[c] \in CallRec
  BY DEF Tables
<1>2. call' = [call EXCEPT ![c] = new]
  BY DEF Goto
<1>3. /\ new \in CallRec /\ new.pc = pc
      /\ new.home = call[c].home /\ new.run = call[c].run /\ new.auth = call[c].auth
  BY <1>1 DEF CallRec
<1> HIDE DEF new
<1>4. call' \in [Call -> CallRec] /\ call'[c] = new /\ \A d \in Call \ {c} : call'[d] = call[d]
  BY <1>1, <1>2, <1>3
<1>5. QED
  BY <1>3, <1>4 DEF CallsKept, CallInv

\* The maps keep their type, and lose or keep what is registered.
MapsShrink ==
    /\ attempt' \in [Proc -> [Auth -> AttemptRec]]
    /\ inFlight' \in [Proc -> SUBSET Run]
    /\ \A p \in Proc, a \in Auth : attempt'[p][a].by \in {attempt[p][a].by, None}

LEMMA MapsStay ==
    ASSUME Tables, UNCHANGED hookVars
    PROVE  MapsShrink
BY DEF Tables, hookVars, MapsShrink

LEMMA CleanupShrinks ==
    ASSUME Tables, NEW p, NEW a, NEW keys, Cleanup(p, a, keys)
    PROVE  MapsShrink
<1>1. NoAttempt \in AttemptRec /\ NoAttempt.by = None
  BY DEF NoAttempt, AttemptRec
<1>2. attempt' = [attempt EXCEPT ![p][a] = NoAttempt]
  BY DEF Cleanup
<1>3. ASSUME NEW q \in Proc
      PROVE  /\ attempt'[q] \in [Auth -> AttemptRec]
             /\ \A b \in Auth : attempt'[q][b] \in {attempt[q][b], NoAttempt}
             /\ inFlight'[q] \in SUBSET Run
  <2>1. attempt[q] \in [Auth -> AttemptRec] /\ inFlight[q] \in SUBSET Run
    BY DEF Tables
  <2>2. attempt'[q] = IF q = p THEN [attempt[q] EXCEPT ![a] = NoAttempt] ELSE attempt[q]
    BY <1>2 DEF Tables
  <2>3. inFlight'[q] = IF q = p THEN inFlight[q] \ keys ELSE inFlight[q]
    BY DEF Cleanup, Tables
  <2>4. QED
    BY <1>1, <2>1, <2>2, <2>3
<1>4. attempt' \in [Proc -> [Auth -> AttemptRec]]
  <2>1. DOMAIN attempt' = Proc /\ attempt' = [q \in Proc |-> attempt'[q]]
    BY <1>2 DEF Tables
  <2>2. QED
    BY <1>3, <2>1
<1>5. inFlight' \in [Proc -> SUBSET Run]
  <2>1. inFlight' = [q \in Proc |-> inFlight'[q]]
    BY DEF Cleanup, Tables
  <2>2. QED
    BY <1>3, <2>1
<1>6. QED
  BY <1>1, <1>3, <1>4, <1>5 DEF MapsShrink

LEMMA AttemptsKept ==
    ASSUME Tables, AttemptInv, MapsShrink, CallsKept
    PROVE  AttemptInv'
<1> SUFFICES ASSUME NEW p \in Proc, NEW a \in Auth, attempt'[p][a].by # None
             PROVE  call'[attempt'[p][a].by].run \in Run
  BY DEF AttemptInv
<1>1. attempt'[p][a].by = attempt[p][a].by /\ attempt[p][a] \in AttemptRec
  BY DEF MapsShrink, Tables
<1>2. attempt[p][a].by \in Call
  BY <1>1 DEF AttemptRec
<1>3. QED
  BY <1>1, <1>2 DEF AttemptInv, CallsKept

LEMMA RegisterStep ==
    ASSUME Tables, CallInv, AttemptInv, NEW c \in Call,
           call[c].pc \notin {"idle", "done"}, Register(c), UNCHANGED transfer
    PROVE  /\ attempt' \in [Proc -> [Auth -> AttemptRec]]
           /\ inFlight' \in [Proc -> SUBSET Run]
           /\ call' \in [Call -> CallRec] /\ CallInv' /\ AttemptInv'
<1> DEFINE p == call[c].home
           a == call[c].auth
           new == [by |-> c, claimed |-> FALSE]
<1>0. p \in Proc /\ a \in Auth /\ call[c].run \in Run
  BY DEF CallInv
<1>1. CASE Att(c).by # None
  <2>1. Goto(c, "done") /\ UNCHANGED hookVars
    BY <1>1 DEF Register, hookVars
  <2>2. CallsKept /\ CallInv' /\ MapsShrink
    BY <2>1, CallGoes, MapsStay DEF CallPc
  <2>3. QED
    BY <2>2, AttemptsKept DEF CallsKept, MapsShrink
<1>2. CASE Att(c).by = None
  <2>1. /\ attempt' = [attempt EXCEPT ![p][a] = new]
        /\ inFlight' = [inFlight EXCEPT ![p] = @ \cup {call[c].run}]
        /\ Goto(c, "verify")
    BY <1>2 DEF Register
  <2>2. CallsKept /\ CallInv'
    BY <2>1, CallGoes DEF CallPc
  <2>3. new \in AttemptRec /\ new.by = c
    BY DEF AttemptRec
  <2> HIDE DEF new, p, a
  <2>4. attempt[p] \in [Auth -> AttemptRec] /\ attempt' = [attempt EXCEPT ![p] = [attempt[p] EXCEPT ![a] = new]]
    BY <1>0, <2>1 DEF Tables
  <2>5. [attempt[p] EXCEPT ![a] = new] \in [Auth -> AttemptRec]
    BY <2>3, <2>4
  <2>6. attempt' \in [Proc -> [Auth -> AttemptRec]]
    BY <2>4, <2>5 DEF Tables
  <2>7. inFlight' \in [Proc -> SUBSET Run]
    BY <1>0, <2>1 DEF Tables
  <2>8. ASSUME NEW q \in Proc, NEW b \in Auth
        PROVE  attempt'[q][b] = IF q = p /\ b = a THEN new ELSE attempt[q][b]
    BY <1>0, <2>4, <2>5 DEF Tables
  <2>9. AttemptInv'
    <3> SUFFICES ASSUME NEW q \in Proc, NEW b \in Auth, attempt'[q][b].by # None
                 PROVE  call'[attempt'[q][b].by].run \in Run
      BY DEF AttemptInv
    <3>1. CASE q = p /\ b = a
      BY <1>0, <2>2, <2>3, <2>8, <3>1 DEF CallsKept
    <3>2. CASE ~(q = p /\ b = a)
      <4>1. attempt'[q][b] = attempt[q][b] /\ attempt[q][b] \in AttemptRec
        BY <2>8, <3>2 DEF Tables
      <4>2. attempt[q][b].by \in Call
        BY <4>1 DEF AttemptRec
      <4>3. QED
        BY <2>2, <4>1, <4>2 DEF AttemptInv, CallsKept
    <3>3. QED
      BY <3>1, <3>2
  <2>10. QED
    BY <2>2, <2>6, <2>7, <2>9 DEF CallsKept
<1>3. QED
  BY <1>1, <1>2

-----------------------------------------------------------------------------
(* Every step keeps the tables and what requests and passes know.          *)

TablesInv == Tables /\ CallInv /\ AttemptInv /\ PassInv

LEMMA RestStays ==
    ASSUME TablesInv, UNCHANGED chainVars, UNCHANGED rest
    PROVE  /\ today' \in 0..MaxDay /\ faults' \in 0..MaxFaults
           /\ transfer' \in [Auth -> {"unused", "pending", "success", "stray", "reverted"}]
           /\ asked' \in SUBSET (Run \X Auth)
           /\ chargedFor' \in [Auth -> Run \cup {None}]
           /\ pass' \in [Pass -> PassRec]
           /\ PassInv'
BY DEF TablesInv, Tables, PassInv, chainVars, rest

\* A step of a request that leaves the chain alone.
LEMMA RequestStep ==
    ASSUME TablesInv, UNCHANGED chainVars, UNCHANGED rest, MapsShrink, CallsKept, CallInv'
    PROVE  TablesInv'
<1>1. AttemptInv'
  BY AttemptsKept DEF TablesInv
<1>2. QED
  BY <1>1, RestStays DEF TablesInv, Tables, MapsShrink, CallsKept

LEMMA GotoStep ==
    ASSUME TablesInv, NEW c \in Call, NEW pc \in CallPc, Goto(c, pc),
           call[c].pc \notin {"idle", "done"},
           pc = "authorize" => transfer[call[c].auth] = "success",
           MapsShrink, UNCHANGED chainVars, UNCHANGED rest
    PROVE  TablesInv'
BY CallGoes, RequestStep DEF TablesInv, chainVars

LEMMA RequestTables ==
    ASSUME TablesInv, NEW c \in Call, Request(c)
    PROVE  TablesInv'
<1> USE DEF CallPc
<1>1. CASE Admit(c)
  <2>1. /\ call[c].pc \notin {"idle", "done"}
        /\ UNCHANGED chainVars /\ UNCHANGED rest
    BY <1>1 DEF Admit
  <2>2. CASE Register(c)
    BY <2>1, <2>2, RegisterStep, RestStays DEF TablesInv, Tables, chainVars
  <2>3. CASE (Goto(c, "done") \/ Goto(c, "reserve")) /\ UNCHANGED hookVars
    BY <2>1, <2>3, GotoStep, MapsStay DEF TablesInv
  <2>4. QED
    BY <1>1, <2>2, <2>3 DEF Admit
<1>2. CASE Reserve(c)
  <2>1. /\ call[c].pc \notin {"idle", "done"} /\ Register(c)
        /\ UNCHANGED chainVars /\ UNCHANGED rest
    BY <1>2 DEF Reserve
  <2>2. QED
    BY <2>1, RegisterStep, RestStays DEF TablesInv, Tables, chainVars
<1>3. CASE Refuse(c)
  BY <1>3, GotoStep, MapsStay DEF Refuse, TablesInv
<1>4. CASE Verified(c)
  <2>1. CASE Goto(c, "verifyFailed")
    BY <1>4, <2>1, GotoStep, MapsStay DEF Verified, TablesInv
  <2>2. CASE call' = [call EXCEPT ![c].pc = "claimed", ![c].got = Att(c).by]
    <3> DEFINE new == [call[c] EXCEPT !.pc = "claimed", !.got = Att(c).by]
    <3>1. call[c].pc = "verify" /\ UNCHANGED chainVars /\ UNCHANGED hookVars /\ UNCHANGED rest
      BY <1>4 DEF Verified
    <3>2. /\ call \in [Call -> CallRec] /\ call[c] \in CallRec
          /\ call[c].home \in Proc /\ call[c].run \in Run /\ call[c].auth \in Auth
      BY <3>1 DEF TablesInv, Tables, CallInv
    <3>3. Att(c) \in AttemptRec
      BY <3>2 DEF Att, TablesInv, Tables
    <3>4. Att(c).by \in Call \cup {None}
      BY <3>3 DEF AttemptRec
    <3>5. /\ new \in CallRec /\ new.pc = "claimed"
          /\ new.home = call[c].home /\ new.run = call[c].run /\ new.auth = call[c].auth
      BY <3>2, <3>4 DEF CallRec
    <3>6. call' = [call EXCEPT ![c] = new]
      BY <2>2, <3>2
    <3> HIDE DEF new
    <3>7. call' \in [Call -> CallRec] /\ call'[c] = new /\ \A d \in Call \ {c} : call'[d] = call[d]
      BY <3>2, <3>5, <3>6
    <3>8. CallsKept
      BY <3>5, <3>7 DEF CallsKept
    <3>9. CallInv'
      BY <3>1, <3>2, <3>5, <3>7 DEF TablesInv, CallInv, chainVars
    <3>10. QED
      BY <3>1, <3>8, <3>9, MapsStay, RequestStep DEF TablesInv
  <2>3. QED
    BY <1>4, <2>1, <2>2 DEF Verified
<1>5. CASE Invalid(c)
  <2>1. MapsShrink
    BY <1>5, CleanupShrinks DEF Invalid, CleanupOwn, TablesInv
  <2>2. QED
    BY <1>5, <2>1, GotoStep DEF Invalid, TablesInv
<1>6. CASE ClaimReturns(c)
  <2>1. MapsShrink
    <3>1. /\ call[c].home \in Proc /\ call[c].auth \in Auth
          /\ inFlight' = inFlight
      BY <1>6 DEF ClaimReturns, TablesInv, CallInv
    <3>2. CASE attempt' = attempt
      BY <3>1, <3>2 DEF MapsShrink, TablesInv, Tables
    <3>3. CASE attempt' = [attempt EXCEPT ![call[c].home][call[c].auth].claimed = TRUE]
      <4> DEFINE p == call[c].home
                 a == call[c].auth
                 new == [attempt[p][a] EXCEPT !.claimed = TRUE]
      <4>1. attempt[p] \in [Auth -> AttemptRec] /\ attempt[p][a] \in AttemptRec
        BY <3>1 DEF TablesInv, Tables
      <4>2. new \in AttemptRec /\ new.by = attempt[p][a].by
        BY <4>1 DEF AttemptRec
      <4>3. attempt' = [attempt EXCEPT ![p] = [attempt[p] EXCEPT ![a] = new]]
        BY <3>3
      <4> HIDE DEF p, a, new
      <4>4. [attempt[p] EXCEPT ![a] = new] \in [Auth -> AttemptRec]
        BY <4>1, <4>2
      <4>5. attempt' \in [Proc -> [Auth -> AttemptRec]]
        BY <4>3, <4>4 DEF TablesInv, Tables
      <4>6. ASSUME NEW q \in Proc, NEW b \in Auth
            PROVE  attempt'[q][b] = IF q = p /\ b = a THEN new ELSE attempt[q][b]
        BY <4>1, <4>3, <4>4 DEF TablesInv, Tables
      <4>7. QED
        BY <3>1, <4>2, <4>5, <4>6 DEF MapsShrink, TablesInv, Tables
    <3>4. QED
      BY <1>6, <3>2, <3>3 DEF ClaimReturns
  <2>2. QED
    BY <1>6, <2>1, GotoStep DEF ClaimReturns, TablesInv
<1>7. CASE VerifyFailure(c)
  <2>1. MapsShrink
    BY <1>7, CleanupShrinks DEF VerifyFailure, CleanupOwn, TablesInv
  <2>2. QED
    BY <1>7, <2>1, GotoStep DEF VerifyFailure, TablesInv
<1>8. CASE Abandon(c)
  BY <1>8, GotoStep, MapsStay DEF Abandon, TablesInv
<1>9. CASE Settle(c)
  <2>1. CASE ~Att(c).claimed
    BY <1>9, <2>1, GotoStep, MapsStay DEF Settle, chainVars, TablesInv
  <2>2. CASE Att(c).claimed
    <3>1. /\ call[c].pc = "handler" /\ Goto(c, "settle")
          /\ asked' = asked \cup {<<call[c].run, call[c].auth>>}
          /\ UNCHANGED <<transfer, chargedFor, hookVars, rest>>
      BY <1>9, <2>2 DEF Settle
    <3>2. CallsKept /\ CallInv'
      BY <3>1, CallGoes DEF TablesInv
    <3>3. AttemptInv'
      BY <3>1, <3>2, MapsStay, AttemptsKept DEF TablesInv
    <3>4. asked' \in SUBSET (Run \X Auth)
      BY <3>1 DEF TablesInv, Tables, CallInv
    <3>5. PassInv'
      BY <3>1 DEF TablesInv, PassInv, rest
    <3>6. QED
      BY <3>1, <3>2, <3>3, <3>4, <3>5 DEF TablesInv, Tables, CallsKept, hookVars, rest
  <2>3. QED
    BY <2>1, <2>2
<1>10. CASE RefusePayer(c)
  <2>1. MapsShrink
    BY <1>10, CleanupShrinks DEF RefusePayer, CleanupOwn, TablesInv
  <2>2. QED
    BY <1>10, <2>1, GotoStep DEF RefusePayer, TablesInv
<1>12. CASE SettleReturns(c)
  BY <1>12, GotoStep, MapsStay DEF SettleReturns, TablesInv
<1>13. CASE SettleFailure(c)
  <2>1. MapsShrink
    BY <1>13, CleanupShrinks DEF SettleFailure, CleanupOwn, TablesInv
  <2>2. QED
    BY <1>13, <2>1, GotoStep DEF SettleFailure, TablesInv
<1>14. CASE RecordSettlement(c)
  BY <1>14, GotoStep, MapsStay DEF RecordSettlement, TablesInv
<1>15. CASE Confirm(c)
  BY <1>15, GotoStep, MapsStay DEF Confirm, TransferProved, TablesInv
<1>16. CASE Authorize(c)
  BY <1>16, GotoStep, MapsStay DEF Authorize, TablesInv
<1>17. CASE Start(c)
  <2>1. MapsShrink
    BY <1>17, CleanupShrinks DEF Start, TablesInv
  <2>2. QED
    BY <1>17, <2>1, GotoStep DEF Start, TablesInv
<1>18. CASE AfterSettleThrows(c)
  BY <1>18, GotoStep, MapsStay DEF AfterSettleThrows, TablesInv
<1>19. QED
  BY <1>1, <1>2, <1>3, <1>4, <1>5, <1>6, <1>7, <1>8, <1>9, <1>10, <1>12, <1>13,
     <1>14, <1>15, <1>16, <1>17, <1>18 DEF Request

\* A step of a pass, which touches no request.
LEMMA PassStep ==
    ASSUME TablesInv, UNCHANGED today, UNCHANGED chainVars, UNCHANGED hookVars,
           UNCHANGED call, UNCHANGED faults,
           pass' \in [Pass -> PassRec], PassInv'
    PROVE  TablesInv'
BY DEF TablesInv, Tables, CallInv, AttemptInv, chainVars, hookVars

\* One pass changes, to a record that keeps PassInv.
LEMMA OnePass ==
    ASSUME TablesInv, NEW k \in Pass, NEW new \in PassRec, pass' = [pass EXCEPT ![k] = new],
           new.pc \in {"reset", "authorize", "mark"} => new.cur \in Run \X Auth,
           new.pc = "authorize" => transfer[new.cur[2]] = "success",
           new.pc = "reset" => transfer[new.cur[2]] = "reverted",
           UNCHANGED today, UNCHANGED chainVars, UNCHANGED hookVars,
           UNCHANGED call, UNCHANGED faults
    PROVE  TablesInv'
<1>1. pass' \in [Pass -> PassRec] /\ \A j \in Pass : pass'[j] = IF j = k THEN new ELSE pass[j]
  BY DEF TablesInv, Tables
<1>2. PassInv'
  BY <1>1 DEF TablesInv, PassInv, chainVars
<1>3. QED
  BY <1>1, <1>2, PassStep

LEMMA ReconcileTables ==
    ASSUME TablesInv, GoodRecords(run), NEW k \in Pass, Reconcile(k)
    PROVE  TablesInv'
<1>0. pass \in [Pass -> PassRec] /\ pass[k] \in PassRec
  BY DEF TablesInv, Tables
<1>a. /\ NoPass \in PassRec /\ NoPass.pc = "idle"
      /\ pass[k].todo \in SUBSET (Run \X Auth) /\ pass[k].cur \in (Run \X Auth) \cup {<<>>}
  BY <1>0 DEF NoPass, PassRec
<1>1. CASE PassStarts(k)
  <2> DEFINE pending == {<<r, run[r].settlement>> :
                           r \in {q \in Run : /\ run[q].state = "payment_ambiguous"
                                              /\ run[q].settlement # None}}
             new == [pc |-> "list", todo |-> pending, cur |-> <<>>]
  <2>1. pending \in SUBSET (Run \X Auth)
    <3>1. \A r \in Run : run[r].settlement \in Auth \cup {None}
      BY DEF GoodRecords, RunRec
    <3>2. QED
      BY <3>1
  <2>2. pass' = [j \in Pass |-> IF j = k THEN new ELSE Deposed(pass[j])]
    BY <1>1 DEF PassStarts
  <2>3. new \in PassRec /\ new.pc = "list"
    BY <2>1 DEF PassRec
  <2>4. ASSUME NEW j \in Pass
        PROVE  /\ Deposed(pass[j]) \in PassRec
               /\ \/ Deposed(pass[j]) = NoPass
                  \/ /\ Deposed(pass[j]).pc = pass[j].pc
                     /\ Deposed(pass[j]).cur = pass[j].cur
    <3>1. pass[j] \in PassRec
      BY <1>0
    <3>2. QED
      BY <1>a, <3>1 DEF Deposed, PassRec
  <2> HIDE DEF new, pending
  <2>5. pass' \in [Pass -> PassRec]
    BY <2>2, <2>3, <2>4
  <2>6. PassInv'
    <3> SUFFICES ASSUME NEW j \in Pass
                 PROVE  /\ pass'[j].pc \in {"reset", "authorize", "mark"} => pass'[j].cur \in Run \X Auth
                        /\ pass'[j].pc = "authorize" => transfer[pass'[j].cur[2]] = "success"
                        /\ pass'[j].pc = "reset" => transfer[pass'[j].cur[2]] = "reverted"
      BY <1>1 DEF PassInv, PassStarts, chainVars
    <3>1. CASE j = k
      BY <2>2, <2>3, <3>1
    <3>2. CASE j # k
      <4>1. pass'[j] = Deposed(pass[j])
        BY <2>2, <3>2
      <4>2. QED
        BY <1>a, <2>4, <4>1 DEF TablesInv, PassInv
    <3>3. QED
      BY <3>1, <3>2
  <2>7. QED
    BY <1>1, <2>5, <2>6, PassStep DEF PassStarts
<1>2. CASE PassReadsReceipt(k)
  <2>1. PICK item \in pass[k].todo, next \in {"list", "reset", "authorize", "mark"} :
          /\ next = "reset" => transfer[item[2]] = "reverted"
          /\ next = "authorize" => transfer[item[2]] = "success"
          /\ pass' = [pass EXCEPT ![k] = [pc |-> next, todo |-> pass[k].todo \ {item}, cur |-> item]]
    BY <1>2 DEF PassReadsReceipt, TransferProved
  <2> DEFINE new == [pc |-> next, todo |-> pass[k].todo \ {item}, cur |-> item]
  <2>2. new \in PassRec /\ new.pc = next /\ new.cur = item /\ item \in Run \X Auth
    BY <1>a, <2>1 DEF PassRec
  <2> HIDE DEF new
  <2>3. pass' = [pass EXCEPT ![k] = new]
    BY <2>1 DEF new
  <2>4. QED
    BY <1>2, <2>1, <2>2, <2>3, OnePass DEF PassReadsReceipt, TransferProved
<1>3. ASSUME NEW pc \in {"list", "mark"}, pass' = [pass EXCEPT ![k].pc = pc],
             pc = "mark" => pass[k].pc = "authorize",
             UNCHANGED <<today, chainVars, hookVars, call, faults>>
      PROVE  TablesInv'
  <2> DEFINE new == [pass[k] EXCEPT !.pc = pc]
  <2>1. new \in PassRec /\ new.pc = pc /\ new.cur = pass[k].cur
    BY <1>0 DEF PassRec
  <2>2. pc = "mark" => new.cur \in Run \X Auth
    BY <1>3, <2>1 DEF TablesInv, PassInv
  <2>3. pass' = [pass EXCEPT ![k] = new]
    BY <1>0, <1>3
  <2> HIDE DEF new
  <2>4. QED
    BY <1>3, <2>1, <2>2, <2>3, OnePass
<1>4. CASE PassResets(k)
  BY <1>3, <1>4 DEF PassResets
<1>5. CASE PassAuthorizes(k)
  BY <1>3, <1>5 DEF PassAuthorizes
<1>6. CASE PassMarks(k)
  BY <1>3, <1>6 DEF PassMarks
<1>7. CASE PassStops(k)
  BY <1>a, <1>7, OnePass DEF PassStops
<1>8. QED
  BY <1>1, <1>2, <1>4, <1>5, <1>6, <1>7 DEF Reconcile

\* A step of the facilitator or the chain, neither of which undoes an outcome.
LEMMA ChainStep ==
    ASSUME TablesInv, UNCHANGED <<asked, hookVars, call, rest>>,
           transfer' \in [Auth -> {"unused", "pending", "success", "stray", "reverted"}],
           chargedFor' \in [Auth -> Run \cup {None}] \/ UNCHANGED chargedFor,
           \A b : transfer[b] \in {"success", "reverted"} => transfer'[b] = transfer[b]
    PROVE  TablesInv'
<1>1. Tables'
  BY DEF TablesInv, Tables, hookVars, rest
<1>2. CallInv' /\ AttemptInv'
  BY DEF TablesInv, CallInv, AttemptInv, hookVars
<1>3. PassInv'
  BY DEF TablesInv, PassInv, rest
<1>4. QED
  BY <1>1, <1>2, <1>3 DEF TablesInv

LEMMA NextTables ==
    ASSUME Inv, Next
    PROVE  TablesInv'
<1>0. TablesInv /\ GoodRecords(run)
  BY DEF Inv, TablesInv
<1>1. ASSUME NEW c \in Call, Arrive(c)
      PROVE  TablesInv'
  <2>1. PICK p \in Proc, r \in Run, a \in Auth :
          call' = [call EXCEPT ![c] = [pc |-> IF run[r].state = "none" THEN "admitNew" ELSE "admit",
                                       home |-> p, run |-> r, auth |-> a, got |-> None]]
    BY <1>1 DEF Arrive
  <2> DEFINE new == [pc |-> IF run[r].state = "none" THEN "admitNew" ELSE "admit",
                     home |-> p, run |-> r, auth |-> a, got |-> None]
  <2>2. /\ new \in CallRec /\ new.pc \in {"admit", "admitNew"}
        /\ new.home \in Proc /\ new.run \in Run /\ new.auth \in Auth
    BY DEF CallRec, CallPc
  <2>3. call' = [call EXCEPT ![c] = new]
    BY <2>1
  <2> HIDE DEF new
  <2>4. call' \in [Call -> CallRec] /\ call'[c] = new /\ \A d \in Call \ {c} : call'[d] = call[d]
    BY <1>0, <2>2, <2>3 DEF TablesInv, Tables
  <2>5. UNCHANGED chainVars /\ UNCHANGED hookVars /\ UNCHANGED rest
    BY <1>1 DEF Arrive
  <2>6. CallsKept
    BY <2>2, <2>4 DEF CallsKept
  <2>7. CallInv'
    BY <1>0, <2>2, <2>4, <2>5 DEF TablesInv, CallInv, chainVars
  <2>8. QED
    BY <1>0, <2>5, <2>6, <2>7, MapsStay, RequestStep DEF TablesInv
<1>2. ASSUME NEW p \in Proc, NEW a \in Auth, AttemptTimesOut(p, a)
      PROVE  TablesInv'
  <2>1. MapsShrink
    BY <1>0, <1>2, CleanupShrinks DEF AttemptTimesOut, TablesInv
  <2>2. CallsKept /\ CallInv'
    BY <1>0, <1>2 DEF AttemptTimesOut, CallsKept, TablesInv, Tables, CallInv, chainVars
  <2>3. QED
    BY <1>0, <1>2, <2>1, <2>2, RequestStep DEF AttemptTimesOut
<1>3. ASSUME NEW a \in Auth, Mine(a)
      PROVE  TablesInv'
  <2>1. /\ transfer' \in [Auth -> {"unused", "pending", "success", "stray", "reverted"}]
        /\ \A b : transfer[b] \in {"success", "reverted"} => transfer'[b] = transfer[b]
    BY <1>0, <1>3 DEF Mine, TablesInv, Tables
  <2>2. UNCHANGED <<asked, chargedFor, hookVars, call, rest>>
    BY <1>3 DEF Mine
  <2>3. QED
    BY <1>0, <2>1, <2>2, ChainStep
<1>8. ASSUME NEW r \in Run, NEW a \in Auth, Broadcast(r, a)
      PROVE  TablesInv'
  <2>1. /\ transfer' \in [Auth -> {"unused", "pending", "success", "stray", "reverted"}]
        /\ chargedFor' \in [Auth -> Run \cup {None}]
        /\ \A b : transfer[b] \in {"success", "reverted"} => transfer'[b] = transfer[b]
    BY <1>0, <1>8 DEF Broadcast, TablesInv, Tables
  <2>2. UNCHANGED <<asked, hookVars, call, rest>>
    BY <1>8 DEF Broadcast
  <2>3. QED
    BY <1>0, <2>1, <2>2, ChainStep
<1>4. ASSUME UNCHANGED <<chainVars, hookVars, call, rest>>
      PROVE  TablesInv'
  BY <1>0, <1>4 DEF TablesInv, Tables, CallInv, AttemptInv, PassInv, chainVars, hookVars, rest
<1>5. CASE NextDay
  <2>1. today' \in 0..MaxDay
    BY <1>0, <1>5, LimitAssumption DEF NextDay, TablesInv, Tables
  <2>2. QED
    BY <1>0, <1>5, <2>1
    DEF NextDay, TablesInv, Tables, CallInv, AttemptInv, PassInv, chainVars, hookVars
<1>6. ASSUME NEW p \in Proc, Crash(p)
      PROVE  TablesInv'
  <2>1. faults' \in 0..MaxFaults
    BY <1>0, <1>6, LimitAssumption DEF Crash, TablesInv, Tables
  <2>2. ASSUME NEW d \in Call
        PROVE  /\ call'[d] \in CallRec /\ call'[d].run = call[d].run
               /\ call'[d] = call[d] \/ call'[d].pc = "done"
    <3>1. call[d] \in CallRec
      BY <1>0 DEF TablesInv, Tables
    <3>2. call'[d] = IF call[d].home = p THEN [call[d] EXCEPT !.pc = "done"] ELSE call[d]
      BY <1>6 DEF Crash
    <3>3. QED
      BY <3>1, <3>2 DEF CallRec, CallPc
  <2>3. call' \in [Call -> CallRec]
    BY <1>6, <2>2 DEF Crash
  <2>4. /\ attempt' \in [Proc -> [Auth -> AttemptRec]]
        /\ inFlight' \in [Proc -> SUBSET Run]
        /\ \A q \in Proc, a \in Auth : attempt'[q][a].by \in {attempt[q][a].by, None}
    <3>1. [a \in Auth |-> NoAttempt] \in [Auth -> AttemptRec] /\ NoAttempt.by = None
      BY DEF NoAttempt, AttemptRec
    <3>2. /\ attempt' = [attempt EXCEPT ![p] = [a \in Auth |-> NoAttempt]]
          /\ inFlight' = [inFlight EXCEPT ![p] = {}]
      BY <1>6 DEF Crash
    <3>3. QED
      BY <1>0, <3>1, <3>2 DEF TablesInv, Tables
  <2>5. CallInv'
    BY <1>0, <1>6, <2>2 DEF TablesInv, CallInv, Crash, chainVars
  <2>6. AttemptInv'
    BY <1>0, <2>2, <2>3, <2>4, AttemptsKept DEF MapsShrink, CallsKept, TablesInv
  <2>7. PassInv'
    BY <1>0, <1>6 DEF TablesInv, PassInv, Crash, chainVars
  <2>8. QED
    BY <1>0, <1>6, <2>1, <2>3, <2>4, <2>5, <2>6, <2>7 DEF TablesInv, Tables, Crash, chainVars
<1>7. QED
  BY <1>0, <1>1, <1>2, <1>3, <1>4, <1>5, <1>6, <1>8, RequestTables, ReconcileTables
  DEF Next, RecoverRun, LeaseLapses

-----------------------------------------------------------------------------
(* What a step may do to the stored records.                               *)

Quiet == today' = today /\ \A q \in Run : Moves(run[q], run'[q])

Opens(r) ==
    /\ today' = today
    /\ run[r].state = "none" /\ run[r].payment = None
    /\ run'[r].state = "payment_required" /\ run'[r].payment = None /\ run'[r].day = today
    /\ \A q \in Run \ {r} : run'[q] = run[q]

Claims(r) == today' = today /\ Claimable(run, r) /\ run' = Claimed(run, r)

Pays(r, a) ==
    /\ today' = today
    /\ transfer[a] = "success" /\ run[r].payment = None
    /\ run'[r].payment = a /\ run'[r].state = "payment_settled" /\ run'[r].day = run[r].day
    /\ Holding(run[r])
    /\ run[r].state = "payment_ambiguous" => run[r].settlement = a
    /\ \A q \in Run \ {r} : Moves(run[q], run'[q]) /\ run[q].payment # a

Forgets(r, k) ==
    /\ today' = today
    /\ pass[k].pc = "reset" /\ pass[k].cur[1] = r /\ transfer[pass[k].cur[2]] = "reverted"
    /\ run'[r].payment = run[r].payment /\ run'[r].day = run[r].day
    /\ run'[r].state = "payment_required"
    /\ \A q \in Run \ {r} : run'[q] = run[q]

Dawns == run' = run /\ today' = today + 1

Change ==
    \/ Quiet
    \/ \E r \in Run : Opens(r) \/ Claims(r)
    \/ \E r \in Run, a \in Auth : Pays(r, a)
    \/ \E r \in Run, k \in Pass : Forgets(r, k)
    \/ Dawns

LEMMA SameRecords ==
    ASSUME GoodRecords(run), UNCHANGED run, UNCHANGED today
    PROVE  GoodRecords(run') /\ Change
BY DEF Change, Quiet, Moves, GoodRecords

LEMMA QuietRecords ==
    ASSUME UNCHANGED today, GoodRecords(run') /\ \A q \in Run : Moves(run[q], run'[q])
    PROVE  GoodRecords(run') /\ Change
BY DEF Change, Quiet

LEMMA PaidRecords ==
    ASSUME GoodRecords(run), UNCHANGED today, NEW r \in Run, NEW a \in Auth,
           transfer[a] = "success", Authorizable(run, r, a), run' = Authorized(run, r, a)
    PROVE  GoodRecords(run') /\ Change
<1>1. /\ GoodRecords(run')
      /\ \A q \in Run \ {r} : Moves(run[q], run'[q]) /\ run[q].payment # a
      /\ \/ Moves(run[r], run'[r])
         \/ /\ run[r].payment = None /\ run'[r].payment = a
            /\ run'[r].state = "payment_settled" /\ run'[r].day = run[r].day
            /\ Holding(run[r])
            /\ run[r].state = "payment_ambiguous" => run[r].settlement = a
  BY AuthorizedRecords
<1>2. CASE Moves(run[r], run'[r])
  BY <1>1, <1>2 DEF Change, Quiet
<1>3. CASE ~Moves(run[r], run'[r])
  <2>1. Pays(r, a)
    BY <1>1, <1>3 DEF Pays
  <2>2. QED
    BY <1>1, <2>1 DEF Change
<1>4. QED
  BY <1>2, <1>3

LEMMA NextRecords ==
    ASSUME Inv, Next
    PROVE  GoodRecords(run') /\ Change
<1>0. GoodRecords(run) /\ TablesInv
  BY DEF Inv, TablesInv
<1>1. ASSUME NEW c \in Call, Request(c)
      PROVE  GoodRecords(run') /\ Change
  <2>a. ASSUME call[c].pc \notin {"idle", "done"}
        PROVE  /\ call[c].run \in Run /\ call[c].auth \in Auth /\ call[c].home \in Proc
               /\ Att(c).by # None => AttRun(c) \in Run
    <3>1. call[c].run \in Run /\ call[c].auth \in Auth /\ call[c].home \in Proc
      BY <1>0, <2>a DEF TablesInv, CallInv
    <3>2. QED
      BY <1>0, <3>1 DEF TablesInv, AttemptInv, Att, AttRun
  <2>1. CASE UNCHANGED <<run, today>>
    BY <1>0, <2>1, SameRecords
  <2>2. CASE Reserve(c)
    <3>1. call[c].run \in Run /\ UNCHANGED today /\ today \in 0..MaxDay
      BY <1>0, <2>2, <2>a DEF Reserve, rest, TablesInv, Tables
    <3>2. run' = Reserved(run, call[c].run)
      BY <2>2 DEF Reserve
    <3> DEFINE r == call[c].run
    <3>3. /\ GoodRecords(run')
          /\ \A q \in Run \ {r} : run'[q] = run[q]
          /\ \/ run'[r] = run[r]
             \/ /\ run[r].state = "none" /\ run[r].payment = None
                /\ run'[r].state = "payment_required" /\ run'[r].payment = None /\ run'[r].day = today
      BY <1>0, <3>1, <3>2, ReservedRecords
    <3>4. CASE run'[r] = run[r]
      BY <3>1, <3>3, <3>4 DEF Change, Quiet, Moves
    <3>5. CASE run'[r] # run[r]
      <4>1. Opens(r)
        BY <3>1, <3>3, <3>5 DEF Opens
      <4>2. QED
        BY <3>1, <3>3, <4>1 DEF Change
    <3>6. QED
      BY <3>4, <3>5
  <2>3. CASE Verified(c) /\ ~UNCHANGED run
    <3>1. /\ AttRun(c) \in Run /\ UNCHANGED today
          /\ Claimable(run, AttRun(c)) /\ run' = Claimed(run, AttRun(c))
      BY <2>3, <2>a DEF Verified, rest
    <3>2. GoodRecords(run')
      BY <1>0, <3>1, ClaimedRecords
    <3>3. Claims(AttRun(c))
      BY <3>1 DEF Claims
    <3>4. QED
      BY <3>1, <3>2, <3>3 DEF Change
  <2>4. CASE (VerifyFailure(c) \/ RefusePayer(c)) /\ ~UNCHANGED run
    <3>1. UNCHANGED today /\ run' = ReleasedRun(run, AttRun(c))
      BY <2>4 DEF VerifyFailure, RefusePayer, rest
    <3>2. QED
      BY <1>0, <3>1, ReleasedRecords, QuietRecords
  <2>5. CASE SettleFailure(c) /\ ~UNCHANGED run
    <3>1. UNCHANGED today /\ run' = Marked(run, AttRun(c))
      BY <2>5 DEF SettleFailure, rest
    <3>2. QED
      BY <1>0, <3>1, MarkedRecords, QuietRecords
  <2>6. CASE RecordSettlement(c)
    <3>1. /\ call[c].run \in Run /\ call[c].auth \in Auth /\ UNCHANGED today
          /\ Recordable(run, call[c].run, call[c].auth)
          /\ run' = Recorded(run, call[c].run, call[c].auth)
      BY <2>6, <2>a DEF RecordSettlement, rest
    <3>2. GoodRecords(run') /\ \A q \in Run : Moves(run[q], run'[q])
      BY <1>0, <3>1, RecordedRecords
    <3>3. QED
      BY <3>1, <3>2, QuietRecords
  <2>7. CASE Authorize(c)
    <3>1. /\ call[c].run \in Run /\ call[c].auth \in Auth /\ UNCHANGED today
          /\ Authorizable(run, call[c].run, call[c].auth)
          /\ run' = Authorized(run, call[c].run, call[c].auth)
          /\ transfer[call[c].auth] = "success"
      BY <1>0, <2>7, <2>a DEF Authorize, rest, TablesInv, CallInv
    <3>2. QED
      BY <1>0, <3>1, PaidRecords
  <2>8. CASE Start(c)
    <3>1. call[c].run \in Run /\ UNCHANGED today /\ run' = Queued(run, call[c].run)
      BY <2>8, <2>a DEF Start, rest
    <3>2. GoodRecords(run') /\ \A q \in Run : Moves(run[q], run'[q])
      BY <1>0, <3>1, QueuedRecords
    <3>3. QED
      BY <3>1, <3>2, QuietRecords
  <2>9. UNCHANGED today
    BY <1>1 DEF Request, Admit, Reserve, Refuse, Verified, Invalid, ClaimReturns, VerifyFailure,
                Abandon, Settle, RefusePayer, SettleReturns, SettleFailure,
                RecordSettlement, Confirm, Authorize, Start, AfterSettleThrows, rest
  <2>10. QED
    BY <1>1, <2>1, <2>2, <2>3, <2>4, <2>5, <2>6, <2>7, <2>8, <2>9
    DEF Request, Admit, Refuse, Verified, Invalid, ClaimReturns, Abandon, Settle, SettleReturns,
        Confirm, AfterSettleThrows
<1>2. ASSUME NEW k \in Pass, Reconcile(k)
      PROVE  GoodRecords(run') /\ Change
  <2>0. UNCHANGED today
    BY <1>2 DEF Reconcile, PassStarts, PassReadsReceipt, PassResets, PassAuthorizes, PassMarks, PassStops
  <2>1. CASE UNCHANGED run
    BY <1>0, <2>0, <2>1, SameRecords
  <2>2. CASE PassResets(k)
    <3> DEFINE r == pass[k].cur[1]
    <3>1. /\ pass[k].pc = "reset" /\ r \in Run /\ transfer[pass[k].cur[2]] = "reverted"
          /\ run' = Reset(run, r)
      BY <1>0, <2>2 DEF PassResets, TablesInv, PassInv
    <3>2. /\ GoodRecords(run')
          /\ \A q \in Run \ {r} : run'[q] = run[q]
          /\ run'[r].payment = run[r].payment /\ run'[r].day = run[r].day
          /\ run'[r] = run[r] \/ run'[r].state = "payment_required"
      BY <1>0, <3>1, ResetRecords
    <3>3. CASE run'[r] = run[r]
      BY <2>0, <3>2, <3>3 DEF Change, Quiet, Moves
    <3>4. CASE run'[r] # run[r]
      <4>1. Forgets(r, k)
        BY <2>0, <3>1, <3>2, <3>4 DEF Forgets
      <4>2. QED
        BY <3>1, <3>2, <4>1 DEF Change
    <3>5. QED
      BY <3>3, <3>4
  <2>3. CASE PassAuthorizes(k) /\ ~UNCHANGED run
    <3> DEFINE r == pass[k].cur[1]
               a == pass[k].cur[2]
    <3>1. /\ r \in Run /\ a \in Auth /\ transfer[a] = "success"
          /\ Authorizable(run, r, a) /\ run' = Authorized(run, r, a)
      BY <1>0, <2>3 DEF PassAuthorizes, TablesInv, PassInv
    <3> HIDE DEF r, a
    <3>2. QED
      BY <1>0, <2>0, <3>1, PaidRecords
  <2>4. CASE PassMarks(k)
    <3>1. run' = Marked(run, pass[k].cur[1])
      BY <2>4 DEF PassMarks
    <3>2. QED
      BY <1>0, <2>0, <3>1, MarkedRecords, QuietRecords
  <2>5. QED
    BY <1>2, <2>1, <2>2, <2>3, <2>4 DEF Reconcile, PassStarts, PassReadsReceipt, PassStops
<1>3. ASSUME NEW r \in Run, RecoverRun(r)
      PROVE  GoodRecords(run') /\ Change
  <2>1. UNCHANGED today /\ run' = Queued(run, r)
    BY <1>3 DEF RecoverRun, rest
  <2>2. GoodRecords(run') /\ \A q \in Run : Moves(run[q], run'[q])
    BY <1>0, <2>1, QueuedRecords
  <2>3. QED
    BY <2>1, <2>2, QuietRecords
<1>4. ASSUME NEW r \in Run, LeaseLapses(r)
      PROVE  GoodRecords(run') /\ Change
  <2> DEFINE new == [run[r] EXCEPT !.lease = "lapsed"]
  <2>1. /\ run \in [Run -> RunRec] /\ run[r] \in RunRec /\ Sound(run[r])
        /\ run[r].state = "settlement_claimed" /\ UNCHANGED today
    BY <1>0, <1>4 DEF GoodRecords, LeaseLapses, rest
  <2>2. run' = [run EXCEPT ![r] = new]
    BY <1>4, <2>1 DEF LeaseLapses
  <2>3. new \in RunRec /\ Sound(new) /\ Moves(run[r], new)
    BY <2>1 DEF RunRec, RunState, Sound, Moves, Holding
  <2> HIDE DEF new
  <2>4. run' \in [Run -> RunRec] /\ run'[r] = new /\ \A q \in Run \ {r} : run'[q] = run[q]
    BY <2>1, <2>2, <2>3
  <2>5. GoodRecords(run') /\ \A q \in Run : Moves(run[q], run'[q])
    BY <1>0, <2>3, <2>4 DEF GoodRecords, Moves
  <2>6. QED
    BY <2>1, <2>5, QuietRecords
<1>5. CASE NextDay
  <2>1. run' = run /\ today' = today + 1
    BY <1>5 DEF NextDay
  <2>2. QED
    BY <1>0, <2>1 DEF Change, Dawns
<1>6. CASE UNCHANGED <<run, today>>
  BY <1>0, <1>6, SameRecords
<1>7. QED
  BY <1>1, <1>2, <1>3, <1>4, <1>5, <1>6
  DEF Next, Arrive, AttemptTimesOut, Broadcast, Mine, Crash, rest

-----------------------------------------------------------------------------
(* Capacity.                                                               *)

LEMMA CountedFinite ==
    ASSUME NEW S \in SUBSET Run
    PROVE  IsFiniteSet(S) /\ Cardinality(S) \in Nat
BY FiniteAssumption, FS_Subset, FS_CardinalityType

LEMMA NoMoreCounted ==
    ASSUME CapacityHolds, Counted(run)' \in SUBSET Counted(run)
    PROVE  CapacityHolds'
<1>1. Counted(run) \in SUBSET Run
  BY DEF Counted
<1>2. IsFiniteSet(Counted(run)) /\ Cardinality(Counted(run)) \in Nat
  BY <1>1, CountedFinite
<1>3. IsFiniteSet(Counted(run)') /\ Cardinality(Counted(run)') \in Nat
  BY <1>1, CountedFinite
<1>4. Cardinality(Counted(run)') <= Cardinality(Counted(run))
  BY <1>2, FS_Subset
<1>5. QED
  BY <1>2, <1>3, <1>4, LimitAssumption DEF CapacityHolds

LEMMA NextCapacity ==
    ASSUME Inv, Next
    PROVE  CapacityHolds' /\ DayInv'
<1>0. /\ GoodRecords(run) /\ GoodRecords(run') /\ Change
      /\ CapacityHolds /\ DayInv /\ today \in 0..MaxDay
  BY NextRecords DEF Inv, Tables
<1>a. \A q \in Run : run[q].day \in Nat /\ run'[q].day \in Nat /\ today \in Nat
  BY <1>0, LimitAssumption DEF GoodRecords, RunRec
<1>1. CASE Quiet
  <2>1. Counted(run)' \in SUBSET Counted(run)
    BY <1>1 DEF Quiet, Moves, Holding, Counted
  <2>2. DayInv'
    BY <1>0, <1>1 DEF Quiet, Moves, DayInv
  <2>3. QED
    BY <1>0, <2>1, <2>2, NoMoreCounted
<1>2. ASSUME NEW r \in Run, Opens(r)
      PROVE  CapacityHolds' /\ DayInv'
  <2>1. Counted(run)' \in SUBSET Counted(run)
    BY <1>2 DEF Opens, Counted
  <2>2. DayInv'
    BY <1>0, <1>a, <1>2 DEF Opens, DayInv
  <2>3. QED
    BY <1>0, <2>1, <2>2, NoMoreCounted
<1>3. ASSUME NEW r \in Run, Claims(r)
      PROVE  CapacityHolds' /\ DayInv'
  <2> DEFINE C == Counted(Expired(run))
  <2>1. /\ today' = today /\ Cardinality(C) < Limit
        /\ \A q \in Run \ {r} : run'[q] = Expired(run)[q]
        /\ run'[r].day = run[r].day
    BY <1>0, <1>3, ClaimedRecords DEF Claims, Claimable
  <2>2. C \in SUBSET Run /\ Counted(run)' \in SUBSET (C \cup {r})
    BY <2>1 DEF Counted
  <2>3. IsFiniteSet(C) /\ Cardinality(C) \in Nat
    BY <2>2, CountedFinite
  <2>4. /\ IsFiniteSet(C \cup {r}) /\ Cardinality(C \cup {r}) \in Nat
        /\ Cardinality(C \cup {r}) <= Cardinality(C) + 1
    BY <2>3, FS_AddElement
  <2>5. Cardinality(Counted(run)') \in Nat /\ Cardinality(Counted(run)') <= Cardinality(C \cup {r})
    BY <2>2, <2>4, FS_Subset, FS_CardinalityType
  <2> HIDE DEF C
  <2>6. CapacityHolds'
    BY <2>1, <2>3, <2>4, <2>5, LimitAssumption DEF CapacityHolds
  <2>7. DayInv'
    <3>1. \A q \in Run : run'[q].day = run[q].day
      BY <1>0, <2>1, ExpiredRecords DEF Moves
    <3>2. QED
      BY <1>0, <2>1, <3>1 DEF DayInv
  <2>8. QED
    BY <2>6, <2>7
<1>4. ASSUME NEW r \in Run, NEW a \in Auth, Pays(r, a)
      PROVE  CapacityHolds' /\ DayInv'
  <2>1. Counted(run)' \in SUBSET Counted(run)
    BY <1>4 DEF Pays, Moves, Holding, Counted
  <2>2. DayInv'
    BY <1>0, <1>4 DEF Pays, Moves, DayInv
  <2>3. QED
    BY <1>0, <2>1, <2>2, NoMoreCounted
<1>5. ASSUME NEW r \in Run, NEW k \in Pass, Forgets(r, k)
      PROVE  CapacityHolds' /\ DayInv'
  <2>1. Counted(run)' \in SUBSET Counted(run)
    BY <1>5 DEF Forgets, Counted
  <2>2. DayInv'
    BY <1>0, <1>5 DEF Forgets, DayInv
  <2>3. QED
    BY <1>0, <2>1, <2>2, NoMoreCounted
<1>6. CASE Dawns
  <2>1. ASSUME NEW q \in Run
        PROVE  run'[q].day <= today /\ run'[q].day # today'
    BY <1>0, <1>a, <1>6 DEF Dawns, DayInv
  <2>2. Counted(run)' = {}
    BY <2>1 DEF Counted
  <2>3. Counted(run)' \in SUBSET Counted(run)
    BY <2>2
  <2>4. DayInv'
    BY <1>a, <1>6, <2>1 DEF Dawns, DayInv
  <2>5. QED
    BY <1>0, <2>3, <2>4, NoMoreCounted
<1>7. QED
  BY <1>0, <1>1, <1>2, <1>3, <1>4, <1>5, <1>6 DEF Change

-----------------------------------------------------------------------------
(* The invariant, and the theorems it gives.                               *)

LEMMA InitInv == Init => Inv
<1> SUFFICES ASSUME Init PROVE Inv
  OBVIOUS
<1>1. NoRun \in RunRec /\ Sound(NoRun) /\ NoRun.day = 0 /\ NoRun.state = "none"
  BY LimitAssumption DEF NoRun, RunRec, RunState, Sound
<1>2. GoodRecords(run) /\ DayInv
  BY <1>1 DEF Init, GoodRecords, DayInv
<1>3. Tables
  BY LimitAssumption
  DEF Init, Tables, NoAttempt, AttemptRec, NoCall, CallRec, CallPc, NoPass, PassRec
<1>4. CallInv /\ AttemptInv /\ PassInv
  BY DEF Init, CallInv, NoCall, AttemptInv, NoAttempt, PassInv, NoPass
<1>5. CapacityHolds
  <2>1. Counted(run) = {}
    BY <1>1 DEF Init, Counted
  <2>2. QED
    BY <2>1, FS_EmptySet, LimitAssumption DEF CapacityHolds
<1>6. QED
  BY <1>2, <1>3, <1>4, <1>5 DEF Inv

LEMMA NextInv == Inv /\ [Next]_vars => Inv'
<1> SUFFICES ASSUME Inv, [Next]_vars PROVE Inv'
  OBVIOUS
<1>1. CASE Next
  BY <1>1, NextTables, NextRecords, NextCapacity DEF Inv, TablesInv, GoodRecords
<1>2. CASE UNCHANGED vars
  BY <1>2 DEF vars, Inv, GoodRecords, Tables, CallInv, AttemptInv, PassInv, DayInv,
              CapacityHolds, Counted
<1>3. QED
  BY <1>1, <1>2

LEMMA Invariance == Spec => []Inv
<1>1. QED
  BY InitInv, NextInv, PTL DEF Spec

\* The records, the hooks' maps, the requests and the passes keep their types
\* whatever the number of requests, processes, passes and crashes.
THEOREM TypeCorrect == Spec => []TypeOK
<1>1. Inv => TypeOK
  BY DEF Inv, GoodRecords, Tables, TypeOK
<1>2. QED
  BY <1>1, Invariance, PTL

\* State, lease, settlement and payment of a stored run agree, after whatever
\* hooks and passes have written to it.
THEOREM RecordsAgree == Spec => []RecordConsistent
<1>1. Inv => RecordConsistent
  BY DEF Inv, GoodRecords, Sound, RecordConsistent
<1>2. QED
  BY <1>1, Invariance, PTL

\* The daily limit holds for every limit and every number of runs, over midnight
\* and while leases lapse.
THEOREM Capacity == Spec => []CapacityHolds
<1>1. Inv => CapacityHolds
  BY DEF Inv
<1>2. QED
  BY <1>1, Invariance, PTL

LEMMA ClaimsPaysNothing ==
    ASSUME Inv, NEW r \in Run, Claims(r)
    PROVE  /\ \A q \in Run : run'[q].payment = run[q].payment
           /\ \A q \in Run \ {r} : Moves(run[q], run'[q])
           /\ run[r].state # "payment_ambiguous"
<1>1. /\ \A q \in Run \ {r} : run'[q] = Expired(run)[q]
      /\ run'[r].payment = run[r].payment /\ run[r].state # "payment_ambiguous"
  BY ClaimedRecords DEF Claims, Inv
<1>2. \A q \in Run : Moves(run[q], Expired(run)[q])
  BY ExpiredRecords DEF Inv
<1>3. QED
  BY <1>1, <1>2 DEF Moves

\* The body of AmbiguousResolvedByChain.
ResolvedStep ==
    \A r \in Run :
        run[r].state = "payment_ambiguous" =>
            \/ /\ run'[r].state = "payment_ambiguous"
               /\ run[r].settlement # None => run'[r].settlement = run[r].settlement
            \/ /\ run'[r].state = "payment_settled"
               /\ run'[r].payment = run[r].settlement
               /\ transfer[run[r].settlement] = "success"
            \/ /\ run'[r].state = "payment_required"
               /\ \E k \in Pass :
                    /\ pass[k].pc = "reset" /\ pass[k].cur[1] = r
                    /\ transfer[pass[k].cur[2]] = "reverted"

\* With any number of passes, of living or deposed leaders, writing late.
THEOREM ResolvedByChain == Spec => AmbiguousResolvedByChain
<1>1. ASSUME Inv, Next
      PROVE  ResolvedStep
  <2>1. CASE Quiet
    BY <2>1 DEF Quiet, Moves, ResolvedStep
  <2>2. ASSUME NEW r \in Run, Opens(r)
        PROVE  ResolvedStep
    BY <2>2 DEF Opens, ResolvedStep
  <2>3. ASSUME NEW r \in Run, Claims(r)
        PROVE  ResolvedStep
    BY <1>1, <2>3, ClaimsPaysNothing DEF Moves, ResolvedStep
  <2>4. ASSUME NEW r \in Run, NEW a \in Auth, Pays(r, a)
        PROVE  ResolvedStep
    BY <2>4 DEF Pays, Moves, ResolvedStep
  <2>5. ASSUME NEW r \in Run, NEW k \in Pass, Forgets(r, k)
        PROVE  ResolvedStep
    BY <2>5 DEF Forgets, ResolvedStep
  <2>6. CASE Dawns
    BY <2>6 DEF Dawns, ResolvedStep
  <2>7. QED
    BY <1>1, <2>1, <2>2, <2>3, <2>4, <2>5, <2>6, NextRecords DEF Change
<1>2. Inv /\ [Next]_vars => [ResolvedStep]_vars
  BY <1>1
<1>3. QED
  BY <1>2, Invariance, PTL DEF Spec, AmbiguousResolvedByChain, ResolvedStep

-----------------------------------------------------------------------------
(* InboundPayment implements PaymentLedger.                                *)

LedgerVars == <<[r \in Run |-> run[r].payment], transfer>>

LEMMA LedgerSame ==
    ASSUME Inv, \A q \in Run : run'[q].payment = run[q].payment, UNCHANGED transfer
    PROVE  UNCHANGED LedgerVars
<1>1. [q \in Run |-> run'[q].payment] = [q \in Run |-> run[q].payment]
  OBVIOUS
<1>2. QED
  BY <1>1 DEF LedgerVars

LEMMA PaysIsPay ==
    ASSUME Inv, NEW r \in Run, NEW a \in Auth, Pays(r, a), UNCHANGED transfer
    PROVE  Ledger!Pay(r, a)
<1> DEFINE paid == [q \in Run |-> run[q].payment]
           paidNext == [q \in Run |-> run'[q].payment]
<1>1. /\ paid[r] = None /\ transfer[a] = "success"
      /\ paidNext[r] = a
      /\ \A q \in Run \ {r} : paidNext[q] = paid[q] /\ paid[q] # a
  BY DEF Pays, Moves
<1>2. \A q \in Run : paid[q] # a
  BY <1>1, NoneAssumption
<1>3. paidNext = [paid EXCEPT ![r] = a]
  BY <1>1
<1>4. QED
  BY <1>1, <1>2, <1>3 DEF Ledger!Pay

\* Only the facilitator and the chain change a transfer, and neither the records.
LEMMA TransferStep ==
    ASSUME Inv, Next
    PROVE  \/ UNCHANGED transfer
           \/ UNCHANGED run /\ \E a \in Auth : Ledger!Send(a) \/ Ledger!Mine(a)
<1>1. ASSUME NEW c \in Call, Request(c)
      PROVE  UNCHANGED transfer
  BY <1>1 DEF Request, Admit, Reserve, Refuse, Verified, Invalid, ClaimReturns, VerifyFailure,
              Abandon, Settle, RefusePayer, SettleReturns, SettleFailure,
              RecordSettlement, Confirm, Authorize, Start, AfterSettleThrows, chainVars
<1>2. ASSUME NEW k \in Pass, Reconcile(k)
      PROVE  UNCHANGED transfer
  BY <1>2 DEF Reconcile, PassStarts, PassReadsReceipt, PassResets, PassAuthorizes, PassMarks,
              PassStops, chainVars
<1>3. ASSUME NEW a \in Auth, Mine(a)
      PROVE  UNCHANGED run /\ Ledger!Mine(a)
  BY <1>3 DEF Mine, Ledger!Mine
<1>4. ASSUME NEW r \in Run, NEW a \in Auth, Broadcast(r, a)
      PROVE  UNCHANGED run /\ Ledger!Send(a)
  BY <1>4 DEF Broadcast, Ledger!Send
<1>5. QED
  BY <1>1, <1>2, <1>3, <1>4
  DEF Next, Arrive, AttemptTimesOut, RecoverRun, LeaseLapses, Crash, NextDay, chainVars

\* A run is paid once and for all, by one successful transfer that pays for no
\* other run: authorizeRun and the reconciliation implement PaymentLedger.
THEOREM Refinement == Spec => ImplementsPaymentLedger
<1>1. Init => Ledger!Init
  BY DEF Init, NoRun, Ledger!Init
<1>2. ASSUME Inv, Next
      PROVE  Ledger!Next \/ UNCHANGED LedgerVars
  <2>1. CASE UNCHANGED run /\ \E a \in Auth : Ledger!Send(a) \/ Ledger!Mine(a)
    BY <2>1 DEF Ledger!Next
  <2>2. CASE UNCHANGED transfer
    <3>1. CASE Quiet
      BY <1>2, <2>2, <3>1, LedgerSame DEF Quiet, Moves
    <3>2. ASSUME NEW r \in Run, Opens(r)
          PROVE  UNCHANGED LedgerVars
      <4>1. \A q \in Run : run'[q].payment = run[q].payment
        BY <3>2 DEF Opens
      <4>2. QED
        BY <1>2, <2>2, <4>1, LedgerSame
    <3>3. ASSUME NEW r \in Run, Claims(r)
          PROVE  UNCHANGED LedgerVars
      <4>1. \A q \in Run : run'[q].payment = run[q].payment
        BY <1>2, <3>3, ClaimsPaysNothing
      <4>2. QED
        BY <1>2, <2>2, <4>1, LedgerSame
    <3>4. ASSUME NEW r \in Run, NEW a \in Auth, Pays(r, a)
          PROVE  Ledger!Next
      BY <1>2, <2>2, <3>4, PaysIsPay DEF Ledger!Next
    <3>5. ASSUME NEW r \in Run, NEW k \in Pass, Forgets(r, k)
          PROVE  UNCHANGED LedgerVars
      <4>1. \A q \in Run : run'[q].payment = run[q].payment
        BY <3>5 DEF Forgets
      <4>2. QED
        BY <1>2, <2>2, <4>1, LedgerSame
    <3>6. CASE Dawns
      BY <1>2, <2>2, <3>6, LedgerSame DEF Dawns
    <3>7. QED
      BY <1>2, <3>1, <3>2, <3>3, <3>4, <3>5, <3>6, NextRecords DEF Change
  <2>3. QED
    BY <1>2, <2>1, <2>2, TransferStep
<1>3. UNCHANGED vars => UNCHANGED LedgerVars
  BY DEF vars, LedgerVars
<1>4. Inv /\ [Next]_vars => [Ledger!Next]_LedgerVars
  BY <1>2, <1>3
<1>5. QED
  BY <1>1, <1>4, Invariance, PTL DEF Spec, ImplementsPaymentLedger, Ledger!Spec, LedgerVars
=============================================================================

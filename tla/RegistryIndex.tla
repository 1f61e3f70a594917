---------------------------- MODULE RegistryIndex ----------------------------
(***************************************************************************)
(* The read side of the registry service (chain/registry.ts): how a run is *)
(* located and verified on chain, and how the database index of published  *)
(* passports is rebuilt from the registry's logs, pass by pass, behind a   *)
(* cursor that overlaps what the last pass saw.                            *)
(*                                                                         *)
(* `chain` is the sequence of blocks since the registry's deployment, each *)
(* with its timestamp and the run whose RunPublished event it holds.  RPC  *)
(* nodes may lag the head by up to Lag blocks, any read may fail, and the  *)
(* newest blocks may be replaced (a reorganisation): a block that Depth    *)
(* others have followed is final.  The database is not trusted: a          *)
(* finalized row may be altered or lost.                                   *)
(***************************************************************************)
EXTENDS PassportGate, Sequences, FiniteSets, SequencesExt

CONSTANTS
    Run,            \* run ids
    Evidence,       \* what a run may publish: identity, status, gates, paid,
                    \* priced, generated, and form: "sound" when it verifies, otherwise
                    \* "unsettled" (a transfer is missing), "flawed" or "unreadable"
    Overlap,        \* 12 blocks in rebuildIndex
    ChunkSize,      \* 100 blocks in getLogsChunked
    Lag,            \* how far behind the head an RPC node may answer
    Depth,          \* how many of the newest blocks a reorganisation may replace
    MaxBlock, MaxTime, MaxFaults    \* bounds of the model

ASSUME RegistryIndexAssumption ==
    /\ {Overlap, Lag, Depth} \subseteq Nat
    /\ ChunkSize \in Nat \ {0}
    /\ Lag + Depth <= Overlap
    /\ {MaxTime, MaxFaults} \subseteq Nat /\ MaxBlock \in Nat \ {0}
    /\ None \notin Run \cup Evidence
    /\ \A e \in Evidence : e.generated \in Nat

VARIABLES
    chain,      \* Seq([time, run])
    head,       \* the highest block there has been
    published,  \* run -> what it published, None before
    db,         \* run -> its finalized record; None while it has none
    cursor,     \* the saved chain cursor, 0 when there is none
    pass,       \* the index pass in progress
    now,        \* the server's clock
    faults,     \* reorganisations, tamperings and unread transfers left
    spoiled     \* runs whose row was tampered with, or quarantined on a failed read

vars == <<chain, head, published, db, cursor, pass, now, faults, spoiled>>

-----------------------------------------------------------------------------
(* Reading the chain                                                       *)

Views       == {v \in 0..Len(chain) : v >= Len(chain) - Lag}   \* heads an RPC node may know
OnChain(r)  == \E b \in DOMAIN chain : chain[b].run = r
Position(r) == CHOOSE b \in DOMAIN chain : chain[b].run = r

\* Mutant of FirstBlockAtOrAfter: the search never looks past the latest block.
FirstBlockAtOrAfterClosed(time, latest) ==
    LET search[w \in [low : 1..latest + 1, high : 1..latest + 1]] ==
            LET middle == w.low + (w.high - w.low) \div 2
            IN  IF w.low >= w.high THEN w.low
                ELSE search[IF chain[middle].time < time THEN [low |-> middle + 1, high |-> w.high]
                            ELSE [low |-> w.low, high |-> middle]]
    IN  search[[low |-> 1, high |-> latest]]

\* The binary search over a window of blocks; deployment is block 1.
FirstBlockAtOrAfter(time, latest) ==
    LET search[w \in [low : 1..latest + 1, high : 1..latest + 1]] ==
            LET middle == w.low + (w.high - w.low) \div 2
            IN  IF w.low >= w.high THEN w.low
                ELSE search[IF chain[middle].time < time THEN [low |-> middle + 1, high |-> w.high]
                            ELSE [low |-> w.low, high |-> middle]]
    IN  search[[low |-> 1, high |-> latest + 1]]

\* The blocks whose logs are searched for a run anchored at `time`.
BlocksAt(time, latest) ==
    LET start == FirstBlockAtOrAfter(time, latest)
        after == FirstBlockAtOrAfter(time + 1, latest)
    IN  IF start > latest \/ (start <= latest /\ chain[start].time # time) THEN {}
        ELSE start..(IF after > latest THEN latest ELSE after - 1)

\* getLogsChunked: ranges of ChunkSize blocks, the last one cut at `to`.
Ranges(from, to) ==
    [i \in 1..(IF from > to THEN 0 ELSE (to - from) \div ChunkSize + 1) |->
        LET start == from + (i - 1) * ChunkSize
            end   == start + ChunkSize - 1
        IN  [from |-> start, to |-> IF end > to THEN to ELSE end]]

\* The runs of the RunPublished events of one range, as a node at `view` has them.
LogsIn(range, view) ==
    LET last == IF range.to > view THEN view ELSE range.to
        logs[b \in 0..last] ==
            IF b < range.from THEN <<>>
            ELSE IF chain[b].run = None THEN logs[b - 1]
            ELSE Append(logs[b - 1], chain[b].run)
    IN  logs[last]

GetLogs(from, to, view) ==
    FlattenSeq([i \in DOMAIN Ranges(from, to) |-> LogsIn(Ranges(from, to)[i], view)])

-----------------------------------------------------------------------------
(* Verifying one run                                                       *)

NotFound == [found |-> FALSE, match |-> FALSE, transfers |-> FALSE, anchored |-> None,
             evidence |-> None, cacheMatch |-> FALSE]

\* The receipt of the hinted transaction: a stray one holds no event of this run.
InReceipt(hint) == hint = "own"

\* Where the event is looked for: the hinted transaction when the row names one,
\* the anchored timestamp otherwise.
Located(r, hint, view) ==
    /\ OnChain(r) /\ Position(r) <= view
    /\ IF hint = None THEN Position(r) \in BlocksAt(chain[Position(r)].time, view) ELSE InReceipt(hint)

\* The record agrees with its event, its declaration and itself.  What a run
\* published never changes; the settlements it names lie in other blocks, and one
\* whose block was replaced by another is a transfer that is not read, below.
Sound(e) == e.form = "sound"

\* load: nothing is recovered from evidence that does not parse; the rest is
\* recomputed, and matches when the record is sound and its transfers are found.
Load(r, hint, view, transfersRead) ==
    LET e == published[r]
    IN  IF ~Located(r, hint, view) \/ e.form = "unreadable" THEN NotFound
        ELSE [NotFound EXCEPT !.found = TRUE, !.match = (Sound(e) /\ transfersRead),
                              !.transfers = (e.form # "unsettled" /\ transfersRead),
                              !.anchored = chain[Position(r)].time, !.evidence = e]

Finalized(r) == db[r] # None

\* recordFromChain
RecordOf(e) == [evidence |-> e, own |-> TRUE, hint |-> "own", published |-> TRUE, generated |-> e.generated]
Record(r)   == RecordOf(published[r])

ASSUME RecordAssumption == \A e \in Evidence : RecordOf(e) # None

\* readPublishedRun: a record rebuilt from the chain, or nothing; an error of the
\* lookup or of a read is nothing too.
ReadPublishedRun(r, hint, view, transfersRead) ==
    IF Load(r, hint, view, transfersRead).match THEN Record(r) ELSE None

\* Mutant of Shown: what the chain does not prove is shown from the row.
ShownCached(r, view, transfersRead) ==
    LET run == ReadPublishedRun(r, None, view, transfersRead) IN IF run # None THEN run ELSE db[r]

\* The passport that GET /runs/:runId and get_service_passport show of a run; the
\* row only names the transaction to look in.
Shown(r, view, transfersRead) ==
    ReadPublishedRun(r, IF Finalized(r) THEN db[r].hint ELSE None, view, transfersRead)

\* What GET /runs and /status list: the rows of the finalized runs.
RecentRuns == {r \in Run : Finalized(r)}
ListedRow(r) == db[r]

-----------------------------------------------------------------------------
(* The environment: blocks, the clock, reorganisations, the database's     *)
(* owner, and the writer that publishes and finalizes                      *)

Idle == [pc |-> "idle", latest |-> 0, queue |-> <<>>]

Init ==
    /\ chain = <<[time |-> 0, run |-> None]>> /\ head = 1
    /\ published = [r \in Run |-> None]
    /\ db = [r \in Run |-> None]
    /\ cursor = 0 /\ pass = Idle /\ now = 0
    /\ faults = MaxFaults
    /\ spoiled = {}

Tick ==
    /\ now < MaxTime /\ now' = now + 1
    /\ UNCHANGED <<chain, head, published, db, cursor, pass, faults, spoiled>>

\* Several blocks may share a timestamp.
NewBlock(r) ==
    /\ Len(chain) < MaxBlock
    /\ chain' = Append(chain, [time |-> now, run |-> r])
    /\ head' = IF Len(chain) < head THEN head ELSE Len(chain) + 1

MineEmpty ==
    /\ NewBlock(None)
    /\ UNCHANGED <<published, db, cursor, pass, now, faults, spoiled>>

\* A run is published by this deployment or by one whose database was lost.
Publish(r) ==
    /\ published[r] = None
    /\ NewBlock(r)
    /\ \E e \in Evidence : published' = [published EXCEPT ![r] = e]
    /\ UNCHANGED <<db, cursor, pass, now, faults, spoiled>>

\* The writer finalizes what it published once the record verifies.
Finalize(r) ==
    /\ ~Finalized(r) /\ OnChain(r) /\ Sound(published[r])
    /\ db' = [db EXCEPT ![r] = Record(r)]
    /\ UNCHANGED <<chain, head, published, cursor, pass, now, faults, spoiled>>

\* All blocks that are not final are replaced; a run they held may be mined again.
Reorganise ==
    /\ faults > 0 /\ head > Depth /\ Len(chain) > head - Depth
    /\ chain' = SubSeq(chain, 1, head - Depth)
    /\ faults' = faults - 1
    /\ UNCHANGED <<head, published, db, cursor, pass, now, spoiled>>

Remine(r) ==
    /\ published[r] # None /\ ~OnChain(r)
    /\ NewBlock(r)
    /\ UNCHANGED <<published, db, cursor, pass, now, faults, spoiled>>

\* A finalized row is lost or altered behind the service's back.
Altered(row) ==
    {None, [row EXCEPT !.published = FALSE],
     [row EXCEPT !.own = FALSE, !.evidence.status = "verified",
                 !.evidence.gates = [i \in Gate |-> "pass"]]}
        \cup {[row EXCEPT !.hint = h] : h \in {"stray", "missing"}}

Tamper(r) ==
    /\ faults > 0 /\ Finalized(r)
    /\ \E row \in Altered(db[r]) : db' = [db EXCEPT ![r] = row]
    /\ faults' = faults - 1
    /\ spoiled' = spoiled \cup {r}
    /\ UNCHANGED <<chain, head, published, cursor, pass, now>>

Environment ==
    \/ Tick \/ MineEmpty \/ Reorganise
    \/ \E r \in Run : Publish(r) \/ Finalize(r) \/ Remine(r) \/ Tamper(r)

-----------------------------------------------------------------------------
(* rebuildIndex                                                            *)

\* Mutant of FromBlock: the next pass starts after what the last one saw.
FromBlockAfter(c) == c + 1

FromBlock(c) == IF c > Overlap THEN c - Overlap ELSE 1

\* The head and the logs may be answered by different nodes.
BeginPass ==
    /\ pass.pc = "idle"
    /\ \E latest \in Views \ {0}, view \in Views :
           pass' = [pc |-> "scan", latest |-> latest, queue |-> GetLogs(FromBlock(cursor), latest, view)]
    /\ UNCHANGED <<chain, head, published, db, cursor, now, faults, spoiled>>

Scanning == pass.pc = "scan" /\ pass.queue # <<>>

\* A record that does not verify is quarantined: skipped, and the pass goes on.
Quarantine ==
    /\ Scanning
    /\ \E view \in Views : ~Load(Head(pass.queue), None, view, TRUE).match
    /\ pass' = [pass EXCEPT !.queue = Tail(@)]
    /\ UNCHANGED <<chain, head, published, db, cursor, now, faults, spoiled>>

\* So is one whose transfers could not be read, or are in another block than they
\* were: either counts as a mismatch.
QuarantineUnread ==
    /\ Scanning /\ faults > 0
    /\ \E view \in Views : ~Load(Head(pass.queue), None, view, FALSE).match
    /\ pass' = [pass EXCEPT !.queue = Tail(@)]
    /\ faults' = faults - 1
    /\ spoiled' = spoiled \cup {Head(pass.queue)}
    /\ UNCHANGED <<chain, head, published, db, cursor, now>>

\* Mutant of IndexRecord: what the row says is kept, not what the chain says.
IndexRecordAny ==
    /\ Scanning
    /\ LET r == Head(pass.queue)
       IN  db' = IF Finalized(r) \/ ~OnChain(r) THEN db ELSE [db EXCEPT ![r] = Record(r)]
    /\ pass' = [pass EXCEPT !.queue = Tail(@)]
    /\ UNCHANGED <<chain, head, published, cursor, now, faults, spoiled>>

\* A verified record is saved; a finalized row with the same evidence stays as it is.
IndexRecord ==
    /\ Scanning
    /\ LET r == Head(pass.queue)
       IN  /\ \E view \in Views : Load(r, None, view, TRUE).match
           /\ Finalized(r) => db[r].own
           /\ db' = IF Finalized(r) THEN db ELSE [db EXCEPT ![r] = Record(r)]
    /\ pass' = [pass EXCEPT !.queue = Tail(@)]
    /\ UNCHANGED <<chain, head, published, cursor, now, faults, spoiled>>

\* "Finalized run cannot be overwritten with different evidence" ends the pass.
IndexConflict ==
    /\ Scanning
    /\ LET r == Head(pass.queue)
       IN  /\ \E view \in Views : Load(r, None, view, TRUE).match
           /\ Finalized(r) /\ ~db[r].own
    /\ pass' = Idle
    /\ UNCHANGED <<chain, head, published, db, cursor, now, faults, spoiled>>

\* A failed RPC read or a lost lease ends the pass; the cursor stays.
AbortPass ==
    /\ pass.pc = "scan" /\ pass' = Idle
    /\ UNCHANGED <<chain, head, published, db, cursor, now, faults, spoiled>>

\* Mutant of EndPass: the block after the last one scanned is saved.
EndPassNext ==
    /\ pass.pc = "scan" /\ pass.queue = <<>>
    /\ cursor' = pass.latest + 1 /\ pass' = Idle
    /\ UNCHANGED <<chain, head, published, db, now, faults, spoiled>>

EndPass ==
    /\ pass.pc = "scan" /\ pass.queue = <<>>
    /\ cursor' = pass.latest /\ pass' = Idle
    /\ UNCHANGED <<chain, head, published, db, now, faults, spoiled>>

RebuildIndex == BeginPass \/ Quarantine \/ QuarantineUnread \/ IndexRecord \/ IndexConflict \/ AbortPass \/ EndPass

IndexNext == Environment \/ RebuildIndex
IndexSpec == Init /\ [][IndexNext]_vars

-----------------------------------------------------------------------------
(* Properties                                                              *)

\* The shape of the chain, the rows and the pass; the cursor never passes the head.
TypeOK ==
    /\ \A b \in DOMAIN chain : chain[b].time \in 0..now /\ chain[b].run \in Run \cup {None}
    /\ published \in [Run -> Evidence \cup {None}]
    /\ \A r \in Run : db[r] # None =>
          db[r].hint \in {"own", "stray", "missing"} /\ (db[r].own => db[r].evidence \in Evidence)
    /\ {cursor, head} \subseteq 0..MaxBlock
    /\ pass.pc \in {"idle", "scan"} /\ pass.latest \in 0..MaxBlock /\ ToSet(pass.queue) \subseteq Run
    /\ now \in 0..MaxTime /\ faults \in 0..MaxFaults /\ spoiled \subseteq Run

\* Every run the chain proves, up to the overlap below the cursor, has its
\* finalized row, unless the row was tampered with or a transfer could not be
\* read when the pass came by: lagging nodes, failed passes and reorganisations
\* leave no hole in the index (rebuildIndex).
IndexComplete ==
    \A r \in Run :
        OnChain(r) /\ Sound(published[r]) /\ Position(r) + Overlap <= cursor =>
            Finalized(r) \/ r \in spoiled

\* A finalized row that nobody altered holds what its run published, whoever did,
\* and that verifies; while no fault has come by, the chain holds it too.  A
\* reorganisation may take a record from the chain, and nothing removes its row
\* (rebuildIndex, finalizeFromRegistry).
IndexSound ==
    \A r \in Run : Finalized(r) /\ r \notin spoiled =>
        /\ Sound(published[r])
        /\ db[r].evidence = published[r]
        /\ OnChain(r) \/ faults < MaxFaults

\* docs/PROJECT_IMPLEMENTATION.md: "GET /runs" answers verified, chain-derived
\* passports.  The code lists the rows as they are, altered ones and those of
\* records that a reorganisation removed among them (app.ts, recentRuns).
ListedProved ==
    \A r \in RecentRuns : OnChain(r) /\ Sound(published[r]) /\ ListedRow(r).evidence = published[r]

\* The binary search and the chunked log query find exactly the first block at
\* or after a time, the event of a run and every event of a range, whichever blocks
\* share a timestamp (firstBlockAtOrAfter, logsAtAnchoredTimestamp,
\* getLogsChunked).  It is about the chain alone: one state for each chain will do.
LocateExact ==
    cursor = 0 /\ pass = Idle /\ db = [r \in Run |-> None] =>
        /\ \A time \in 0..MaxTime + 1 :
              FirstBlockAtOrAfter(time, Len(chain)) =
                Min({b \in DOMAIN chain : chain[b].time >= time} \cup {Len(chain) + 1})
        /\ \A r \in Run : OnChain(r) => Position(r) \in BlocksAt(chain[Position(r)].time, Len(chain))
        /\ \A from \in DOMAIN chain :
              ToSet(GetLogs(from, Len(chain), Len(chain))) = {r \in Run : OnChain(r) /\ Position(r) >= from}
=============================================================================

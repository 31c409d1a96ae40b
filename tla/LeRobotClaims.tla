--------------------------- MODULE LeRobotClaims ---------------------------
(***************************************************************************)
(* Claims on a LeRobot ingest job, and the retention of its checkpoints    *)
(* (ingest.py).                                                            *)
(*                                                                         *)
(* A job is coordinated through lerobot_ingest_checkpoints, an append-only *)
(* table: the latest row says whether somebody runs the job.  Appends      *)
(* never conflict, so a claim or a recovery first wins a compare-and-swap  *)
(* on the row it read (superseded_by_checkpoint_id IS NULL) and appends    *)
(* its own row afterwards; the first claim of a job has no such row.       *)
(* Retention later deletes all but the last row of a job that has ended,   *)
(* unless a hold selects one of them.                                      *)
(* Every read below is a read of its own: anything may happen in between.  *)
(***************************************************************************)
EXTENDS Naturals, Sequences, FiniteSets

CONSTANTS
    Workers,        \* calls of ingest_lerobot for the job, each with its own token
    Operators,      \* calls of recover_lerobot_ingest_claim
    Retainers,      \* calls of apply_lerobot_checkpoint_retention
    Auditors,       \* those who hold checkpoints, one hold each
    Selections,     \* the sets of statuses that retention and holds select by
    Scenarios,      \* how the job is used, see ScenarioAssumption
    Past,           \* the token of the earlier attempt
    None

(***************************************************************************)
(* A scenario fixes the number of frame batches of the source, how many    *)
(* ingests are started, whether an earlier attempt failed and left its     *)
(* checkpoint (resumed), whether callers pass --expected-* of the row they *)
(* observed, whether an operator may recover a claim whose worker still    *)
(* runs (zombies), whether a caller may die between its swap and its       *)
(* append (crash), and how many retention passes take the job for old      *)
(* enough (passes; with none, nobody holds checkpoints either).            *)
(***************************************************************************)
ASSUME ScenarioAssumption ==
    Scenarios \subseteq [batches : Nat \ {0}, ingests : Nat, resumed : BOOLEAN,
                        expected : BOOLEAN, zombies : BOOLEAN, crash : BOOLEAN,
                        passes : Nat]

Terminal == {"abandoned", "completed", "failed", "skipped"}
Statuses == Terminal \cup {"running"}

ASSUME SelectionAssumption == Selections \subseteq SUBSET Statuses

ASSUME CallAssumption == /\ Workers \cap Operators = {}
                         /\ Past \notin Workers \cup Operators
                         /\ None \notin Workers \cup Operators \cup {Past} \cup Nat
                         /\ None \notin Nat \X (Workers \cup Operators \cup {Past})

VARIABLES
    scenario,   \* the scenario, which never changes
    rows,       \* the job's checkpoint rows, in the order of their commits
    obs,        \* obs[b]: copies of the observations of frame batch b
    transform,  \* a completed ingest transform exists
    call,       \* the local state of each call
    claims,     \* history: <<call, position>> of each claim won, 0 for a first claim
    gone,       \* the positions of the rows that retention has deleted
    pass,       \* the local state of each retention pass
    holds       \* the hold of each auditor: how far it is, and the statuses it selects

env == <<scenario, gone, pass, holds>>
ingest == <<scenario, rows, obs, transform, call, claims>>
vars == <<ingest, gone, pass, holds>>

Calls == Workers \cup Operators
Batches == 1 .. scenario.batches

(***************************************************************************)
(* What a call remembers: its next step (at), the --expected-* arguments   *)
(* as <<index, token>>, the position of the row it read as the latest      *)
(* (seen), the batches whose observation ids it read as existing (known),  *)
(* the checkpoint_index it writes next, `now` of a recovery (reference),   *)
(* the frame batch it is at, and whether the first claim's merge found the *)
(* row present (matched).  A call that ends drops it all.                  *)
(***************************************************************************)
NoCall(label) == [at |-> label, expect |-> None, seen |-> 0, known |-> {}, index |-> 0,
                  reference |-> 0, batch |-> 1, matched |-> FALSE]

(***************************************************************************)
(* What a retention pass remembers: the positions it read first (read) and *)
(* when it resolved the holds (resolved), and the ids it has still to      *)
(* delete.                                                                 *)
(***************************************************************************)
NoPass(label) == [at |-> label, read |-> {}, resolved |-> {}, ids |-> {}]

-----------------------------------------------------------------------------
(***************************************************************************)
(* Checkpoint rows.  checkpoint_id is made of the job and the index, so    *)
(* the index stands for it.  updated_at is a logical clock: the number of  *)
(* rows committed when the writer read the time.                           *)
(***************************************************************************)
Checkpoint(i, s, w, t) == [index |-> i, status |-> s, token |-> w, updated_at |-> t, superseded |-> None]

\* _lerobot_checkpoint_sort_key
SortsBefore(r, q) ==
    \/ r.updated_at < q.updated_at
    \/ r.updated_at = q.updated_at /\ r.index <= q.index

\* _latest_lerobot_ingest_job, as a position; 0 when the job has no row.
Live == DOMAIN rows \ gone
LastOf(positions) == CHOOSE p \in positions : \A q \in positions : SortsBefore(rows[q], rows[p])
Latest == IF Live = {} THEN 0 ELSE LastOf(Live)

\* _next_lerobot_checkpoint_index
NextIndex == IF Latest = 0 THEN 0 ELSE rows[Latest].index + 1

\* _assert_lerobot_claim_precondition, against the latest row
AsExpected(c) ==
    call[c].expect # None =>
        /\ Latest # 0
        /\ call[c].expect = <<rows[Latest].index, rows[Latest].token>>

\* _record_lerobot_ingest_checkpoint: a plain append, stamped with the time.
Record(w, status) ==
    rows' = Append(rows, Checkpoint(call[w].index, status, w, Len(rows) + 1))

\* Mutant: the update forgets `superseded_by_checkpoint_id IS NULL`.
SwappableAlways(p) ==
    {q \in Live : rows[q].index = rows[p].index /\ rows[q].token = rows[p].token}

\* The rows the update of _lerobot_claim_cas_supersede matches.
Swappable(p) ==
    {q \in Live : /\ rows[q].index = rows[p].index
                  /\ rows[q].token = rows[p].token
                  /\ rows[q].superseded = None}

Init ==
    /\ scenario \in Scenarios
    /\ rows = IF scenario.resumed
               THEN <<Checkpoint(0, "running", Past, 1), Checkpoint(1, "failed", Past, 2)>> ELSE <<>>
    /\ \E k \in {0} \cup Batches : /\ k > 0 => scenario.resumed
                                   /\ obs = [b \in Batches |-> IF b <= k THEN 1 ELSE 0]
    /\ transform = FALSE
    /\ call = [c \in Calls |-> NoCall("idle")]
    /\ claims = {}
    /\ gone = {}
    /\ pass = [r \in Retainers |-> NoPass("idle")]
    /\ holds = [h \in Auditors |-> [at |-> "idle", statuses |-> {}]]

Goto(c, label) == call' = [call EXCEPT ![c].at = label]
End(c) == call' = [call EXCEPT ![c] = NoCall("ended")]

-----------------------------------------------------------------------------
\* ingest_lerobot

\* The caller decides to ingest; it may pass on the latest row it knows of.
Start(w) ==
    /\ call[w].at = "idle"
    /\ Cardinality({v \in Workers : call[v].at # "idle"}) < scenario.ingests
    /\ call' = [call EXCEPT
          ![w].expect = IF scenario.expected /\ Latest # 0
                          THEN <<rows[Latest].index, rows[Latest].token>> ELSE None,
          ![w].at = "precheck"]
    /\ UNCHANGED <<env, rows, obs, transform, claims>>

Precheck(w) ==
    /\ call[w].at = "precheck"
    /\ IF AsExpected(w) THEN Goto(w, "done?") ELSE End(w)
    /\ UNCHANGED <<env, rows, obs, transform, claims>>

\* _lerobot_completed_ingest_transform_exists
CheckDone(w) ==
    /\ call[w].at = "done?"
    /\ Goto(w, IF transform THEN "reuse" ELSE "claimable?")
    /\ UNCHANGED <<env, rows, obs, transform, claims>>

\* Read the index of the next checkpoint.
TakeIndex(c, from, to) ==
    /\ call[c].at = from
    /\ call' = [call EXCEPT ![c].index = NextIndex, ![c].at = to]
    /\ UNCHANGED <<env, rows, obs, transform, claims>>

\* Append the last checkpoint of a call.
RecordLast(w, status) ==
    /\ Record(w, status)
    /\ End(w)
    /\ UNCHANGED <<env, obs, transform, claims>>

\* _record_lerobot_completed_checkpoint_if_needed: read the index, then append.
ReuseIndex(w) == TakeIndex(w, "reuse", "reuseAppend")

ReuseAppend(w) == call[w].at = "reuseAppend" /\ RecordLast(w, "completed")

\* _assert_lerobot_ingest_claimable
CheckClaimable(w) ==
    /\ call[w].at = "claimable?"
    /\ IF Latest # 0 /\ rows[Latest].status = "running" THEN End(w) ELSE Goto(w, "snapshot")
    /\ UNCHANGED <<env, rows, obs, transform, claims>>

\* Mutant: every ingest takes the zero-row fast path.
SnapshotEmpty(w) ==
    /\ call[w].at = "snapshot"
    /\ Goto(w, "index")
    /\ UNCHANGED <<env, rows, obs, transform, claims>>

\* _lerobot_existing_observation_ids
Snapshot(w) ==
    /\ call[w].at = "snapshot"
    /\ call' = [call EXCEPT ![w].known = {b \in Batches : obs[b] > 0}, ![w].at = "index"]
    /\ UNCHANGED <<env, rows, obs, transform, claims>>

ReadIndex(w) == TakeIndex(w, "index", "reread")

\* Mutant: the expectation is not checked against the row the claim swaps.
RereadUnchecked(w) ==
    /\ call[w].at = "reread"
    /\ call' = [call EXCEPT ![w].seen = Latest, ![w].at = IF Latest = 0 THEN "boot" ELSE "swap"]
    /\ UNCHANGED <<env, rows, obs, transform, claims>>

\* latest_before_claim: read again, only the expectation is checked again.
Reread(w) ==
    /\ call[w].at = "reread"
    /\ IF AsExpected(w)
         THEN call' = [call EXCEPT ![w].seen = Latest, ![w].at = IF Latest = 0 THEN "boot" ELSE "swap"]
         ELSE End(w)
    /\ UNCHANGED <<env, rows, obs, transform, claims>>

\* _lerobot_claim_cas_supersede, for workers and operators: one row matched.
WinSwap(c) ==
    LET won == Swappable(call[c].seen) IN
    /\ call[c].at = "swap"
    /\ Cardinality(won) = 1
    /\ rows' = [q \in DOMAIN rows |->
                  IF q \in won THEN [rows[q] EXCEPT !.superseded = call[c].index] ELSE rows[q]]
    /\ claims' = claims \cup {<<c, call[c].seen>>}
    /\ Goto(c, "append")
    /\ UNCHANGED <<env, obs, transform>>

\* Any other number of rows: somebody else won, the call raises.
LoseSwap(c) ==
    /\ call[c].at = "swap"
    /\ Cardinality(Swappable(call[c].seen)) # 1
    /\ End(c)
    /\ UNCHANGED <<env, rows, obs, transform, claims>>

\* Append a running checkpoint, advance the index and go on at a batch.
RecordRunning(w, from, to, b) ==
    /\ call[w].at = from
    /\ Record(w, "running")
    /\ call' = [call EXCEPT ![w].index = @ + 1, ![w].batch = b, ![w].at = to]
    /\ UNCHANGED <<env, obs, transform, claims>>

AppendClaim(w) == RecordRunning(w, "append", "media", call[w].batch)

(***************************************************************************)
(* The first claim of a job: an insert-if-absent merge and a read back.    *)
(* Two merges that commit at the same time both insert.                    *)
(***************************************************************************)
BootMerge(w) ==
    /\ call[w].at = "boot"
    /\ call' = [call EXCEPT ![w].matched = \E q \in Live : rows[q].index = call[w].index,
                            ![w].at = "bootCommit"]
    /\ UNCHANGED <<env, rows, obs, transform, claims>>

BootCommit(w) ==
    /\ call[w].at = "bootCommit"
    /\ IF call[w].matched THEN UNCHANGED rows ELSE Record(w, "running")
    /\ Goto(w, "bootCheck")
    /\ UNCHANGED <<env, obs, transform, claims>>

BootCheck(w) ==
    LET winners == {q \in Live : rows[q].index = call[w].index}
    IN /\ call[w].at = "bootCheck"
       /\ IF Cardinality(winners) = 1 /\ \A q \in winners : rows[q].token = w
            THEN /\ claims' = claims \cup {<<w, 0>>}
                 /\ call' = [call EXCEPT ![w].index = @ + 1, ![w].at = "media"]
            ELSE End(w) /\ UNCHANGED claims
       /\ UNCHANGED <<env, rows, obs, transform>>

\* Media inspection ends with a checkpoint, which extends the lease.
MediaCheckpoint(w) == RecordRunning(w, "media", "flush", call[w].batch)

\* One frame batch: observations that are not known to exist are appended.
FlushBatch(w) ==
    LET b == call[w].batch IN
    /\ call[w].at = "flush"
    /\ obs' = IF b \in call[w].known THEN obs ELSE [obs EXCEPT ![b] = @ + 1]
    /\ call' = [call EXCEPT ![w].known = @ \cup {b}, ![w].at = "beat"]
    /\ UNCHANGED <<env, rows, transform, claims>>

\* Mutant: the last batch is dropped.
BatchCheckpointShort(w) ==
    RecordRunning(w, "beat", IF call[w].batch + 1 < scenario.batches THEN "flush" ELSE "ready",
                  call[w].batch + 1)

BatchCheckpoint(w) ==
    RecordRunning(w, "beat", IF call[w].batch < scenario.batches THEN "flush" ELSE "ready",
                  call[w].batch + 1)

MetadataReady(w) == RecordRunning(w, "ready", "publish", call[w].batch)

\* The merge_inserts of runs, episodes, ..., the last one of transform_runs.
Publish(w) ==
    /\ call[w].at = "publish"
    /\ transform' = TRUE
    /\ Goto(w, "finalize")
    /\ UNCHANGED <<env, rows, obs, claims>>

Complete(w) == call[w].at = "finalize" /\ RecordLast(w, "completed")

\* An exception in one of the three try blocks: _record_lerobot_failed_checkpoint.
Fail(w) ==
    /\ call[w].at \in {"media", "flush", "beat", "publish", "finalize"}
    /\ RecordLast(w, "failed")

-----------------------------------------------------------------------------
\* recover_lerobot_ingest_claim

\* The latest row is running; its lease has expired or the operator forces
\* the recovery, once convinced that the worker is gone.
RecoverRead(o) ==
    /\ call[o].at = "idle"
    /\ Latest # 0
    /\ rows[Latest].status = "running"
    /\ scenario.zombies \/ call[rows[Latest].token].at = "ended"
    /\ call' = [call EXCEPT ![o].reference = Len(rows), ![o].seen = Latest, ![o].at = "index"]
    /\ UNCHANGED <<env, rows, obs, transform, claims>>

RecoverIndex(o) == TakeIndex(o, "index", "swap")

\* Mutant: the recovery row is stamped with the epoch.
RecoverAppendOld(o) ==
    /\ call[o].at = "append"
    /\ rows' = Append(rows, Checkpoint(call[o].index, "abandoned", o, 0))
    /\ End(o)
    /\ UNCHANGED <<env, obs, transform, claims>>

\* _append_lerobot_recovery_checkpoint, stamped with the reference time.
RecoverAppend(o) ==
    /\ call[o].at = "append"
    /\ rows' = Append(rows, Checkpoint(call[o].index, "abandoned", o, call[o].reference))
    /\ End(o)
    /\ UNCHANGED <<env, obs, transform, claims>>

-----------------------------------------------------------------------------
\* hold_lerobot_checkpoints, release_lerobot_checkpoint_hold

\* A hold selects at least one row when it is made, ...
HoldSelect(h) ==
    /\ scenario.passes > 0 /\ holds[h].at = "idle"
    /\ \E s \in Selections :
          /\ \E q \in Live : rows[q].status \in s
          /\ holds' = [holds EXCEPT ![h] = [at |-> "put", statuses |-> s]]
    /\ UNCHANGED <<ingest, gone, pass>>

\* ... and protects rows from when it is written.  It is not written while a pass
\* that has read the holds deletes (README, assumptions on use).
HoldPut(h) ==
    /\ holds[h].at = "put"
    /\ \A r \in Retainers : pass[r].at # "delete"
    /\ holds' = [holds EXCEPT ![h].at = "active"]
    /\ UNCHANGED <<ingest, gone, pass>>

\* Nobody else writes the row of a hold that exists.
HoldRelease(h) ==
    /\ holds[h].at = "active"
    /\ holds' = [holds EXCEPT ![h].at = "released"]
    /\ UNCHANGED <<ingest, gone, pass>>

-----------------------------------------------------------------------------
\* apply_lerobot_checkpoint_retention.  Age, minimum history and source of the job
\* are those of a job that may be compacted; otherwise the pass leaves it alone.

\* Mutant: whether the job has ended is not looked at.
ReadHistoryActive(r) ==
    /\ pass[r].at = "idle"
    /\ Cardinality({q \in Retainers : pass[q].at # "idle"}) < scenario.passes
    /\ \E s \in Selections :
          LET ended == {q \in Live : rows[q].status \in Terminal \cap s}
          IN  /\ ended # {}
              /\ pass' = [pass EXCEPT ![r].at = "rows", ![r].read = Live,
                    ![r].ids = {rows[q].index : q \in Live} \ {rows[LastOf(ended)].index}]
    /\ UNCHANGED <<ingest, gone, holds>>

\* The rows are read: the job has ended, in one of the statuses that are selected.
ReadHistory(r) ==
    /\ pass[r].at = "idle"
    /\ Cardinality({q \in Retainers : pass[q].at # "idle"}) < scenario.passes
    /\ \E s \in Selections :
          /\ Latest # 0 /\ rows[Latest].status \in Terminal \cap s
          /\ LET summary == LastOf({q \in Live : rows[q].status \in Terminal \cap s})
             IN  pass' = [pass EXCEPT ![r].at = "rows", ![r].read = Live,
                          ![r].ids = {rows[q].index : q \in Live} \ {rows[summary].index}]
    /\ UNCHANGED <<ingest, gone, holds>>

\* _active_lerobot_checkpoint_hold_details reads the rows again, ...
ReadRowsAgain(r) ==
    /\ pass[r].at = "rows"
    /\ pass' = [pass EXCEPT ![r].at = "holds", ![r].resolved = Live]
    /\ UNCHANGED <<ingest, gone, holds>>

\* The ids that the active holds select among the given rows.
HeldIds(positions) ==
    {rows[q].index : q \in {p \in positions :
        \E h \in Auditors : holds[h].at = "active" /\ rows[p].status \in holds[h].statuses}}

\* Mutant: only a hold on the latest row counts.
ResolveHoldsOfLatest(r) ==
    /\ pass[r].at = "holds"
    /\ pass' = [pass EXCEPT ![r] =
          IF HeldIds({LastOf(pass[r].resolved)}) # {} \/ pass[r].ids = {} THEN NoPass("ended")
          ELSE [@ EXCEPT !.at = "delete", !.read = {}, !.resolved = {}]]
    /\ UNCHANGED <<ingest, gone, holds>>

\* ... and then the holds: a job with a held row stays as it is.
ResolveHolds(r) ==
    LET job == {rows[q].index : q \in pass[r].read}
    IN  /\ pass[r].at = "holds"
        /\ pass' = [pass EXCEPT ![r] =
              IF HeldIds(pass[r].resolved) \cap job # {} \/ pass[r].ids = {} THEN NoPass("ended")
              ELSE [@ EXCEPT !.at = "delete", !.read = {}, !.resolved = {}]]
        /\ UNCHANGED <<ingest, gone, holds>>

\* _delete_lerobot_checkpoint_ids, in chunks, of one id here
DeleteChunk(r) ==
    LET id == CHOOSE i \in pass[r].ids : \A j \in pass[r].ids : i <= j
        rest == pass[r].ids \ {id}
    IN  /\ pass[r].at = "delete"
        /\ gone' = gone \cup {q \in Live : rows[q].index = id}
        /\ pass' = [pass EXCEPT
              ![r] = IF rest = {} THEN NoPass("ended") ELSE [@ EXCEPT !.ids = rest]]
        /\ UNCHANGED <<ingest, holds>>

\* A pass dies.
RetentionDies(r) ==
    /\ pass[r].at \notin {"idle", "ended"}
    /\ pass' = [pass EXCEPT ![r] = NoPass("ended")]
    /\ UNCHANGED <<ingest, gone, holds>>

Retain(r) ==
    \/ ReadHistory(r) \/ ReadRowsAgain(r) \/ ResolveHolds(r) \/ DeleteChunk(r)
    \/ RetentionDies(r)
Audit(h) == HoldSelect(h) \/ HoldPut(h) \/ HoldRelease(h)

-----------------------------------------------------------------------------

\* The process of a call dies, or an exception escapes outside the try blocks.
Crash(c) ==
    /\ call[c].at \notin {"idle", "ended"}
    /\ call[c].at = "append" => scenario.crash
    /\ End(c)
    /\ UNCHANGED <<env, rows, obs, transform, claims>>

Ingest(w) ==
    \/ Start(w) \/ Precheck(w) \/ CheckDone(w) \/ ReuseIndex(w) \/ ReuseAppend(w)
    \/ CheckClaimable(w) \/ Snapshot(w) \/ ReadIndex(w) \/ Reread(w)
    \/ AppendClaim(w) \/ BootMerge(w) \/ BootCommit(w) \/ BootCheck(w)
    \/ MediaCheckpoint(w) \/ FlushBatch(w) \/ BatchCheckpoint(w) \/ MetadataReady(w)
    \/ Publish(w) \/ Complete(w) \/ Fail(w)

Recover(o) == RecoverRead(o) \/ RecoverIndex(o) \/ RecoverAppend(o)

Next ==
    \/ \E w \in Workers : Ingest(w)
    \/ \E o \in Operators : Recover(o)
    \/ \E c \in Calls : WinSwap(c) \/ LoseSwap(c) \/ Crash(c)
    \/ \E r \in Retainers : Retain(r)
    \/ \E h \in Auditors : Audit(h)

Spec == Init /\ [][Next]_vars

-----------------------------------------------------------------------------
\* Properties.

\* "Exactly one caller wins": of all the claims and recoveries that start
\* from one checkpoint row, and of all first claims, at most one succeeds.
OneWinnerPerRow == \A x, y \in claims : x[2] = y[2] => x[1] = y[1]

\* The job is used as the manual prescribes: a retry of a job that has a
\* checkpoint, with --expected-*, recovery of dead workers only; and nobody dies
\* between the two writes of a claim.
Disciplined == scenario.resumed /\ scenario.expected /\ ~scenario.zombies /\ ~scenario.crash

\* Retries that pass --expected-*.  Operators may recover workers that still run and
\* anybody may die at any time, unless retention deletes rows of the job meanwhile.
Guarded == Disciplined \/ (scenario.resumed /\ scenario.expected /\ scenario.passes = 0)

\* "Normal ingest never steals a running claim" holds of an ingest that passes
\* --expected-*: the row its claim supersedes is not a running one.  It does not hold
\* without: CheckClaimable looks at the status, Reread takes whatever row is the latest
\* by then, and the swap supersedes it, running or not (README, known gaps).
NeverStealsRunning ==
    Guarded =>
        \A x \in claims : x[1] \in Workers /\ x[2] # 0 => rows[x[2]].status # "running"

\* A retry, and a claim after a recovery, skips the frames that are already
\* written: no observation is ever in the lake twice.
FramesWrittenOnce == \A b \in Batches : obs[b] <= 1

\* The same for a job that is used as the manual prescribes.
NoDuplicateFrames == Disciplined => FramesWrittenOnce

\* The job can be claimed or recovered again: unless a caller is just about
\* to append its own row, the latest row is not superseded, so that the
\* next compare-and-swap has a row to win.
JobStaysClaimable ==
    Latest # 0 /\ (\A c \in Calls : call[c].at # "append") => rows[Latest].superseded = None

\* The same for a job that is used as the manual prescribes.
LatestIsClaimable == Disciplined => JobStaysClaimable

\* A completed transform never goes with missing frames: when the job is
\* published every frame batch is in the lake.
PublishedIsComplete == transform => \A b \in Batches : obs[b] >= 1

\* The rows of the job are told apart by their checkpoint_id, which retention deletes
\* by.  Nothing in the table enforces it: an index that is read before another row is
\* appended is taken twice.
UniqueIds == \A p, q \in DOMAIN rows : rows[p].index = rows[q].index => p = q

\* "The policy never removes the final evidence row": while the rows have ids of their
\* own, what retention deletes is never the row that claims and recoveries read as the
\* latest, whatever they and other passes do meanwhile.
LatestSurvivesRetention ==
    [][UniqueIds /\ gone' # gone => Latest # 0 /\ Latest' = Latest]_vars

\* Active holds are re-resolved: while the rows have ids of their own, a row that an
\* active hold selects is not deleted, also when the hold is made while a pass runs, or
\* a pass died or overlaps another one.
HeldRowsSurvive ==
    [][\A q \in gone' \ gone, h \in Auditors :
          UniqueIds /\ holds[h].at = "active" => rows[q].status \notin holds[h].statuses]_vars
=============================================================================

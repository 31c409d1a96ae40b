# TLA+ verification of the LanceDB robotics lakehouse

The package `src/lancedb_robotics` turns robot recordings (MCAP, ROS bags,
LeRobot datasets, RLDS/TFDS sources) into a *lake*: a set of Lance tables with
versions, tags and indexes, from which datasets are curated, snapshotted,
published as LeRobot views and streamed into training. There is no server. Every
command is a process that reads and writes shared tables, Lance makes a single
operation on a single table atomic, and **no transaction spans two tables, or a
read and a later write**. Everything that needs more than one operation is a
protocol of the package's own: a gate row, a compare-and-swap, an
insert-if-absent and read-back, an order of writes, a time to live. Those
protocols are what this project models, checks and proves.

Paths below are relative to `src/src/lancedb_robotics/` unless they begin with
`docs/`.

## 1. Inventory

| Component | State it keeps | Operations | What is hard | What makes it correct |
|---|---|---|---|---|
| RLDS/TFDS ingest (`rlds_ingest.py`) | rows of six canonical tables, `rlds_ingest_claims` gate, in-process locks | `ingest_rlds_impl`, `_rlds_ingest_claim`, `_cleanup_partial_run` | a long sequence of single-table commits, failures and kills anywhere, several threads and processes | writers exclude each other, nothing is written twice, a run is all or nothing, a killed owner leaves the gate closed |
| LeRobot ingest (`ingest.py`) | `lerobot_ingest_checkpoints` (append-only), observations, completed transform | `ingest_lerobot`, `recover_lerobot_ingest_claim` | the claim is a compare-and-swap on an older row and then an append; three reads of "the latest row" precede it | one winner per row, a running claim is not stolen, frames are written once, the job can always be claimed again |
| Scalar index jobs (`scalar_index_jobs.py`) | one row per job, the index, a remote service | `request`, `_run`, `poll`, `retry`, `cancel`, `expire_due`, `reconcile` | whole records are read, changed and put back without a version check; builders die | the first attempt has one builder, `complete` means built, stuck jobs end, the row follows its lifecycle |
| Prewarm JobRuns (`training_prewarm_jobs.py`) | one row per prewarm id, the cache, plan executors | `submit_or_attach`, `_run_submit`, `poll`, `retry`, `cancel`, `expire_due` | as above; and a complete run goes cold | `complete` means warmed, a warm or running attempt is not replaced, one submit per attempt |
| Lake maintenance (`maintenance.py`, `dataset.py`) | table versions, managed tags, `dataset_snapshots`, views, lineage | `maintain_lake`, `_tag_pinned_versions`, `_refresh_indexes`, `_finalize_ingest`, `create_snapshot` | pins are read once, versions are pruned much later | a pinned version stays on disk, old unpinned versions go |
| LeRobot checkpoint retention and holds (`ingest.py`) | checkpoints, holds | `apply_lerobot_checkpoint_retention`, `hold_lerobot_checkpoints`, release | deletes, in chunks, rows that claims read; holds are resolved before | the latest row and held rows survive |
| LeRobot view catalog (`lerobot_facade/`) | headers, files, latest pointer | publish, retire, reconcile, sweep, resolve | three tables per view, newest-wins pointer | a view a reader finds is complete, newest wins, the pointer heals, the last view stays |
| Curation row plans (`curation_row_plans.py`, `curate.py`) | chunk rows, plan headers | compile, prune, compact orphans | chunks first, header last; deletes guarded by a grace window | what is kept or named by a training run is readable; what a crash left is reclaimed |
| Curation (`curate.py`) | membership tables | filters, merges, snapshots | volume, not concurrency | relational correctness |
| Retention catalogs (`curation_replay_retention.py`, `retention_catalog.py`) | retention decisions | plan, apply | stale decisions | nothing referenced is deleted |
| Training (`training*.py`) | plans, permutation tables and their catalog | shard, load, record, clean up | cleanup against builds and runs recorded meanwhile | a referenced or kept permutation survives, stale entries go; shards partition |
| Aligned ticks (`align.py`, `aligned_tick_*.py`) | ticks, frames, alignment jobs | align, clean up, migrate | add-then-delete de-duplication by time stamps, no lock | no tick is lost, one copy remains after a crash |
| Rebuild catalog (`rebuild_catalog.py`) | plans, events | plan, record | event order | state follows events |
| Lineage (`lineage*.py`) | nodes, edges, audits | emit, query, pin | emission is best-effort | what it pins survives |
| Tracker sync, run manifests, write-back (`tracker_sync.py`, `run_manifests.py`, `writeback.py`) | `training_runs` and its siblings | import, record, apply | delete-then-add upserts, retries, three conflict policies | the tracker's manifests arrive in the end |
| Roll-ups and telemetry (`materialization_rollups.py`, `predicate_index_telemetry.py`, `training_report_*.py`) | aggregates | aggregate | late and duplicate reports | counts once |
| Recordings, decoders, video, export, search, enrichment, evidence, CLI, schemas, conformance | files, columns, reports | decoding, formats, queries, model calls | I/O and numerics | tested, not modelled |

The components meet in the tables. An ingest ends in a snapshot-safe
maintenance (`_finalize_ingest`), which prunes versions that `create_snapshot`,
view publication and lineage pin; `lake maintain` also drives the index jobs
(`reconcile`); training workers share prewarm runs; retention of row plans and
permutations deletes what `training_runs` does not name; retention of
checkpoints deletes what claims read.

## 2. Modules

| Module | Models | Kind |
|---|---|---|
| `RldsIngest` | the RLDS write path | component |
| `AtomicIngest` | what an ingest promises: a run enters in one step and stays | abstract specification |
| `RldsIngestProofs` | theorems about `RldsIngest`, the refinement of `AtomicIngest` among them | proofs |
| `LeRobotClaims` | claims, resume and recovery of a LeRobot ingest job, with the retention of its checkpoints and holds on them | composition of two components |
| `ScalarIndexJobs` | the scalar-index job row and its callers | component |
| `JobLifecycle` | the documented life of a job row | abstract specification |
| `PrewarmJobs` | the prewarm JobRun row and its callers | component |
| `LakeMaintenance` | maintenance, snapshots and views: the composition through table versions | component |
| `RowPlans` | compile, retention and compaction of row plans, against the rows of `training_runs` and `training_reports` | component, composition through `curation_row_plans` |
| `ViewCatalog` | publication, retirement and maintenance of a repo's views | component |
| `TrainingManifests` | `training_runs` as tracker imports and training jobs write it, and the permutation catalog that is cleaned up by it | composition of three components |
| `TickLifecycle` | an alignment and the cleanup of its ticks | component |
| `LeRobotClaimsProofs`, `ScalarIndexJobsProofs`, `PrewarmJobsProofs`, `RowPlansProofs`, `ViewCatalogProofs`, `TickLifecycleProofs` | theorems about the module each is named after | proofs |
| `CleanupProofs` | theorems about `LakeMaintenance`, which it extends, and `TrainingManifests`, which it instantiates as `Manifests`: what the two cleanups may delete | proofs |
| `MC...` | instances for TLC | |

`PROJECT.json` names, for every definition, the lines it translates. Definitions
whose comment begins with "Mutant:" are plausible bugs that the properties are
tested against; no specification uses them.

**RldsIngest.** A call is a process counter per thread that goes through the
steps of `ingest_rlds_impl`: the in-process lock, the gate
(`UPDATE ... WHERE owner_token IS NULL`), the test of the runs row, the cleanup
table by table, the stream with its three bounded buffers, the tail flushes, the
three appends of the publication, the release. `lake[r][x]` counts the copies of
row `x` of run `r`, so that a second append of the same identifier shows. The
failures are an exception in a guarded step (undo, then propagate), in an
unguarded one (propagate), an interrupt that no `except Exception` catches, a
delete that fails during the undo, a release that fails, and the death of a
process with all its threads.

**LeRobotClaims.** `rows` is the append-only checkpoint table in commit order;
the position of a row stands for its time and `checkpoint_index` for its id. All
reads of `ingest_lerobot` before the claim are separate steps. `WinSwap` and
`LoseSwap` are the conditional update, `AppendClaim` the append after it;
`BootMerge`, `BootCommit` and `BootCheck` are the first claim, whose merge may
insert twice. A *scenario*, fixed in the initial state, says how the job is
used: with or without `--expected-*`, recovery of live workers or only of dead
ones, deaths inside a claim or not. `Disciplined` names the documented use;
`Guarded` asks less: `--expected-*` alone, unless retention runs beside.
`Snapshot` is the id set that `_lerobot_existing_observation_ids` returns for up
to 100 000 existing rows; beyond that limit the code asks the table row by row,
a path that is not modelled. Retention deletes positions of `rows` (`gone`): a pass
reads the rows, reads them again, resolves the holds and deletes id after id, and
may die in between. A hold selects rows by status, which stands for any selector.

**ScalarIndexJobs, PrewarmJobs.** The row is one record; each call keeps the
record it read in `call[c].rec` and writes it back whole, as the code does. Time
is the set of attempts whose `expires_at` has passed, and a call sees the set as
it was when it read the clock. `overlap`, fixed in the initial state, is the
number of calls that may be under way at once; with 1, calls take turns. A call
may die at any step. `Submit`, `Status` and `RemoteEnds` include answers that
are lost or late.

**LakeMaintenance.** A table is its set of versions on disk, which of them are
older than the cleanup age, and which carry a managed tag. A maintenance reads
the pins source by source, then per table lists tags, deletes stale ones, tags
pinned versions, compacts, refreshes indexes and prunes; each call into the
engine is a step, and may raise during an outage. A snapshot or view reads the
version of each table, then writes its row; a snapshot deletes the row of the
same id first and emits lineage last.

**RowPlans.** `chunks[p][i]` is the time stamp of the `i`-th commit of chunk rows
of plan `p`, `header[p]` its header row. A compile inserts the chunks it does not
find, reads all of them back and publishes the header. `prune_row_plans` scans,
looks up the references of a batch, deletes chunks, counts what is left and
marks the header; a plan that is superseded only has its full header read and
upserted. Compaction reads the headers, scans for aged chunks, reads the headers
again and deletes. A delete may fail, before or after it took effect; a lookup
or a recount may fail; a process may die anywhere. A lookup has three outcomes: it
reads both referencing tables; one that it has opened cannot be read, and all plans
count as referenced (`PruneCheckFails`); one cannot be opened and is passed by, with
whatever only it names (`PruneCheckSkips`). `refs[t]` is a row of these tables, which
`record_training_run` and `record_training_report` replace by a delete and an add
without looking at the plan. Its history variable `owed` says that the plan could be
read when the row was added, that no pass had got beyond its lookup with it by then,
and that no lookup has passed the table by since. All plans are of one series,
so that they are ranked against each other. Artifacts and lineage of frozen plans
are left out.

**ViewCatalog.** One repo. `files[v][i]`, `header[v]` hold time stamps, `pointer`
is the row of `lerobot_view_latest`. A backend is `conditional` or not: with the
conditional merge the pointer is one step, without it it is observed and swapped,
with `Attempts` tries, after which it is dropped. Retirement deletes pointer,
header and files in three commits and points at the newest header left. The
reconciliation and the sweep of orphans are the two passes of
`compact_view_catalog` that touch several tables.

**TrainingManifests.** A run, its plan and its permutation table have one name.
`rows` is a set: copies of a row are told apart by who added them, so that two
overlapping imports leave two rows, as they do in the lake. Content 0 is what
`record_training_run` writes, 1 and up what the tracker says, in the order of its
edits. An import sees of a row's copies any one (`Indexes`: the scan order is the
engine's). A cleanup gathers the pinned plans, lists the tables, lists the
entries and drops table by table, entry after table. `overlap`, fixed in the
initial state, lets manifests and policies change while a cleanup runs.

**TickLifecycle.** One alignment, its ticks in one window. A row has a tick, a
stamp, the recipe of the job or an older one (`fresh`) and an author. The initial
states hold the copies that earlier, overlapping alignments and older writers can
leave, with a stamp or without. A cleanup reads the job, looks for copies, chooses
a survivor per tick, adds each under a stamp later than all it saw, and deletes
by that stamp. `Second` and `Microsecond` say that calls are further apart than
two stamps of a cleanup. Two history variables, which no action reads except to
keep them, say what the properties except: `emptied`, that the alignment was emptied
while a cleanup was between its choice and its delete, and `blind`, that it was or
that such a cleanup does not know the job. Both are cleared when a cleanup chooses
while no other is replacing copies (`Choose`).

## 3. Runs

| Run | Instance | Shows |
|---|---|---|
| `rlds_safety` | 3 threads in 2 processes, 2 runs, 2 episodes (2 and 1 steps), batches of 2, 3 calls, all faults | `OneWriter`, `NoDuplicateRows`, `FailsClosed` |
| `rlds_atomic` | the same without interrupts and failing undos | `AlreadyIngestedIsComplete`, refinement of `AtomicIngest`, and every call ends |
| `lerobot_claims` | 3 disciplined retries and a recovery; 2 retries with `--expected-*` and a recovery of a live or dead worker, deaths anywhere; 2 undisciplined first ingests and a recovery; 2 retries with a recovery, a retention pass and a hold; 1 with two passes; 1 first ingest that is recovered while it runs, with a pass and a hold | `OneWinnerPerRow`, `PublishedIsComplete` always; `NeverStealsRunning` when `Guarded`; `NoDuplicateFrames`, `LatestIsClaimable` when disciplined; `LatestSurvivesRetention`, `HeldRowsSurvive` while ids are unique |
| `index_jobs` | 3 calls of any operation, 3 build modes, taking turns or 2 at a time, deaths | `FirstClaimWins`, `CompleteIsBuilt` always; `OneBuildPerAttempt`, refinement of `JobLifecycle` in turns |
| `index_jobs_live` | 2 callers and a maintainer | `StuckJobsEnd` |
| `prewarm` | 3 calls of any operation, with and without a client, taking turns or 2 at a time, deaths | `CompleteWasWarmed` always; `AttemptsTakeTurns` in turns |
| `maintenance` | 2 maintenances that overlap, a creation, a table of 3 versions, an outage | `PinnedVersionsSurvive`, `GarbageIsCollected` |
| `maintenance_race` (violation) | a maintenance and a creation that overlap | a pinned version is pruned |
| `row_plans` | plans of 2 and 1 chunks, a compiler, a pruner, a compactor, a training run that names one plan after another, clock to 4, one fault | `OnlyOldPlansAreLost`, `EvidenceIsReplayable`, `NoStrandedChunks`; `HalfPrunedConverges`, `OrphansReclaimed` |
| `view_catalog` | views of 2 and 1 file commits, 2 workers, one of which maintains, clock to 3, a forced retirement, one fault | `PublishedViewsAreComplete`, `PointerNeverRegresses`, `LastViewSurvives`; `LatestHeals`, `OrphanFilesReclaimed` |
| `training_manifests` | one run, 2 workers, 2 contents, a training job or a change of policy besides any imports and cleanups, one fault | `OnlyUnreferencedDropped` without overlap; `ManifestsConverge`, `CatalogConverges` with it |
| `tick_lifecycle` | 2 ticks with up to 4 copies each, 2 workers, an alignment, cleanups, one death | `TickNeverVanishes`, `FreshSurvives`; `CleanupConverges` |

**Why the bounds suffice for what the runs claim.** Two actors are enough for a
lost update, a third for a takeover after one has died; three calls of the RLDS
ingest are a failure, its retry and a competitor, in the same process or in
another. Two episodes and a batch size of 2 give a full batch, a batch across an
episode boundary and a tail. Three versions of a table are a pinned one, an old
unpinned one and the current one. Three calls of a job are an attempt, its
retry and an observer. Two plans or views are an old and a new one; one of them
has two commits, so that it can be half there; the clocks run until what a crash
left behind is old enough to be taken while a later call is under way. One fault is
a crash and everything that follows it; a second actor shows what a crash and a
race do together. One training run is enough because manifests of different runs
meet only in one delete and one add, and because each record pins the plan it names
whatever others name; the theorem has any number of them in both tables. Bounds that are not parameters of the code
are named in the modules (`MaxCalls`, `MaxVersion`, `Overlaps`, `ingests`).

**Deadlock** is not checked where calls are finite in number: a job whose calls
have all returned, or a lake whose gate a crashed process holds, does stop.

**Fairness.** `RldsIngest`: a started call takes its next step (threads are
scheduled, table operations return). `ScalarIndexJobs`: only the maintainer,
which is scheduled again and again, and the clock are fair; builders, callers
and the service are not. `LakeMaintenance`: operators start maintenance again
and again, a maintenance and a creation that started go on, an outage ends.
Strong fairness of the start is needed only because a creation under way
postpones it. Writers, ageing and retirement are never assumed. `RowPlans`,
`ViewCatalog`, `TrainingManifests`, `TickLifecycle`: a call that started goes on,
and the pass that cleans up (retention and compaction; reconciliation and sweep;
imports that take over the tracker's manifests and permutation cleanups; tick
cleanups that take orphans) is run again and again, as schedulers do. Its start is
strongly fair because a busy worker or a call it must not overlap postpones it.
Compiles, publishes, retirements, training jobs, alignments, edits and policies
are never assumed.

**Assumptions on use.** Some properties hold only where the documentation or an
operator keeps calls apart; each is a guard or a flag in the module, and what
happens without it is under known gaps.

* `LeRobotClaims`: a hold is not written while a pass deletes. `Disciplined` use
  passes `--expected-*`, recovers dead workers only, and nobody dies within a claim;
  `Guarded` use passes `--expected-*`, and is `Disciplined` beside retention.
* `RowPlans`, `overlap = FALSE`: a plan that has rows, or that two processes
  compile at once, is not compiled while a retention pass runs, and retention passes
  do not overlap each other. A compile commits within the grace window.
  `EvidenceIsReplayable` speaks of records that are `owed` their plan.
* `ViewCatalog`: a view is not published by two workers at once, nor published and
  retired at once; files and header of a publish land within the grace window.
* `TrainingManifests`, `overlap = FALSE`: manifests and policies do not change
  during a cleanup, that is, no run is recorded, imported or replaced in it, and a policy not between the read and the write of a `record`;
  an operator sets the policy of a table that is there.
* `TickLifecycle`: alignments of one alignment id run one at a time; clocks of
  processes agree to within the time between two calls.

## 4. What the models found

The run `maintenance_race` is a finding: a snapshot or view created while a
maintenance runs is not among the pins it read, and `PROJECT.json` quotes the text
it contradicts. The other **known gaps** are stated here; the properties of the
runs are limited to what holds beside them.

* RLDS: the runs row, which later calls take for completion, is appended before
  the events and transforms, and only `except Exception` undoes it. A
  KeyboardInterrupt in between (`rlds_ingest.py:421`) leaves a run that every retry
  skips as already ingested, against the comment at line 110. `rlds_atomic`
  therefore runs without interrupts.
* LeRobot: the ids of existing observations are read before the claim is won
  (`ingest.py:3870`), so two plain ingests of one source write frames twice,
  against `docs/manual/journeys/lerobot-ingest.md:328`. `NoDuplicateFrames` is for
  disciplined use.
* LeRobot: a plain ingest can supersede a running claim. It looks at the status of
  the latest row (`ingest.py:3857`), later reads the latest row again without looking
  at its status (`:3899`), and swaps whatever that is. Of two plain retries of a failed
  job the second, which passed the check before the first appended its running row,
  thus marks that row superseded and goes on: 18 steps, without a death, a recovery
  or an operator. This is against `ingest.py:468` ("Normal ingest never steals a
  running claim automatically") and line 444 of the same manual ("A second worker is
  refused while the latest checkpoint is still `running`"). With `--expected-*` the
  second read is compared with a row the caller named, so the property
  `NeverStealsRunning` and its theorem are for that use (`Guarded`). Where workers that
  still run are recovered *and* retention passes delete rows of the job meanwhile,
  nothing is claimed: the proof does not cover it.
* LeRobot: a death between the swap and the append (`ingest.py:3915`) wedges the
  job, against line 487 of the same manual. `LatestIsClaimable` is for disciplined
  use without it.
* LeRobot retention: a hold written after a pass has resolved the holds comes too
  late. A hold table or lineage that cannot be read counts as empty
  (`ingest.py:6555`, `:6670`), so a read error during a pass lets it delete rows
  under a legal hold.
* LeRobot retention: nothing makes `checkpoint_id` unique, and retention deletes by
  it. An index is read (`ingest.py:3879`) before the claim is won and before another
  row is appended, so it is taken twice: by two plain ingests, of which one claims
  and fails while the other waits before its swap, and by re-ingests of a published
  job that overlap (`ingest.py:7107`). A pass without a minimum age that has read the
  first row then deletes the running claim appended under its id; two passes can delete
  every row of a published job, against `ingest.py:1013` ("The policy never removes the
  final evidence row for a terminal job"). `LatestSurvivesRetention` and
  `HeldRowsSurvive` are therefore for states with unique ids (`UniqueIds`), which the
  documented use keeps until the job is published (theorem `IdsAreUnique`).
* LeRobot first claims: the winner is whoever finds its own row alone under index 0
  (`ingest.py:7274`). If a retention pass deletes that row of a job that has ended
  before a slow first claimant merges, the latter finds nothing and wins a first claim
  too. The theorems about `OneWinnerPerRow` are therefore for jobs without retention
  or used as the manual prescribes; no run starts two first claims beside retention.
* Prewarm: the claim upserts and reads back (`training_prewarm_jobs.py:720`), so
  the second of two claimants overwrites the first after the first has read its own
  nonce, and both submit, against lines 13 and 544. The index jobs use
  insert-if-absent, and `FirstClaimWins` holds there.
* Prewarm: `retry` asks only that a run has ended and is not warm
  (`training_prewarm_jobs.py:963`), so it also replaces a *skipped* run, one the
  service declined. The design decision at lines 37-38 ("Only
  `failed`/`canceled`/`expired` JobRuns are re-submitted"), the error text at line 965
  and `docs/manual/reference/api.generated.md:285` name three statuses without it; the
  comment at line 66 allows it. `AttemptsTakeTurns` grants this one case, to `retry`
  alone.
* Row plans: a referencing table that cannot be opened does not protect anything.
  `referenced_plan_ids` fails closed only once it reads: `lake.table(table)` stands in
  a `try` of its own whose `except Exception` is `continue`
  (`curation_row_plans.py:1968-1971`). A transient error there makes the plans that
  only this table names prunable, against the comment at line 1982 ("a missing/odd
  table must not unprotect") and the docstring at 1959 ("A plan pinned as training or
  evaluation evidence is never prunable"). `PruneCheckSkips` is that step;
  `EvidenceIsReplayable` does not hold of a record after a lookup has passed its table
  by, and without that exception TLC violates it in 15 steps: compile two plans,
  record a run with the older, prune.
* Row plans: a record is replaced by a delete and an add (`run_manifests.py:1002`),
  and a lookup in between overlooks it; one added between a batch's lookup and its
  delete comes too late. Nobody checks the plan that a record names: one that retention
  has pruned, half or whole, can be recorded, and is then protected as it is, so a
  half-pruned plan stays half-pruned while a record names it.
* Row plans: `freeze` is not part of a plan's id, so compiling a frozen plan again
  without it overwrites `frozen` and `artifact_id`, and retention may take chunks a
  lineage artifact points to. A retry that finds aged orphan chunks keeps their
  stamp, so a compaction can delete them between its read-back and its header. Two
  pruners, or a pruner and a compile of the same plan, can write back a header that
  the other has just changed; so can two compiles of one plan that start together,
  which the assumption on use did not exclude before the proof asked for it. A crashed
  compile over a pruned header strands its chunks.
* Views: two publishes of one view at once can set stamps of its files and header
  back, after which a sweep can take files and two unforced retirements the last
  view; a publish and a retirement of one view at once leave a header without
  files; an unforced retirement that races a forced one can remove the last view.
  The reconciliation has no fallback for backends without conditional merge, so
  there a pointer that was dropped need not heal.
* Manifests: `record_training_run` and the import delete and then add. A cleanup
  that gathers in between, or after a crash in between, drops the permutation of a
  run that was pinned; the permutation of a training that has not been recorded yet
  is not protected at all. A policy set between the read and the write of a
  `record` is lost. Two imports that overlap leave two equal rows, which no later
  import removes, because it finds them unchanged. The digest of a manifest that
  the lake recorded never equals the tracker's, as only it covers `external_refs`.
  `set_retention_policy` asks for an entry, not for a table
  (`training_permutation_catalog.py:695`). An entry that is set to `keep` after its
  table is gone is deleted by the next cleanup, even if a job has built the table
  anew; one job's `record` can then write `auto` and another's, which read the entry
  before, `keep`, and a cleanup that listed it in between drops a table that is kept.
  Two workers can do this in three calls, three cleanups and a death, which is beyond
  the bounds of the run; it was found when `OnlyUnreferencedDropped` was to be proved,
  and is excluded by the guard of `SetPolicy`.
* Ticks: the job row is written last and replaced by a delete and an add, so a
  cleanup with `remove_orphans` takes the ticks of an alignment that is being
  recorded. Two cleanups that overlap an alignment's start can take each other's
  row for an older copy, and a slow alignment's rows carry the stamp of its start.
  A cleanup that chose its rows before the alignment was emptied, by the next
  alignment or as an orphan, adds them all the same, and one that read the jobs
  before the job was recorded ranks copies without its recipe. Others that overlap it
  take its rows for the newest: with four workers one of them deletes the last row of
  the job's recipe, though it knows the job and the alignment has been whole since it
  chose. `TickNeverVanishes` and `FreshSurvives` once excepted only what a cleanup
  itself had missed, which holds for the two workers of the run but not for four; they
  now except what any cleanup that overlaps it has missed (`emptied`, `blind`).

Between overlapping calls `OneBuildPerAttempt` and the lifecycle of an index job
do not hold, because a resubmission and an attach put back a record without
testing that it is unchanged: two requests that resubmit the same ended job
(`scalar_index_jobs.py:965`) both build, and an attach (`:953`) can return a complete
job to active. The properties are therefore stated for calls that
take turns; `FirstClaimWins` and `CompleteIsBuilt` are what overlapping calls
keep. The same goes for prewarm runs, where an attach
(`training_prewarm_jobs.py:847`) can undo a status that was recorded in between:
`AttemptsTakeTurns` is for calls in turns, `CompleteWasWarmed` for all.

## 5. Proofs

Every theorem holds for all values of the constants that satisfy the named
assumptions of its module: any number of callers, plans, views, tables, episodes,
attempts, any bounds, every scenario and backend. TLC checked each inductive
invariant on the instance of the module's run before it was proved. Where a
property needs a hypothesis, the theorem states it, and it is one that the code or
its manual makes, with the consequence of dropping it under known gaps.

| Module | Theorems (the property they state) | Hypothesis |
|---|---|---|
| `RldsIngestProofs` | `TypeCorrect`, `MutualExclusion` (`OneWriter`), `NoDuplicates` (`NoDuplicateRows`), `CrashFailsClosed` (`FailsClosed`) | none |
| | `CompleteWhenSkipped` (`AlreadyIngestedIsComplete`), `OneAtomicStep` (`IngestIsAtomic`) | `Faults = {}`: exceptions and kills anywhere, but no interrupt and no undo that fails |
| `LeRobotClaimsProofs` | `TypeCorrect`, `NothingMissing` (`PublishedIsComplete`), `OneSwapWinner` | none |
| | `LatestRowIsKept` (`LatestSurvivesRetention`), `HeldRowsAreKept` (`HeldRowsSurvive`) | `UniqueIds` (in the property) |
| | `RunningIsNotStolen` (`NeverStealsRunning`) | `Guarded` (in the property): `--expected-*`, and `Disciplined` beside retention |
| | `FramesAreNotDuplicated` (`NoDuplicateFrames`), `JobIsNotStranded` (`LatestIsClaimable`) | `Disciplined` (in the property) |
| | `OneCallerWins`, `OneRetryWins` (`OneWinnerPerRow`) | `scenario.passes = 0`, or `Disciplined` |
| | `IdsAreUnique` | `Disciplined`, until the job is published |
| `ScalarIndexJobsProofs` | `TypeCorrect`, `OneFirstAttempt` (`FirstClaimWins`), `CompleteHasIndex` (`CompleteIsBuilt`) | none |
| | `EachAttemptOnce` (`OneBuildPerAttempt`), `LifecycleFollowed` (`FollowsLifecycle`) | calls take turns (in the property) |
| `PrewarmJobsProofs` | `TypeCorrect`, `CompleteIsWarm` (`CompleteWasWarmed`) | none |
| | `ReplacedInTurn` (`AttemptsTakeTurns`) | calls take turns (in the property) |
| `CleanupProofs` | `TypeCorrect` | none |
| | `PinsSurvive` (`PinnedVersionsSurvive`) | `Quiet`: no creation overlaps a maintenance |
| | `ReferencedTablesStay` (`Manifests!OnlyUnreferencedDropped`) | `~overlap` (in the property) |
| `TickLifecycleProofs` | `TypeCorrect` (`TypeOK`) | none |
| | `TicksStay` (`TickNeverVanishes`), `RecipeStays` (`FreshSurvives`) | `~emptied`, `~blind` (in the property) |
| `RowPlansProofs` | `TypeCorrect`, `PrunedLeaveNothing` (`NoStrandedChunks`) | none |
| | `NewestAndFrozenSurvive` (`OnlyOldPlansAreLost`) | `~overlap` (in the property) |
| | `EvidenceSurvives` (`EvidenceIsReplayable`) | `~overlap`, and the record is `owed` its plan (in the property) |
| `ViewCatalogProofs` | `TypeCorrect`, `CompleteWhenFound` (`PublishedViewsAreComplete`), `PointerMovesForward` (`PointerNeverRegresses`), `LastViewStays` (`LastViewSurvives`) | none beyond the guards |

**Assumptions on constants.** They are the named `ASSUME`s of the modules and say
that sets which stand for different things are disjoint (`None` is no record, header
or row; workers are no operators; `Free` and `Orphaned` are no threads), that bounds
are natural numbers, that sources have episodes and episodes have steps, that an
alignment has a tick (`align.py:667` rejects an end before the start), and that the
plans and views that are ranked and the ticks are finite in number, and that a record
is of one of the two referencing tables. TLC evaluates them on every run.

**Extremes.** The newest view, the lowest version or id, the latest row and `Max` of
some stamps are all a `CHOOSE`, of which something is known only when it exists. The
library proves that the subsets of a finite set are well-founded under strict
inclusion; the newest element is the one with the least set of newer ones
(`LeastElement`, `GreatestInteger`, `LowestVersion`, `NewestExists`).

**RldsIngest.** `NoDuplicateRows` is not inductive: nothing in it says that a row
about to be appended is absent. `IInv` adds `CursorOK` (where the reader of the source
stands, which makes a row that is read a row of the source), `OneWriter` (the caller
in the body owns the gate, so nobody else touches the rows it is writing) and
`WritesOK`: for a caller in a guarded step, neither a buffered row nor a row still to
be produced is in the lake (`FreshAt`); for a cleanup, the tables it has passed are
empty, and all are when the stream starts (`CleanAt`). The step is split by what an
action does: it cleans (`CleanStep`), it commits (`CommitStep`), or neither
(`QuietStep`); `OwnerFrame` says that only the owner needs an argument. `FailsClosed`
follows from `OneWriter`.

Completeness and refinement need the converse: that what is neither buffered nor
still to be produced *is* in the lake (`AccountedAt`), hence that each tail flush
empties its buffer (`BufferAt`) and the reader is at the end when the tail begins
(`ReaderAt`). `Settled` is what a retry relies on: as long as the gate is in use, a
run with a runs row is whole or being written. `WholeInv` joins these. Every step is
then of one of two kinds. A `BodyStep` of the gate's owner changes its own run only,
and leaves it busy, or without a runs row, or as it was, or, when it finalizes, whole.
An `OuterStep` changes no row; a writer can only vanish in it, and then the gate is
orphaned. Both kinds change the set `IngestedRuns` by at most one run that enters,
which is the step `Commit` of `AtomicIngest` (`RefinedStep`).

**LeRobotClaims.** The update matches on index and token, so at most one row is
swapped only if these identify a row (`OneRowPerToken`), which holds because a call
writes each index once, in ascending order (`Behind`). A row that was claimed stays
superseded (`SwapWinners`). For first claims, the winner's row stays under index 0
where the next one looks (`FirstWinner`), unless retention deletes it.
`PublishedIsComplete` rests on `FramesSafe`: the batches behind a loading call, and
those it took for known, are in the lake.

Retention has an invariant of its own, `RetentionSafe`, which holds in every scenario:
a pass has no id on its list that it has not read (`ReadsFirst`); none of those ids is
the latest row's, and once the holds are resolved none is a held row's (`Spares`).
Claims and recoveries act on it only through the rows, and there a step either appends
one or marks some superseded (`Adds`, `Marks`); the first makes the new row the latest
or leaves the latest where it is, the second changes no sort key.

`Prescribed` is the invariant of the documented use. It has two halves, because the
publication changes what a caller may rely on. Until then (`Open`) the rows are
numbered as they are appended, so the newest row is the latest one and an index read
from it is fresh (`History`); one call at most is past its swap (`OneHolder`); and a
retry that still expects the newest row knows every batch that is written and has the
right index (`OpenWorker`), or else its expectation or its swap fails. Only the holder
writes, so nobody's knowledge goes stale unnoticed. Afterwards (`Closed...`) sort order
and order of commits part, because re-ingests append under indexes read earlier. What
remains is stated about one row, `t`, the newest when the job was published: it is the
last running row, every later row has ended and is never superseded, and retention
deletes `t` only after all older rows (`ClosedPass`: a pass deletes in ascending order
of ids). So no caller finds the row it expects except where `t` is still the latest,
which is running and cannot be claimed; an operator can only swap `t`. One lemma per
kind of step carries this through: quiet steps, appends by the holder (`OpenAppend`)
or after publication (`ClosedEnds`), the swap, a frame batch, the publication, and the
steps of a pass (`OpenRetain`, `ClosedRetain`).

`Watched` is the invariant behind `RunningIsNotStolen` where workers that still run are
recovered. Rows are then appended by several callers in any order, and `Prescribed` says
nothing. What remains is that a running row carries the position it was appended at as
its stamp, and that of two rows which sort alike a running one has been passed by a
later one (`Stamps`). A row that is passed stays passed (`Passed`). So a worker that
has seen the job ended has seen the row it expects ended or passed (`WatchfulWorker`);
when it reads the latest row again, that row is not passed, and if it is the expected
one it has ended, which no later step undoes. The recovery row is the only one that is
stamped with an earlier time; its index is higher than that of the row it could tie
with, unless that row is passed already (`WatchfulOperator`).

**ScalarIndexJobs, PrewarmJobs.** Records are put back long after they were read, so
the invariants speak of all the records that *circulate*: in the table, in some call's
hand or on its list. No circulating record says `complete` before the index is there
(`CompleteTold`); all circulating first attempts have one owner, and whoever built is
that owner (`OneFirstOwner`); before the first claim nothing circulates
(`NothingYet`). A step puts or takes in hand only what is `Derived` from a record in
circulation. For calls in turns, `InStep` says what the only call under way knows of
the row, and `Counted` that the attempt it is about to build is not among those built;
`RowStep` is the change of the row that the refinement of `JobLifecycle` needs.

**LakeMaintenance.** A pinned version is protected in turn by the creation that read
it (`TakenOnDisk`), the row it writes, the pins a maintenance reads from the rows
(`PinsRead`), and the tag that the maintenance sets before it prunes (`PinsTagged`).
`KeptApart` is where `Quiet` is used: rows written after a maintenance has read them
are the finding of `maintenance_race`. `TypeCorrect` holds without it.

**RowPlans.** `NoStrandedChunks` needs that a pass which marks a plan has seen its
chunks go (`PruneKnown`), and that what a compile wrote since is as new as the header
(`CompilesFast`). Without overlap the invariant adds `OneAtATime`; that a compile of a
plan alone has put all its chunks and has the newest (`Sole`, `Whole`); that victims
stay old and, from the lookup on, owed to no record until they are deleted
(`PruneSafe`, which is why `owed` looks at the passes that are deleting); and that nobody
compiles what a compaction deletes (`CompactSafe`), which is where the grace window is
used. `LostAreOld` and `ReferencedReadable` are then what the two properties say.

**ViewCatalog.** A header promises files, so the invariant follows the files: those a
publish has flushed carry its time, which is within the grace window (`PublishSafe`);
a sweep that found no header takes only files older than that (`SweepSafe`); a
retirement takes the header before the files (`RetireSafe`), and no publish and
retirement of one view overlap (`Exclusive`). A swap replaces an older pointer
(`SwapSafe`). An unforced retirement is of a view that is not the newest, which is why
one is left. `RowOrder` and `NewestExists` give the newest of finitely many views.

**TickLifecycle.** The delete keeps what is at least as new as the cleanup's own rows,
so the question is whether those are still there or something newer is. `OwnStamps`
says that a worker never adds a row that is there already, for which the stamp it is
about to use must be new (`MarkerIsLater`: the table is finite, so `Max` is a maximum).
`KeepsOne` follows the row of every tick that a cleanup has added: another cleanup
deletes it only for one at least as new. `KeepsFresh` does so for rows of the job's
recipe, which needs more: all cleanups that overlap agree on which ticks have such a
row, and while an alignment appends, only rows of its recipe are in the table. A lemma
per kind of step carries this through: quiet steps, an emptied alignment, an append, a choice, an
add and a delete.

**TrainingManifests.** The referenced plans and the policies are read once, so the
invariant says what stays true of them until the drop. While a cleanup runs no manifest
is being replaced and no policy set (`CallsApart`). What it read is what is pinned
(`JudgedCall`), and what it has yet to drop stays unpinned and not kept (`Droppable`),
although training jobs write entries back all the while: a `record` puts back the
policy that the entry still has (`KeptCall`). That an entry which is absent from the
listed tables is not a kept one rests on `KeptThere`: a kept table is there.

**Only model-checked.** Liveness (`CallsEnd`, `StuckJobsEnd`, `GarbageIsCollected`,
`HalfPrunedConverges`, `OrphansReclaimed`, `LatestHeals`, `OrphanFilesReclaimed`,
`ManifestsConverge`, `CatalogConverges`, `CleanupConverges`), which this prover does
not handle. Every safety property of a passing run is a theorem.

## 6. Not modelled

Formats, decoding, video, numeric alignment and scoring, search, model-driven
enrichment, reports and the command line: no protocol, and tests reach them.
Lance itself is assumed to make one operation on one table atomic; where the
code says that two merges may both insert, the model lets them. Clocks are
assumed not to run backwards. The in-memory stores of the job coordinators are
single-process and left out. In `LakeMaintenance` the retirement of a view is
the deletion of its header, which is what pins versions; the reports that follow
a maintenance are left out, and the checked instance has one table, as pins,
tags and versions of different tables do not interact. Physical duplicates of view
rows and their collapse, the retention plan of views (it picks views for unforced
retirement), the cleanup of permutation tables without an entry on request,
`aligned_frames` (the same code as `aligned_ticks`), the migration of older tick
tables, model artifacts and evaluation runs of an import (the same path as training
runs) and everything that talks to a tracker are left out.

## 7. Plan

1. "One owner per first attempt" of the prewarm runs, as `FirstClaimWins` of the index
   jobs, once their claim is more than an upsert and a read-back (known gaps).
2. Rebuild catalog and roll-ups; the shard arithmetic of the training loader
   against a reference definition.

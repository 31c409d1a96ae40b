----------------------------- MODULE RldsIngest -----------------------------
(***************************************************************************)
(* The write path of prepared RLDS / TFDS sources (rlds_ingest.py).        *)
(*                                                                         *)
(* Lance has no transaction spanning the canonical tables, so one ingest   *)
(* is a long sequence of single-table commits: observations, episodes and  *)
(* scenarios in bounded batches, then the runs row, the events and the     *)
(* transform rows.  Overlapping writers are kept apart by a lock inside a  *)
(* process and by a lake-resident compare-and-swap gate between processes; *)
(* a failed attempt is undone table by table; a killed process leaves the  *)
(* gate held.                                                              *)
(***************************************************************************)
EXTENDS Naturals, FiniteSets, Sequences

CONSTANTS
    Threads,      \* the threads that call ingest_rlds
    Processes,    \* the processes they live in
    ProcessOf,    \* ProcessOf[t]: the process of thread t
    Runs,         \* run ids: content digests of a source, its splits and mapping
    NEpisodes,    \* episodes of a source
    StepsOf,      \* StepsOf[e]: steps of episode e, counted from 0
    BatchSize,    \* batch_size: rows buffered in memory before a flush
    MaxCalls,     \* bound: calls of ingest_rlds, over all threads
    Faults,       \* which of "interrupt", "undo" (see Interrupt, UndoFails) may happen
    Free,         \* the gate row has owner_token = NULL
    Orphaned      \* the gate row holds a token that no live thread remembers

Episodes == 0 .. NEpisodes - 1

ASSUME ThreadAssumption == /\ ProcessOf \in [Threads -> Processes]
                           /\ Free \notin Threads
                           /\ Orphaned \notin Threads
                           /\ Free # Orphaned
                           /\ Runs # {}
ASSUME SizeAssumption == /\ NEpisodes \in Nat \ {0}
                         /\ StepsOf \in [Episodes -> Nat \ {0}]
                         /\ BatchSize \in Nat \ {0}
                         /\ MaxCalls \in Nat
ASSUME FaultAssumption == Faults \subseteq {"interrupt", "undo"}

(***************************************************************************)
(* The rows one run is made of: <<table, key, sub-key>>.  Identifiers are  *)
(* derived from the run id and the indices, so a row written twice is two  *)
(* copies of the same identifier.                                          *)
(***************************************************************************)
ObservationRow(e, s) == <<"observations", e, s>>
EpisodeRow(e)        == <<"episodes", e, 0>>
ScenarioRow(e)       == <<"scenarios", e, 0>>
RunRow               == <<"runs", 0, 0>>
EventRows            == {<<"events", 0, 0>>, <<"events", 1, 0>>}
TransformRows        == {<<"transform_runs", 0, 0>>, <<"transform_runs", 1, 0>>}

Rows == (UNION { {ObservationRow(e, s) : s \in 0 .. StepsOf[e] - 1} : e \in Episodes })
        \cup {EpisodeRow(e) : e \in Episodes}
        \cup {ScenarioRow(e) : e \in Episodes}
        \cup {RunRow} \cup EventRows \cup TransformRows

\* The order in which _cleanup_partial_run empties the tables.
CleanupOrder == <<"observations", "episodes", "scenarios", "events", "runs", "transform_runs">>

VARIABLES
    lake,       \* lake[r][x]: copies of row x of run r
    sources,    \* runs whose source is registered in integration_sources
    skips,      \* runs with a "skipped-duplicate" transform row
    gate,       \* owner of the `global` row of rlds_ingest_claims
    locks,      \* locks[p][r]: holder of the in-process lock, or Free
    pc,         \* pc[t]: next step of thread t's call
    run,        \* run[t]: the run the call ingests
    episode,    \* episode[t]: total_episodes, the episode being read
    step,       \* step[t]: step_count within the episode
    batch,      \* batch[t]: rows buffered in memory
    cleaning,   \* cleaning[t]: index in CleanupOrder of the next table to empty
    outcome,    \* outcome[t]: how the last call ended
    calls       \* calls made so far

vars == <<lake, sources, skips, gate, locks, pc, run, episode, step, batch,
          cleaning, outcome, calls>>

-----------------------------------------------------------------------------

\* Steps in the first try block and in the second one: an Exception there
\* runs _cleanup_partial_run before it propagates.
Streaming  == {"stream", "episode", "scenario", "tailObs", "tailEps", "tailScs"}
Publishing == {"addRun", "addEvents", "addTransforms", "finalize"}
Guarded    == Streaming \cup Publishing
\* Steps under the gate whose exceptions propagate without a cleanup.
Unguarded  == {"check", "cleanup", "register"}
\* Every step of the `with` body, and the release in its finally clause.
Body       == Unguarded \cup Guarded \cup {"undo", "release"}
Steps      == {"idle", "lock", "claim"} \cup Body
Outcomes   == {"none", "completed", "skipped", "failed", "refused", "crashed"}

NoRows == [x \in Rows |-> 0]
Add(rows, S)      == [x \in Rows |-> rows[x] + (IF x \in S THEN 1 ELSE 0)]
Delete(rows, tab) == [x \in Rows |-> IF x[1] = tab THEN 0 ELSE rows[x]]
Buffered(t, tab)  == {x \in batch[t] : x[1] = tab}

Init ==
    /\ lake = [r \in Runs |-> NoRows]
    /\ sources = {}
    /\ skips = {}
    /\ gate = Free
    /\ locks = [p \in Processes |-> [r \in Runs |-> Free]]
    /\ pc = [t \in Threads |-> "idle"]
    /\ run = [t \in Threads |-> CHOOSE r \in Runs : TRUE]
    /\ episode = [t \in Threads |-> 0]
    /\ step = [t \in Threads |-> 0]
    /\ batch = [t \in Threads |-> {}]
    /\ cleaning = [t \in Threads |-> 1]
    /\ outcome = [t \in Threads |-> "none"]
    /\ calls = 0

Goto(t, label) == pc' = [pc EXCEPT ![t] = label]
Unlock(t) == locks' = [locks EXCEPT ![ProcessOf[t]][run[t]] = Free]

\* The call returns or raises: the lock is released, its locals are gone.
locals == <<episode, step, batch, cleaning>>
Return(t) ==
    /\ Unlock(t)
    /\ Goto(t, "idle")
    /\ episode' = [episode EXCEPT ![t] = 0]
    /\ step' = [step EXCEPT ![t] = 0]
    /\ batch' = [batch EXCEPT ![t] = {}]
    /\ cleaning' = [cleaning EXCEPT ![t] = 1]

\* ingest_rlds is called: the source is inspected and the run id derived.
Call(t, r) ==
    /\ pc[t] = "idle"
    /\ calls < MaxCalls
    /\ calls' = calls + 1
    /\ run' = [run EXCEPT ![t] = r]
    /\ outcome' = [outcome EXCEPT ![t] = "none"]
    /\ Goto(t, "lock")
    /\ UNCHANGED <<lake, sources, skips, gate, locks, locals>>

\* `with lock`: the threads of a process queue up per lake and digest.
AcquireLock(t) ==
    /\ pc[t] = "lock"
    /\ locks[ProcessOf[t]][run[t]] = Free
    /\ locks' = [locks EXCEPT ![ProcessOf[t]][run[t]] = t]
    /\ Goto(t, "claim")
    /\ UNCHANGED <<lake, sources, skips, gate, run, locals, outcome, calls>>

\* Mutant: the update forgets `owner_token IS NULL`.
ClaimGateAnyOwner(t) ==
    /\ pc[t] = "claim"
    /\ gate' = t
    /\ Goto(t, "check")
    /\ UNCHANGED <<lake, sources, skips, locks, run, locals, outcome, calls>>

\* Mutant: a gate left by a crash is taken over.
ClaimGateStale(t) ==
    /\ gate \in {Free, Orphaned}
    /\ ClaimGateAnyOwner(t)

\* The update WHERE owner_token IS NULL matched the gate row.
ClaimGate(t) ==
    /\ pc[t] = "claim"
    /\ gate = Free
    /\ gate' = t
    /\ Goto(t, "check")
    /\ UNCHANGED <<lake, sources, skips, locks, run, locals, outcome, calls>>

\* Mutant: a refused call keeps the in-process lock.
ClaimRefusedLocked(t) ==
    /\ pc[t] = "claim"
    /\ gate # Free
    /\ outcome' = [outcome EXCEPT ![t] = "refused"]
    /\ Goto(t, "idle")
    /\ UNCHANGED <<lake, sources, skips, gate, locks, run, locals, calls>>

\* The update matched no row: the call fails before it deletes or writes.
ClaimRefused(t) ==
    /\ pc[t] = "claim"
    /\ gate # Free
    /\ outcome' = [outcome EXCEPT ![t] = "refused"]
    /\ Return(t)
    /\ UNCHANGED <<lake, sources, skips, gate, run, calls>>

\* The runs row exists: audit the duplicate call and return.
AlreadyIngested(t) ==
    /\ pc[t] = "check"
    /\ lake[run[t]][RunRow] > 0
    /\ skips' = skips \cup {run[t]}
    /\ outcome' = [outcome EXCEPT ![t] = "skipped"]
    /\ Goto(t, "release")
    /\ UNCHANGED <<lake, sources, gate, locks, run, locals, calls>>

\* Mutant: a retry trusts that there is nothing to clean up.
NotIngestedNoCleanup(t) ==
    /\ pc[t] = "check"
    /\ lake[run[t]][RunRow] = 0
    /\ Goto(t, "register")
    /\ UNCHANGED <<lake, sources, skips, gate, locks, run, locals, outcome, calls>>

\* Mutant: the runs table is not consulted.
NotIngestedUnchecked(t) ==
    /\ pc[t] = "check"
    /\ cleaning' = [cleaning EXCEPT ![t] = 1]
    /\ Goto(t, "cleanup")
    /\ UNCHANGED <<lake, sources, skips, gate, locks, run, episode, step, batch,
                   outcome, calls>>

NotIngested(t) ==
    /\ pc[t] = "check"
    /\ lake[run[t]][RunRow] = 0
    /\ cleaning' = [cleaning EXCEPT ![t] = 1]
    /\ Goto(t, "cleanup")
    /\ UNCHANGED <<lake, sources, skips, gate, locks, run, episode, step, batch,
                   outcome, calls>>

\* One table of _cleanup_partial_run: called before the first write, and by
\* both except clauses.
CleanTable(t) ==
    /\ pc[t] \in {"cleanup", "undo"}
    /\ cleaning[t] <= Len(CleanupOrder)
    /\ lake' = [lake EXCEPT ![run[t]] = Delete(@, CleanupOrder[cleaning[t]])]
    /\ cleaning' = [cleaning EXCEPT ![t] = @ + 1]
    /\ UNCHANGED <<sources, skips, gate, locks, pc, run, episode, step, batch,
                   outcome, calls>>

CleanDone(t) ==
    /\ pc[t] \in {"cleanup", "undo"}
    /\ cleaning[t] > Len(CleanupOrder)
    /\ Goto(t, IF pc[t] = "cleanup" THEN "register" ELSE "release")
    /\ UNCHANGED <<lake, sources, skips, gate, locks, run, locals, outcome, calls>>

\* _register_resolved_source: insert the source unless it is there.
Register(t) ==
    /\ pc[t] = "register"
    /\ sources' = sources \cup {run[t]}
    /\ episode' = [episode EXCEPT ![t] = 0]
    /\ step' = [step EXCEPT ![t] = 0]
    /\ batch' = [batch EXCEPT ![t] = {}]
    /\ Goto(t, "stream")
    /\ UNCHANGED <<lake, skips, gate, locks, run, cleaning, outcome, calls>>

\* Buffer S and flush the rows of table tab when there are enough of them.
FlushRows(t, S, tab) ==
    LET buffered == batch[t] \cup S
        full     == {x \in buffered : x[1] = tab}
    IN IF Cardinality(full) >= BatchSize
         THEN /\ lake' = [lake EXCEPT ![run[t]] = Add(@, full)]
              /\ batch' = [batch EXCEPT ![t] = buffered \ full]
         ELSE /\ batch' = [batch EXCEPT ![t] = buffered]
              /\ UNCHANGED lake

\* One step of the episode: buffer its observation, flush a full batch.
ReadStep(t) ==
    /\ pc[t] = "stream"
    /\ episode[t] < NEpisodes
    /\ FlushRows(t, {ObservationRow(episode[t], step[t])}, "observations")
    /\ step' = [step EXCEPT ![t] = @ + 1]
    /\ Goto(t, IF step[t] + 1 = StepsOf[episode[t]] THEN "episode" ELSE "stream")
    /\ UNCHANGED <<sources, skips, gate, locks, run, episode, cleaning, outcome, calls>>

\* Mutant: step_count is not reset for the next episode.
EndEpisodeKeepsStep(t) ==
    /\ pc[t] = "episode"
    /\ FlushRows(t, {EpisodeRow(episode[t]), ScenarioRow(episode[t])}, "episodes")
    /\ episode' = [episode EXCEPT ![t] = @ + 1]
    /\ Goto(t, "scenario")
    /\ UNCHANGED <<sources, skips, gate, locks, run, step, cleaning, outcome, calls>>

\* The episode ended: buffer its episode and scenario rows, flush episodes.
EndEpisode(t) ==
    /\ pc[t] = "episode"
    /\ FlushRows(t, {EpisodeRow(episode[t]), ScenarioRow(episode[t])}, "episodes")
    /\ episode' = [episode EXCEPT ![t] = @ + 1]
    /\ step' = [step EXCEPT ![t] = 0]
    /\ Goto(t, "scenario")
    /\ UNCHANGED <<sources, skips, gate, locks, run, cleaning, outcome, calls>>

FlushScenarios(t) ==
    /\ pc[t] = "scenario"
    /\ FlushRows(t, {}, "scenarios")
    /\ Goto(t, "stream")
    /\ UNCHANGED <<sources, skips, gate, locks, run, episode, step, cleaning, outcome, calls>>

\* The source is exhausted.
EndOfSource(t) ==
    /\ pc[t] = "stream"
    /\ episode[t] = NEpisodes
    /\ Goto(t, "tailObs")
    /\ UNCHANGED <<lake, sources, skips, gate, locks, run, locals, outcome, calls>>

\* _flush_all: what is left of one buffer is committed in one append.
FlushAll(t, at, tab, next) ==
    /\ pc[t] = at
    /\ lake' = [lake EXCEPT ![run[t]] = Add(@, Buffered(t, tab))]
    /\ batch' = [batch EXCEPT ![t] = @ \ Buffered(t, tab)]
    /\ Goto(t, next)
    /\ UNCHANGED <<sources, skips, gate, locks, run, episode, step, cleaning, outcome, calls>>

FlushTail(t) ==
    \/ FlushAll(t, "tailObs", "observations", "tailEps")
    \/ FlushAll(t, "tailEps", "episodes", "tailScs")
    \/ FlushAll(t, "tailScs", "scenarios", "addRun")

\* One append of the second try block.
Append1(t, at, S, next) ==
    /\ pc[t] = at
    /\ lake' = [lake EXCEPT ![run[t]] = Add(@, S)]
    /\ Goto(t, next)
    /\ UNCHANGED <<sources, skips, gate, locks, run, locals, outcome, calls>>

Publish(t) ==
    \/ Append1(t, "addRun", {RunRow}, "addEvents")
    \/ Append1(t, "addEvents", EventRows, "addTransforms")
    \/ Append1(t, "addTransforms", TransformRows, "finalize")

\* _finalize_ingest and the best-effort lineage emission succeeded.
Finalize(t) ==
    /\ pc[t] = "finalize"
    /\ outcome' = [outcome EXCEPT ![t] = "completed"]
    /\ Goto(t, "release")
    /\ UNCHANGED <<lake, sources, skips, gate, locks, run, locals, calls>>

\* The finally clause of the gate frees the row whose token is the caller's.
Release(t) ==
    /\ pc[t] = "release"
    /\ gate' = IF gate = t THEN Free ELSE gate
    /\ Return(t)
    /\ UNCHANGED <<lake, sources, skips, run, outcome, calls>>

-----------------------------------------------------------------------------
\* Failures.

\* The release update raises: the row keeps a token nobody will present again.
ReleaseFails(t) ==
    /\ pc[t] = "release"
    /\ gate' = IF gate = t THEN Orphaned ELSE gate
    /\ outcome' = [outcome EXCEPT ![t] = "failed"]
    /\ Return(t)
    /\ UNCHANGED <<lake, sources, skips, run, calls>>

\* Mutant: the second try block has no except clause.
FailUndoesStreamOnly(t) ==
    /\ pc[t] \in Guarded
    /\ outcome' = [outcome EXCEPT ![t] = "failed"]
    /\ cleaning' = [cleaning EXCEPT ![t] = 1]
    /\ Goto(t, IF pc[t] \in Streaming THEN "undo" ELSE "release")
    /\ UNCHANGED <<lake, sources, skips, gate, locks, run, episode, step, batch, calls>>

\* An Exception in one of the try blocks: clean up, then propagate.
Fail(t) ==
    /\ pc[t] \in Guarded
    /\ outcome' = [outcome EXCEPT ![t] = "failed"]
    /\ cleaning' = [cleaning EXCEPT ![t] = 1]
    /\ Goto(t, "undo")
    /\ UNCHANGED <<lake, sources, skips, gate, locks, run, episode, step, batch, calls>>

Propagate(t) ==
    /\ outcome' = [outcome EXCEPT ![t] = "failed"]
    /\ Goto(t, "release")
    /\ UNCHANGED <<lake, sources, skips, gate, locks, run, locals, calls>>

\* An exception outside the try blocks.
FailUnguarded(t) ==
    /\ pc[t] \in Unguarded
    /\ Propagate(t)

\* KeyboardInterrupt or SystemExit is no Exception: neither except clause runs.
Interrupt(t) ==
    /\ "interrupt" \in Faults
    /\ pc[t] \in Guarded
    /\ Propagate(t)

\* A delete of the cleanup in an except clause raises in its turn.
UndoFails(t) ==
    /\ "undo" \in Faults
    /\ pc[t] = "undo"
    /\ Propagate(t)

\* A process is killed: its threads and locks vanish, the lake stays as it is.
Crash(p) ==
    LET dead == {t \in Threads : ProcessOf[t] = p}
    IN /\ \E t \in dead : pc[t] # "idle"
       /\ gate' = IF gate \in dead THEN Orphaned ELSE gate
       /\ locks' = [locks EXCEPT ![p] = [r \in Runs |-> Free]]
       /\ outcome' = [t \in Threads |-> IF t \in dead /\ pc[t] # "idle" THEN "crashed"
                                        ELSE outcome[t]]
       /\ pc' = [t \in Threads |-> IF t \in dead THEN "idle" ELSE pc[t]]
       /\ episode' = [t \in Threads |-> IF t \in dead THEN 0 ELSE episode[t]]
       /\ step' = [t \in Threads |-> IF t \in dead THEN 0 ELSE step[t]]
       /\ batch' = [t \in Threads |-> IF t \in dead THEN {} ELSE batch[t]]
       /\ cleaning' = [t \in Threads |-> IF t \in dead THEN 1 ELSE cleaning[t]]
       /\ UNCHANGED <<lake, sources, skips, run, calls>>

-----------------------------------------------------------------------------

\* What a running call does next when nothing goes wrong.
Progress(t) ==
    \/ AcquireLock(t)
    \/ ClaimGate(t) \/ ClaimRefused(t)
    \/ AlreadyIngested(t) \/ NotIngested(t)
    \/ CleanTable(t) \/ CleanDone(t)
    \/ Register(t)
    \/ ReadStep(t) \/ EndEpisode(t) \/ FlushScenarios(t) \/ EndOfSource(t)
    \/ FlushTail(t) \/ Publish(t) \/ Finalize(t)
    \/ Release(t)

Failure(t) ==
    \/ ReleaseFails(t) \/ Fail(t) \/ FailUnguarded(t)
    \/ Interrupt(t) \/ UndoFails(t)

Next ==
    \/ \E t \in Threads : \/ \E r \in Runs : Call(t, r)
                          \/ Progress(t)
                          \/ Failure(t)
    \/ \E p \in Processes : Crash(p)

Spec == Init /\ [][Next]_vars

\* A call that was started is executed to its end.
FairSpec == Spec /\ \A t \in Threads : WF_vars(Progress(t))
-----------------------------------------------------------------------------
\* Properties.

\* Every variable keeps its type; a buffered row is a row of the source.
TypeOK ==
    /\ lake \in [Runs -> [Rows -> Nat]]
    /\ sources \subseteq Runs
    /\ skips \subseteq Runs
    /\ gate \in Threads \cup {Free, Orphaned}
    /\ locks \in [Processes -> [Runs -> Threads \cup {Free}]]
    /\ pc \in [Threads -> Steps]
    /\ run \in [Threads -> Runs]
    /\ episode \in [Threads -> 0 .. NEpisodes]
    /\ step \in [Threads -> Nat]
    /\ batch \in [Threads -> SUBSET Rows]
    /\ cleaning \in [Threads -> 1 .. Len(CleanupOrder) + 1]
    /\ outcome \in [Threads -> Outcomes]
    /\ calls \in 0 .. MaxCalls

\* The multi-table write sections of two calls never overlap: whoever is in
\* the `with _rlds_ingest_claim` body owns the gate row.
OneWriter == \A t \in Threads : pc[t] \in Body => gate = t

\* However often a run is retried, after whatever failures and from however
\* many processes, no canonical row is ever in the lake twice.
NoDuplicateRows == \A r \in Runs : \A x \in Rows : lake[r][x] <= 1

\* A call that reports "already ingested" tells the truth: the run it
\* skipped has every one of its rows.
AlreadyIngestedIsComplete ==
    \A t \in Threads : pc[t] = "release" /\ outcome[t] = "skipped"
                         => \A x \in Rows : lake[run[t]][x] = 1

\* After a hard crash of the gate's owner the lake fails closed: nobody
\* takes the gate and nobody writes a canonical row.
FailsClosed == [][gate = Orphaned => gate' = Orphaned /\ lake' = lake]_vars

\* Every call ends: a caller that finds the gate or the lock taken is
\* refused or let in, never stuck.
CallsEnd == \A t \in Threads : pc[t] # "idle" ~> pc[t] = "idle"

\* The runs a reader may rely on: complete, and not being written or undone.
IngestedRuns ==
    {r \in Runs : /\ \A x \in Rows : lake[r][x] = 1
                  /\ \A t \in Threads : pc[t] \in Guarded \cup {"undo"} => run[t] # r}

Atomic == INSTANCE AtomicIngest WITH ingested <- IngestedRuns

\* The long sequence of single-table commits implements one atomic step per
\* run, that no later call, failure or crash takes back.
IngestIsAtomic == Atomic!Spec

-----------------------------------------------------------------------------
(***************************************************************************)
(* The inductive invariant behind OneWriter and NoDuplicateRows.           *)
(***************************************************************************)

\* Where the reader of the source stands.
CursorOK ==
    \A t \in Threads :
        /\ pc[t] \in {"stream", "scenario"} /\ episode[t] < NEpisodes =>
              step[t] < StepsOf[episode[t]]
        /\ pc[t] = "episode" => episode[t] < NEpisodes

\* The rows a call in a try block has still to produce.
Unread(t) ==
    {x \in Rows :
        \/ /\ x[1] = "observations"
           /\ x[2] > episode[t] \/ (x[2] = episode[t] /\ x[3] >= step[t])
        \/ x[1] \in {"episodes", "scenarios"} /\ x[2] >= episode[t]
        \/ x[1] = "runs" /\ pc[t] \in Streaming \cup {"addRun"}
        \/ x[1] = "events" /\ pc[t] \in Streaming \cup {"addRun", "addEvents"}
        \/ x[1] = "transform_runs"
           /\ pc[t] \in Streaming \cup {"addRun", "addEvents", "addTransforms"}}

\* Neither a buffered row nor one still to be produced is in the lake.
FreshAt(t) ==
    pc[t] \in Guarded =>
        /\ batch[t] \cap Unread(t) = {}
        /\ \A x \in batch[t] \cup Unread(t) : lake[run[t]][x] = 0

\* A cleanup has emptied the tables it has passed.
CleanAt(t) ==
    /\ pc[t] \in {"cleanup", "undo"} =>
          \A x \in Rows : \A k \in 1 .. 6 :
              k < cleaning[t] /\ x[1] = CleanupOrder[k] => lake[run[t]][x] = 0
    /\ pc[t] = "register" => \A x \in Rows : lake[run[t]][x] = 0

WritesOK == \A t \in Threads : FreshAt(t) /\ CleanAt(t)

IInv == TypeOK /\ CursorOK /\ OneWriter /\ WritesOK /\ NoDuplicateRows
=============================================================================

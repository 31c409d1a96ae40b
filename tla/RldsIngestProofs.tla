-------------------------- MODULE RldsIngestProofs --------------------------
(***************************************************************************)
(* Proofs about RldsIngest, for any number of threads, processes, runs,    *)
(* episodes, steps and batch sizes.  The first part allows every fault;    *)
(* the second, on completeness and refinement, excludes the two that the   *)
(* code does not undo (Faults = {}).                                       *)
(***************************************************************************)
EXTENDS RldsIngest, TLAPS

USE ThreadAssumption, SizeAssumption

Tables == {"observations", "episodes", "scenarios", "events", "runs", "transform_runs"}

\* Every row belongs to a table that _cleanup_partial_run empties.
LEMMA RowShape == \A x \in Rows : x[1] \in Tables /\ x[2] \in Nat /\ x[3] \in Nat
<1> SUFFICES ASSUME NEW x \in Rows
             PROVE  x[1] \in Tables /\ x[2] \in Nat /\ x[3] \in Nat
    OBVIOUS
<1>1. CASE \E e \in Episodes : \E s \in 0 .. StepsOf[e] - 1 : x = ObservationRow(e, s)
  BY <1>1 DEF Tables, ObservationRow, Episodes
<1>2. CASE \E e \in Episodes : x = EpisodeRow(e) \/ x = ScenarioRow(e)
  BY <1>2 DEF Tables, EpisodeRow, ScenarioRow, Episodes
<1>3. CASE x \in {RunRow} \cup EventRows \cup TransformRows
  BY <1>3 DEF Tables, RunRow, EventRows, TransformRows
<1> QED
  BY <1>1, <1>2, <1>3 DEF Rows

\* The rows an ingest produces are rows of its run.
LEMMA RowsAre ==
    /\ \A e \in Episodes : \A s \in 0 .. StepsOf[e] - 1 : ObservationRow(e, s) \in Rows
    /\ \A e \in Episodes : EpisodeRow(e) \in Rows /\ ScenarioRow(e) \in Rows
    /\ RunRow \in Rows
    /\ EventRows \subseteq Rows
    /\ TransformRows \subseteq Rows
  BY DEF Rows

\* CleanupOrder names every table.
LEMMA CleanupOrderComplete ==
    /\ Len(CleanupOrder) = 6
    /\ \A k \in 1 .. 6 : CleanupOrder[k] \in Tables
    /\ \A tab \in Tables : \E k \in 1 .. 6 : CleanupOrder[k] = tab
  BY DEF CleanupOrder, Tables

\* What an append and a delete leave in a table.
LEMMA AddSpec ==
    ASSUME NEW rows \in [Rows -> Nat], NEW S
    PROVE  /\ Add(rows, S) \in [Rows -> Nat]
           /\ \A x \in Rows : Add(rows, S)[x] = rows[x] + (IF x \in S THEN 1 ELSE 0)
  BY DEF Add

LEMMA DeleteSpec ==
    ASSUME NEW rows \in [Rows -> Nat], NEW tab
    PROVE  /\ Delete(rows, tab) \in [Rows -> Nat]
           /\ \A x \in Rows : Delete(rows, tab)[x] = IF x[1] = tab THEN 0 ELSE rows[x]
  BY DEF Delete

\* What FlushRows leaves in the lake and in the buffer.
LEMMA FlushRowsSpec ==
    ASSUME TypeOK, NEW t \in Threads, NEW S \in SUBSET Rows, NEW tab, FlushRows(t, S, tab)
    PROVE  /\ lake' \in [Runs -> [Rows -> Nat]]
           /\ batch' \in [Threads -> SUBSET Rows]
           /\ \E full \in SUBSET Rows :
                /\ full \subseteq batch[t] \cup S
                /\ batch' = [batch EXCEPT ![t] = (batch[t] \cup S) \ full]
                /\ \A r \in Runs : r # run[t] => lake'[r] = lake[r]
                /\ \A x \in Rows : lake'[run[t]][x] =
                      lake[run[t]][x] + (IF x \in full THEN 1 ELSE 0)
<1> DEFINE buffered == batch[t] \cup S
           full == {x \in buffered : x[1] = tab}
<1>1. /\ batch \in [Threads -> SUBSET Rows]
      /\ run[t] \in Runs
      /\ lake \in [Runs -> [Rows -> Nat]]
      /\ lake[run[t]] \in [Rows -> Nat]
  BY DEF TypeOK
<1>2. buffered \in SUBSET Rows /\ full \in SUBSET Rows
  BY <1>1
<1>3. CASE Cardinality(full) >= BatchSize
  <2>1. /\ lake' = [lake EXCEPT ![run[t]] = Add(lake[run[t]], full)]
        /\ batch' = [batch EXCEPT ![t] = buffered \ full]
    BY <1>3 DEF FlushRows
  <2>2. /\ Add(lake[run[t]], full) \in [Rows -> Nat]
        /\ \A x \in Rows : Add(lake[run[t]], full)[x] =
              lake[run[t]][x] + (IF x \in full THEN 1 ELSE 0)
    BY <1>1, AddSpec
  <2> HIDE DEF full, buffered
  <2>3. lake' \in [Runs -> [Rows -> Nat]] /\ batch' \in [Threads -> SUBSET Rows]
    BY <1>1, <1>2, <2>1, <2>2
  <2>4. /\ \A r \in Runs : r # run[t] => lake'[r] = lake[r]
        /\ lake'[run[t]] = Add(lake[run[t]], full)
    BY <1>1, <2>1
  <2>5. full \subseteq buffered
    BY DEF full
  <2>6. /\ full \subseteq batch[t] \cup S
        /\ batch' = [batch EXCEPT ![t] = (batch[t] \cup S) \ full]
        /\ \A r \in Runs : r # run[t] => lake'[r] = lake[r]
        /\ \A x \in Rows : lake'[run[t]][x] = lake[run[t]][x] + (IF x \in full THEN 1 ELSE 0)
    BY <2>1, <2>2, <2>4, <2>5 DEF buffered
  <2> QED
    BY <1>2, <2>3, <2>6
<1>4. CASE ~(Cardinality(full) >= BatchSize)
  <2>1. lake' = lake /\ batch' = [batch EXCEPT ![t] = buffered]
    BY <1>4 DEF FlushRows
  <2>2. batch' \in [Threads -> SUBSET Rows]
    BY <1>1, <1>2, <2>1
  <2>3. batch' = [batch EXCEPT ![t] = buffered \ {}]
    BY <2>1
  <2>4. \A x \in Rows : lake'[run[t]][x] = lake[run[t]][x] + (IF x \in {} THEN 1 ELSE 0)
    BY <1>1, <2>1
  <2>5. {} \in SUBSET Rows /\ {} \subseteq batch[t] \cup S
    OBVIOUS
  <2> HIDE DEF full
  <2> QED
    BY <1>1, <2>1, <2>2, <2>3, <2>4, <2>5
<1> QED
  BY <1>3, <1>4

\* A call's buffers and cursors stay well formed, whatever step is taken.
LEMMA TypeStep == ASSUME TypeOK, CursorOK, Next PROVE TypeOK' /\ CursorOK'
<1> USE DEF TypeOK, CursorOK, Steps, Body, Unguarded, Guarded, Streaming, Publishing,
            Outcomes, Goto, locals
<1> USE CleanupOrderComplete
<1>0. \A t \in Threads : lake[run[t]] \in [Rows -> Nat]
  OBVIOUS
<1>1. ASSUME NEW t \in Threads, NEW r \in Runs, Call(t, r) PROVE TypeOK' /\ CursorOK'
  BY <1>1 DEF Call
<1>2. ASSUME NEW t \in Threads, AcquireLock(t) PROVE TypeOK' /\ CursorOK'
  BY <1>2 DEF AcquireLock
<1>3. ASSUME NEW t \in Threads, ClaimGate(t) PROVE TypeOK' /\ CursorOK'
  BY <1>3 DEF ClaimGate
<1>4. ASSUME NEW t \in Threads, ClaimRefused(t) PROVE TypeOK' /\ CursorOK'
  BY <1>4 DEF Return, Unlock, ClaimRefused
<1>5. ASSUME NEW t \in Threads, AlreadyIngested(t) PROVE TypeOK' /\ CursorOK'
  BY <1>5 DEF AlreadyIngested
<1>6. ASSUME NEW t \in Threads, NotIngested(t) PROVE TypeOK' /\ CursorOK'
  BY <1>6 DEF NotIngested
<1>7. ASSUME NEW t \in Threads, CleanTable(t) PROVE TypeOK' /\ CursorOK'
  <2>1. Delete(lake[run[t]], CleanupOrder[cleaning[t]]) \in [Rows -> Nat]
    BY <1>0, DeleteSpec
  <2> QED
    BY <1>7, <2>1 DEF CleanTable
<1>8. ASSUME NEW t \in Threads, CleanDone(t) PROVE TypeOK' /\ CursorOK'
  BY <1>8 DEF CleanDone
<1>9. ASSUME NEW t \in Threads, Register(t) PROVE TypeOK' /\ CursorOK'
  BY <1>9 DEF Register, Episodes
<1>10. ASSUME NEW t \in Threads, ReadStep(t) PROVE TypeOK' /\ CursorOK'
  <2>1. /\ episode[t] \in Episodes
        /\ StepsOf[episode[t]] \in Nat \ {0}
        /\ step[t] \in 0 .. StepsOf[episode[t]] - 1
    BY <1>10 DEF ReadStep, Episodes
  <2>2. {ObservationRow(episode[t], step[t])} \in SUBSET Rows
    BY <2>1, RowsAre
  <2>3. lake' \in [Runs -> [Rows -> Nat]] /\ batch' \in [Threads -> SUBSET Rows]
    BY <1>10, <2>2, FlushRowsSpec DEF ReadStep
  <2>4. /\ step' \in [Threads -> Nat]
        /\ pc' \in [Threads -> Steps]
        /\ UNCHANGED <<sources, skips, gate, locks, run, episode, cleaning, outcome, calls>>
    BY <1>10 DEF ReadStep
  <2> HIDE DEF Steps, Outcomes
  <2>5. TypeOK'
    BY <2>3, <2>4
  <2>6. \A u \in Threads : u # t => pc'[u] = pc[u] /\ step'[u] = step[u] /\ episode'[u] = episode[u]
    BY <1>10 DEF ReadStep
  <2>7. /\ step'[t] = step[t] + 1 /\ episode'[t] = episode[t]
        /\ pc'[t] = IF step[t] + 1 = StepsOf[episode[t]] THEN "episode" ELSE "stream"
        /\ episode[t] < NEpisodes
    BY <1>10 DEF ReadStep
  <2>8. CursorOK'
    <3>1. \/ pc'[t] = "episode"
          \/ pc'[t] = "stream" /\ step'[t] < StepsOf[episode'[t]]
      BY <2>1, <2>7
    <3> QED
      BY <2>6, <2>7, <3>1
  <2> QED
    BY <2>5, <2>8
<1>11. ASSUME NEW t \in Threads, EndEpisode(t) PROVE TypeOK' /\ CursorOK'
  <2>1. EpisodeRow(episode[t]) \in Rows /\ ScenarioRow(episode[t]) \in Rows
    BY <1>11, RowsAre DEF EndEpisode, Episodes
  <2>2. lake' \in [Runs -> [Rows -> Nat]] /\ batch' \in [Threads -> SUBSET Rows]
    BY <1>11, <2>1, FlushRowsSpec DEF EndEpisode
  <2>3. TypeOK'
    <3>1. /\ step' \in [Threads -> Nat]
          /\ pc' \in [Threads -> Steps]
          /\ episode' \in [Threads -> 0 .. NEpisodes]
          /\ UNCHANGED <<sources, skips, gate, locks, run, cleaning, outcome, calls>>
      BY <1>11 DEF EndEpisode
    <3> HIDE DEF Steps, Outcomes
    <3> QED
      BY <2>2, <3>1
  <2>4. \A e \in 0 .. NEpisodes : e < NEpisodes => StepsOf[e] \in Nat \ {0}
    BY DEF Episodes
  <2>5. CursorOK'
    BY <1>11, <2>4 DEF EndEpisode
  <2> QED
    BY <2>3, <2>5
<1>12. ASSUME NEW t \in Threads, FlushScenarios(t) PROVE TypeOK' /\ CursorOK'
  <2>1. lake' \in [Runs -> [Rows -> Nat]] /\ batch' \in [Threads -> SUBSET Rows]
    <3>1. {} \in SUBSET Rows
      OBVIOUS
    <3> QED
      BY <1>12, <3>1, FlushRowsSpec DEF FlushScenarios
  <2> QED
    BY <1>12, <2>1 DEF FlushScenarios, Episodes
<1>13. ASSUME NEW t \in Threads, EndOfSource(t) PROVE TypeOK' /\ CursorOK'
  BY <1>13 DEF EndOfSource
<1>14. ASSUME NEW t \in Threads, FlushTail(t) PROVE TypeOK' /\ CursorOK'
  <2>1. \A tab : Add(lake[run[t]], Buffered(t, tab)) \in [Rows -> Nat]
    BY <1>0, AddSpec
  <2>2. PICK at \in Steps, tab \in Tables, next \in Steps :
            FlushAll(t, at, tab, next) /\ next \notin {"stream", "scenario", "episode"}
    BY <1>14 DEF FlushTail, Tables
  <2>3. /\ lake' \in [Runs -> [Rows -> Nat]]
        /\ batch' \in [Threads -> SUBSET Rows]
    BY <2>1, <2>2 DEF FlushAll
  <2> QED
    BY <2>2, <2>3 DEF FlushAll
<1>15. ASSUME NEW t \in Threads, Publish(t) PROVE TypeOK' /\ CursorOK'
  <2>1. \A S : Add(lake[run[t]], S) \in [Rows -> Nat]
    BY <1>0, AddSpec
  <2>2. PICK at \in Steps, S \in SUBSET Rows, next \in Steps :
            Append1(t, at, S, next) /\ next \notin {"stream", "scenario", "episode"}
    BY <1>15, RowsAre DEF Publish
  <2>3. lake' \in [Runs -> [Rows -> Nat]]
    BY <2>1, <2>2 DEF Append1
  <2> QED
    BY <2>2, <2>3 DEF Append1
<1>16. ASSUME NEW t \in Threads, Finalize(t) PROVE TypeOK' /\ CursorOK'
  BY <1>16 DEF Finalize
<1>17. ASSUME NEW t \in Threads, Release(t) PROVE TypeOK' /\ CursorOK'
  BY <1>17 DEF Return, Unlock, Release
<1>18. ASSUME NEW t \in Threads, ReleaseFails(t) PROVE TypeOK' /\ CursorOK'
  BY <1>18 DEF Return, Unlock, ReleaseFails
<1>19. ASSUME NEW t \in Threads, Fail(t) PROVE TypeOK' /\ CursorOK'
  BY <1>19 DEF Fail
<1>20. ASSUME NEW t \in Threads, FailUnguarded(t) PROVE TypeOK' /\ CursorOK'
  BY <1>20 DEF Propagate, FailUnguarded
<1>21. ASSUME NEW t \in Threads, Interrupt(t) PROVE TypeOK' /\ CursorOK'
  BY <1>21 DEF Propagate, Interrupt
<1>22. ASSUME NEW t \in Threads, UndoFails(t) PROVE TypeOK' /\ CursorOK'
  BY <1>22 DEF Propagate, UndoFails
<1>23. ASSUME NEW p \in Processes, Crash(p) PROVE TypeOK' /\ CursorOK'
  BY <1>23 DEF Crash
<1> QED
  BY <1>1, <1>2, <1>3, <1>4, <1>5, <1>6, <1>7, <1>8, <1>9, <1>10, <1>11, <1>12, <1>13, <1>14, <1>15, <1>16, <1>17, <1>18, <1>19, <1>20, <1>21, <1>22, <1>23 DEF Next, Progress, Failure

\* Whoever is inside the gate's body owns the gate row, and a step keeps it so.
LEMMA OneWriterStep == ASSUME TypeOK, OneWriter, Next PROVE OneWriter'
<1> USE DEF OneWriter, TypeOK, Body, Unguarded, Guarded, Streaming, Publishing, Goto, locals
<1>1. ASSUME NEW t \in Threads, NEW r \in Runs, Call(t, r) PROVE OneWriter'
  BY <1>1 DEF Call
<1>2. ASSUME NEW t \in Threads, AcquireLock(t) \/ ClaimRefused(t) PROVE OneWriter'
  BY <1>2 DEF AcquireLock, ClaimRefused, Return, Unlock
<1>3. ASSUME NEW t \in Threads, ClaimGate(t) PROVE OneWriter'
  BY <1>3 DEF ClaimGate
<1>4. ASSUME NEW t \in Threads, Release(t) \/ ReleaseFails(t) PROVE OneWriter'
  BY <1>4 DEF Release, ReleaseFails, Return, Unlock
<1>5. ASSUME NEW t \in Threads, pc[t] \in Body, gate' = gate,
             \A u \in Threads : u # t => pc'[u] = pc[u]
      PROVE  OneWriter'
  BY <1>5
<1>6. ASSUME NEW t \in Threads,
             AlreadyIngested(t) \/ NotIngested(t) \/ CleanTable(t) \/ CleanDone(t) \/ Register(t)
      PROVE  OneWriter'
  BY <1>5, <1>6 DEF AlreadyIngested, NotIngested, CleanTable, CleanDone, Register
<1>7. ASSUME NEW t \in Threads,
             ReadStep(t) \/ EndEpisode(t) \/ FlushScenarios(t) \/ EndOfSource(t)
      PROVE  OneWriter'
  BY <1>5, <1>7 DEF ReadStep, EndEpisode, FlushScenarios, EndOfSource
<1>8. ASSUME NEW t \in Threads, FlushTail(t) \/ Publish(t) \/ Finalize(t) PROVE OneWriter'
  BY <1>5, <1>8 DEF FlushTail, FlushAll, Publish, Append1, Finalize
<1>9. ASSUME NEW t \in Threads,
             Fail(t) \/ FailUnguarded(t) \/ Interrupt(t) \/ UndoFails(t)
      PROVE  OneWriter'
  BY <1>5, <1>9 DEF Fail, FailUnguarded, Interrupt, UndoFails, Propagate
<1>10. ASSUME NEW p \in Processes, Crash(p) PROVE OneWriter'
  BY <1>10 DEF Crash
<1> QED
  BY <1>1, <1>2, <1>3, <1>4, <1>6, <1>7, <1>8, <1>9, <1>10 DEF Next, Progress, Failure

\* A step of the gate's owner concerns no other call: nobody else is writing.
LEMMA OwnerFrame ==
    ASSUME TypeOK, OneWriter, NEW t \in Threads, pc[t] \in Body,
           \A u \in Threads : u # t => pc'[u] = pc[u],
           FreshAt(t)', CleanAt(t)'
    PROVE  WritesOK'
<1> SUFFICES ASSUME NEW u \in Threads, u # t PROVE (FreshAt(u) /\ CleanAt(u))'
  BY DEF WritesOK
<1>1. pc'[u] \notin Body
  BY DEF OneWriter
<1> QED
  BY <1>1 DEF FreshAt, CleanAt, Body, Unguarded

\* A call whose state and whose run are untouched keeps its promises.
LEMMA Untouched ==
    ASSUME NEW u \in Threads, lake' = lake, FreshAt(u), CleanAt(u),
           pc'[u] = pc[u], run'[u] = run[u], episode'[u] = episode[u],
           step'[u] = step[u], batch'[u] = batch[u], cleaning'[u] = cleaning[u]
    PROVE  FreshAt(u)' /\ CleanAt(u)'
<1>1. Unread(u)' = Unread(u)
  BY DEF Unread
<1> QED
  BY <1>1 DEF FreshAt, CleanAt

\* A call that leaves the write sections promises nothing.
LEMMA Outside ==
    ASSUME NEW u \in Threads, pc'[u] \notin Body \ {"check", "release"}
    PROVE  FreshAt(u)' /\ CleanAt(u)'
  BY DEF FreshAt, CleanAt, Body, Unguarded, Guarded, Streaming, Publishing

\* Committing rows that were buffered, or are produced by this very step,
\* duplicates nothing and leaves the remaining rows fresh.
LEMMA CommitFresh ==
    ASSUME TypeOK, NoDuplicateRows, NEW t \in Threads, pc[t] \in Guarded, FreshAt(t),
           NEW S \in SUBSET Rows, S \subseteq Unread(t), NEW full \in SUBSET Rows,
           full \subseteq batch[t] \cup S,
           batch'[t] = (batch[t] \cup S) \ full,
           run' = run,
           \A r \in Runs : r # run[t] => lake'[r] = lake[r],
           \A x \in Rows : lake'[run[t]][x] = lake[run[t]][x] + (IF x \in full THEN 1 ELSE 0),
           Unread(t)' \subseteq Unread(t) \ S
    PROVE  FreshAt(t)' /\ NoDuplicateRows'
<1>0. /\ run[t] \in Runs /\ run'[t] = run[t]
      /\ \A x \in Rows : lake[run[t]][x] \in Nat
      /\ batch[t] \subseteq Rows /\ Unread(t) \subseteq Rows
  BY DEF TypeOK, Unread
<1>1. /\ batch[t] \cap Unread(t) = {}
      /\ \A x \in batch[t] \cup Unread(t) : lake[run[t]][x] = 0
  BY DEF FreshAt
<1>2. \A x \in full : lake'[run[t]][x] = 1
  BY <1>0, <1>1
<1>3. \A x \in Rows \ full : lake'[run[t]][x] = lake[run[t]][x]
  BY <1>0
<1>4. NoDuplicateRows'
  BY <1>0, <1>2, <1>3 DEF NoDuplicateRows
<1>5. \A x \in batch'[t] \cup Unread(t)' : x \in Rows \ full /\ x \in batch[t] \cup Unread(t)
  BY <1>0, <1>1
<1>6. \A x \in batch'[t] \cup Unread(t)' : lake'[run'[t]][x] = 0
  BY <1>0, <1>1, <1>3, <1>5
<1>7. batch'[t] \cap Unread(t)' = {}
  BY <1>1
<1> QED
  BY <1>4, <1>6, <1>7 DEF FreshAt

\* A step of the cleanup, or one that starts it, keeps its promise.
LEMMA CleanStep ==
    ASSUME TypeOK, OneWriter, WritesOK, NoDuplicateRows, NEW t \in Threads,
           NotIngested(t) \/ CleanTable(t) \/ CleanDone(t) \/ Register(t) \/ Fail(t)
    PROVE  WritesOK' /\ NoDuplicateRows'
<1> USE DEF Body, Unguarded, Guarded, Streaming, Publishing, Goto, locals
<1>0. /\ pc[t] \in Body /\ run[t] \in Runs /\ cleaning[t] \in 1 .. 7
      /\ lake[run[t]] \in [Rows -> Nat] /\ lake \in [Runs -> [Rows -> Nat]]
      /\ \A u \in Threads : u # t => pc'[u] = pc[u]
      /\ run' = run
  BY CleanupOrderComplete DEF TypeOK, NotIngested, CleanTable, CleanDone, Register, Fail
<1>1. CASE NotIngested(t) \/ Fail(t)
  <2>1. lake' = lake /\ cleaning'[t] = 1 /\ pc'[t] \in {"cleanup", "undo"}
    BY <1>1 DEF NotIngested, Fail, TypeOK
  <2>2. FreshAt(t)' /\ CleanAt(t)'
    BY <2>1 DEF FreshAt, CleanAt
  <2> QED
    BY <1>0, <2>1, <2>2, OwnerFrame DEF NoDuplicateRows
<1>2. CASE CleanTable(t)
  <2>1. /\ lake' = [lake EXCEPT ![run[t]] = Delete(lake[run[t]], CleanupOrder[cleaning[t]])]
        /\ cleaning'[t] = cleaning[t] + 1
        /\ pc' = pc /\ pc[t] \in {"cleanup", "undo"}
    BY <1>2 DEF CleanTable, TypeOK
  <2>2. /\ \A r \in Runs : r # run[t] => lake'[r] = lake[r]
        /\ \A x \in Rows : lake'[run[t]][x] =
              IF x[1] = CleanupOrder[cleaning[t]] THEN 0 ELSE lake[run[t]][x]
    BY <1>0, <2>1, DeleteSpec
  <2>3. NoDuplicateRows'
    BY <1>0, <2>2 DEF NoDuplicateRows
  <2>4. FreshAt(t)' /\ CleanAt(t)'
    <3>1. \A x \in Rows : \A k \in 1 .. 6 :
             k < cleaning[t] /\ x[1] = CleanupOrder[k] => lake[run[t]][x] = 0
      BY <2>1 DEF WritesOK, CleanAt
    <3>2. \A x \in Rows : \A k \in 1 .. 6 :
             k < cleaning'[t] /\ x[1] = CleanupOrder[k] => lake'[run[t]][x] = 0
      BY <1>0, <2>1, <2>2, <3>1
    <3> QED
      BY <1>0, <2>1, <3>2 DEF FreshAt, CleanAt
  <2> QED
    BY <1>0, <2>3, <2>4, OwnerFrame
<1>3. CASE CleanDone(t)
  <2>1. lake' = lake /\ cleaning[t] = 7 /\ pc[t] \in {"cleanup", "undo"}
        /\ pc'[t] \in {"register", "release"}
    BY <1>0, <1>3, CleanupOrderComplete DEF CleanDone, TypeOK
  <2>2. \A x \in Rows : \A k \in 1 .. 6 : x[1] = CleanupOrder[k] => lake[run[t]][x] = 0
    BY <2>1 DEF WritesOK, CleanAt
  <2>3. \A x \in Rows : lake[run[t]][x] = 0
    BY <2>2, RowShape, CleanupOrderComplete
  <2>4. FreshAt(t)' /\ CleanAt(t)'
    BY <1>0, <2>1, <2>3 DEF FreshAt, CleanAt
  <2> QED
    BY <1>0, <2>1, <2>4, OwnerFrame DEF NoDuplicateRows
<1>4. CASE Register(t)
  <2>1. lake' = lake /\ pc'[t] = "stream" /\ batch'[t] = {}
        /\ \A x \in Rows : lake[run[t]][x] = 0
    BY <1>4 DEF Register, TypeOK, WritesOK, CleanAt
  <2>2. Unread(t)' \subseteq Rows
    BY DEF Unread
  <2>3. FreshAt(t)' /\ CleanAt(t)'
    BY <1>0, <2>1, <2>2 DEF FreshAt, CleanAt
  <2> QED
    BY <1>0, <2>1, <2>3, OwnerFrame DEF NoDuplicateRows
<1> QED
  BY <1>1, <1>2, <1>3, <1>4

\* A step that commits rows, or moves on to the next commit, keeps its promise.
LEMMA CommitStep ==
    ASSUME TypeOK, CursorOK, OneWriter, WritesOK, NoDuplicateRows, NEW t \in Threads,
           \/ ReadStep(t) \/ EndEpisode(t) \/ FlushScenarios(t) \/ EndOfSource(t)
           \/ FlushTail(t) \/ Publish(t) \/ Finalize(t)
    PROVE  WritesOK' /\ NoDuplicateRows'
<1> USE DEF Goto, locals
<1>0. /\ pc[t] \in Guarded /\ pc[t] \in Body /\ run[t] \in Runs /\ FreshAt(t)
      /\ lake[run[t]] \in [Rows -> Nat] /\ lake \in [Runs -> [Rows -> Nat]]
      /\ batch \in [Threads -> SUBSET Rows] /\ episode[t] \in 0 .. NEpisodes /\ step[t] \in Nat
      /\ \A u \in Threads : u # t => pc'[u] = pc[u]
      /\ run' = run
  BY DEF TypeOK, WritesOK, ReadStep, EndEpisode, FlushScenarios, EndOfSource, FlushTail, FlushAll,
         Publish, Append1, Finalize, Body, Guarded, Streaming, Publishing
<1>1. ASSUME NEW S \in SUBSET Rows, S \subseteq Unread(t), NEW tab, FlushRows(t, S, tab),
             Unread(t)' \subseteq Unread(t) \ S, pc'[t] \in Guarded
      PROVE  WritesOK' /\ NoDuplicateRows'
  <2>1. PICK full \in SUBSET Rows :
            /\ full \subseteq batch[t] \cup S
            /\ batch' = [batch EXCEPT ![t] = (batch[t] \cup S) \ full]
            /\ \A r \in Runs : r # run[t] => lake'[r] = lake[r]
            /\ \A x \in Rows : lake'[run[t]][x] = lake[run[t]][x] + (IF x \in full THEN 1 ELSE 0)
    BY <1>1, FlushRowsSpec
  <2>2. /\ full \subseteq batch[t] \cup S
        /\ batch'[t] = (batch[t] \cup S) \ full
        /\ \A r \in Runs : r # run[t] => lake'[r] = lake[r]
        /\ \A x \in Rows : lake'[run[t]][x] = lake[run[t]][x] + (IF x \in full THEN 1 ELSE 0)
    BY <1>0, <2>1
  <2>3. FreshAt(t)' /\ NoDuplicateRows'
    <3>1. /\ S \subseteq Unread(t) /\ Unread(t)' \subseteq Unread(t) \ S
          /\ pc[t] \in Guarded /\ FreshAt(t) /\ run' = run
      BY <1>0, <1>1
    <3> QED
      BY <2>2, <3>1, CommitFresh
  <2>4. CleanAt(t)'
    BY <1>1 DEF CleanAt, Guarded, Streaming, Publishing
  <2> QED
    BY <1>0, <2>3, <2>4, OwnerFrame
<1>2. CASE ReadStep(t)
  <2> DEFINE row == ObservationRow(episode[t], step[t])
  <2>1. /\ episode[t] \in Episodes
        /\ step[t] \in 0 .. StepsOf[episode[t]] - 1
        /\ StepsOf[episode[t]] \in Nat
    BY <1>0, <1>2 DEF ReadStep, Episodes, CursorOK
  <2>2. row \in Rows
    BY <2>1, RowsAre
  <2>3. row \in Unread(t)
    BY <1>0, <2>1, <2>2 DEF Unread, ObservationRow, Episodes
  <2>4. /\ episode'[t] = episode[t] /\ step'[t] = step[t] + 1
        /\ pc[t] \in Streaming /\ pc'[t] \in Streaming
        /\ FlushRows(t, {row}, "observations")
    BY <1>0, <1>2 DEF ReadStep, TypeOK, Streaming
  <2>5. Unread(t)' \subseteq Unread(t) \ {row}
    <3>1. row \notin Unread(t)'
      BY <1>0, <2>1, <2>4 DEF Unread, ObservationRow, Episodes
    <3>2. Unread(t)' \subseteq Unread(t)
      BY <1>0, <2>4, RowShape DEF Unread
    <3> QED
      BY <3>1, <3>2
  <2>6. pc'[t] \in Guarded
    BY <2>4 DEF Guarded
  <2> QED
    BY <1>1, <2>2, <2>3, <2>4, <2>5, <2>6
<1>3. CASE EndEpisode(t)
  <2> DEFINE S == {EpisodeRow(episode[t]), ScenarioRow(episode[t])}
  <2>1. episode[t] \in Episodes
    BY <1>0, <1>3 DEF EndEpisode, Episodes, CursorOK
  <2>2. S \in SUBSET Rows
    BY <2>1, RowsAre
  <2>3. S \subseteq Unread(t)
    BY <1>0, <2>1, <2>2 DEF Unread, EpisodeRow, ScenarioRow, Episodes
  <2>4. /\ episode'[t] = episode[t] + 1 /\ step'[t] = 0
        /\ pc[t] \in Streaming /\ pc'[t] \in Streaming
        /\ FlushRows(t, S, "episodes")
    BY <1>0, <1>3 DEF EndEpisode, TypeOK, Streaming
  <2>5. Unread(t)' \subseteq Unread(t) \ S
    <3>1. EpisodeRow(episode[t]) \notin Unread(t)' /\ ScenarioRow(episode[t]) \notin Unread(t)'
      BY <1>0, <2>1, <2>4 DEF Unread, EpisodeRow, ScenarioRow, Episodes
    <3>2. Unread(t)' \subseteq Unread(t)
      BY <1>0, <2>4, RowShape DEF Unread
    <3> QED
      BY <3>1, <3>2
  <2>6. pc'[t] \in Guarded
    BY <2>4 DEF Guarded
  <2> HIDE DEF S
  <2> QED
    BY <1>1, <2>2, <2>3, <2>4, <2>5, <2>6
<1>4. CASE FlushScenarios(t)
  <2>1. /\ episode'[t] = episode[t] /\ step'[t] = step[t]
        /\ pc[t] \in Streaming /\ pc'[t] \in Streaming
        /\ FlushRows(t, {}, "scenarios")
    BY <1>0, <1>4 DEF FlushScenarios, TypeOK, Streaming
  <2>2. Unread(t)' \subseteq Unread(t) \ {}
    BY <2>1 DEF Unread
  <2>3. pc'[t] \in Guarded /\ {} \in SUBSET Rows /\ {} \subseteq Unread(t)
    BY <2>1 DEF Guarded
  <2> QED
    BY <1>1, <2>1, <2>2, <2>3
<1>5. ASSUME NEW S \in SUBSET Rows, S \subseteq Unread(t), NEW full \in SUBSET Rows,
             full \subseteq batch[t] \cup S, batch'[t] = (batch[t] \cup S) \ full,
             lake' = [lake EXCEPT ![run[t]] = Add(lake[run[t]], full)],
             Unread(t)' \subseteq Unread(t) \ S, pc'[t] \in Guarded
      PROVE  WritesOK' /\ NoDuplicateRows'
  <2>1. /\ \A r \in Runs : r # run[t] => lake'[r] = lake[r]
        /\ \A x \in Rows : lake'[run[t]][x] = lake[run[t]][x] + (IF x \in full THEN 1 ELSE 0)
    BY <1>0, <1>5, AddSpec
  <2>2. FreshAt(t)' /\ NoDuplicateRows'
    BY <1>0, <1>5, <2>1, CommitFresh
  <2>3. CleanAt(t)'
    BY <1>5 DEF CleanAt, Guarded, Streaming, Publishing
  <2> QED
    BY <1>0, <2>2, <2>3, OwnerFrame
<1>6. CASE FlushTail(t)
  <2>1. PICK at \in Streaming, tab \in Tables, next \in Streaming \cup {"addRun"} :
            FlushAll(t, at, tab, next)
    BY <1>6 DEF FlushTail, Streaming, Tables
  <2>2. /\ lake' = [lake EXCEPT ![run[t]] = Add(lake[run[t]], Buffered(t, tab))]
        /\ batch'[t] = (batch[t] \cup {}) \ Buffered(t, tab)
        /\ Buffered(t, tab) \in SUBSET Rows
        /\ Buffered(t, tab) \subseteq batch[t] \cup {}
        /\ pc[t] \in Streaming /\ pc'[t] \in Streaming \cup {"addRun"}
        /\ episode'[t] = episode[t] /\ step'[t] = step[t]
    BY <1>0, <2>1 DEF FlushAll, Buffered, TypeOK
  <2>3. Unread(t)' \subseteq Unread(t) \ {}
    BY <2>2 DEF Unread
  <2>4. pc'[t] \in Guarded /\ {} \in SUBSET Rows /\ {} \subseteq Unread(t)
    BY <2>2 DEF Guarded, Publishing
  <2> QED
    BY <1>5, <2>2, <2>3, <2>4
<1>7. CASE Publish(t)
  <2>0. /\ batch' = batch /\ episode' = episode /\ step' = step
        /\ batch[t] \cap Unread(t) = {}
    BY <1>0, <1>7 DEF Publish, Append1, FreshAt
  <2>1. ASSUME NEW S \in SUBSET Rows, S \subseteq Unread(t),
               lake' = [lake EXCEPT ![run[t]] = Add(lake[run[t]], S)],
               Unread(t)' \subseteq Unread(t) \ S, pc'[t] \in Publishing
        PROVE  WritesOK' /\ NoDuplicateRows'
    BY <1>5, <2>0, <2>1 DEF Guarded
  <2>2. CASE Append1(t, "addRun", {RunRow}, "addEvents")
    <3>1. pc[t] = "addRun" /\ pc'[t] = "addEvents"
      BY <1>0, <2>2 DEF Append1, TypeOK
    <3>2. {RunRow} \in SUBSET Rows /\ {RunRow} \subseteq Unread(t)
      BY <3>1, RowsAre DEF Unread, RunRow
    <3>3. Unread(t)' \subseteq Unread(t) \ {RunRow}
      BY <2>0, <3>1 DEF Unread, RunRow, Streaming
    <3> QED
      BY <2>1, <2>2, <3>1, <3>2, <3>3 DEF Append1, Publishing
  <2>3. CASE Append1(t, "addEvents", EventRows, "addTransforms")
    <3>1. pc[t] = "addEvents" /\ pc'[t] = "addTransforms"
      BY <1>0, <2>3 DEF Append1, TypeOK
    <3>2. EventRows \in SUBSET Rows /\ EventRows \subseteq Unread(t)
      BY <3>1, RowsAre DEF Unread, EventRows
    <3>3. Unread(t)' \subseteq Unread(t) \ EventRows
      BY <2>0, <3>1 DEF Unread, EventRows, Streaming
    <3> QED
      BY <2>1, <2>3, <3>1, <3>2, <3>3 DEF Append1, Publishing
  <2>4. CASE Append1(t, "addTransforms", TransformRows, "finalize")
    <3>1. pc[t] = "addTransforms" /\ pc'[t] = "finalize"
      BY <1>0, <2>4 DEF Append1, TypeOK
    <3>2. TransformRows \in SUBSET Rows /\ TransformRows \subseteq Unread(t)
      BY <3>1, RowsAre DEF Unread, TransformRows
    <3>3. Unread(t)' \subseteq Unread(t) \ TransformRows
      BY <2>0, <3>1 DEF Unread, TransformRows, Streaming
    <3> QED
      BY <2>1, <2>4, <3>1, <3>2, <3>3 DEF Append1, Publishing
  <2> QED
    BY <1>7, <2>2, <2>3, <2>4 DEF Publish
<1>8. CASE EndOfSource(t)
  <2>1. /\ lake' = lake /\ batch' = batch /\ episode' = episode /\ step' = step
        /\ pc[t] \in Streaming /\ pc'[t] \in Streaming
    BY <1>0, <1>8 DEF EndOfSource, TypeOK, Streaming
  <2>2. Unread(t)' = Unread(t)
    BY <2>1 DEF Unread
  <2>3. FreshAt(t)' /\ CleanAt(t)'
    BY <1>0, <2>1, <2>2 DEF FreshAt, CleanAt, Streaming
  <2> QED
    BY <1>0, <2>1, <2>3, OwnerFrame DEF NoDuplicateRows
<1>9. CASE Finalize(t)
  <2>1. lake' = lake /\ pc'[t] = "release"
    BY <1>0, <1>9 DEF Finalize, TypeOK
  <2>2. FreshAt(t)' /\ CleanAt(t)'
    BY <2>1, Outside
  <2> QED
    BY <1>0, <2>1, <2>2, OwnerFrame DEF NoDuplicateRows
<1> QED
  BY <1>2, <1>3, <1>4, <1>6, <1>7, <1>8, <1>9

\* The remaining steps write nothing.
LEMMA QuietStep ==
    ASSUME TypeOK, OneWriter, WritesOK, NoDuplicateRows,
           \/ \E t \in Threads :
                \/ \E r \in Runs : Call(t, r)
                \/ AcquireLock(t) \/ ClaimGate(t) \/ ClaimRefused(t) \/ AlreadyIngested(t)
                \/ Release(t) \/ ReleaseFails(t) \/ FailUnguarded(t) \/ Interrupt(t)
                \/ UndoFails(t)
           \/ \E p \in Processes : Crash(p)
    PROVE  WritesOK' /\ NoDuplicateRows'
<1>1. lake' = lake
  BY DEF Call, AcquireLock, ClaimGate, ClaimRefused, AlreadyIngested, Release, ReleaseFails,
         FailUnguarded, Interrupt, UndoFails, Propagate, Crash
<1>2. \A u \in Threads :
        \/ pc'[u] \notin Body \ {"check", "release"}
        \/ /\ pc'[u] = pc[u] /\ run'[u] = run[u] /\ episode'[u] = episode[u]
           /\ step'[u] = step[u] /\ batch'[u] = batch[u] /\ cleaning'[u] = cleaning[u]
  <2> USE DEF Body, Unguarded, Guarded, Streaming, Publishing, Goto, locals, Return, TypeOK
  <2>1. ASSUME NEW p \in Processes, Crash(p), NEW u \in Threads
        PROVE  \/ pc'[u] = "idle"
               \/ /\ pc'[u] = pc[u] /\ run'[u] = run[u] /\ episode'[u] = episode[u]
                  /\ step'[u] = step[u] /\ batch'[u] = batch[u] /\ cleaning'[u] = cleaning[u]
    BY <2>1 DEF Crash
  <2>2. ASSUME NEW t \in Threads, NEW u \in Threads,
               \/ \E r \in Runs : Call(t, r)
               \/ AcquireLock(t) \/ ClaimGate(t) \/ ClaimRefused(t) \/ AlreadyIngested(t)
               \/ Release(t) \/ ReleaseFails(t) \/ FailUnguarded(t) \/ Interrupt(t)
               \/ UndoFails(t)
        PROVE  \/ pc'[u] \in {"lock", "claim", "check", "release", "idle"}
               \/ /\ pc'[u] = pc[u] /\ run'[u] = run[u] /\ episode'[u] = episode[u]
                  /\ step'[u] = step[u] /\ batch'[u] = batch[u] /\ cleaning'[u] = cleaning[u]
    <3>1. CASE \E r \in Runs : Call(t, r)
      BY <3>1 DEF Call
    <3>2. CASE AcquireLock(t) \/ ClaimGate(t) \/ AlreadyIngested(t)
      BY <3>2 DEF AcquireLock, ClaimGate, AlreadyIngested
    <3>3. CASE ClaimRefused(t) \/ Release(t) \/ ReleaseFails(t)
      BY <3>3 DEF ClaimRefused, Release, ReleaseFails
    <3>4. CASE FailUnguarded(t) \/ Interrupt(t) \/ UndoFails(t)
      BY <3>4 DEF FailUnguarded, Interrupt, UndoFails, Propagate
    <3> QED
      BY <2>2, <3>1, <3>2, <3>3, <3>4
  <2> QED
    BY <2>1, <2>2
<1>3. WritesOK'
  BY <1>1, <1>2, Untouched, Outside DEF WritesOK
<1> QED
  BY <1>1, <1>3 DEF NoDuplicateRows

\* The invariant is inductive.
LEMMA IInvStep == ASSUME IInv, [Next]_vars PROVE IInv'
<1>1. CASE Next
  <2>1. TypeOK' /\ CursorOK'
    BY <1>1, TypeStep DEF IInv
  <2>2. OneWriter'
    BY <1>1, OneWriterStep DEF IInv
  <2>3. WritesOK' /\ NoDuplicateRows'
    BY <1>1, CleanStep, CommitStep, QuietStep DEF IInv, Next, Progress, Failure
  <2> QED
    BY <2>1, <2>2, <2>3 DEF IInv
<1>2. CASE UNCHANGED vars
  BY <1>2 DEF vars, IInv, TypeOK, CursorOK, OneWriter, WritesOK, FreshAt, CleanAt, Unread,
              NoDuplicateRows
<1> QED
  BY <1>1, <1>2

LEMMA IInvInit == ASSUME Init PROVE IInv
<1> USE DEF Init
<1>1. TypeOK
  BY CleanupOrderComplete DEF TypeOK, NoRows, Steps, Outcomes
<1>2. CursorOK /\ OneWriter /\ WritesOK
  BY DEF CursorOK, OneWriter, WritesOK, FreshAt, CleanAt, Body, Unguarded, Guarded, Streaming,
         Publishing
<1>3. NoDuplicateRows
  BY DEF NoDuplicateRows, NoRows
<1> QED
  BY <1>1, <1>2, <1>3 DEF IInv

\* The ingest of rlds_ingest.py keeps IInv whatever fails and whoever crashes.
THEOREM Invariance == Spec => []IInv
<1> QED
  BY IInvInit, IInvStep, PTL DEF Spec

\* Buffers only ever hold rows of the source, cursors stay inside it and the
\* gate row is free, owned or orphaned.
THEOREM TypeCorrect == Spec => []TypeOK
<1>1. IInv => TypeOK
  BY DEF IInv
<1> QED
  BY <1>1, Invariance, PTL

\* The gate of _rlds_ingest_claim excludes: the multi-table write sections of
\* two calls never overlap, in whatever processes they run.
THEOREM MutualExclusion == Spec => []OneWriter
<1>1. IInv => OneWriter
  BY DEF IInv
<1> QED
  BY <1>1, Invariance, PTL

\* A retry converges: no interleaving of calls, failures, interrupts and
\* crashes ever puts a canonical row into the lake twice.
THEOREM NoDuplicates == Spec => []NoDuplicateRows
<1>1. IInv => NoDuplicateRows
  BY DEF IInv
<1> QED
  BY <1>1, Invariance, PTL

\* After a hard crash of the owner of the gate nobody takes the gate over and
\* no canonical row is written or deleted: the lake fails closed.
THEOREM CrashFailsClosed == Spec => FailsClosed
<1>1. ASSUME IInv, [Next]_vars, gate = Orphaned PROVE gate' = Orphaned /\ lake' = lake
  <2> USE DEF Body, Unguarded, Guarded, Streaming, Publishing
  <2>1. \A t \in Threads : pc[t] \notin Body
    BY <1>1 DEF IInv, OneWriter
  <2>2. ASSUME NEW t \in Threads, NEW r \in Runs, Call(t, r) PROVE gate' = Orphaned /\ lake' = lake
    BY <1>1, <2>2 DEF Call
  <2>3. ASSUME NEW t \in Threads, Progress(t) PROVE gate' = Orphaned /\ lake' = lake
    <3>1. CASE AcquireLock(t) \/ ClaimGate(t) \/ ClaimRefused(t)
      BY <1>1, <3>1 DEF AcquireLock, ClaimGate, ClaimRefused
    <3>2. CASE \/ AlreadyIngested(t) \/ NotIngested(t) \/ CleanTable(t) \/ CleanDone(t)
               \/ Register(t) \/ Release(t)
      BY <2>1, <3>2 DEF AlreadyIngested, NotIngested, CleanTable, CleanDone, Register, Release
    <3>3. CASE ReadStep(t) \/ EndEpisode(t) \/ FlushScenarios(t) \/ EndOfSource(t)
      BY <2>1, <3>3 DEF ReadStep, EndEpisode, FlushScenarios, EndOfSource
    <3>4. CASE FlushTail(t) \/ Publish(t) \/ Finalize(t)
      BY <2>1, <3>4 DEF FlushTail, FlushAll, Publish, Append1, Finalize
    <3> QED
      BY <2>3, <3>1, <3>2, <3>3, <3>4 DEF Progress
  <2>4. ASSUME NEW t \in Threads, Failure(t) PROVE gate' = Orphaned /\ lake' = lake
    BY <2>1, <2>4 DEF Failure, ReleaseFails, Fail, FailUnguarded, Interrupt, UndoFails
  <2>5. ASSUME NEW p \in Processes, Crash(p) PROVE gate' = Orphaned /\ lake' = lake
    BY <1>1, <2>5 DEF Crash
  <2> QED
    BY <1>1, <2>2, <2>3, <2>4, <2>5 DEF Next, vars
<1>2. IInv /\ [Next]_vars => [gate = Orphaned => gate' = Orphaned /\ lake' = lake]_vars
  BY <1>1
<1> QED
  BY <1>2, Invariance, PTL DEF Spec, FailsClosed

-----------------------------------------------------------------------------
(***************************************************************************)
(* Completeness and refinement, for processes that may be killed anywhere  *)
(* and calls that may raise anywhere, when each exception is undone.       *)
(***************************************************************************)

\* The steps during which the rows of a run are incomplete or may become so.
Busy(label) == label \in Guarded \cup {"undo"}
Writing(r) == \E t \in Threads : Busy(pc[t]) /\ run[t] = r
Whole(r) == \A x \in Rows : lake[r][x] = 1

\* The reader has seen every step of an episode that ends and every episode at the end.
ReaderAt(t) ==
    /\ pc[t] = "episode" => step[t] = StepsOf[episode[t]]
    /\ pc[t] \in {"tailObs", "tailEps", "tailScs"} \cup Publishing => episode[t] = NEpisodes

\* The tail flushes empty one buffer after the other.
BufferAt(t) ==
    /\ pc[t] \in Guarded => \A x \in batch[t] : x[1] \in {"observations", "episodes", "scenarios"}
    /\ pc[t] \in {"tailEps", "tailScs"} \cup Publishing => \A x \in batch[t] : x[1] # "observations"
    /\ pc[t] \in {"tailScs"} \cup Publishing => \A x \in batch[t] : x[1] # "episodes"
    /\ pc[t] \in Publishing => \A x \in batch[t] : x[1] # "scenarios"

\* What is neither buffered nor still to be produced is in the lake.
AccountedAt(t) ==
    pc[t] \in Guarded => \A x \in Rows : x \in batch[t] \cup Unread(t) \/ lake[run[t]][x] = 1

\* A cleanup before the stream finds no runs row, one after it ends in a failure, and a
\* call that skips its run has found it whole.
ToldAt(t) ==
    /\ pc[t] = "cleanup" => lake[run[t]][RunRow] = 0
    /\ pc[t] = "undo" => outcome[t] = "failed"
    /\ pc[t] = "release" /\ outcome[t] = "skipped" => Whole(run[t])

Account(t) == ReaderAt(t) /\ BufferAt(t) /\ AccountedAt(t) /\ ToldAt(t)

\* As long as the gate is in use, a run with a runs row is whole or being written.
Settled ==
    gate # Orphaned => \A r \in Runs : lake[r][RunRow] = 0 \/ Whole(r) \/ Writing(r)

\* The invariant that a retry relies on when it finds a runs row.
WholeInv == IInv /\ Settled /\ \A t \in Threads : Account(t)

LEMMA RowKinds ==
    \A x \in Rows :
        /\ x[1] = "observations" =>
              /\ x[2] \in Episodes /\ x[3] \in 0 .. StepsOf[x[2]] - 1
              /\ x = ObservationRow(x[2], x[3])
        /\ x[1] = "episodes" => x[2] \in Episodes /\ x = EpisodeRow(x[2])
        /\ x[1] = "scenarios" => x[2] \in Episodes /\ x = ScenarioRow(x[2])
        /\ x[1] = "runs" => x = RunRow
        /\ x[1] = "events" => x \in EventRows
        /\ x[1] = "transform_runs" => x \in TransformRows
<1> SUFFICES ASSUME NEW x \in Rows
             PROVE  /\ x[1] = "observations" =>
                          /\ x[2] \in Episodes /\ x[3] \in 0 .. StepsOf[x[2]] - 1
                          /\ x = ObservationRow(x[2], x[3])
                    /\ x[1] = "episodes" => x[2] \in Episodes /\ x = EpisodeRow(x[2])
                    /\ x[1] = "scenarios" => x[2] \in Episodes /\ x = ScenarioRow(x[2])
                    /\ x[1] = "runs" => x = RunRow
                    /\ x[1] = "events" => x \in EventRows
                    /\ x[1] = "transform_runs" => x \in TransformRows
    OBVIOUS
<1>1. CASE \E e \in Episodes : \E s \in 0 .. StepsOf[e] - 1 : x = ObservationRow(e, s)
  BY <1>1 DEF ObservationRow
<1>2. CASE \E e \in Episodes : x = EpisodeRow(e)
  BY <1>2 DEF EpisodeRow
<1>3. CASE \E e \in Episodes : x = ScenarioRow(e)
  BY <1>3 DEF ScenarioRow
<1>4. CASE x \in {RunRow} \cup EventRows \cup TransformRows
  BY <1>4 DEF RunRow, EventRows, TransformRows
<1> QED
  BY <1>1, <1>2, <1>3, <1>4 DEF Rows

\* Committing buffered rows, or rows of this very step, loses none.
LEMMA CommitAccounts ==
    ASSUME TypeOK, NEW t \in Threads, pc[t] \in Guarded, FreshAt(t), AccountedAt(t),
           NEW S \in SUBSET Rows, S \subseteq Unread(t), NEW full \in SUBSET Rows,
           full \subseteq batch[t] \cup S,
           batch'[t] = (batch[t] \cup S) \ full,
           run' = run,
           \A x \in Rows : lake'[run[t]][x] = lake[run[t]][x] + (IF x \in full THEN 1 ELSE 0),
           Unread(t) \subseteq Unread(t)' \cup S
    PROVE  AccountedAt(t)'
<1>1. \A x \in batch[t] \cup Unread(t) : lake[run[t]][x] = 0
  BY DEF FreshAt
<1>2. ASSUME NEW x \in Rows, x \notin batch'[t] \cup Unread(t)' PROVE lake'[run[t]][x] = 1
  <2>1. CASE x \in full
    <3>1. lake[run[t]][x] = 0
      BY <1>1, <2>1
    <3> QED
      BY <2>1, <3>1
  <2>2. CASE x \notin full
    <3>1. x \notin batch[t] \cup Unread(t)
      BY <1>2, <2>2
    <3>2. lake[run[t]][x] = 1
      BY <3>1 DEF AccountedAt
    <3> QED
      BY <2>2, <3>2
  <2> QED
    BY <2>1, <2>2
<1> QED
  BY <1>2 DEF AccountedAt

\* What a step inside the gate does to the run it writes.
BodyStep(t) ==
    /\ pc[t] \in Body /\ gate' = gate /\ run' = run
    /\ \A u \in Threads : u # t => pc'[u] = pc[u]
    /\ \A r \in Runs : r # run[t] => lake'[r] = lake[r]
    /\ \/ Busy(pc[t]) /\ Busy(pc'[t])
       \/ lake'[run[t]][RunRow] = 0 /\ (Busy(pc[t]) \/ lake[run[t]][RunRow] = 0)
       \/ lake' = lake /\ ~Busy(pc[t]) /\ ~Busy(pc'[t])
       \/ Busy(pc[t]) /\ ~Busy(pc'[t]) /\ \A x \in Rows : lake'[run[t]][x] = 1

\* Calls and cleanups.
LEMMA CleanAccounts ==
    ASSUME WholeInv, NEW t \in Threads,
           \/ AlreadyIngested(t) \/ NotIngested(t) \/ CleanTable(t) \/ CleanDone(t) \/ Register(t)
           \/ Fail(t) \/ FailUnguarded(t)
    PROVE  BodyStep(t) /\ Account(t)'
<1> USE DEF Body, Unguarded, Guarded, Streaming, Publishing, Goto, locals
<1>0. /\ pc[t] \in Body /\ run[t] \in Runs /\ cleaning[t] \in 1 .. 7 /\ gate = t
      /\ lake[run[t]] \in [Rows -> Nat] /\ lake \in [Runs -> [Rows -> Nat]]
      /\ pc \in [Threads -> Steps] /\ outcome \in [Threads -> Outcomes]
      /\ \A u \in Threads : u # t => pc'[u] = pc[u]
      /\ run' = run /\ gate' = gate
  BY CleanupOrderComplete
     DEF WholeInv, IInv, TypeOK, OneWriter, AlreadyIngested, NotIngested, CleanTable, CleanDone, Register, Fail,
         FailUnguarded, Propagate
<1>1. CASE AlreadyIngested(t)
  <2>1. /\ pc[t] = "check" /\ pc'[t] = "release" /\ lake' = lake /\ lake[run[t]][RunRow] > 0
    BY <1>0, <1>1 DEF AlreadyIngested
  <2>2. ~Writing(run[t])
    <3>1. \A u \in Threads : Busy(pc[u]) => u = t
      BY <1>0 DEF WholeInv, IInv, OneWriter, Busy
    <3> QED
      BY <2>1, <3>1 DEF Writing, Busy
  <2>3. Whole(run[t])
    BY <1>0, <2>1, <2>2, ThreadAssumption DEF WholeInv, Settled
  <2>4. Account(t)'
    BY <1>0, <2>1, <2>3 DEF Account, ReaderAt, BufferAt, AccountedAt, ToldAt, Whole
  <2> QED
    BY <1>0, <2>1, <2>4 DEF BodyStep, Busy
<1>2. CASE NotIngested(t)
  <2>1. pc[t] = "check" /\ pc'[t] = "cleanup" /\ lake' = lake /\ lake[run[t]][RunRow] = 0
    BY <1>0, <1>2 DEF NotIngested
  <2>2. Account(t)'
    BY <1>0, <2>1 DEF Account, ReaderAt, BufferAt, AccountedAt, ToldAt
  <2> QED
    BY <1>0, <2>1, <2>2 DEF BodyStep, Busy
<1>3. CASE CleanTable(t)
  <2>1. /\ pc[t] \in {"cleanup", "undo"} /\ pc' = pc /\ outcome' = outcome
        /\ lake' = [lake EXCEPT ![run[t]] = Delete(lake[run[t]], CleanupOrder[cleaning[t]])]
    BY <1>3 DEF CleanTable
  <2>2. /\ \A r \in Runs : r # run[t] => lake'[r] = lake[r]
        /\ \A x \in Rows : lake'[run[t]][x] =
              IF x[1] = CleanupOrder[cleaning[t]] THEN 0 ELSE lake[run[t]][x]
    BY <1>0, <2>1, DeleteSpec
  <2>3. pc[t] = "cleanup" => lake[run[t]][RunRow] = 0 /\ lake'[run[t]][RunRow] = 0
    BY <2>2, RowsAre DEF WholeInv, Account, ToldAt
  <2>4. Account(t)'
    BY <1>0, <2>1, <2>3 DEF WholeInv, Account, ReaderAt, BufferAt, AccountedAt, ToldAt
  <2> QED
    BY <1>0, <2>1, <2>2, <2>3, <2>4 DEF BodyStep, Busy
<1>4. CASE CleanDone(t)
  <2>1. /\ lake' = lake /\ cleaning[t] = 7 /\ pc[t] \in {"cleanup", "undo"} /\ outcome' = outcome
        /\ pc'[t] = IF pc[t] = "cleanup" THEN "register" ELSE "release"
    BY <1>0, <1>4, CleanupOrderComplete DEF CleanDone
  <2>2. lake[run[t]][RunRow] = 0
    <3>1. \A x \in Rows : \A k \in 1 .. 6 : x[1] = CleanupOrder[k] => lake[run[t]][x] = 0
      BY <2>1 DEF WholeInv, IInv, WritesOK, CleanAt
    <3> QED
      BY <3>1, RowsAre, RowShape, CleanupOrderComplete
  <2>3. Account(t)'
    BY <1>0, <2>1 DEF WholeInv, Account, ReaderAt, BufferAt, AccountedAt, ToldAt
  <2> QED
    BY <1>0, <2>1, <2>2, <2>3 DEF BodyStep, Busy
<1>5. CASE Register(t)
  <2>1. /\ pc[t] = "register" /\ pc'[t] = "stream" /\ lake' = lake
        /\ batch'[t] = {} /\ episode'[t] = 0 /\ step'[t] = 0
    BY <1>0, <1>5 DEF Register, WholeInv, IInv, TypeOK
  <2>2. lake[run[t]][RunRow] = 0
    BY <2>1, RowsAre DEF WholeInv, IInv, WritesOK, CleanAt
  <2>3. ASSUME NEW x \in Rows PROVE x \in Unread(t)'
    <3>1. x[1] \in Tables /\ x[2] \in Nat /\ x[3] \in Nat
      BY RowShape
    <3>2. x[2] > 0 \/ (x[2] = 0 /\ x[3] >= 0)
      BY <3>1
    <3>3. x[2] >= 0
      BY <3>1
    <3> QED
      BY <2>1, <3>1, <3>2, <3>3 DEF Unread, Tables
  <2>4. Account(t)'
    BY <1>0, <2>1, <2>3 DEF Account, ReaderAt, BufferAt, AccountedAt, ToldAt
  <2> QED
    BY <1>0, <2>1, <2>2, <2>4 DEF BodyStep, Busy
<1>6. CASE Fail(t)
  <2>1. pc[t] \in Guarded /\ pc'[t] = "undo" /\ lake' = lake /\ outcome'[t] = "failed"
    BY <1>0, <1>6 DEF Fail
  <2>2. Account(t)'
    BY <1>0, <2>1 DEF Account, ReaderAt, BufferAt, AccountedAt, ToldAt
  <2> QED
    BY <1>0, <2>1, <2>2 DEF BodyStep, Busy
<1>7. CASE FailUnguarded(t)
  <2>1. pc[t] \in Unguarded /\ pc'[t] = "release" /\ lake' = lake /\ outcome'[t] = "failed"
    BY <1>0, <1>7 DEF FailUnguarded, Propagate
  <2>2. Account(t)'
    BY <1>0, <2>1 DEF Account, ReaderAt, BufferAt, AccountedAt, ToldAt
  <2> QED
    BY <1>0, <2>1, <2>2 DEF BodyStep, Busy
<1> QED
  BY <1>1, <1>2, <1>3, <1>4, <1>5, <1>6, <1>7

\* The stream, the tail and the publication.
LEMMA CommitsAccount ==
    ASSUME WholeInv, IInv', NEW t \in Threads,
           \/ ReadStep(t) \/ EndEpisode(t) \/ FlushScenarios(t) \/ EndOfSource(t)
           \/ FlushTail(t) \/ Publish(t) \/ Finalize(t)
    PROVE  BodyStep(t) /\ Account(t)'
<1> USE DEF Goto, locals
<1>0. /\ TypeOK /\ CursorOK /\ FreshAt(t) /\ Account(t)
      /\ pc[t] \in Guarded /\ pc[t] \in Body /\ run[t] \in Runs
      /\ lake[run[t]] \in [Rows -> Nat] /\ lake \in [Runs -> [Rows -> Nat]]
      /\ batch \in [Threads -> SUBSET Rows] /\ episode[t] \in 0 .. NEpisodes /\ step[t] \in Nat
      /\ pc \in [Threads -> Steps]
      /\ \A u \in Threads : u # t => pc'[u] = pc[u]
      /\ run' = run /\ gate' = gate
  BY DEF WholeInv, IInv, TypeOK, WritesOK, ReadStep, EndEpisode, FlushScenarios, EndOfSource, FlushTail,
         FlushAll, Publish, Append1, Finalize, Body, Guarded, Streaming, Publishing
<1>a. /\ \A x \in batch[t] : x[1] \in {"observations", "episodes", "scenarios"}
      /\ AccountedAt(t)
  BY <1>0 DEF Account, BufferAt
<1>b. episode[t] \in Nat /\ step[t] \in Nat /\ NEpisodes \in Nat
  BY <1>0
\* A step that stays inside the try blocks and commits full, of what it has buffered.
<1>1. ASSUME NEW S \in SUBSET Rows, S \subseteq Unread(t), NEW full \in SUBSET Rows,
             full \subseteq batch[t] \cup S, batch'[t] = (batch[t] \cup S) \ full,
             \A r \in Runs : r # run[t] => lake'[r] = lake[r],
             \A x \in Rows : lake'[run[t]][x] = lake[run[t]][x] + (IF x \in full THEN 1 ELSE 0),
             Unread(t) \subseteq Unread(t)' \cup S, pc'[t] \in Guarded,
             ReaderAt(t)', BufferAt(t)'
      PROVE  BodyStep(t) /\ Account(t)'
  <2>1. AccountedAt(t)'
    BY <1>0, <1>1, <1>a, CommitAccounts
  <2>2. ToldAt(t)'
    BY <1>1 DEF ToldAt, Guarded, Streaming, Publishing
  <2>3. BodyStep(t)
    BY <1>0, <1>1 DEF BodyStep, Busy
  <2> QED
    BY <1>1, <2>1, <2>2, <2>3 DEF Account
<1>2. ASSUME NEW S \in SUBSET Rows, S \subseteq Unread(t), NEW tab, FlushRows(t, S, tab),
             \A x \in S : x[1] \in {"observations", "episodes", "scenarios"},
             Unread(t) \subseteq Unread(t)' \cup S,
             pc'[t] \in {"stream", "episode", "scenario"}, ReaderAt(t)'
      PROVE  BodyStep(t) /\ Account(t)'
  <2>1. PICK full \in SUBSET Rows :
            /\ full \subseteq batch[t] \cup S
            /\ batch' = [batch EXCEPT ![t] = (batch[t] \cup S) \ full]
            /\ \A r \in Runs : r # run[t] => lake'[r] = lake[r]
            /\ \A x \in Rows : lake'[run[t]][x] = lake[run[t]][x] + (IF x \in full THEN 1 ELSE 0)
    BY <1>0, <1>2, FlushRowsSpec
  <2>2. batch'[t] = (batch[t] \cup S) \ full
    BY <1>0, <2>1
  <2>3. BufferAt(t)'
    BY <1>2, <1>a, <2>2 DEF BufferAt, Publishing
  <2>4. pc'[t] \in Guarded
    BY <1>2 DEF Guarded, Streaming
  <2> QED
    BY <1>1, <1>2, <2>1, <2>2, <2>3, <2>4
<1>3. CASE ReadStep(t)
  <2> DEFINE row == ObservationRow(episode[t], step[t])
  <2>1. /\ episode[t] \in Episodes
        /\ step[t] \in 0 .. StepsOf[episode[t]] - 1
        /\ StepsOf[episode[t]] \in Nat
    BY <1>0, <1>3 DEF ReadStep, Episodes, CursorOK
  <2>2. row \in Rows /\ row[1] = "observations"
    BY <2>1, RowsAre DEF ObservationRow
  <2>3. row \in Unread(t)
    BY <1>0, <2>1, <2>2 DEF Unread, ObservationRow, Episodes
  <2>4. /\ episode'[t] = episode[t] /\ step'[t] = step[t] + 1
        /\ pc[t] = "stream"
        /\ pc'[t] = IF step[t] + 1 = StepsOf[episode[t]] THEN "episode" ELSE "stream"
        /\ FlushRows(t, {row}, "observations")
    BY <1>0, <1>3 DEF ReadStep, TypeOK
  <2>5. Unread(t) \subseteq Unread(t)' \cup {row}
    <3>1. ASSUME NEW x \in Unread(t), x # row PROVE x \in Unread(t)'
      <4>1. x \in Rows /\ x[2] \in Nat /\ x[3] \in Nat
        BY RowShape DEF Unread
      <4>2. CASE x[1] = "observations"
        <5>1. x[2] # episode[t] \/ x[3] # step[t]
          BY <3>1, <4>1, <4>2, RowKinds
        <5>2. x[2] > episode[t] \/ (x[2] = episode[t] /\ x[3] >= step[t])
          BY <4>2 DEF Unread
        <5>3. x[2] > episode[t] \/ (x[2] = episode[t] /\ x[3] >= step[t] + 1)
          BY <1>b, <4>1, <5>1, <5>2
        <5> QED
          BY <2>4, <4>1, <4>2, <5>3 DEF Unread
      <4>3. CASE x[1] # "observations"
        BY <2>4, <4>3 DEF Unread, Streaming
      <4> QED
        BY <4>2, <4>3
    <3> QED
      BY <3>1
  <2>6. ReaderAt(t)'
    BY <2>4 DEF ReaderAt, Publishing
  <2>7. pc'[t] \in {"stream", "episode", "scenario"}
    BY <2>4
  <2> HIDE DEF row
  <2> QED
    BY <1>2, <2>2, <2>3, <2>4, <2>5, <2>6, <2>7
<1>4. CASE EndEpisode(t)
  <2> DEFINE S == {EpisodeRow(episode[t]), ScenarioRow(episode[t])}
  <2>1. /\ episode[t] \in Episodes /\ pc[t] = "episode" /\ step[t] = StepsOf[episode[t]]
    BY <1>0, <1>4 DEF EndEpisode, Episodes, CursorOK, Account, ReaderAt
  <2>2. S \in SUBSET Rows /\ \A x \in S : x[1] \in {"episodes", "scenarios"}
    BY <2>1, RowsAre DEF EpisodeRow, ScenarioRow
  <2>3. S \subseteq Unread(t)
    BY <1>0, <2>1, <2>2 DEF Unread, EpisodeRow, ScenarioRow, Episodes
  <2>4. /\ episode'[t] = episode[t] + 1 /\ step'[t] = 0 /\ pc'[t] = "scenario"
        /\ FlushRows(t, S, "episodes")
    BY <1>0, <1>4 DEF EndEpisode, TypeOK
  <2>5. Unread(t) \subseteq Unread(t)' \cup S
    <3>1. ASSUME NEW x \in Unread(t), x \notin S PROVE x \in Unread(t)'
      <4>1. x \in Rows /\ x[2] \in Nat /\ x[3] \in Nat
        BY RowShape DEF Unread
      <4>2. CASE x[1] = "observations"
        <5>1. x[2] \in Episodes /\ x[3] < StepsOf[x[2]]
          BY <4>1, <4>2, RowKinds
        <5>2. x[2] > episode[t] \/ (x[2] = episode[t] /\ x[3] >= step[t])
          BY <4>2 DEF Unread
        <5>3. StepsOf[x[2]] \in Nat
          BY <5>1
        <5>4. x[2] > episode[t]
          <6>1. x[2] = episode[t] => x[3] < step[t]
            BY <2>1, <5>1
          <6> QED
            BY <1>b, <4>1, <5>2, <6>1
        <5>5. x[2] > episode[t] + 1 \/ (x[2] = episode[t] + 1 /\ x[3] >= 0)
          BY <1>b, <4>1, <5>4
        <5> QED
          BY <2>4, <4>1, <4>2, <5>5 DEF Unread
      <4>3. CASE x[1] \in {"episodes", "scenarios"}
        <5>1. x[2] >= episode[t]
          BY <4>3 DEF Unread
        <5>2. x[2] # episode[t]
          BY <3>1, <4>1, <4>3, RowKinds
        <5>3. x[2] >= episode[t] + 1
          BY <1>b, <4>1, <5>1, <5>2
        <5> QED
          BY <2>4, <4>1, <4>3, <5>3 DEF Unread
      <4>4. CASE x[1] \notin {"observations", "episodes", "scenarios"}
        BY <2>4, <4>4 DEF Unread, Streaming
      <4> QED
        BY <4>2, <4>3, <4>4
    <3> QED
      BY <3>1
  <2>6. ReaderAt(t)'
    BY <2>4 DEF ReaderAt, Publishing
  <2> HIDE DEF S
  <2> QED
    BY <1>2, <2>2, <2>3, <2>4, <2>5, <2>6
<1>5. CASE FlushScenarios(t)
  <2>1. /\ episode'[t] = episode[t] /\ step'[t] = step[t]
        /\ pc[t] = "scenario" /\ pc'[t] = "stream"
        /\ FlushRows(t, {}, "scenarios")
    BY <1>0, <1>5 DEF FlushScenarios, TypeOK
  <2>2. Unread(t) \subseteq Unread(t)' \cup {}
    BY <2>1 DEF Unread, Streaming
  <2>3. ReaderAt(t)'
    BY <2>1 DEF ReaderAt, Publishing
  <2>4. {} \in SUBSET Rows /\ {} \subseteq Unread(t)
    OBVIOUS
  <2> QED
    BY <1>2, <2>1, <2>2, <2>3, <2>4
<1>6. CASE EndOfSource(t)
  <2>1. /\ lake' = lake /\ batch'[t] = (batch[t] \cup {}) \ {} /\ episode'[t] = episode[t] /\ step'[t] = step[t]
        /\ pc[t] = "stream" /\ pc'[t] = "tailObs" /\ episode[t] = NEpisodes
    BY <1>0, <1>6 DEF EndOfSource, TypeOK
  <2>2. Unread(t) \subseteq Unread(t)' \cup {}
    BY <2>1 DEF Unread, Streaming
  <2>3. ReaderAt(t)' /\ BufferAt(t)'
    BY <1>a, <2>1 DEF ReaderAt, BufferAt, Publishing
  <2>4. \A x \in Rows : lake'[run[t]][x] = lake[run[t]][x] + (IF x \in {} THEN 1 ELSE 0)
    BY <1>0, <2>1
  <2>5. {} \in SUBSET Rows /\ {} \subseteq Unread(t) /\ {} \subseteq batch[t] \cup {} /\ pc'[t] \in Guarded
    BY <2>1 DEF Guarded, Streaming
  <2>6. PICK S \in SUBSET Rows : S = {}
    OBVIOUS
  <2>7. /\ S \subseteq Unread(t) /\ S \subseteq batch[t] \cup S
        /\ batch'[t] = (batch[t] \cup S) \ S
        /\ \A r \in Runs : r # run[t] => lake'[r] = lake[r]
        /\ \A x \in Rows : lake'[run[t]][x] = lake[run[t]][x] + (IF x \in S THEN 1 ELSE 0)
        /\ Unread(t) \subseteq Unread(t)' \cup S
    BY <2>1, <2>2, <2>4, <2>6
  <2> QED
    BY <1>1, <2>3, <2>5, <2>7
<1>7. CASE FlushTail(t)
  <2>1. PICK at \in Streaming, tab \in Tables, next \in Streaming \cup {"addRun"} :
            /\ FlushAll(t, at, tab, next)
            /\ \/ at = "tailObs" /\ tab = "observations" /\ next = "tailEps"
               \/ at = "tailEps" /\ tab = "episodes" /\ next = "tailScs"
               \/ at = "tailScs" /\ tab = "scenarios" /\ next = "addRun"
    BY <1>7 DEF FlushTail, Streaming, Tables
  <2>2. /\ lake' = [lake EXCEPT ![run[t]] = Add(lake[run[t]], Buffered(t, tab))]
        /\ batch'[t] = (batch[t] \cup {}) \ Buffered(t, tab)
        /\ Buffered(t, tab) \in SUBSET Rows
        /\ Buffered(t, tab) \subseteq batch[t] \cup {}
        /\ pc[t] = at /\ pc'[t] = next
        /\ episode'[t] = episode[t] /\ step'[t] = step[t]
    BY <1>0, <2>1 DEF FlushAll, Buffered, TypeOK
  <2>3. Unread(t) \subseteq Unread(t)' \cup {}
    BY <2>1, <2>2 DEF Unread, Streaming
  <2>4. /\ \A r \in Runs : r # run[t] => lake'[r] = lake[r]
        /\ \A x \in Rows : lake'[run[t]][x] = lake[run[t]][x] + (IF x \in Buffered(t, tab) THEN 1 ELSE 0)
    BY <1>0, <2>2, AddSpec
  <2>5. ReaderAt(t)'
    BY <1>0, <2>1, <2>2 DEF Account, ReaderAt, Publishing
  <2>6. BufferAt(t)'
    <3>1. \A x \in batch'[t] : x \in batch[t] /\ x[1] # tab
      BY <2>2 DEF Buffered
    <3> QED
      BY <1>0, <1>a, <2>1, <2>2, <3>1 DEF Account, BufferAt, Publishing
  <2>7. {} \in SUBSET Rows /\ {} \subseteq Unread(t) /\ pc'[t] \in Guarded
    BY <2>1, <2>2 DEF Guarded, Streaming, Publishing
  <2>8. PICK S \in SUBSET Rows, full \in SUBSET Rows : S = {} /\ full = Buffered(t, tab)
    BY <2>2, <2>7
  <2>9. /\ S \subseteq Unread(t) /\ full \subseteq batch[t] \cup S
        /\ batch'[t] = (batch[t] \cup S) \ full
        /\ \A r \in Runs : r # run[t] => lake'[r] = lake[r]
        /\ \A x \in Rows : lake'[run[t]][x] = lake[run[t]][x] + (IF x \in full THEN 1 ELSE 0)
        /\ Unread(t) \subseteq Unread(t)' \cup S
    BY <2>2, <2>3, <2>4, <2>7, <2>8
  <2> QED
    BY <1>1, <2>5, <2>6, <2>7, <2>9
<1>8. CASE Publish(t)
  <2>1. /\ batch' = batch /\ episode' = episode /\ step' = step /\ pc[t] \in Publishing
    BY <1>8 DEF Publish, Append1, Publishing
  <2>2. ASSUME NEW S \in SUBSET Rows, S \subseteq Unread(t),
               lake' = [lake EXCEPT ![run[t]] = Add(lake[run[t]], S)],
               Unread(t) \subseteq Unread(t)' \cup S, pc'[t] \in Publishing
        PROVE  BodyStep(t) /\ Account(t)'
    <3>1. /\ \A r \in Runs : r # run[t] => lake'[r] = lake[r]
          /\ \A x \in Rows : lake'[run[t]][x] = lake[run[t]][x] + (IF x \in S THEN 1 ELSE 0)
      BY <1>0, <2>2, AddSpec
    <3>2. batch'[t] = (batch[t] \cup S) \ S
      BY <1>0, <2>1, <2>2 DEF FreshAt
    <3>3. ReaderAt(t)' /\ BufferAt(t)'
      BY <1>0, <2>1, <2>2 DEF Account, ReaderAt, BufferAt, Publishing, Guarded
    <3>4. S \subseteq batch[t] \cup S /\ pc'[t] \in Guarded
      BY <2>2 DEF Guarded
    <3> QED
      BY <1>1, <2>2, <3>1, <3>2, <3>3, <3>4
  <2>3. CASE Append1(t, "addRun", {RunRow}, "addEvents")
    <3>1. pc[t] = "addRun" /\ pc'[t] = "addEvents"
      BY <1>0, <2>3 DEF Append1, TypeOK
    <3>2. {RunRow} \in SUBSET Rows /\ {RunRow} \subseteq Unread(t)
      BY <3>1, RowsAre DEF Unread, RunRow
    <3>3. Unread(t) \subseteq Unread(t)' \cup {RunRow}
      BY <2>1, <3>1, RowKinds DEF Unread, Streaming
    <3> QED
      BY <2>2, <2>3, <3>1, <3>2, <3>3 DEF Append1, Publishing
  <2>4. CASE Append1(t, "addEvents", EventRows, "addTransforms")
    <3>1. pc[t] = "addEvents" /\ pc'[t] = "addTransforms"
      BY <1>0, <2>4 DEF Append1, TypeOK
    <3>2. EventRows \in SUBSET Rows /\ EventRows \subseteq Unread(t)
      BY <3>1, RowsAre DEF Unread, EventRows
    <3>3. Unread(t) \subseteq Unread(t)' \cup EventRows
      BY <2>1, <3>1, RowKinds DEF Unread, Streaming
    <3> QED
      BY <2>2, <2>4, <3>1, <3>2, <3>3 DEF Append1, Publishing
  <2>5. CASE Append1(t, "addTransforms", TransformRows, "finalize")
    <3>1. pc[t] = "addTransforms" /\ pc'[t] = "finalize"
      BY <1>0, <2>5 DEF Append1, TypeOK
    <3>2. TransformRows \in SUBSET Rows /\ TransformRows \subseteq Unread(t)
      BY <3>1, RowsAre DEF Unread, TransformRows
    <3>3. Unread(t) \subseteq Unread(t)' \cup TransformRows
      BY <2>1, <3>1, RowKinds DEF Unread, Streaming
    <3> QED
      BY <2>2, <2>5, <3>1, <3>2, <3>3 DEF Append1, Publishing
  <2> QED
    BY <1>8, <2>3, <2>4, <2>5 DEF Publish
<1>9. CASE Finalize(t)
  <2>1. lake' = lake /\ pc[t] = "finalize" /\ pc'[t] = "release" /\ outcome'[t] = "completed"
    BY <1>0, <1>9 DEF Finalize, TypeOK
  <2>2. episode[t] = NEpisodes /\ batch[t] = {}
    BY <1>0, <1>a, <2>1 DEF Account, ReaderAt, BufferAt, Publishing
  <2>3. Unread(t) = {}
    <3>1. SUFFICES ASSUME NEW x \in Unread(t) PROVE FALSE
      OBVIOUS
    <3>2. x \in Rows
      BY DEF Unread
    <3>3. x[1] \in {"observations", "episodes", "scenarios"} /\ x[2] >= NEpisodes
      BY <2>1, <2>2, RowShape DEF Unread, Streaming
    <3>4. x[2] \in Episodes
      BY <3>2, <3>3, RowKinds
    <3> QED
      BY <3>3, <3>4 DEF Episodes
  <2>4. \A x \in Rows : lake[run[t]][x] = 1
    BY <1>0, <1>a, <2>2, <2>3 DEF AccountedAt
  <2>5. Account(t)'
    BY <2>1 DEF Account, ReaderAt, BufferAt, AccountedAt, ToldAt, Guarded, Streaming, Publishing
  <2>6. Busy(pc[t]) /\ ~Busy(pc'[t])
    BY <2>1 DEF Busy, Guarded, Streaming, Publishing
  <2> QED
    BY <1>0, <2>1, <2>4, <2>5, <2>6 DEF BodyStep
<1> QED
  BY <1>3, <1>4, <1>5, <1>6, <1>7, <1>8, <1>9

\* Inside the gate, only its owner is busy.
LEMMA OneBusy ==
    ASSUME OneWriter, NEW t \in Threads, pc[t] \in Body
    PROVE  \A r \in Runs : Writing(r) <=> Busy(pc[t]) /\ run[t] = r
<1>1. \A u \in Threads : Busy(pc[u]) => u = t
  BY DEF OneWriter, Busy, Body
<1> QED
  BY <1>1 DEF Writing

\* A step inside the gate keeps the invariant.
LEMMA BodyKeeps ==
    ASSUME WholeInv, IInv', NEW t \in Threads, BodyStep(t), Account(t)'
    PROVE  WholeInv'
<1>0. /\ OneWriter /\ gate = t /\ gate # Orphaned /\ run[t] \in Runs
      /\ run' = run /\ gate' = gate
  BY ThreadAssumption DEF WholeInv, IInv, TypeOK, OneWriter, BodyStep
<1>1. ASSUME NEW u \in Threads, u # t PROVE Account(u)'
  <2>1. pc'[u] \notin Body
    BY <1>0, <1>1 DEF BodyStep, OneWriter
  <2> QED
    BY <2>1 DEF Account, ReaderAt, BufferAt, AccountedAt, ToldAt, Body, Unguarded, Guarded, Streaming,
                Publishing
<1>2. \A r \in Runs : lake[r][RunRow] = 0 \/ Whole(r) \/ Writing(r)
  BY <1>0 DEF WholeInv, Settled
<1>3. \A r \in Runs : Writing(r) <=> Busy(pc[t]) /\ run[t] = r
  BY <1>0, OneBusy DEF BodyStep
<1>4. ASSUME NEW r \in Runs, r # run[t] PROVE lake'[r][RunRow] = 0 \/ Whole(r)'
  <2>1. lake'[r] = lake[r] /\ ~Writing(r)
    BY <1>3, <1>4 DEF BodyStep
  <2> QED
    BY <1>2, <2>1 DEF Whole
<1>5. lake'[run[t]][RunRow] = 0 \/ Whole(run[t])' \/ Writing(run[t])'
  <2>1. CASE Busy(pc'[t])
    BY <1>0, <2>1 DEF Writing
  <2>2. CASE lake' = lake /\ ~Busy(pc[t])
    BY <1>0, <1>2, <1>3, <2>2 DEF Whole
  <2>3. CASE \A x \in Rows : lake'[run[t]][x] = 1
    BY <1>0, <2>3 DEF Whole
  <2> QED
    BY <2>1, <2>2, <2>3 DEF BodyStep
<1>6. Settled'
  BY <1>0, <1>4, <1>5 DEF Settled
<1> QED
  BY <1>1, <1>6 DEF WholeInv

\* The steps outside the gate's body, its release and a crash: no row changes, a call
\* promises nothing new, and a writer that vanishes leaves the gate orphaned.
OuterStep ==
    /\ lake' = lake
    /\ \A u \in Threads :
          \/ pc'[u] \notin Body \ {"check"}
          \/ pc'[u] = "check"
          \/ /\ pc'[u] = pc[u] /\ run'[u] = run[u] /\ episode'[u] = episode[u]
             /\ step'[u] = step[u] /\ batch'[u] = batch[u] /\ outcome'[u] = outcome[u]
    /\ \A r \in Runs : Writing(r)' => Writing(r)
    /\ \E w \in Runs : \A r \in Runs : r # w /\ Writing(r) => Writing(r)'
    /\ gate' # Orphaned => gate # Orphaned /\ \A r \in Runs : Writing(r) => Writing(r)'

LEMMA OuterSteps ==
    ASSUME IInv,
           \/ \E t \in Threads :
                \/ \E r \in Runs : Call(t, r)
                \/ AcquireLock(t) \/ ClaimGate(t) \/ ClaimRefused(t) \/ Release(t) \/ ReleaseFails(t)
           \/ \E p \in Processes : Crash(p)
    PROVE  OuterStep
<1> USE DEF Goto, locals, Return
<1>0. /\ TypeOK /\ OneWriter /\ pc \in [Threads -> Steps] /\ run \in [Threads -> Runs]
      /\ \A t \in Threads : outcome[t] \in Outcomes
      /\ episode \in [Threads -> 0 .. NEpisodes] /\ step \in [Threads -> Nat]
      /\ batch \in [Threads -> SUBSET Rows] /\ outcome \in [Threads -> Outcomes]
  BY DEF IInv, TypeOK
<1>1. ASSUME NEW t \in Threads, ~Busy(pc[t]), ~Busy(pc'[t]), lake' = lake,
             pc'[t] \in {"idle", "lock", "claim", "check"},
             \A u \in Threads : u # t =>
                /\ pc'[u] = pc[u] /\ run'[u] = run[u] /\ episode'[u] = episode[u]
                /\ step'[u] = step[u] /\ batch'[u] = batch[u] /\ outcome'[u] = outcome[u],
             gate' # Orphaned => gate # Orphaned
      PROVE  OuterStep
  <2>1. \A r \in Runs : Writing(r) <=> Writing(r)'
    BY <1>1 DEF Writing
  <2>2. \E w \in Runs : TRUE
    BY ThreadAssumption
  <2>3. pc'[t] \notin Body \ {"check"}
    BY <1>1 DEF Body, Unguarded, Guarded, Streaming, Publishing
  <2> QED
    BY <1>1, <2>1, <2>2, <2>3 DEF OuterStep
<1>2. ASSUME NEW t \in Threads,
             \/ \E r \in Runs : Call(t, r)
             \/ AcquireLock(t) \/ ClaimGate(t) \/ ClaimRefused(t) \/ Release(t) \/ ReleaseFails(t)
      PROVE  OuterStep
  <2>1. /\ pc[t] \in {"idle", "lock", "claim", "release"}
        /\ pc'[t] \in {"idle", "lock", "claim", "check"}
        /\ lake' = lake
    BY <1>0, <1>2 DEF Call, AcquireLock, ClaimGate, ClaimRefused, Release, ReleaseFails
  <2>2. \A u \in Threads : u # t =>
            /\ pc'[u] = pc[u] /\ run'[u] = run[u] /\ episode'[u] = episode[u]
            /\ step'[u] = step[u] /\ batch'[u] = batch[u] /\ outcome'[u] = outcome[u]
    BY <1>0, <1>2 DEF Call, AcquireLock, ClaimGate, ClaimRefused, Release, ReleaseFails
  <2>3. gate' # Orphaned => gate # Orphaned
    BY <1>2, ThreadAssumption
       DEF Call, AcquireLock, ClaimGate, ClaimRefused, Release, ReleaseFails
  <2>4. ~Busy(pc[t]) /\ ~Busy(pc'[t])
    BY <2>1 DEF Busy, Guarded, Streaming, Publishing
  <2> QED
    BY <1>1, <2>1, <2>2, <2>3, <2>4
<1>3. ASSUME NEW p \in Processes, Crash(p) PROVE OuterStep
  <2>1. /\ lake' = lake /\ run' = run
        /\ \A u \in Threads : ProcessOf[u] = p => pc'[u] = "idle"
        /\ \A u \in Threads : ProcessOf[u] # p =>
              /\ pc'[u] = pc[u] /\ episode'[u] = episode[u]
              /\ step'[u] = step[u] /\ batch'[u] = batch[u] /\ outcome'[u] = outcome[u]
    BY <1>3 DEF Crash
  <2>2. \A u \in Threads : ProcessOf[u] = p => ~Busy(pc'[u]) /\ pc'[u] \notin Body \ {"check"}
    BY <2>1 DEF Busy, Body, Unguarded, Guarded, Streaming, Publishing
  <2>3. \A r \in Runs : Writing(r)' => Writing(r)
    BY <2>1, <2>2 DEF Writing
  <2>4. \A u \in Threads : Busy(pc[u]) => gate = u
    BY <1>0 DEF OneWriter, Busy, Body
  <2>5. \E w \in Runs : \A r \in Runs : r # w /\ Writing(r) => Writing(r)'
    <3>1. CASE gate \in Threads
      <4>1. \A r \in Runs : Writing(r) => r = run[gate]
        BY <2>4 DEF Writing
      <4>2. run[gate] \in Runs
        BY <1>0, <3>1
      <4> QED
        BY <4>1, <4>2
    <3>2. CASE gate \notin Threads
      <4>1. \A r \in Runs : ~Writing(r)
        BY <2>4, <3>2 DEF Writing
      <4> QED
        BY <4>1, ThreadAssumption
    <3> QED
      BY <3>1, <3>2
  <2>6. gate' # Orphaned => gate # Orphaned /\ \A r \in Runs : Writing(r) => Writing(r)'
    <3> SUFFICES ASSUME gate' # Orphaned
                 PROVE  gate # Orphaned /\ \A r \in Runs : Writing(r) => Writing(r)'
      OBVIOUS
    <3>1. gate' = gate /\ \A u \in Threads : ProcessOf[u] = p => gate # u
      BY <1>3 DEF Crash
    <3>2. \A u \in Threads : Busy(pc[u]) => pc'[u] = pc[u] /\ run'[u] = run[u]
      BY <2>1, <2>4, <3>1
    <3> QED
      BY <3>1, <3>2 DEF Writing
  <2> QED
    BY <2>1, <2>2, <2>3, <2>5, <2>6 DEF OuterStep
<1> QED
  BY <1>2, <1>3

LEMMA OuterKeeps ==
    ASSUME WholeInv, IInv', OuterStep
    PROVE  WholeInv'
<1>1. \A r \in Runs : Whole(r)' <=> Whole(r)
  BY DEF OuterStep, Whole
<1>2. Settled'
  BY <1>1 DEF Settled, WholeInv, OuterStep
<1>3. ASSUME NEW u \in Threads PROVE Account(u)'
  <2>1. CASE pc'[u] \notin Body \ {"check"} \/ pc'[u] = "check"
    BY <2>1 DEF Account, ReaderAt, BufferAt, AccountedAt, ToldAt, Body, Unguarded, Guarded, Streaming,
                Publishing
  <2>2. CASE /\ pc'[u] = pc[u] /\ run'[u] = run[u] /\ episode'[u] = episode[u]
             /\ step'[u] = step[u] /\ batch'[u] = batch[u] /\ outcome'[u] = outcome[u]
    <3>1. lake' = lake /\ Unread(u)' = Unread(u)
      BY <2>2 DEF OuterStep, Unread
    <3>2. Account(u)
      BY DEF WholeInv
    <3> QED
      BY <2>2, <3>1, <3>2 DEF Account, ReaderAt, BufferAt, AccountedAt, ToldAt, Whole
  <2> QED
    BY <2>1, <2>2 DEF OuterStep
<1> QED
  BY <1>2, <1>3 DEF WholeInv

\* Every step is of one of the two kinds.
LEMMA StepKinds ==
    ASSUME WholeInv, IInv', Faults = {}, Next
    PROVE  OuterStep \/ \E t \in Threads : BodyStep(t) /\ Account(t)'
<1>1. ASSUME NEW t \in Threads, Progress(t) \/ Failure(t)
      PROVE  OuterStep \/ \E u \in Threads : BodyStep(u) /\ Account(u)'
  <2>1. ~Interrupt(t) /\ ~UndoFails(t)
    BY DEF Interrupt, UndoFails
  <2>2. IInv
    BY DEF WholeInv
  <2>3. CASE \/ AlreadyIngested(t) \/ NotIngested(t) \/ CleanTable(t) \/ CleanDone(t)
             \/ Register(t) \/ Fail(t) \/ FailUnguarded(t)
    BY <2>3, CleanAccounts
  <2>4. CASE \/ ReadStep(t) \/ EndEpisode(t) \/ FlushScenarios(t) \/ EndOfSource(t)
             \/ FlushTail(t) \/ Publish(t) \/ Finalize(t)
    BY <2>4, CommitsAccount
  <2>5. CASE AcquireLock(t) \/ ClaimGate(t) \/ ClaimRefused(t) \/ Release(t) \/ ReleaseFails(t)
    BY <2>2, <2>5, OuterSteps
  <2> QED
    BY <1>1, <2>1, <2>3, <2>4, <2>5 DEF Progress, Failure
<1>2. ASSUME \/ \E t \in Threads : \E r \in Runs : Call(t, r)
             \/ \E p \in Processes : Crash(p)
      PROVE  OuterStep
  BY <1>2, OuterSteps DEF WholeInv
<1> QED
  BY <1>1, <1>2 DEF Next

LEMMA WholeStep == ASSUME Faults = {}, WholeInv, [Next]_vars PROVE WholeInv'
<1>1. IInv'
  BY IInvStep DEF WholeInv
<1>2. CASE Next
  BY <1>1, <1>2, StepKinds, BodyKeeps, OuterKeeps
<1>3. CASE UNCHANGED vars
  <2>1. OuterStep
    <3>1. \A r \in Runs : Writing(r)' <=> Writing(r)
      BY <1>3 DEF vars, Writing
    <3>2. \E w \in Runs : TRUE
      BY ThreadAssumption
    <3> QED
      BY <1>3, <3>1, <3>2 DEF vars, OuterStep
  <2> QED
    BY <1>1, <2>1, OuterKeeps
<1> QED
  BY <1>2, <1>3

LEMMA WholeInit == ASSUME Init PROVE WholeInv
<1>1. IInv
  BY IInvInit
<1>2. Settled
  BY RowsAre DEF Init, Settled, NoRows
<1>3. ASSUME NEW t \in Threads PROVE Account(t)
  BY DEF Init, Account, ReaderAt, BufferAt, AccountedAt, ToldAt, Guarded, Streaming, Publishing
<1> QED
  BY <1>1, <1>2, <1>3 DEF WholeInv

\* Killed processes and exceptions leave no run half ingested that a retry would
\* mistake for a whole one: a call that reports "already ingested" tells the truth.
\* Faults = {} is needed: an interrupt, or a failed undo, leaves a runs row behind.
THEOREM CompleteWhenSkipped == Faults = {} => (Spec => []AlreadyIngestedIsComplete)
<1> SUFFICES ASSUME Faults = {} PROVE Spec => []AlreadyIngestedIsComplete
  OBVIOUS
<1>1. Init => WholeInv
  BY WholeInit
<1>2. WholeInv /\ [Next]_vars => WholeInv'
  BY WholeStep
<1>3. WholeInv => AlreadyIngestedIsComplete
  BY DEF WholeInv, Account, ToldAt, Whole, AlreadyIngestedIsComplete
<1> QED
  BY <1>1, <1>2, <1>3, PTL DEF Spec

\* A step that concerns one run, and takes nothing back, is a step of AtomicIngest.
LEMMA RefinedStep ==
    ASSUME NEW w \in Runs,
           \A r \in Runs : r # w => (r \in IngestedRuns' <=> r \in IngestedRuns),
           w \in IngestedRuns => w \in IngestedRuns'
    PROVE  [Atomic!Next]_IngestedRuns
<1>1. IngestedRuns \subseteq Runs /\ IngestedRuns' \subseteq Runs
  BY DEF IngestedRuns
<1>2. CASE w \in IngestedRuns \/ w \notin IngestedRuns'
  <2>1. IngestedRuns' = IngestedRuns
    BY <1>1, <1>2
  <2> QED
    BY <2>1
<1>3. CASE w \notin IngestedRuns /\ w \in IngestedRuns'
  <2>1. IngestedRuns' = IngestedRuns \cup {w}
    BY <1>1, <1>3
  <2> QED
    BY <1>3, <2>1 DEF Atomic!Next, Atomic!Commit
<1> QED
  BY <1>2, <1>3

LEMMA IngestedAre == \A r : r \in IngestedRuns <=> r \in Runs /\ Whole(r) /\ ~Writing(r)
  BY DEF IngestedRuns, Whole, Writing, Busy

LEMMA IngestedAreNext == \A r : r \in IngestedRuns' <=> r \in Runs /\ Whole(r)' /\ ~Writing(r)'
  BY DEF IngestedRuns, Whole, Writing, Busy

LEMMA BodyRefines ==
    ASSUME WholeInv, WholeInv', NEW t \in Threads, BodyStep(t)
    PROVE  [Atomic!Next]_IngestedRuns
<1>0. /\ OneWriter /\ run[t] \in Runs /\ run' = run /\ pc[t] \in Body /\ gate = t /\ gate' = t
  BY DEF WholeInv, IInv, TypeOK, OneWriter, BodyStep
<1>1. \A r \in Runs : Writing(r) <=> Busy(pc[t]) /\ run[t] = r
  BY <1>0, OneBusy
<1>2. \A r \in Runs : Writing(r)' <=> Busy(pc'[t]) /\ run[t] = r
  <2>1. \A u \in Threads : Busy(pc'[u]) => u = t
    BY <1>0 DEF WholeInv, IInv, OneWriter, Busy, Body
  <2> QED
    BY <1>0, <2>1 DEF Writing
<1>3. ASSUME NEW r \in Runs, r # run[t] PROVE r \in IngestedRuns' <=> r \in IngestedRuns
  <2>1. lake'[r] = lake[r] /\ ~Writing(r) /\ ~Writing(r)'
    BY <1>1, <1>2, <1>3 DEF BodyStep
  <2> QED
    BY <2>1, IngestedAre, IngestedAreNext DEF Whole
<1>4. ASSUME run[t] \in IngestedRuns PROVE run[t] \in IngestedRuns'
  <2>1. Whole(run[t]) /\ ~Busy(pc[t])
    BY <1>0, <1>1, <1>4, IngestedAre
  <2>2. lake[run[t]][RunRow] # 0
    BY <2>1, RowsAre DEF Whole
  <2>3. lake' = lake /\ ~Busy(pc'[t])
    BY <2>1, <2>2 DEF BodyStep
  <2> QED
    BY <1>0, <1>2, <2>1, <2>3, IngestedAreNext DEF Whole
<1> QED
  BY <1>0, <1>3, <1>4, RefinedStep

LEMMA OuterRefines == ASSUME OuterStep PROVE [Atomic!Next]_IngestedRuns
<1>1. PICK w \in Runs : \A r \in Runs : r # w /\ Writing(r) => Writing(r)'
  BY DEF OuterStep
<1>2. \A r \in Runs : (Whole(r)' <=> Whole(r)) /\ (Writing(r)' => Writing(r))
  BY DEF OuterStep, Whole
<1>3. \A r \in Runs : r # w => (r \in IngestedRuns' <=> r \in IngestedRuns)
  BY <1>1, <1>2, IngestedAre, IngestedAreNext
<1>4. w \in IngestedRuns => w \in IngestedRuns'
  BY <1>2, IngestedAre, IngestedAreNext
<1> QED
  BY <1>3, <1>4, RefinedStep

\* The long sequence of single-table commits, of any number of overlapping calls that may
\* raise or be killed anywhere, implements AtomicIngest: a run enters the lake whole,
\* in one step, and is never taken back.
THEOREM OneAtomicStep == Faults = {} => (Spec => IngestIsAtomic)
<1> SUFFICES ASSUME Faults = {} PROVE Spec => IngestIsAtomic
  OBVIOUS
<1>1. Init => WholeInv
  BY WholeInit
<1>2. WholeInv /\ [Next]_vars => WholeInv'
  BY WholeStep
<1>3. Init => Atomic!Init
  <2> SUFFICES ASSUME Init PROVE IngestedRuns = {}
    BY DEF Atomic!Init
  <2>1. \A r \in Runs : lake[r][RunRow] = 0
    BY RowsAre DEF Init, NoRows
  <2> QED
    BY <2>1, RowsAre, IngestedAre DEF Whole
<1>4. ASSUME WholeInv, WholeInv', [Next]_vars PROVE [Atomic!Next]_IngestedRuns
  <2>1. CASE Next
    <3>1. IInv'
      BY <1>4 DEF WholeInv
    <3> QED
      BY <1>4, <2>1, <3>1, StepKinds, BodyRefines, OuterRefines
  <2>2. CASE UNCHANGED vars
    <3>1. IngestedRuns' = IngestedRuns
      BY <2>2 DEF vars, IngestedRuns
    <3> QED
      BY <3>1
  <2> QED
    BY <1>4, <2>1, <2>2
<1> QED
  BY <1>1, <1>2, <1>3, <1>4, PTL DEF Spec, IngestIsAtomic, Atomic!Spec

=============================================================================

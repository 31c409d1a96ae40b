--------------------------- MODULE TickLifecycle ---------------------------
(***************************************************************************)
(* The life of the rows of one alignment in aligned_ticks: an alignment    *)
(* deletes what is there, appends its ticks segment by segment and records *)
(* its job last (align.py); a cleanup collapses the copies of a tick to    *)
(* one, and removes the rows of an alignment without a job                 *)
(* (aligned_tick_lifecycle.py).                                            *)
(*                                                                         *)
(* A cleanup adds the row that is to stay, stamped later than every copy   *)
(* it saw, and then deletes the older ones: nothing locks the table.  All  *)
(* the ticks are in one tick window.                                       *)
(***************************************************************************)
EXTENDS Integers, FiniteSets, FiniteSetsExt

CONSTANTS
    Ticks,          \* the ticks of the alignment, a segment each
    Workers,        \* processes that align and clean up
    Maintainers,    \* those whose cleanups are scheduled again and again
    MaxCalls,       \* bound: alignments and cleanups that are not scheduled
    MaxFaults       \* bound: deaths

ASSUME TickAssumption ==
    /\ Ticks \subseteq Nat /\ Ticks # {} /\ IsFiniteSet(Ticks)
    /\ Maintainers \subseteq Workers
    /\ {MaxCalls, MaxFaults} \subseteq Nat

VARIABLES
    rows,       \* the rows of the alignment
    job,        \* the alignment has a row in alignment_jobs
    now,        \* the clock
    call,       \* call[w]: the call a worker is in
    calls, faults,
    emptied,    \* the alignment was emptied under a cleanup (for the properties)
    blind       \* and so, or a cleanup does not know the job

history == <<emptied, blind>>
vars == <<rows, job, now, call, calls, faults, history>>

-----------------------------------------------------------------------------
\* A row carries the recipe of the job or an older one; copies that agree in
\* everything are told apart by who wrote them.
Row(tick, fresh, at, by) == [tick |-> tick, fresh |-> fresh, at |-> at, by |-> by]
RowsOf(tick) == {row \in rows : row.tick = tick}
\* Mutant: a pair is not taken for duplicates.
DuplicatedTwice == {tick \in Ticks : Cardinality(RowsOf(tick)) > 2}

Duplicated == {tick \in Ticks : Cardinality(RowsOf(tick)) > 1}

\* Calls take seconds, the stamps of the cleanup microseconds.
Second == 10
Microsecond == 1
NoStamp == -1   \* a NULL created_at: older than anything

Idle == [at |-> "idle"]
Goto(w, c) == call' = [call EXCEPT ![w] = c]
Return(w) == Goto(w, Idle)
Aligning == \E w \in Workers : call[w].at \in {"append", "job", "record"}
Appending == \E w \in Workers : call[w].at = "append"

\* A worker is between the choice of the rows to keep and the delete of the others.
Replacing(w) == call[w].at \in {"add", "delete"}

\* All rows go.  Those who replace copies add what they chose all the same.
EmptyAlignment ==
    /\ rows' = {}
    /\ emptied' = \E w \in Workers : Replacing(w)
    /\ blind' = emptied'

\* Earlier alignments have left copies of every tick, of the job's recipe or not.
Init ==
    /\ \E copies \in SUBSET (BOOLEAN \X {NoStamp, Second}) :
          rows = {row \in [tick : Ticks, fresh : BOOLEAN, at : {NoStamp, Second}, by : {"earlier"}] :
                    <<row.fresh, row.at>> \in copies}
    /\ job \in BOOLEAN
    /\ now = Second
    /\ call = [w \in Workers |-> Idle]
    /\ calls = 0 /\ faults = 0
    /\ emptied = FALSE /\ blind = FALSE

-----------------------------------------------------------------------------
\* An alignment, one at a time

\* The rows of earlier runs go; the stamp of the new ones is taken here.
Align(w) ==
    /\ call[w] = Idle /\ ~Aligning
    /\ calls < MaxCalls
    /\ calls' = calls + 1
    /\ EmptyAlignment
    /\ now' = now + Second
    /\ Goto(w, [at |-> "append", todo |-> Ticks, stamp |-> now'])
    /\ UNCHANGED <<job, faults>>

\* _append_aligned_tick_rows, segment by segment
Append(w) ==
    /\ call[w].at = "append"
    /\ LET tick == Min(call[w].todo)
           rest == call[w].todo \ {tick}
       IN  /\ rows' = rows \cup {Row(tick, TRUE, call[w].stamp, w)}
           /\ Goto(w, IF rest = {} THEN [at |-> "job"] ELSE [call[w] EXCEPT !.todo = rest])
    /\ UNCHANGED <<job, now, calls, faults, history>>

\* _record_alignment_job: delete, ...
DeleteJob(w) ==
    /\ call[w].at = "job"
    /\ job' = FALSE
    /\ Goto(w, [at |-> "record"])
    /\ UNCHANGED <<rows, now, calls, faults, history>>

\* ... and add
AddJob(w) ==
    /\ call[w].at = "record"
    /\ job' = TRUE
    /\ Return(w)
    /\ UNCHANGED <<rows, now, calls, faults, history>>

-----------------------------------------------------------------------------
\* cleanup_aligned_ticks

\* _plan_lifecycle reads the jobs, ...
Cleanup(w, orphans) ==
    /\ call[w] = Idle
    /\ w \in Maintainers \/ calls < MaxCalls
    /\ calls' = IF w \in Maintainers THEN calls ELSE calls + 1
    /\ Goto(w, [at |-> "plan", orphans |-> orphans, job |-> job])
    /\ UNCHANGED <<rows, job, now, faults, history>>

\* ... and scans the window for duplicates.
Plan(w) ==
    /\ call[w].at = "plan"
    /\ IF call[w].orphans /\ ~call[w].job THEN Goto(w, [at |-> "orphan"])
       ELSE IF Duplicated # {} THEN Goto(w, [at |-> "scan", job |-> call[w].job])
       ELSE Return(w)
    /\ UNCHANGED <<rows, job, now, calls, faults, history>>

\* _delete_alignment_rows
RemoveOrphan(w) ==
    /\ call[w].at = "orphan"
    /\ EmptyAlignment
    /\ Return(w)
    /\ UNCHANGED <<job, now, calls, faults>>

\* Mutant: the newest copy is kept.
BetterNewest(a, b, known) == a.at >= b.at

\* _canonical_row: the job's recipe where the job is known, then the newest
Better(a, b, known) ==
    IF known /\ a.fresh # b.fresh THEN a.fresh ELSE a.at >= b.at
Canonical(tick, known) ==
    {row \in RowsOf(tick) : \A other \in RowsOf(tick) : Better(row, other, known)}

\* Mutant: the stamp is that of the newest copy.
MarkerOfNewest(copies) == Max({row.at : row \in copies} \cup {Second})

Marker(copies) ==
    LET newest == Max({row.at : row \in copies})
    IN  (IF newest = NoStamp THEN now ELSE newest) + Microsecond

\* The first of those who replace copies at a time starts with a clean history.
Choose(w) ==
    LET first == \A u \in Workers : ~Replacing(u)
    IN  /\ emptied' = (emptied /\ ~first)
        /\ blind' = ((blind /\ ~(first /\ ~Appending)) \/ ~call[w].job)

\* The window is read again; the rows to keep are chosen and stamped.
Scan(w) ==
    /\ call[w].at = "scan"
    /\ \/ Duplicated = {} /\ Return(w) /\ UNCHANGED history
       \/ /\ Duplicated # {}
          /\ \E keep \in [Duplicated -> rows] :
                /\ \A tick \in Duplicated : keep[tick] \in Canonical(tick, call[w].job)
                /\ Goto(w, [at |-> "add", ids |-> Duplicated, todo |-> Duplicated,
                            fresh |-> [tick \in Duplicated |-> keep[tick].fresh],
                            marker |-> Marker({row \in rows : row.tick \in Duplicated})])
          /\ Choose(w)
    /\ UNCHANGED <<rows, job, now, calls, faults>>

\* The chosen rows are added in batches, of one here, ...
AddCanonical(w) ==
    /\ call[w].at = "add"
    /\ LET tick == Min(call[w].todo)
           rest == call[w].todo \ {tick}
       IN  /\ rows' = rows \cup {Row(tick, call[w].fresh[tick], call[w].marker, w)}
           /\ Goto(w, IF rest = {} THEN [call[w] EXCEPT !.at = "delete", !.todo = {}]
                      ELSE [call[w] EXCEPT !.todo = rest])
    /\ UNCHANGED <<job, now, calls, faults, history>>

\* Mutant: `<=` for `<`
DeleteUpToMarker(w) ==
    /\ call[w].at = "delete"
    /\ rows' = {row \in rows : row.tick \notin call[w].ids \/ row.at > call[w].marker}
    /\ Return(w)
    /\ UNCHANGED <<job, now, calls, faults, history>>

\* ... and what is older is deleted.
DeleteOlder(w) ==
    /\ call[w].at = "delete"
    /\ rows' = {row \in rows : row.tick \notin call[w].ids \/ row.at >= call[w].marker}
    /\ Return(w)
    /\ UNCHANGED <<job, now, calls, faults, history>>

-----------------------------------------------------------------------------
\* A worker dies in a call.
Die(w) ==
    /\ call[w] # Idle
    /\ faults < MaxFaults
    /\ faults' = faults + 1
    /\ Return(w)
    /\ UNCHANGED <<rows, job, now, calls, history>>

Step(w) ==
    \/ Append(w) \/ DeleteJob(w) \/ AddJob(w)
    \/ Plan(w) \/ RemoveOrphan(w) \/ Scan(w) \/ AddCanonical(w) \/ DeleteOlder(w)

Next ==
    \E w \in Workers :
        \/ Align(w) \/ Step(w) \/ Die(w)
        \/ \E orphans \in BOOLEAN : Cleanup(w, orphans)

Spec == Init /\ [][Next]_vars

\* A call that is running goes on, and the maintainers keep cleaning up, orphans included.
FairSpec ==
    /\ Spec
    /\ \A w \in Workers : WF_vars(Step(w))
    /\ \A w \in Maintainers : SF_vars(Cleanup(w, TRUE))

-----------------------------------------------------------------------------
\* Properties

\* A worker that has yet to add a row has left none there that is the same: every
\* row of a worker is the only one with its stamp.
TypeOK ==
    /\ job \in BOOLEAN /\ emptied \in BOOLEAN /\ blind \in BOOLEAN
    /\ \A row \in rows :
        /\ row.tick \in Ticks /\ row.fresh \in BOOLEAN /\ row.by \in Workers \cup {"earlier"}
        /\ row.at \in Nat \cup {NoStamp}
        /\ row.by # "earlier" /\ call[row.by].at \in {"append", "add"} /\ row.tick \in call[row.by].todo
             => call[row.by].at = "add" /\ row.at < call[row.by].marker

\* A tick that has a row keeps one when a cleanup deletes copies, whatever other
\* cleanups have added and deleted since it chose and wherever one of them died,
\* as long as nobody has emptied the alignment under it or under one it overlaps.
TickNeverVanishes ==
    [][\A w \in Workers, tick \in Ticks :
          DeleteOlder(w) /\ ~emptied /\ RowsOf(tick) # {} => RowsOf(tick)' # {}]_vars

\* Cleanups that know the job never give up the last row of the job's recipe for
\* one of another recipe, not even while an alignment appends.
FreshSurvives ==
    [][\A w \in Workers, tick \in Ticks :
          DeleteOlder(w) /\ ~blind /\ (\E row \in RowsOf(tick) : row.fresh)
             => \E row \in RowsOf(tick)' : row.fresh]_vars

\* Repeated cleanups make good what went before: copies, which a cleanup that died
\* between the add and the delete leaves, or one that another overlapped, collapse to
\* one row per tick for good; the rows of an alignment that has no job are removed.
DuplicatesCollapse == <>[](\A tick \in Ticks : Cardinality(RowsOf(tick)) <= 1)
OrphansRemoved == (rows # {} /\ ~job) ~> (rows = {} \/ job)
CleanupConverges == DuplicatesCollapse /\ OrphansRemoved
=============================================================================

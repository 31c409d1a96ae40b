---------------------------- MODULE ViewCatalog ----------------------------
(***************************************************************************)
(* The catalog of published LeRobot views of one repo (lerobot_facade):    *)
(* file rows, a header row per view and one row that points at the latest  *)
(* view, three tables without a transaction over them.  publish_view       *)
(* writes files, header, pointer; retire_view deletes pointer, header,     *)
(* files and points at the newest view left; maintenance reconciles the    *)
(* pointer with the headers and sweeps files that have no header.          *)
(*                                                                         *)
(* A worker runs one of these calls at a time and may die in it.  Physical *)
(* duplicates of a row are not modelled.  View ids are numbers, ties of    *)
(* created_at are broken by id.                                            *)
(***************************************************************************)
EXTENDS Integers, FiniteSets

CONSTANTS
    Views,          \* view ids: digests of a definition and table versions
    FileCount,      \* FileCount[v]: commits of file rows of a view
    Workers,        \* processes that publish and retire
    Maintainers,    \* the ones of them that run maintenance too
    Grace,          \* DEFAULT_ORPHAN_GRACE, in ticks of the clock
    Attempts,       \* _MERGE_INSERT_ATTEMPTS
    LastPublish,    \* bound: no publish starts later than this
    MaxClock,       \* bound: the clock stops here
    MaxForced,      \* bound: retirements with force=True
    MaxFaults,      \* bound: deaths and failed pointer commits
    None

\* A row of lerobot_view_latest
PointerRow == [view : Views, at : Nat]

ASSUME ViewAssumption == /\ Views \subseteq Nat \ {0} /\ IsFiniteSet(Views)
                         /\ FileCount \in [Views -> Nat \ {0}]
                         /\ None \notin PointerRow
ASSUME BoundAssumption ==
    /\ Maintainers \subseteq Workers
    /\ {Grace, Attempts} \subseteq Nat \ {0}
    /\ {LastPublish, MaxClock, MaxForced, MaxFaults} \subseteq Nat

VARIABLES
    header,         \* header[v]: created_at of a row of lerobot_views, 0 without one
    files,          \* files[v][i]: created_at of file rows, 0 without them
    pointer,        \* the row of lerobot_view_latest, or None
    call,           \* call[w]: the call a worker is in
    conditional,    \* the backend takes a conditional merge
    clock,
    forced,         \* forced retirements so far
    faults          \* faults so far

tables == <<header, files, pointer>>
env == <<conditional, clock, forced, faults>>
vars == <<tables, call, env>>

-----------------------------------------------------------------------------
FilesOf(v) == 1 .. FileCount[v]
NoFiles(v) == [i \in FilesOf(v) |-> 0]
HasFiles(v) == files[v] # NoFiles(v)
Complete(v) == \A i \in FilesOf(v) : files[v][i] > 0
Published == {v \in Views : header[v] > 0}

\* (view_created_at, view_id), the key of every "newest"
Row(v, at) == [view |-> v, at |-> at]
Older(a, b) == a.at < b.at \/ (a.at = b.at /\ a.view < b.view)
HeaderRow(v) == Row(v, header[v])

\* The newest header, from the ordered read
Newest == IF Published = {} THEN None
          ELSE HeaderRow(CHOOSE v \in Published : \A u \in Published \ {v} : Older(HeaderRow(u), HeaderRow(v)))

\* _resolve_latest_view_id: the pointer if its view has a header, else the newest header
Resolve == IF pointer # None /\ header[pointer.view] > 0 THEN pointer.view
           ELSE IF Newest = None THEN None ELSE Newest.view

Idle == [at |-> "idle"]
Goto(w, stage) == call' = [call EXCEPT ![w].at = stage]
Return(w) == call' = [call EXCEPT ![w] = Idle]
Publishing(w, v) == call[w].at \in {"files", "header", "verify"} /\ call[w].view = v
Retiring(w, v) == call[w].at \in {"guard", "retire"} /\ call[w].view = v

Init ==
    /\ header = [v \in Views |-> 0]
    /\ files = [v \in Views |-> NoFiles(v)]
    /\ pointer = None
    /\ call = [w \in Workers |-> Idle]
    /\ conditional \in BOOLEAN
    /\ clock = 1
    /\ forced = 0
    /\ faults = 0

-----------------------------------------------------------------------------
\* publish_view, from the point where the view id is known.  The same view is neither
\* published nor retired by another worker meanwhile.

Publish(w, v) ==
    /\ call[w] = Idle
    /\ clock <= LastPublish
    /\ \A u \in Workers : ~Publishing(u, v) /\ ~Retiring(u, v)
    /\ call' = [call EXCEPT ![w] = [at |-> "files", view |-> v, now |-> clock, next |-> 1]]
    /\ UNCHANGED <<tables, env>>

\* _flush_pending: an upsert, so rows that are there get the new created_at
WriteFiles(w) ==
    LET i == call[w].next
    IN  /\ call[w].at = "files"
        /\ files' = [files EXCEPT ![call[w].view][i] = call[w].now]
        /\ IF i < FileCount[call[w].view] THEN call' = [call EXCEPT ![w].next = i + 1]
                                          ELSE Goto(w, "header")
        /\ UNCHANGED <<header, pointer, env>>

WriteHeader(w) ==
    /\ call[w].at = "header"
    /\ header' = [header EXCEPT ![call[w].view] = call[w].now]
    /\ Goto(w, "verify")
    /\ UNCHANGED <<files, pointer, env>>

UpdatePointer(w, row) ==
    call' = [call EXCEPT ![w] = [at |-> IF conditional THEN "merge" ELSE "observe", row |-> row,
                                 seen |-> None, tries |-> 1]]

\* The postcondition: success is reported only when every file reads back.
Verify(w) ==
    /\ call[w].at = "verify"
    /\ IF Complete(call[w].view) THEN UpdatePointer(w, Row(call[w].view, call[w].now)) ELSE Return(w)
    /\ UNCHANGED <<tables, env>>

-----------------------------------------------------------------------------
\* _update_latest_pointer, the end of a publish and of a retirement

\* Mutant: the last writer wins.
AdvanceBlindly(row) == row

\* _POINTER_UPDATE_CONDITION
Advance(row) == IF pointer = None \/ Older(pointer, row) THEN row ELSE pointer

MergePointer(w) ==
    /\ call[w].at = "merge"
    /\ pointer' = Advance(call[w].row)
    /\ Return(w)
    /\ UNCHANGED <<header, files, env>>

\* _cas_update_latest_pointer: read the row, ...
ObservePointer(w) ==
    /\ call[w].at = "observe"
    /\ IF pointer # None /\ ~Older(pointer, call[w].row)
       THEN Return(w)
       ELSE call' = [call EXCEPT ![w].at = "swap", ![w].seen = pointer]
    /\ UNCHANGED <<tables, env>>

\* ... then insert it, or update it if it is still what was read.  The next attempt
\* finds out whether this one worked; after the last one the call gives up.
SwapPointer(w) ==
    /\ call[w].at = "swap"
    /\ pointer' = IF pointer = call[w].seen THEN call[w].row ELSE pointer
    /\ call' = [call EXCEPT ![w].at = IF call[w].tries < Attempts THEN "observe" ELSE "drop",
                            ![w].tries = @ + 1, ![w].seen = None]
    /\ UNCHANGED <<header, files, env>>

\* Every attempt hit a commit conflict, or the table cannot be reached.
PointerFails(w) ==
    /\ call[w].at \in {"merge", "observe", "swap"} /\ faults < MaxFaults
    /\ faults' = faults + 1
    /\ Goto(w, "drop")
    /\ UNCHANGED <<tables, conditional, clock, forced>>

\* The rows that could not be brought up to date are removed.
DropPointer(w) ==
    /\ call[w].at = "drop"
    /\ pointer' = None
    /\ Return(w)
    /\ UNCHANGED <<header, files, env>>

-----------------------------------------------------------------------------
\* retire_view

\* The rows are counted; a view of which nothing is left is "absent".
Retire(w, v, force) ==
    LET had == {t \in {"header", "files", "pointer"} :
                  \/ t = "header" /\ header[v] > 0
                  \/ t = "files" /\ HasFiles(v)
                  \/ t = "pointer" /\ pointer # None /\ pointer.view = v}
    IN  /\ call[w] = Idle
        /\ had # {}
        /\ \A u \in Workers : ~Publishing(u, v)
        /\ force => forced < MaxForced
        /\ forced' = IF force THEN forced + 1 ELSE forced
        /\ call' = [call EXCEPT ![w] = [at |-> IF "header" \in had /\ ~force THEN "guard" ELSE "retire",
                                        view |-> v, todo |-> had,
                                        repoint |-> {"pointer", "header"} \subseteq had]]
        /\ UNCHANGED <<tables, conditional, clock, faults>>

\* Mutant: only the pointer protects a view.
GuardPointerOnly(w) ==
    /\ call[w].at = "guard"
    /\ IF pointer # None /\ pointer.view = call[w].view THEN Return(w) ELSE Goto(w, "retire")
    /\ UNCHANGED <<tables, env>>

\* _require_not_protected: neither the pointed-at view nor the newest
Guard(w) ==
    /\ call[w].at = "guard"
    /\ IF \/ pointer # None /\ pointer.view = call[w].view
          \/ Newest # None /\ Newest.view = call[w].view
       THEN Return(w)
       ELSE Goto(w, "retire")
    /\ UNCHANGED <<tables, env>>

Done(w, t) == call' = [call EXCEPT ![w].todo = @ \ {t}]

\* The pointer first: a reader that has no pointer stops finding the view with its header
RetirePointer(w) ==
    /\ call[w].at = "retire" /\ "pointer" \in call[w].todo
    /\ pointer' = IF pointer # None /\ pointer.view = call[w].view THEN None ELSE pointer
    /\ Done(w, "pointer")
    /\ UNCHANGED <<header, files, env>>

RetireHeader(w) ==
    /\ call[w].at = "retire" /\ "header" \in call[w].todo /\ "pointer" \notin call[w].todo
    /\ header' = [header EXCEPT ![call[w].view] = 0]
    /\ Done(w, "header")
    /\ UNCHANGED <<files, pointer, env>>

RetireFiles(w) ==
    /\ call[w].at = "retire" /\ call[w].todo = {"files"}
    /\ files' = [files EXCEPT ![call[w].view] = NoFiles(call[w].view)]
    /\ Done(w, "files")
    /\ UNCHANGED <<header, pointer, env>>

\* The postcondition, and the newest view left when the pointer was deleted.  Without a
\* header the repo is not known, and there is nothing to point at.
RetireCount(w) ==
    LET v == call[w].view
        survives == header[v] > 0 \/ HasFiles(v) \/ (pointer # None /\ pointer.view = v)
    IN  /\ call[w].at = "retire" /\ call[w].todo = {}
        /\ IF ~survives /\ call[w].repoint /\ Newest # None
           THEN UpdatePointer(w, Newest)
           ELSE Return(w)
        /\ UNCHANGED <<tables, env>>

-----------------------------------------------------------------------------
\* _reconcile_latest_pointers

ReconcileRead(w) ==
    /\ w \in Maintainers /\ call[w] = Idle
    /\ pointer # None
    /\ call' = [call EXCEPT ![w] = [at |-> "compare", seen |-> pointer]]
    /\ UNCHANGED <<tables, env>>

\* Mutant: a pointer whose view exists is taken for good.
ReconcileDanglingOnly(w) ==
    /\ call[w].at = "compare"
    /\ IF header[call[w].seen.view] > 0 THEN Return(w)
       ELSE call' = [call EXCEPT ![w] = [at |-> "repair", row |-> None]]
    /\ UNCHANGED <<tables, env>>

\* A pointer that is newer than every header is removed, an older one is advanced.
ReconcileCompare(w) ==
    LET seen == call[w].seen
    IN  /\ call[w].at = "compare"
        /\ IF Newest = seen THEN Return(w)
           ELSE call' = [call EXCEPT ![w] =
                   [at |-> "repair", row |-> IF Newest = None \/ Older(Newest, seen) THEN None ELSE Newest]]
        /\ UNCHANGED <<tables, env>>

\* The repair has the conditional form only: other backends refuse it.
ReconcileRepair(w) ==
    LET row == call[w].row
    IN  /\ call[w].at = "repair"
        /\ pointer' = IF row = None THEN None ELSE IF conditional THEN Advance(row) ELSE pointer
        /\ Return(w)
        /\ UNCHANGED <<header, files, env>>

-----------------------------------------------------------------------------
\* reconcile_orphan_view_files

Aged(v, cutoff) == HasFiles(v) /\ \A i \in FilesOf(v) : files[v][i] <= cutoff

\* The groups whose newest row is past the grace window; without any, nothing follows
SweepScan(w) ==
    LET cutoff == clock - Grace
        aged == {v \in Views : Aged(v, cutoff)}
    IN  /\ w \in Maintainers /\ call[w] = Idle
        /\ aged # {}
        /\ call' = [call EXCEPT ![w] = [at |-> "heads", cutoff |-> cutoff, aged |-> aged]]
        /\ UNCHANGED <<tables, env>>

\* Mutant: one published view among the candidates spares them all.
SweepHeadsAny(w) ==
    /\ call[w].at = "heads"
    /\ IF call[w].aged \cap Published # {} THEN Return(w) ELSE Goto(w, "sweep")
    /\ UNCHANGED <<tables, env>>

SweepHeads(w) ==
    /\ call[w].at = "heads"
    /\ IF call[w].aged \subseteq Published THEN Return(w)
       ELSE call' = [call EXCEPT ![w].at = "sweep", ![w].aged = @ \ Published]
    /\ UNCHANGED <<tables, env>>

\* Mutant: the delete is not bounded by the cutoff.
SweepDeleteAll(w) ==
    /\ call[w].at = "sweep"
    /\ files' = [v \in Views |-> IF v \in call[w].aged THEN NoFiles(v) ELSE files[v]]
    /\ Return(w)
    /\ UNCHANGED <<header, pointer, env>>

\* Rows that a publish has refreshed since are out of the predicate.
SweepDelete(w) ==
    /\ call[w].at = "sweep"
    /\ files' = [v \in Views |-> [i \in FilesOf(v) |->
                   IF v \in call[w].aged /\ files[v][i] <= call[w].cutoff THEN 0 ELSE files[v][i]]]
    /\ Return(w)
    /\ UNCHANGED <<header, pointer, env>>

-----------------------------------------------------------------------------
\* A worker dies, or an error ends its call.
Die(w) ==
    /\ call[w] # Idle /\ faults < MaxFaults
    /\ faults' = faults + 1
    /\ Return(w)
    /\ UNCHANGED <<tables, conditional, clock, forced>>

\* The files and the header of a publish land within the grace window.
Tick ==
    /\ clock < MaxClock
    /\ \A w \in Workers : call[w].at \in {"files", "header"} => clock + 1 - call[w].now < Grace
    /\ clock' = clock + 1
    /\ UNCHANGED <<tables, call, conditional, forced, faults>>

PublishStep(w) == WriteFiles(w) \/ WriteHeader(w) \/ Verify(w)
PointerStep(w) == MergePointer(w) \/ ObservePointer(w) \/ SwapPointer(w) \/ DropPointer(w)
RetireStep(w) == Guard(w) \/ RetirePointer(w) \/ RetireHeader(w) \/ RetireFiles(w) \/ RetireCount(w)
ReconcileStep(w) == ReconcileCompare(w) \/ ReconcileRepair(w)
SweepStep(w) == SweepHeads(w) \/ SweepDelete(w)
Step(w) == PublishStep(w) \/ PointerStep(w) \/ RetireStep(w) \/ ReconcileStep(w) \/ SweepStep(w)

Next ==
    \/ \E w \in Workers :
          \/ \E v \in Views : Publish(w, v) \/ \E force \in BOOLEAN : Retire(w, v, force)
          \/ ReconcileRead(w) \/ SweepScan(w)
          \/ Step(w) \/ PointerFails(w) \/ Die(w)
    \/ Tick

Spec == Init /\ [][Next]_vars

\* Time passes, calls run to their end, and maintenance is run again and again.
FairSpec ==
    /\ Spec
    /\ WF_vars(Tick)
    /\ \A w \in Workers : WF_vars(Step(w))
    /\ SF_vars(\E w \in Workers : ReconcileRead(w))
    /\ SF_vars(\E w \in Workers : SweepScan(w))

-----------------------------------------------------------------------------

\* publish_view, retire_view, reconcile_orphan_view_files: a view that a reader finds has
\* all its files, whatever is published, retired, swept or dies meanwhile.
PublishedViewsAreComplete == \A v \in Published : Complete(v)

\* _update_latest_pointer: a late publish of an older view never moves the pointer back,
\* with a conditional merge and with the compare-and-swap that replaces it.
PointerNeverRegresses ==
    [][pointer # None /\ pointer' # None => ~Older(pointer', pointer)]_vars

\* retire_view: as long as nobody uses force, a repo that has a view keeps one.
LastViewSurvives ==
    [][forced' = 0 /\ Published # {} => \E v \in Views : header'[v] > 0]_vars

\* compact_view_catalog: whatever happened to the pointer, readers of the repo end up
\* with the newest view for good, where the backend takes the conditional merge.
LatestHeals == conditional => <>[](Newest = None \/ Resolve = Newest.view)

AgedOrphans == {v \in Views \ Published : Aged(v, clock - Grace)}

\* reconcile_orphan_view_files: the files of a publish or a retirement that died do not
\* stay for ever.
OrphanFilesReclaimed == AgedOrphans # {} ~> AgedOrphans = {}

=============================================================================

------------------------- MODULE TrainingManifests -------------------------
(***************************************************************************)
(* The manifests of training runs and the permutation tables they pin.     *)
(* record_training_run and the import of a tracker's bundle replace rows   *)
(* of training_runs by a delete and an add (run_manifests.py,              *)
(* tracker_sync.py).  A training job materialises its epoch permutation as *)
(* a table and enters it in a catalog; the cleanup of that catalog drops   *)
(* the tables whose plans no row of training_runs names                    *)
(* (training.py, training_permutation_catalog.py).                         *)
(*                                                                         *)
(* A run, its plan and its permutation table have the same name.  A worker *)
(* is in one call at a time and may die in it.                             *)
(***************************************************************************)
EXTENDS Integers, FiniteSets

CONSTANTS
    Runs,           \* training runs
    Workers,        \* processes that train, import, pin and clean up
    MaxContent,     \* bound: how often the manifest of a run changes in the tracker
    MaxCalls,       \* bound: training jobs and changes of a policy
    MaxFaults,      \* bound: deaths and failed catalog writes
    Overlaps,       \* the values of `overlap` to consider
    None

ASSUME ManifestAssumption ==
    /\ {MaxContent, MaxCalls, MaxFaults} \subseteq Nat
    /\ Overlaps \subseteq BOOLEAN
    /\ None \notin {"auto", "keep"}

VARIABLES
    tracker,    \* tracker[r]: what the external tracker says of a run, 0 for nothing yet
    rows,       \* the rows of training_runs
    tables,     \* the permutation tables
    catalog,    \* catalog[r]: the retention policy of a table's entry, or None
    call,       \* call[w]: the call a worker is in
    calls, faults,
    overlap     \* manifests are replaced and policies set during a cleanup as well

permutations == <<tables, catalog>>
env == <<calls, faults, overlap>>
vars == <<tracker, rows, permutations, call, env>>

-----------------------------------------------------------------------------
\* What record_training_run writes, and what the tracker says in the end
LakeContent == 0
Contents == LakeContent .. MaxContent
Policies == {"auto", "keep"}

\* A manifest id: the run's own, or the one derived from superseding content
BaseId(r) == <<r, 0>>
SupersedingId(r, content) == <<r, content>>

RowsOf(id) == {row \in rows : row.id = id}
Pinned == {row.id[1] : row \in rows}

Idle == [at |-> "idle"]
Goto(w, c) == call' = [call EXCEPT ![w] = c]
Return(w) == Goto(w, Idle)
At(places) == \E w \in Workers : call[w].at \in places
Cleaning == At({"tables", "entries", "drop", "forget"})
Replacing == At({"delete", "add"})

\* Unless `overlap`, manifests and policies do not change while a cleanup runs,
\* and an operator sets the policies of tables that are there.
MayChange == overlap \/ ~Cleaning

\* No run is recorded yet; earlier jobs may have left tables and their entries.
Init ==
    /\ tracker = [r \in Runs |-> 0]
    /\ rows = {}
    /\ catalog \in [Runs -> Policies \cup {None}]
    /\ tables = {r \in Runs : catalog[r] # None}
    /\ call = [w \in Workers |-> Idle]
    /\ calls = 0 /\ faults = 0
    /\ overlap \in Overlaps

-----------------------------------------------------------------------------
\* _upsert_rows and _replace_rows: the end of an import and of record_training_run

Replace(w, manifests) == Goto(w, [at |-> "delete", manifests |-> manifests])

DeleteRows(w) ==
    /\ call[w].at = "delete"
    /\ rows' = {row \in rows : row.id \notin {m.id : m \in call[w].manifests}}
    /\ call' = [call EXCEPT ![w].at = "add"]
    /\ UNCHANGED <<tracker, permutations, env>>

\* Copies of one row are told apart by the worker that added them.
AddRows(w) ==
    /\ call[w].at = "add"
    /\ rows' = rows \cup {[id |-> m.id, content |-> m.content, by |-> w] : m \in call[w].manifests}
    /\ Return(w)
    /\ UNCHANGED <<tracker, permutations, env>>

-----------------------------------------------------------------------------
\* import_manifest_bundle

\* Mutant: a run is only looked up under its superseding id once it has one.
ClassifyOnce(r, content, previous, conflict) ==
    IF previous # None /\ \E row \in rows : row.id[1] = r /\ row.id # BaseId(r) THEN {}
    ELSE IF previous = content \/ (previous # None /\ conflict = "lake-wins") THEN {}
    ELSE {[id |-> IF previous # None /\ conflict = "append-superseding" THEN SupersedingId(r, content)
                                                                     ELSE BaseId(r),
           content |-> content]}

\* _classify: what to write for a run whose row was found to have content `previous`
Classify(r, content, previous, conflict) ==
    CASE previous = None -> {[id |-> BaseId(r), content |-> content]}
      [] previous = content -> {}
      [] conflict = "lake-wins" -> {}
      [] conflict = "append-superseding" ->
            IF RowsOf(SupersedingId(r, content)) # {} THEN {}
            ELSE {[id |-> SupersedingId(r, content), content |-> content]}
      [] OTHER -> {[id |-> BaseId(r), content |-> content]}

\* _digest_index: of the copies of a row, the last one scanned
Indexes == {f \in [Runs -> Contents \cup {None}] :
              \A r \in Runs : IF RowsOf(BaseId(r)) = {} THEN f[r] = None
                              ELSE \E row \in RowsOf(BaseId(r)) : f[r] = row.content}

Import(w, conflict) ==
    /\ call[w] = Idle
    /\ MayChange
    /\ \E existing \in Indexes :
          LET known == {r \in Runs : tracker[r] # 0}
              writes == UNION {Classify(r, tracker[r], existing[r], conflict) : r \in known}
          IN  writes # {} /\ Replace(w, writes)
    /\ UNCHANGED <<tracker, rows, permutations, env>>

\* external: the tracker gets, or edits, its manifest of a run.
Edit(r) ==
    /\ tracker[r] < MaxContent
    /\ tracker' = [tracker EXCEPT ![r] = @ + 1]
    /\ UNCHANGED <<rows, permutations, call, env>>

-----------------------------------------------------------------------------
\* A training job: the permutation table, its catalog entry, the manifest of the run

\* _create_or_reuse_epoch_permutation_table
Materialize(w, r) ==
    /\ call[w] = Idle
    /\ calls < MaxCalls
    /\ calls' = calls + 1
    /\ tables' = tables \cup {r}
    /\ Goto(w, [at |-> "get", run |-> r])
    /\ UNCHANGED <<tracker, rows, catalog, faults, overlap>>

\* record: the entry is read, ...
RecordGet(w) ==
    LET r == call[w].run
    IN  /\ call[w].at = "get"
        /\ overlap \/ ~At({"pin"})
        /\ Goto(w, [at |-> "put", run |-> r, policy |-> IF catalog[r] = None THEN "auto" ELSE catalog[r]])
        /\ UNCHANGED <<tracker, rows, permutations, env>>

\* ... and written back with its policy
Put(w) ==
    /\ call[w].at \in {"put", "pin"}
    /\ catalog' = [catalog EXCEPT ![call[w].run] = call[w].policy]
    /\ Goto(w, IF call[w].at = "put" THEN [at |-> "train", run |-> call[w].run] ELSE Idle)
    /\ UNCHANGED <<tracker, rows, tables, env>>

\* record_permutation_artifact never fails a build: the table stays without an entry.
PutFails(w) ==
    /\ call[w].at = "put"
    /\ faults < MaxFaults
    /\ faults' = faults + 1
    /\ Goto(w, [at |-> "train", run |-> call[w].run])
    /\ UNCHANGED <<tracker, rows, permutations, calls, overlap>>

\* record_training_run, when the training is done; or the training came to nothing
RecordRun(w) ==
    /\ call[w].at = "train"
    /\ \/ MayChange /\ Replace(w, {[id |-> BaseId(call[w].run), content |-> LakeContent]})
       \/ Return(w)
    /\ UNCHANGED <<tracker, rows, permutations, env>>

\* set_retention_policy: the entry is read, and put with the new policy
SetPolicy(w, r, policy) ==
    /\ call[w] = Idle
    /\ calls < MaxCalls
    /\ catalog[r] \notin {None, policy}
    /\ MayChange /\ (overlap \/ (r \in tables /\ ~At({"put"})))
    /\ calls' = calls + 1
    /\ Goto(w, [at |-> "pin", run |-> r, policy |-> policy])
    /\ UNCHANGED <<tracker, rows, permutations, faults, overlap>>

-----------------------------------------------------------------------------
\* cleanup

\* gather_referenced_plan_ids
Gather(w) ==
    /\ call[w] = Idle
    /\ overlap \/ ~(Replacing \/ At({"pin"}))
    /\ Goto(w, [at |-> "tables", protected |-> Pinned])
    /\ UNCHANGED <<tracker, rows, permutations, env>>

\* _physical_permutation_tables
ListTables(w) ==
    /\ call[w].at = "tables"
    /\ Goto(w, [at |-> "entries", protected |-> call[w].protected, physical |-> tables])
    /\ UNCHANGED <<tracker, rows, permutations, env>>

\* Mutant: only the operator's policy keeps a table.
ShouldKeepByPolicy(c, r) == r \in c.physical /\ catalog[r] \in {None, "keep"}

\* _should_keep, and the tables without an entry, which are always kept
ShouldKeep(c, r) ==
    /\ r \in c.physical
    /\ catalog[r] \in {None, "keep"} \/ r \in c.protected

\* Mutant: the candidates are the tables, not the entries.
CandidateTables(c) == c.physical

Candidates(c) == c.physical \cup {r \in Runs : catalog[r] # None}

\* The entries are listed, and every candidate is judged by what was listed.
ListEntries(w) ==
    /\ call[w].at = "entries"
    /\ LET todo == {r \in Candidates(call[w]) : ~ShouldKeep(call[w], r)}
       IN  Goto(w, [at |-> "drop", todo |-> todo, physical |-> todo \cap call[w].physical])
    /\ UNCHANGED <<tracker, rows, permutations, env>>

\* drop_table; a table that is already gone is an error, and its entry stays
Drop(w, r) ==
    /\ call[w].at = "drop" /\ r \in call[w].todo
    /\ tables' = IF r \in call[w].physical THEN tables \ {r} ELSE tables
    /\ LET failed == r \in call[w].physical \ tables
           rest == [call[w] EXCEPT !.todo = @ \ {r}, !.physical = @ \ {r}]
       IN  Goto(w, IF failed THEN rest ELSE [at |-> "forget", run |-> r, rest |-> rest])
    /\ UNCHANGED <<tracker, rows, catalog, env>>

\* store.delete
Forget(w) ==
    /\ call[w].at = "forget"
    /\ catalog' = [catalog EXCEPT ![call[w].run] = None]
    /\ Goto(w, call[w].rest)
    /\ UNCHANGED <<tracker, rows, tables, env>>

EndCleanup(w) ==
    /\ call[w].at = "drop" /\ call[w].todo = {}
    /\ Return(w)
    /\ UNCHANGED <<tracker, rows, permutations, env>>

-----------------------------------------------------------------------------
\* A worker dies in a call.
Die(w) ==
    /\ call[w] # Idle
    /\ faults < MaxFaults
    /\ faults' = faults + 1
    /\ Return(w)
    /\ UNCHANGED <<tracker, rows, permutations, calls, overlap>>

Step(w) ==
    \/ DeleteRows(w) \/ AddRows(w)
    \/ RecordGet(w) \/ Put(w) \/ PutFails(w) \/ RecordRun(w)
    \/ ListTables(w) \/ ListEntries(w) \/ Forget(w) \/ EndCleanup(w)
    \/ \E r \in Runs : Drop(w, r)

Next ==
    \/ \E w \in Workers :
        \/ Step(w) \/ Die(w)
        \/ \E conflict \in {"external-wins", "lake-wins", "append-superseding"} : Import(w, conflict)
        \/ Gather(w)
        \/ \E r \in Runs : Materialize(w, r) \/ \E policy \in Policies : SetPolicy(w, r, policy)
    \/ \E r \in Runs : Edit(r)

Spec == Init /\ [][Next]_vars

\* A call that is running goes on; imports that take over the tracker's
\* manifests, and cleanups, are started again and again.
FairSpec ==
    /\ Spec
    /\ \A w \in Workers : WF_vars(Step(w))
    /\ SF_vars(\E w \in Workers : Import(w, "external-wins"))
    /\ SF_vars(\E w \in Workers : Gather(w))

-----------------------------------------------------------------------------
\* Properties

\* A cleanup drops no table whose plan a row of training_runs names, and none an
\* operator keeps, although training jobs build tables and write their entries back
\* meanwhile and other cleanups drop and forget.  Manifests and policies do not change
\* during a cleanup (~overlap): of a run that is recorded between the lookup and the drop
\* nothing is claimed.
OnlyUnreferencedDropped ==
    [][\A w \in Workers, r \in Runs :
          ~overlap /\ Drop(w, r) /\ r \in tables \ tables'
             => r \notin Pinned /\ catalog[r] # "keep"]_vars

\* Whatever the tracker says of a run is in the lake in the end, under the run's
\* own id or a superseding one: an import that died between its delete and its
\* add, or was overtaken by one with an older bundle, is made good by the next.
\* (Stated for `overlap`: calls that wait for each other can starve.)
ManifestsConverge ==
    \A r \in Runs, c \in 1 .. MaxContent :
        overlap /\ tracker[r] = c ~> tracker[r] # c \/ \E row \in rows : row.id[1] = r /\ row.content = c

\* An entry whose table is gone, or that nobody keeps or pins, does not stay: a
\* cleanup that died between the drop and the delete of the entry, or lost the
\* table to another cleanup, is completed by a later one.  (For `overlap`.)
Collectable(r) == catalog[r] # None /\ (r \notin tables \/ (catalog[r] = "auto" /\ r \notin Pinned))
CatalogConverges == \A r \in Runs : overlap /\ Collectable(r) ~> ~Collectable(r)
=============================================================================

------------------------------ MODULE RowPlans ------------------------------
(***************************************************************************)
(* The catalog of compiled curation row plans (curation_row_plans.py and   *)
(* the end of curate.py's compile_row_plan): a header row per plan and its *)
(* targets in chunk rows of a second table, without a transaction over the *)
(* two.  A compile writes the chunks first and the header last; retention  *)
(* deletes the chunks first and marks the header last; compaction deletes  *)
(* chunks that have had no header for a grace window.  The rows of         *)
(* training_runs and training_reports pin the plans they name.             *)
(*                                                                         *)
(* All plans are of one series (view, grain, snapshot, base policy), so    *)
(* they are ranked against each other.  One chunk stands for one commit of *)
(* chunk rows.  Plan ids are numbers: ties of created_at are broken by id. *)
(***************************************************************************)
EXTENDS Integers, FiniteSets

CONSTANTS
    Plans,          \* plan ids: digests of what was compiled
    ChunkCount,     \* ChunkCount[p]: chunk commits of a plan, 0 for an inline one
    Compilers,      \* processes that compile plans
    Pruners,        \* processes that run prune_row_plans
    Compactors,     \* processes that run compact_row_plan_chunks
    Records,        \* ids of rows of the referencing tables
    TableOf,        \* TableOf[t]: the table of a record
    Retain,         \* retain_latest
    Grace,          \* ORPHAN_GRACE, in ticks of the clock
    LastCompile,    \* bound: no compile starts later than this
    MaxClock,       \* bound: the clock stops here
    MaxFaults,      \* bound: deaths and failed deletes
    Overlaps,       \* the values of `overlap` to consider
    None

\* A row of curation_row_plans
Header == [state : {"active", "superseded", "pruned"}, frozen : BOOLEAN, at : Nat]

ASSUME PlanAssumption == /\ Plans \subseteq Nat /\ IsFiniteSet(Plans)
                         /\ ChunkCount \in [Plans -> Nat]
                         /\ None \notin Nat \cup Header
REFERENCING_TABLES == {"training_runs", "training_reports"}

ASSUME RecordAssumption == TableOf \in [Records -> REFERENCING_TABLES]
ASSUME BoundAssumption == /\ Retain \in Nat \ {0}
                          /\ {Grace, LastCompile, MaxClock, MaxFaults} \subseteq Nat
                          /\ Overlaps \subseteq BOOLEAN

VARIABLES
    header,     \* header[p]: the row of curation_row_plans, or None
    chunks,     \* chunks[p][i]: created_at of a chunk, 0 when it is not there
    refs,       \* refs[t]: the row of a record, see NoRef
    compile,    \* the local state of each compile
    prune,      \* the local state of each prune_row_plans
    compact,    \* the local state of each compact_row_plan_chunks
    clock,
    faults,     \* deaths and failed deletes so far
    overlap     \* a plan that has rows, or several compiles, may be compiled while
                \* retention runs

catalog == <<header, chunks>>
env == <<clock, faults, overlap>>
vars == <<catalog, refs, compile, prune, compact, env>>

-----------------------------------------------------------------------------
ChunksOf(p) == 1 .. ChunkCount[p]
NoChunks(p) == [i \in ChunksOf(p) |-> 0]

Stored(p) == {i \in ChunksOf(p) : chunks[p][i] > 0}
Complete(p) == Stored(p) = ChunksOf(p)

\* The key that listing and retention order by, newest first
Newer(a, p, b, q) == a.at > b.at \/ (a.at = b.at /\ p > q)
NewerPlans(h, p) == {q \in Plans : h[q] # None /\ Newer(h[q], q, h[p], p)}

\* open_row_plan_targets and the stream behind it: a pruned plan is refused, and
\* so are missing chunks
Readable(p) == header[p] # None /\ header[p].state # "pruned" /\ Complete(p)

(***************************************************************************)
(* A record is there and names a plan, or it is absent, and while it is    *)
(* being replaced it is about to be added.  owed is history: the plan      *)
(* could be read when the row was added, no retention pass was deleting    *)
(* it, and no lookup has passed the table of the record by since.          *)
(***************************************************************************)
NoRef == [at |-> "absent", plan |-> None, owed |-> FALSE]

NamedBy(t, S) == refs[t].at = "there" /\ refs[t].plan \in S

NoCompile == [at |-> "idle", plan |-> None, freeze |-> FALSE, next |-> 1, since |-> 0, again |-> FALSE]
NoPrune == [at |-> "idle", active |-> {}, victims |-> {}, supersede |-> {}, rows |-> << >>]
NoCompact == [at |-> "idle", cutoff |-> 0, heads |-> {}, victims |-> {}]

Init ==
    /\ header = [p \in Plans |-> None]
    /\ chunks = [p \in Plans |-> NoChunks(p)]
    /\ refs = [t \in Records |-> NoRef]
    /\ compile = [k \in Compilers |-> NoCompile]
    /\ prune = [r \in Pruners |-> NoPrune]
    /\ compact = [c \in Compactors |-> NoCompact]
    /\ clock = 1
    /\ faults = 0
    /\ overlap \in Overlaps

\* A plan that is there already, in part or whole, or that another process compiles
Known(p) ==
    \/ header[p] # None
    \/ Stored(p) # {}
    \/ \E k \in Compilers : compile[k].plan = p

Retaining == (\E r \in Pruners : prune[r].at # "idle") \/ (\E c \in Compactors : compact[c].at # "idle")
Recompiling == \E k \in Compilers : compile[k].again

-----------------------------------------------------------------------------
\* compile_row_plan, from the point where the plan id is known

Start(k, p, freeze) ==
    /\ compile[k].at = "idle"
    /\ clock <= LastCompile
    /\ overlap \/ ~Known(p) \/ ~Retaining
    /\ compile' = [j \in Compilers |->
          IF j = k THEN [at |-> "write", plan |-> p, freeze |-> freeze, next |-> 1, since |-> clock,
                         again |-> Known(p)]
          ELSE IF compile[j].plan = p THEN [compile[j] EXCEPT !.again = TRUE]
          ELSE compile[j]]
    /\ UNCHANGED <<catalog, refs, prune, compact, env>>

\* One flush of write_row_plan_chunks: chunk ids are content digests and the merge
\* only inserts, so a chunk that is there keeps its created_at.
WriteChunk(k) ==
    LET p == compile[k].plan
        i == compile[k].next
    IN  /\ compile[k].at = "write"
        /\ i \in ChunksOf(p)
        /\ chunks' = [chunks EXCEPT ![p][i] = IF @ = 0 THEN clock ELSE @]
        /\ compile' = [compile EXCEPT ![k].next = i + 1, ![k].since = clock]
        /\ UNCHANGED <<header, refs, prune, compact, env>>

\* persisted_chunk_shape: publish only what can be read back, else CurationError
ReadBack(k) ==
    /\ compile[k].at = "write"
    /\ compile[k].next > ChunkCount[compile[k].plan]
    /\ compile' = [compile EXCEPT ![k] = IF Complete(@.plan) THEN [@ EXCEPT !.at = "publish"]
                                                              ELSE NoCompile]
    /\ UNCHANGED <<catalog, refs, prune, compact, env>>

\* publish_row_plan: the whole header row is replaced.
Publish(k) ==
    LET p == compile[k].plan
    IN  /\ compile[k].at = "publish"
        /\ header' = [header EXCEPT ![p] = [state |-> "active", frozen |-> compile[k].freeze,
                                            at |-> clock]]
        /\ compile' = [compile EXCEPT ![k] = NoCompile]
        /\ UNCHANGED <<chunks, refs, prune, compact, env>>

-----------------------------------------------------------------------------
\* prune_row_plans: one scan, then the batch of plans to prune, then the batch to
\* supersede

\* _is_prunable; a frozen plan also carries an artifact id
Prunable(p) == ~header[p].frozen

\* Mutant: a plan whose chunks are missing is not listed.
PruneScanReadable(r, age) ==
    LET live == {p \in Plans : Readable(p)}
        old == {p \in live : Cardinality(NewerPlans(header, p) \cap live) >= Retain}
        victims == {p \in old : Prunable(p) /\ age /\ header[p].at <= clock}
        active == {p \in old : header[p].state = "active"}
    IN  /\ prune[r].at = "idle"
        /\ overlap \/ (~Recompiling /\ ~Retaining)
        /\ prune' = [prune EXCEPT ![r] =
              [at |-> "check", active |-> active, victims |-> victims,
               supersede |-> (old \ victims) \cap active, rows |-> << >>]]
        /\ UNCHANGED <<catalog, refs, compile, compact, env>>

\* _iter_plans_for_retention and the loop over it: the newest Retain plans stay,
\* a frozen plan or one younger than the cutoff is superseded, the rest is pruned.
\* Without older_than there is no cutoff and nothing is pruned.
PruneScan(r, age) ==
    LET live == {p \in Plans : header[p] # None /\ header[p].state # "pruned"}
        old == {p \in live : Cardinality(NewerPlans(header, p) \cap live) >= Retain}
        victims == {p \in old : Prunable(p) /\ age /\ header[p].at <= clock}
        active == {p \in old : header[p].state = "active"}
    IN  /\ prune[r].at = "idle"
        /\ overlap \/ (~Recompiling /\ ~Retaining)
        /\ prune' = [prune EXCEPT ![r] =
              [at |-> "check", active |-> active, victims |-> victims,
               supersede |-> (old \ victims) \cap active, rows |-> << >>]]
        /\ UNCHANGED <<catalog, refs, compile, compact, env>>

\* Mutant: the plans of the batch are not looked up.
PruneUnchecked(r) ==
    /\ prune[r].at = "check"
    /\ prune' = [prune EXCEPT ![r].at = "delete"]
    /\ UNCHANGED <<catalog, refs, compile, compact, env>>

Spare(r, referenced) ==
    prune' = [prune EXCEPT ![r].at = "delete",
                           ![r].victims = @ \ referenced,
                           ![r].supersede = @ \cup (referenced \cap prune[r].active)]

\* The plans of the batch that the given tables name
Referenced(r, tables) ==
    {p \in prune[r].victims : \E t \in Records : TableOf[t] \in tables /\ NamedBy(t, {p})}

\* referenced_plan_ids for the batch, just before it is deleted
PruneCheck(r) ==
    /\ prune[r].at = "check"
    /\ Spare(r, Referenced(r, REFERENCING_TABLES))
    /\ UNCHANGED <<catalog, refs, compile, compact, env>>

\* A table that cannot be opened is passed by: what only its rows name is deleted.
PruneCheckSkips(r, tables) ==
    /\ prune[r].at = "check" /\ faults < MaxFaults
    /\ faults' = faults + 1
    /\ Spare(r, Referenced(r, REFERENCING_TABLES \ tables))
    /\ refs' = [t \in Records |->
          IF TableOf[t] \in tables /\ NamedBy(t, prune[r].victims)
            THEN [refs[t] EXCEPT !.owed = FALSE] ELSE refs[t]]
    /\ UNCHANGED <<catalog, compile, compact, clock, overlap>>

\* When a table has been opened and cannot be read, every plan counts as referenced.
PruneCheckFails(r) ==
    /\ prune[r].at = "check" /\ faults < MaxFaults
    /\ faults' = faults + 1
    /\ Spare(r, prune[r].victims)
    /\ UNCHANGED <<catalog, refs, compile, compact, clock, overlap>>

DeleteChunks(S) == chunks' = [p \in Plans |-> IF p \in S THEN NoChunks(p) ELSE chunks[p]]

PruneDelete(r) ==
    /\ prune[r].at = "delete"
    /\ DeleteChunks(prune[r].victims)
    /\ prune' = [prune EXCEPT ![r].at = "recount"]
    /\ UNCHANGED <<header, refs, compile, compact, env>>

\* The delete raises: the headers of the batch are left alone.
PruneDeleteRaises(r) ==
    /\ prune[r].at = "delete" /\ faults < MaxFaults
    /\ faults' = faults + 1
    /\ prune' = [prune EXCEPT ![r].at = "recount", ![r].victims = {}]
    /\ UNCHANGED <<catalog, refs, compile, compact, clock, overlap>>

\* The delete matches nothing and reports success.
PruneDeleteMisses(r) ==
    /\ prune[r].at = "delete" /\ faults < MaxFaults
    /\ faults' = faults + 1
    /\ prune' = [prune EXCEPT ![r].at = "recount"]
    /\ UNCHANGED <<catalog, refs, compile, compact, clock, overlap>>

\* Mutant: the delete is not verified.
PruneRecountNothing(r) ==
    /\ prune[r].at = "recount"
    /\ prune' = [prune EXCEPT ![r].at = "flip", ![r].rows = [p \in prune[r].victims |-> header[p]]]
    /\ UNCHANGED <<catalog, refs, compile, compact, env>>

\* _delete_plan_chunks counts again: a group with rows left keeps its headers.  Then
\* _apply_state reads the header rows.
PruneRecount(r) ==
    LET left == \E p \in prune[r].victims : Stored(p) # {}
    IN  /\ prune[r].at = "recount"
        /\ prune' = [prune EXCEPT ![r].at = "flip",
              ![r].rows = [p \in (IF left THEN {} ELSE prune[r].victims) |-> header[p]]]
        /\ UNCHANGED <<catalog, refs, compile, compact, env>>

\* The count raises: a delete that cannot be verified has failed.
PruneRecountFails(r) ==
    /\ prune[r].at = "recount" /\ faults < MaxFaults
    /\ faults' = faults + 1
    /\ prune' = [prune EXCEPT ![r].at = "flip"]
    /\ UNCHANGED <<catalog, refs, compile, compact, clock, overlap>>

\* The upsert of _apply_state: the rows as they were read, in their new state.
ApplyState(rows, state) ==
    header' = [p \in Plans |-> IF p \in DOMAIN rows THEN [rows[p] EXCEPT !.state = state] ELSE header[p]]

PruneFlip(r) ==
    /\ prune[r].at = "flip"
    /\ ApplyState(prune[r].rows, "pruned")
    /\ prune' = [prune EXCEPT ![r].at = "supersede", ![r].active = {}, ![r].victims = {}, ![r].rows = << >>]
    /\ UNCHANGED <<chunks, refs, compile, compact, env>>

SupersedeRead(r) ==
    /\ prune[r].at = "supersede"
    /\ prune' = [prune EXCEPT ![r].at = "mark",
                              ![r].rows = [p \in prune[r].supersede |-> header[p]]]
    /\ UNCHANGED <<catalog, refs, compile, compact, env>>

SupersedeMark(r) ==
    /\ prune[r].at = "mark"
    /\ ApplyState(prune[r].rows, "superseded")
    /\ prune' = [prune EXCEPT ![r] = NoPrune]
    /\ UNCHANGED <<chunks, refs, compile, compact, env>>

-----------------------------------------------------------------------------
\* compact_row_plan_chunks

\* One cutoff for the pass, and the plans that have a header
CompactHeads(c) ==
    /\ compact[c].at = "idle"
    /\ overlap \/ (~Recompiling /\ ~Retaining)
    /\ compact' = [compact EXCEPT ![c] = [at |-> "scan", cutoff |-> clock - Grace, victims |-> {},
                                          heads |-> {p \in Plans : header[p] # None}]]
    /\ UNCHANGED <<catalog, refs, compile, prune, env>>

\* Mutant: the oldest chunk of a plan decides, not the newest.
CompactScanOldest(c) ==
    /\ compact[c].at = "scan"
    /\ compact' = [compact EXCEPT ![c].at = "recheck",
          ![c].victims = {p \in Plans \ compact[c].heads :
                             \E i \in Stored(p) : chunks[p][i] < compact[c].cutoff}]
    /\ UNCHANGED <<catalog, refs, compile, prune, env>>

\* Mutant: only plans with all their chunks are taken.
CompactScanWhole(c) ==
    /\ compact[c].at = "scan"
    /\ compact' = [compact EXCEPT ![c].at = "recheck",
          ![c].victims = {p \in Plans \ compact[c].heads :
                             /\ Stored(p) # {} /\ Complete(p)
                             /\ \A i \in Stored(p) : chunks[p][i] < compact[c].cutoff}]
    /\ UNCHANGED <<catalog, refs, compile, prune, env>>

\* A plan without a header whose newest chunk is past the grace window
CompactScan(c) ==
    /\ compact[c].at = "scan"
    /\ compact' = [compact EXCEPT ![c].at = "recheck",
          ![c].victims = {p \in Plans \ compact[c].heads :
                             /\ Stored(p) # {}
                             /\ \A i \in Stored(p) : chunks[p][i] < compact[c].cutoff}]
    /\ UNCHANGED <<catalog, refs, compile, prune, env>>

\* The header set is read again, just before the delete.
CompactRecheck(c) ==
    /\ compact[c].at = "recheck"
    /\ compact' = [compact EXCEPT ![c].at = "delete",
                                  ![c].victims = {p \in @ : header[p] = None}]
    /\ UNCHANGED <<catalog, refs, compile, prune, env>>

CompactDelete(c) ==
    /\ compact[c].at = "delete"
    /\ DeleteChunks(compact[c].victims)
    /\ compact' = [compact EXCEPT ![c] = NoCompact]
    /\ UNCHANGED <<header, refs, compile, prune, env>>

-----------------------------------------------------------------------------
\* The environment

\* record_training_run, record_training_report: the row of the record is deleted and added
\* anew.  The caller names a plan that some compile has returned; nothing looks at it.
RecordDelete(t, p) ==
    /\ refs[t].at # "adding"
    /\ header[p] # None
    /\ refs' = [refs EXCEPT ![t] = [at |-> "adding", plan |-> p, owed |-> FALSE]]
    /\ UNCHANGED <<catalog, compile, prune, compact, env>>

Deleting(p) == \E r \in Pruners : prune[r].at \notin {"idle", "check"} /\ p \in prune[r].victims

RecordAdd(t) ==
    LET p == refs[t].plan
    IN  /\ refs[t].at = "adding"
        /\ refs' = [refs EXCEPT ![t] = [at |-> "there", plan |-> p,
                                        owed |-> Readable(p) /\ ~Deleting(p)]]
        /\ UNCHANGED <<catalog, compile, prune, compact, env>>

\* A process dies, or an error ends its call.
Die ==
    /\ faults < MaxFaults
    /\ faults' = faults + 1
    /\ \/ \E k \in Compilers : /\ compile[k].at # "idle"
                               /\ compile' = [compile EXCEPT ![k] = NoCompile]
                               /\ UNCHANGED <<prune, compact, refs>>
       \/ \E r \in Pruners : /\ prune[r].at # "idle"
                             /\ prune' = [prune EXCEPT ![r] = NoPrune]
                             /\ UNCHANGED <<compile, compact, refs>>
       \/ \E c \in Compactors : /\ compact[c].at # "idle"
                                /\ compact' = [compact EXCEPT ![c] = NoCompact]
                                /\ UNCHANGED <<compile, prune, refs>>
       \/ \E t \in Records : /\ refs[t].at = "adding"
                           /\ refs' = [refs EXCEPT ![t] = NoRef]
                           /\ UNCHANGED <<compile, prune, compact>>
    /\ UNCHANGED <<catalog, clock, overlap>>

\* A compile commits again, or ends, within the grace window.
Tick ==
    /\ clock < MaxClock
    /\ \A k \in Compilers : compile[k].at \in {"write", "publish"} => clock - compile[k].since < Grace
    /\ clock' = clock + 1
    /\ UNCHANGED <<catalog, refs, compile, prune, compact, faults, overlap>>

PruneStep(r) ==
    \/ PruneCheck(r) \/ PruneDelete(r) \/ PruneRecount(r) \/ PruneFlip(r)
    \/ SupersedeRead(r) \/ SupersedeMark(r)

CompactStep(c) == CompactScan(c) \/ CompactRecheck(c) \/ CompactDelete(c)

CompileStep(k) == WriteChunk(k) \/ ReadBack(k) \/ Publish(k)

Next ==
    \/ \E k \in Compilers, p \in Plans, freeze \in BOOLEAN : Start(k, p, freeze)
    \/ \E k \in Compilers : CompileStep(k)
    \/ \E r \in Pruners, age \in BOOLEAN : PruneScan(r, age)
    \/ \E r \in Pruners :
          \/ PruneStep(r)
          \/ PruneCheckFails(r) \/ \E tables \in SUBSET REFERENCING_TABLES : PruneCheckSkips(r, tables)
          \/ PruneDeleteRaises(r) \/ PruneDeleteMisses(r) \/ PruneRecountFails(r)
    \/ \E c \in Compactors : CompactHeads(c) \/ CompactStep(c)
    \/ \E t \in Records : RecordAdd(t) \/ \E p \in Plans : RecordDelete(t, p)
    \/ Die
    \/ Tick

Spec == Init /\ [][Next]_vars

\* Time passes, calls run to their end, and both retention passes are started again
\* and again, the pruning one with an age bound.
FairSpec ==
    /\ Spec
    /\ WF_vars(Tick)
    /\ \A k \in Compilers : WF_vars(CompileStep(k))
    /\ \A r \in Pruners : SF_vars(PruneScan(r, TRUE)) /\ WF_vars(PruneStep(r))
    /\ \A c \in Compactors : SF_vars(CompactHeads(c)) /\ WF_vars(CompactStep(c))

-----------------------------------------------------------------------------

\* prune_row_plans, compact_row_plan_chunks: a plan that cannot be read any more is one
\* that retention may take: Retain newer plans exist and it is not frozen.  Neither a
\* crash, nor a failed delete, nor a slow compile loses the newest plan or a frozen one.
OnlyOldPlansAreLost ==
    ~overlap => \A p \in Plans :
        header[p] # None /\ ~Readable(p) =>
            ~header[p].frozen /\ Cardinality(NewerPlans(header, p)) >= Retain

\* prune_row_plans, referenced_plan_ids: a plan that could be read when a training run or
\* report was recorded with it can be read as long as the record names it.  That is so
\* unless a pass had looked the plan up already, or passes by a referencing table that it
\* cannot open (PruneCheckSkips): then the code does delete what only that table names.
EvidenceIsReplayable == ~overlap => \A t \in Records : refs[t].owed => Readable(refs[t].plan)

\* _delete_plan_chunks: chunks are gone before their header says so.  Compaction skips
\* plans with a header and retention skips pruned ones, so a chunk left behind would
\* stay for ever.
NoStrandedChunks ==
    \A p \in Plans : header[p] # None /\ header[p].state = "pruned" =>
        \A i \in Stored(p) : chunks[p][i] >= header[p].at

HalfPruned(p) == header[p] # None /\ header[p].state # "pruned" /\ ~Complete(p)

\* prune_row_plans: a plan whose chunks are gone under a live header, after a crash
\* between the delete and the flip, is marked pruned by a later pass or compiled again,
\* unless a training run is recorded with it in that state, which protects it from pruning.
HalfPrunedConverges ==
    \A p \in Plans :
        HalfPruned(p) ~> ~HalfPruned(p) \/ \E t \in Records : NamedBy(t, {p})

\* compact_row_plan_chunks: chunks whose compile died are reclaimed, or published by a
\* retry, once they are past the grace window.
OrphansReclaimed ==
    \A p \in Plans :
        (header[p] = None /\ Stored(p) # {} /\ \A i \in Stored(p) : chunks[p][i] < clock - Grace)
            ~> (header[p] # None \/ Stored(p) = {})

=============================================================================

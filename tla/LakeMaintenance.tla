-------------------------- MODULE LakeMaintenance ---------------------------
(***************************************************************************)
(* Version retention in the lake: maintain_lake (maintenance.py), run by   *)
(* an operator or at the end of an ingest (_finalize_ingest), against      *)
(* writers that commit new table versions and against the creation of      *)
(* dataset snapshots and published views, whose rows pin table versions.   *)
(*                                                                         *)
(* A pinned version must stay on disk.  Maintenance reads the pins once,   *)
(* then goes through the tables: it tags the pinned versions, compacts,    *)
(* refreshes indexes, and lets Lance prune what is old and untagged.       *)
(***************************************************************************)
EXTENDS Naturals, FiniteSets

CONSTANTS
    NTables,        \* the tables, in the order of maintenance
    MaxVersion,     \* bound on the versions of a table
    Maintainers,    \* processes that run maintain_lake, again and again
    Creators,       \* calls that create a snapshot or publish a view
    Retain,         \* retain_versions of a maintenance after an ingest
    Quiet,          \* TRUE: no creation is under way while a maintenance is
    Faults,         \* TRUE: until an outage ends, engine calls may raise
    None

Tables == 1 .. NTables
Versions == 1 .. MaxVersion
Pins == Tables \X Versions

ASSUME TableAssumption == /\ NTables \in Nat \ {0}
                          /\ MaxVersion \in Nat \ {0}
                          /\ Retain \in Nat \ {0}
                          /\ {Quiet, Faults} \subseteq BOOLEAN

VARIABLES
    latest,     \* latest[t]: the current version of table t
    exists,     \* exists[t]: the versions of t on disk
    aged,       \* aged[t]: the versions older than cleanup_older_than
    tags,       \* tags[t]: the versions with a managed lbr-snapshot-pin tag
    snapshots,  \* dataset_snapshots rows: the version each pins of every table
    views,      \* lerobot_views rows, likewise
    lineage,    \* table versions that lineage edges reference
    flaky,      \* engine calls may raise
    job,        \* the local state of each maintenance
    made        \* the local state of each creation

vars == <<latest, exists, aged, tags, snapshots, views, lineage, flaky, job, made>>
disk == <<latest, exists, aged, flaky>>
rows == <<snapshots, views, lineage>>

\* A row maps every table to the version it pins.
PinsOf(set) == {p \in Pins : \E x \in set : x[p[1]] = p[2]}

IdleJob == [at |-> "idle", kind |-> None, pins |-> {}, table |-> 1,
            existing |-> {}, stale |-> {}, todo |-> {}]

Init ==
    /\ latest = [t \in Tables |-> 1]
    /\ exists = [t \in Tables |-> {1}]
    /\ aged = [t \in Tables |-> {}]
    /\ tags = [t \in Tables |-> {}]
    /\ snapshots = {} /\ views = {} /\ lineage = {}
    /\ flaky = Faults
    /\ job = [m \in Maintainers |-> IdleJob]
    /\ made = [c \in Creators |-> [at |-> "idle", kind |-> None, taken |-> <<>>]]

-----------------------------------------------------------------------------
\* Creating a snapshot or a view

\* create_snapshot: a snapshot's id is a digest of the versions it pins.
Begin(c, k) ==
    /\ made[c].at = "idle"
    /\ Quiet => \A m \in Maintainers : job[m].at = "idle"
    /\ made' = [made EXCEPT ![c] = [at |-> "reading", kind |-> k, taken |-> <<>>]]
    /\ UNCHANGED <<disk, tags, rows, job>>

\* The versions are read table by table.
ReadVersion(c) ==
    LET t == Cardinality(DOMAIN made[c].taken) + 1 IN
    /\ made[c].at = "reading" /\ t \in Tables
    /\ made' = [made EXCEPT ![c].taken = [u \in 1 .. t |-> IF u = t THEN latest[t] ELSE @[u]],
                            ![c].at = IF t = NTables THEN "read" ELSE @]
    /\ UNCHANGED <<disk, tags, rows, job>>

\* The row of the same snapshot is deleted, then added.
DropRow(c) ==
    /\ made[c].at = "read" /\ made[c].kind = "snapshot"
    /\ snapshots' = snapshots \ {made[c].taken}
    /\ made' = [made EXCEPT ![c].at = "dropped"]
    /\ UNCHANGED <<disk, tags, views, lineage, job>>

AddRow(c) ==
    /\ \/ /\ made[c].kind = "snapshot" /\ made[c].at = "dropped"
          /\ snapshots' = snapshots \cup {made[c].taken} /\ UNCHANGED views
          /\ made' = [made EXCEPT ![c].at = "added"]
       \/ /\ made[c].kind = "view" /\ made[c].at = "read"
          /\ views' = views \cup {made[c].taken} /\ UNCHANGED snapshots
          /\ made' = [made EXCEPT ![c].at = "done"]
    /\ UNCHANGED <<disk, tags, lineage, job>>

\* A snapshot's emit_transform_lineage comes last and is best-effort; a view has none.
EmitLineage(c) ==
    /\ made[c].at = "added"
    /\ \/ lineage' = lineage \cup PinsOf({made[c].taken})
       \/ flaky /\ UNCHANGED lineage
    /\ made' = [made EXCEPT ![c].at = "done"]
    /\ UNCHANGED <<disk, tags, snapshots, views, job>>

\* A published view is retired.
Retire(x) ==
    /\ views' = views \ {x}
    /\ UNCHANGED <<disk, tags, snapshots, lineage, job, made>>

-----------------------------------------------------------------------------
\* Commits to a table

NewVersion(t) ==
    /\ latest[t] < MaxVersion
    /\ latest' = [latest EXCEPT ![t] = @ + 1]
    /\ exists' = [exists EXCEPT ![t] = @ \cup {latest[t] + 1}]
    /\ UNCHANGED <<aged, flaky>>

Write(t) == NewVersion(t) /\ UNCHANGED <<tags, rows, job, made>>

\* cleanup_older_than passes for every version a table has.
Age(t) ==
    /\ aged[t] # exists[t]
    /\ aged' = [aged EXCEPT ![t] = exists[t]]
    /\ UNCHANGED <<latest, exists, flaky, tags, rows, job, made>>

-----------------------------------------------------------------------------
\* maintain_lake

Goto(m, label) == job' = [job EXCEPT ![m].at = label]
Stop(m) == job' = [job EXCEPT ![m] = IdleJob]

\* An operator prunes by age, an ingest all but the newest versions at once and
\* only of the observations, table 1 here.
Start(m, k) ==
    /\ job[m].at = "idle"
    /\ Quiet => \A c \in Creators : made[c].at \in {"idle", "done"}
    /\ job' = [job EXCEPT ![m] = [IdleJob EXCEPT !.at = "snapshots", !.kind = k]]
    /\ UNCHANGED <<disk, tags, rows, made>>

\* Mutant: published views are not asked for their pins.
ReadPinsWithoutViews(m) ==
    /\ \E source \in {"snapshots", "lineage", "views"} :
          /\ job[m].at = source
          /\ job' = [job EXCEPT
                ![m].pins = @ \cup CASE source = "snapshots" -> PinsOf(snapshots)
                                     [] source = "lineage" -> lineage
                                     [] source = "views" -> {},
                ![m].at = CASE source = "snapshots" -> "lineage"
                            [] source = "lineage" -> "views"
                            [] source = "views" -> "list"]
    /\ UNCHANGED <<disk, tags, rows, made>>

\* The pins are read source by source and merged.
ReadPins(m) ==
    /\ \E source \in {"snapshots", "lineage", "views"} :
          /\ job[m].at = source
          /\ job' = [job EXCEPT
                ![m].pins = @ \cup CASE source = "snapshots" -> PinsOf(snapshots)
                                     [] source = "lineage" -> lineage
                                     [] source = "views" -> PinsOf(views),
                ![m].at = CASE source = "snapshots" -> "lineage"
                            [] source = "lineage" -> "views"
                            [] source = "views" -> "list"]
    /\ UNCHANGED <<disk, tags, rows, made>>

\* The pins that concern a table.
PinnedBy(m, t) == {v \in Versions : <<t, v>> \in job[m].pins}

\* Mutant: tags of versions nobody pins are kept.
ListTagsKeepAll(m) ==
    LET t == job[m].table IN
    /\ job[m].at = "list"
    /\ job' = [job EXCEPT ![m].at = "untag",
                          ![m].existing = tags[t],
                          ![m].stale = {},
                          ![m].todo = PinnedBy(m, t) \cap exists[t]]
    /\ UNCHANGED <<disk, tags, rows, made>>

\* _tag_pinned_versions lists the tags and the versions, ...
ListTags(m) ==
    LET t == job[m].table IN
    /\ job[m].at = "list"
    /\ job' = [job EXCEPT ![m].at = "untag",
                          ![m].existing = tags[t],
                          ![m].stale = tags[t] \ PinnedBy(m, t),
                          ![m].todo = PinnedBy(m, t) \cap exists[t]]
    /\ UNCHANGED <<disk, tags, rows, made>>

\* ... deletes the managed tags of versions that nothing pins, ...
DeleteTag(m) ==
    LET t == job[m].table IN
    /\ job[m].at = "untag" /\ job[m].stale # {}
    /\ LET v == CHOOSE v \in job[m].stale : \A w \in job[m].stale : v <= w IN
         IF v \in tags[t]
           THEN /\ tags' = [tags EXCEPT ![t] = @ \ {v}]
                /\ job' = [job EXCEPT ![m].stale = @ \ {v}]
           ELSE Stop(m) /\ UNCHANGED tags       \* the engine raises
    /\ UNCHANGED <<disk, rows, made>>

\* ... and tags the pinned versions: a tag it listed is updated, another created.
CreateTag(m) ==
    LET t == job[m].table IN
    /\ job[m].at = "untag" /\ job[m].stale = {} /\ job[m].todo # {}
    /\ LET v == CHOOSE v \in job[m].todo : \A w \in job[m].todo : v <= w IN
         IF v \in exists[t] /\ (v \in job[m].existing <=> v \in tags[t])
           THEN /\ tags' = [tags EXCEPT ![t] = @ \cup {v}]
                /\ job' = [job EXCEPT ![m].todo = @ \ {v}]
           ELSE Stop(m) /\ UNCHANGED tags
    /\ UNCHANGED <<disk, rows, made>>

\* Compaction and the refresh of indexes commit a version, if they change anything.
Rewrite(m, from, to) ==
    /\ job[m].at = from
    /\ from = "untag" => job[m].stale = {} /\ job[m].todo = {}
    /\ \/ NewVersion(job[m].table)
       \/ UNCHANGED disk
    /\ Goto(m, to)
    /\ UNCHANGED <<tags, rows, made>>

Compact(m) == Rewrite(m, "untag", "index")
RefreshIndexes(m) == Rewrite(m, "index", "cleanup")

\* What cleanup_old_versions may remove of a table: never the current version.
Old(t, k) ==
    {v \in exists[t] :
        IF k = "ingest" THEN Cardinality({w \in exists[t] : w > v}) >= Retain
                        ELSE v \in aged[t] /\ v # latest[t]}

\* error_if_tagged_old_versions=False: the prune spares tagged versions.
Cleanup(m) ==
    LET t == job[m].table IN
    /\ job[m].at = "cleanup"
    /\ exists' = [exists EXCEPT ![t] = @ \ (Old(t, job[m].kind) \ tags[t])]
    /\ aged' = [aged EXCEPT ![t] = @ \cap exists'[t]]
    /\ IF t = NTables \/ job[m].kind = "ingest"
         THEN Stop(m)
         ELSE job' = [job EXCEPT ![m].at = "list", ![m].table = t + 1]
    /\ UNCHANGED <<latest, flaky, tags, rows, made>>

\* MaintenanceError: any call into the engine may raise, and nothing is undone.
Fail(m) ==
    /\ flaky /\ job[m].at # "idle"
    /\ Stop(m)
    /\ UNCHANGED <<disk, tags, rows, made>>

\* The outage ends.
Settle ==
    /\ flaky /\ flaky' = FALSE
    /\ UNCHANGED <<latest, exists, aged, tags, rows, job, made>>

-----------------------------------------------------------------------------
MaintenanceStep(m) ==
    \/ ReadPins(m) \/ ListTags(m) \/ DeleteTag(m) \/ CreateTag(m)
    \/ Compact(m) \/ RefreshIndexes(m) \/ Cleanup(m)

CreationStep(c) == ReadVersion(c) \/ DropRow(c) \/ AddRow(c) \/ EmitLineage(c)

Next ==
    \/ \E m \in Maintainers : MaintenanceStep(m) \/ Fail(m)
    \/ \E m \in Maintainers : Start(m, "operator") \/ Start(m, "ingest")
    \/ \E c \in Creators : CreationStep(c)
    \/ \E c \in Creators : Begin(c, "snapshot") \/ Begin(c, "view")
    \/ \E x \in views : Retire(x)
    \/ \E t \in Tables : Write(t) \/ Age(t)
    \/ Settle

Spec == Init /\ [][Next]_vars

\* Maintenance is scheduled again and again, by operators as well as by ingests,
\* and an outage ends; creations, writes and the passage of time are not assumed.
FairSpec ==
    /\ Spec
    /\ \A m \in Maintainers : /\ WF_vars(MaintenanceStep(m))
                              /\ SF_vars(Start(m, "operator"))
    /\ \A c \in Creators : WF_vars(CreationStep(c))
    /\ WF_vars(Settle)

-----------------------------------------------------------------------------

\* maintain_lake and _finalize_ingest are snapshot-safe: every version that a
\* snapshot or a published view pins is on disk, whatever maintenance and ingests
\* do, fail or leave half done.
PinnedVersionsSurvive == PinsOf(snapshots \cup views) \subseteq {p \in Pins : p[2] \in exists[p[1]]}

Garbage(t, v) ==
    /\ v \in exists[t] /\ v \in aged[t] /\ v < latest[t]
    /\ <<t, v>> \notin PinsOf(snapshots \cup views) \cup lineage

\* Pruning works: an old version that nothing pins, such as one a retired view
\* pinned and maintenance tagged, is removed in the end.
GarbageIsCollected == \A t \in Tables, v \in Versions : Garbage(t, v) ~> ~Garbage(t, v)
=============================================================================

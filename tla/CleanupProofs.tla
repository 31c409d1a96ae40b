--------------------------- MODULE CleanupProofs ---------------------------
(***************************************************************************)
(* Proofs about two components whose main question is what a cleanup may   *)
(* delete: LakeMaintenance, which prunes the versions of tables, and       *)
(* TrainingManifests, which drops permutation tables.                      *)
(*                                                                         *)
(* LakeMaintenance: for any number of tables, versions, maintenances and   *)
(* creations, with failing engine calls or without.                        *)
(***************************************************************************)
EXTENDS LakeMaintenance, Integers, FiniteSetTheorems, TLAPS

Labels == {"idle", "snapshots", "lineage", "views", "list", "untag", "index", "cleanup"}
Tagging == {"untag", "index", "cleanup"}
Pinning == [Tables -> Versions]
Job == [at : Labels, kind : {"operator", "ingest", None}, pins : SUBSET Pins, table : Tables,
        existing : SUBSET Versions, stale : SUBSET Versions, todo : SUBSET Versions]

\* A creation has read the versions of the first tables, or of all.
Partial == UNION {[1 .. n -> Versions] : n \in 0 .. NTables}
Creation == [at : {"idle", "reading", "read", "dropped", "added", "done"},
             kind : {"snapshot", "view", None}, taken : Partial]

TypeOK ==
    /\ latest \in [Tables -> Versions]
    /\ exists \in [Tables -> SUBSET Versions]
    /\ aged \in [Tables -> SUBSET Versions]
    /\ tags \in [Tables -> SUBSET Versions]
    /\ snapshots \subseteq Pinning /\ views \subseteq Pinning
    /\ lineage \subseteq Pins
    /\ job \in [Maintainers -> Job]
    /\ made \in [Creators -> Creation]
    /\ \A c \in Creators : made[c].at \in {"read", "dropped", "added"} => made[c].taken \in Pinning

\* The current version of a table is on disk, and nothing newer.
LatestOnDisk == \A t \in Tables : latest[t] \in exists[t] /\ \A v \in exists[t] : v <= latest[t]

\* Creations and maintenances keep apart.
KeptApart ==
    \A m \in Maintainers, c \in Creators : job[m].at = "idle" \/ made[c].at \in {"idle", "done"}

\* What a creation has read is still there.
TakenOnDisk ==
    \A c \in Creators : made[c].at \notin {"idle", "done"} =>
        \A t \in DOMAIN made[c].taken : made[c].taken[t] \in exists[t]

\* The rows that pin versions now were there when a maintenance read them.
PinsRead ==
    \A m \in Maintainers :
        /\ job[m].at \in {"lineage", "views", "list"} \cup Tagging => PinsOf(snapshots) \subseteq job[m].pins
        /\ job[m].at \in {"list"} \cup Tagging => PinsOf(views) \subseteq job[m].pins

\* Of the table at hand, pinned versions are tagged or about to be, and no tag of theirs
\* is about to be deleted.
PinsTagged ==
    \A m \in Maintainers : job[m].at \in Tagging =>
        \A v \in Versions : <<job[m].table, v>> \in PinsOf(snapshots \cup views) =>
            /\ v \notin job[m].stale
            /\ v \in tags[job[m].table] \/ (job[m].at = "untag" /\ v \in job[m].todo)

IInv ==
    /\ TypeOK
    /\ LatestOnDisk
    /\ KeptApart
    /\ TakenOnDisk
    /\ PinsRead
    /\ PinsTagged
    /\ PinnedVersionsSurvive

-----------------------------------------------------------------------------
\* The lowest of some versions, the order in which tags are deleted and created, is
\* the one below which the fewest of them are.
LEMMA LowestVersion ==
    ASSUME NEW S \in SUBSET Versions, S # {}
    PROVE  (CHOOSE v \in S : \A w \in S : v <= w) \in S
<1> DEFINE Below(v) == {w \in S : w < v}
           Sets == {Below(v) : v \in S}
<1>1. S \subseteq Int /\ IsFiniteSet(S)
  <2>1. IsFiniteSet(Versions) /\ Versions \subseteq Int
    BY FS_Interval, TableAssumption DEF Versions
  <2> QED
    BY <2>1, FS_Subset
<1>2. Sets \subseteq FiniteSubsetsOf(S) /\ Sets # {}
  <2>1. FiniteSubsetsOf(S) = SUBSET S
    BY <1>1, FS_FiniteSubsetsOfFinite
  <2>2. Sets \subseteq SUBSET S
    OBVIOUS
  <2>3. Sets # {}
    OBVIOUS
  <2> HIDE DEF Sets
  <2> QED
    BY <2>1, <2>2, <2>3
<1>3. PICK L \in Sets : \A M \in Sets : <<M, L>> \notin StrictSubsetOrdering(S)
  <2> HIDE DEF Sets
  <2> QED
    BY <1>1, <1>2, FS_StrictSubsetOrderingWellFounded, WFMin
<1>4. PICK v \in S : L = Below(v)
  OBVIOUS
<1>5. ASSUME NEW w \in S, w < v PROVE FALSE
  <2>1. v \in Int /\ w \in Int /\ \A u \in S : u \in Int
    BY <1>1
  <2>2. ~(w < w) /\ \A u \in S : u < w => u < v
    <3> HIDE DEF Below, Sets
    <3> QED
      BY <1>5, <2>1
  <2>3. Below(w) \subseteq Below(v) /\ w \in Below(v) /\ w \notin Below(w)
    BY Zenon, <1>5, <2>2
  <2>4. <<Below(w), Below(v)>> \in StrictSubsetOrdering(S)
    BY <2>3 DEF StrictSubsetOrdering
  <2> QED
    BY <1>3, <1>4, <2>4
<1>6. \A w \in S : v <= w
  BY <1>1, <1>5
<1> QED
  BY <1>6

\* How many versions a creation has read.
LEMMA TakenSoFar ==
    ASSUME NEW n \in Nat, NEW f \in [1 .. n -> Versions]
    PROVE  Cardinality(DOMAIN f) = n
  BY FS_Interval

LEMMA NothingTaken == << >> \in [1 .. 0 -> Versions]
  OBVIOUS

LEMMA PinsAreVersions == \A set : PinsOf(set) \in SUBSET Pins
  BY DEF PinsOf

\* The labels a maintenance and a creation move between, and what they keep there.
LEMMA IdleIsJob == IdleJob \in Job
<1>1. 1 \in Tables
  BY TableAssumption DEF Tables
<1> QED
  BY <1>1 DEF IdleJob, Job, Labels

\* Reading the pins of one source moves on to the next.
LEMMA ReadPinsStep ==
    ASSUME NEW m \in Maintainers, ReadPins(m)
    PROVE  \/ /\ job[m].at = "snapshots"
              /\ job' = [job EXCEPT ![m].pins = @ \cup PinsOf(snapshots), ![m].at = "lineage"]
           \/ /\ job[m].at = "lineage"
              /\ job' = [job EXCEPT ![m].pins = @ \cup lineage, ![m].at = "views"]
           \/ /\ job[m].at = "views"
              /\ job' = [job EXCEPT ![m].pins = @ \cup PinsOf(views), ![m].at = "list"]
  BY DEF ReadPins

\* A step of a maintenance replaces its own state, with one of these.
LEMMA JobStep ==
    ASSUME TypeOK, NEW m \in Maintainers, MaintenanceStep(m) \/ Fail(m)
    PROVE  \E j \in Job : job' = [job EXCEPT ![m] = j]
<1>1. job \in [Maintainers -> Job] /\ tags \in [Tables -> SUBSET Versions]
  BY DEF TypeOK
<1>2. CASE ReadPins(m)
  <2>1. PICK more \in SUBSET Pins, next \in Labels :
            job' = [job EXCEPT ![m].pins = @ \cup more, ![m].at = next]
    <3>1. PinsOf(snapshots) \in SUBSET Pins /\ PinsOf(views) \in SUBSET Pins /\ lineage \in SUBSET Pins
      BY PinsAreVersions DEF TypeOK
    <3> QED
      BY <1>2, <3>1, ReadPinsStep DEF Labels
  <2>2. [job[m] EXCEPT !.pins = @ \cup more, !.at = next] \in Job
    BY <1>1 DEF Job
  <2> QED
    BY <1>1, <2>1, <2>2
<1>3. CASE ListTags(m)
  <2>1. PICK old \in SUBSET Versions, stale \in SUBSET Versions, todo \in SUBSET Versions :
            job' = [job EXCEPT ![m].at = "untag", ![m].existing = old, ![m].stale = stale, ![m].todo = todo]
    <3>1. tags[job[m].table] \in SUBSET Versions /\ PinnedBy(m, job[m].table) \in SUBSET Versions
      BY <1>1 DEF Job, PinnedBy
    <3> QED
      BY <1>3, <3>1 DEF ListTags
  <2>2. [job[m] EXCEPT !.at = "untag", !.existing = old, !.stale = stale, !.todo = todo] \in Job
    BY <1>1 DEF Job, Labels
  <2> QED
    BY <1>1, <2>1, <2>2
<1>4. CASE DeleteTag(m)
  <2>1. PICK v : job' = [job EXCEPT ![m].stale = @ \ {v}] \/ Stop(m)
    BY <1>4 DEF DeleteTag
  <2>2. [job[m] EXCEPT !.stale = @ \ {v}] \in Job
    BY <1>1 DEF Job
  <2> QED
    BY <1>1, <2>1, <2>2, IdleIsJob DEF Stop
<1>5. CASE CreateTag(m)
  <2>1. PICK v : job' = [job EXCEPT ![m].todo = @ \ {v}] \/ Stop(m)
    BY <1>5 DEF CreateTag
  <2>2. [job[m] EXCEPT !.todo = @ \ {v}] \in Job
    BY <1>1 DEF Job
  <2> QED
    BY <1>1, <2>1, <2>2, IdleIsJob DEF Stop
<1>6. CASE Compact(m) \/ RefreshIndexes(m)
  <2>1. PICK next \in Labels : Goto(m, next)
    BY <1>6 DEF Compact, RefreshIndexes, Rewrite, Labels
  <2>2. [job[m] EXCEPT !.at = next] \in Job
    BY <1>1 DEF Job
  <2> QED
    BY <1>1, <2>1, <2>2 DEF Goto
<1>7. CASE Cleanup(m)
  <2>1. CASE Stop(m)
    BY <1>1, <2>1, IdleIsJob DEF Stop
  <2>2. CASE ~Stop(m)
    <3> DEFINE t == job[m].table
    <3>1. t # NTables /\ t \in Tables /\ job' = [job EXCEPT ![m].at = "list", ![m].table = t + 1]
      BY <1>1, <1>7, <2>2 DEF Cleanup, Job
    <3>2. t + 1 \in Tables
      BY <3>1, TableAssumption DEF Tables
    <3>3. [job[m] EXCEPT !.at = "list", !.table = t + 1] \in Job
      <4> HIDE DEF t
      <4> QED
        BY <1>1, <3>2 DEF Job, Labels
    <3> QED
      BY <1>1, <3>1, <3>3
  <2> QED
    BY <2>1, <2>2
<1>8. CASE Fail(m)
  BY <1>1, <1>8, IdleIsJob DEF Fail, Stop
<1> QED
  BY <1>2, <1>3, <1>4, <1>5, <1>6, <1>7, <1>8 DEF MaintenanceStep

\* A new version is the highest of its table.
LEMMA NewVersionStep ==
    ASSUME TypeOK, NEW t \in Tables, NewVersion(t)
    PROVE  /\ latest' \in [Tables -> Versions] /\ exists' \in [Tables -> SUBSET Versions]
           /\ aged' = aged
           /\ latest'[t] = latest[t] + 1 /\ exists'[t] = exists[t] \cup {latest[t] + 1}
           /\ \A u \in Tables \ {t} : latest'[u] = latest[u] /\ exists'[u] = exists[u]
  BY TableAssumption DEF TypeOK, NewVersion, Versions

\* What a maintenance does outside of its own state.
LEMMA MaintenanceType ==
    ASSUME TypeOK, NEW m \in Maintainers, MaintenanceStep(m) \/ Fail(m)
    PROVE  TypeOK'
<1>1. job' \in [Maintainers -> Job]
  BY JobStep DEF TypeOK
<1>2. job[m] \in Job /\ job[m].table \in Tables
  BY DEF TypeOK, Job
<1>3. UNCHANGED <<snapshots, views, lineage, made>>
  BY DEF MaintenanceStep, ReadPins, ListTags, DeleteTag, CreateTag, Compact, RefreshIndexes, Rewrite,
         Cleanup, Fail, rows
<1>4. tags' \in [Tables -> SUBSET Versions]
  <2>1. CASE DeleteTag(m)
    BY <2>1, <1>2 DEF DeleteTag, TypeOK
  <2>2. CASE CreateTag(m)
    <3>1. job[m].todo \in SUBSET Versions /\ job[m].todo # {}
      BY <1>2, <2>2 DEF CreateTag, Job
    <3>2. PICK v \in Versions : tags' = [tags EXCEPT ![job[m].table] = @ \cup {v}] \/ tags' = tags
      BY <2>2, <3>1, LowestVersion DEF CreateTag
    <3> QED
      BY <3>2, <1>2 DEF TypeOK
  <2>3. CASE ~DeleteTag(m) /\ ~CreateTag(m)
    BY <2>3 DEF MaintenanceStep, ReadPins, ListTags, Compact, RefreshIndexes, Rewrite, Cleanup, Fail, TypeOK
  <2> QED
    BY <2>1, <2>2, <2>3
<1>5. /\ latest' \in [Tables -> Versions]
      /\ exists' \in [Tables -> SUBSET Versions]
      /\ aged' \in [Tables -> SUBSET Versions]
  <2>1. CASE NewVersion(job[m].table)
    BY <2>1, <1>2, NewVersionStep DEF TypeOK
  <2>2. CASE Cleanup(m)
    BY <2>2, <1>2 DEF Cleanup, TypeOK
  <2>3. CASE UNCHANGED <<latest, exists, aged>>
    BY <2>3 DEF TypeOK
  <2> QED
    BY <2>1, <2>2, <2>3 DEF MaintenanceStep, ReadPins, ListTags, DeleteTag, CreateTag, Compact,
       RefreshIndexes, Rewrite, Fail, disk
<1> QED
  BY <1>1, <1>3, <1>4, <1>5 DEF TypeOK

\* A creation reads one version more, and all of them in the end.
LEMMA ReadVersionStep ==
    ASSUME TypeOK, NEW c \in Creators, ReadVersion(c)
    PROVE  \E j \in Creation :
              /\ made' = [made EXCEPT ![c] = j]
              /\ made[c].at = "reading" /\ j.at \in {"reading", "read"}
              /\ j.at = "read" => j.taken \in Pinning
              /\ \A u \in DOMAIN j.taken :
                    \/ j.taken[u] = latest[u]
                    \/ u \in DOMAIN made[c].taken /\ j.taken[u] = made[c].taken[u]
<1> DEFINE old == made[c].taken
           t == Cardinality(DOMAIN old) + 1
           f == [u \in 1 .. t |-> IF u = t THEN latest[t] ELSE old[u]]
           at == IF t = NTables THEN "read" ELSE made[c].at
           j == [made[c] EXCEPT !.taken = f, !.at = at]
<1>1. PICK n \in 0 .. NTables : old \in [1 .. n -> Versions]
  BY DEF TypeOK, Creation, Partial
<1>2. t = n + 1
  <2>1. Cardinality(DOMAIN old) = n
    BY <1>1, TakenSoFar, TableAssumption
  <2> QED
    BY <2>1
<1>3. t \in Tables /\ made[c].at = "reading" /\ made[c] \in Creation
  BY DEF ReadVersion, TypeOK
<1>4. latest[t] \in Versions
  BY <1>3 DEF TypeOK
<1>5. f \in [1 .. n + 1 -> Versions] /\ n + 1 \in 0 .. NTables
  BY <1>1, <1>2, <1>3, <1>4, TableAssumption DEF Tables
<1>6. f \in Partial
  BY <1>5 DEF Partial
<1>7. made' = [made EXCEPT ![c] = j]
  <2>1. made' = [made EXCEPT ![c].taken = f, ![c].at = IF t = NTables THEN "read" ELSE @]
    BY DEF ReadVersion
  <2> HIDE DEF old, t, f
  <2> QED
    BY <2>1, <1>3 DEF TypeOK
<1>8. j \in Creation /\ j.at = at /\ j.taken = f
  <2> HIDE DEF f, t
  <2> QED
    BY <1>3, <1>6 DEF Creation
<1>9. at = "read" => f \in Pinning
  BY <1>2, <1>3, <1>5 DEF Pinning, Tables
<1>10. \A u \in DOMAIN f : f[u] = latest[u] \/ (u \in DOMAIN old /\ f[u] = old[u])
  BY <1>1, <1>2
<1> HIDE DEF j, f
<1> QED
  BY <1>3, <1>7, <1>8, <1>9, <1>10

\* A creation outside of ReadVersion moves from label to label.
LEMMA CreationType ==
    ASSUME TypeOK, NEW c \in Creators, CreationStep(c)
    PROVE  TypeOK'
<1>1. CASE ReadVersion(c)
  <2>1. PICK j \in Creation : made' = [made EXCEPT ![c] = j] /\ (j.at \notin {"reading"} => j.taken \in Pinning)
    BY <1>1, ReadVersionStep
  <2> QED
    BY <1>1, <2>1 DEF ReadVersion, TypeOK, disk, rows
<1>2. CASE ~ReadVersion(c)
  <2>1. PICK next \in {"dropped", "added", "done"} :
            made[c].at \in {"read", "dropped", "added"} /\ made' = [made EXCEPT ![c].at = next]
    BY <1>2 DEF CreationStep, DropRow, AddRow, EmitLineage
  <2>2. made[c] \in Creation /\ made[c].taken \in Pinning
    BY <2>1 DEF TypeOK
  <2>3. /\ made' \in [Creators -> Creation]
        /\ \A d \in Creators : made'[d].at \in {"read", "dropped", "added"} => made'[d].taken \in Pinning
    BY <2>1, <2>2 DEF TypeOK, Creation
  <2>4. snapshots' \subseteq Pinning /\ views' \subseteq Pinning /\ lineage' \subseteq Pins
    BY <1>2, <2>2, PinsAreVersions DEF CreationStep, DropRow, AddRow, EmitLineage, TypeOK
  <2>5. UNCHANGED <<latest, exists, aged, tags, job>>
    BY <1>2 DEF CreationStep, DropRow, AddRow, EmitLineage, disk
  <2> QED
    BY <2>3, <2>4, <2>5 DEF TypeOK
<1> QED
  BY <1>1, <1>2

LEMMA TypeStep == ASSUME TypeOK, [Next]_vars PROVE TypeOK'
<1>1. ASSUME NEW m \in Maintainers, MaintenanceStep(m) \/ Fail(m) PROVE TypeOK'
  BY <1>1, MaintenanceType
<1>2. ASSUME NEW m \in Maintainers, NEW k \in {"operator", "ingest"}, Start(m, k) PROVE TypeOK'
  <2>1. [IdleJob EXCEPT !.at = "snapshots", !.kind = k] \in Job
    BY IdleIsJob DEF Job, Labels
  <2> QED
    BY <1>2, <2>1 DEF Start, TypeOK, disk, rows
<1>3. ASSUME NEW c \in Creators, CreationStep(c) PROVE TypeOK'
  BY <1>3, CreationType
<1>4. ASSUME NEW c \in Creators, NEW k \in {"snapshot", "view"}, Begin(c, k) PROVE TypeOK'
  <2>1. [at |-> "reading", kind |-> k, taken |-> << >>] \in Creation
    BY NothingTaken, TableAssumption DEF Creation, Partial
  <2> QED
    BY <1>4, <2>1 DEF Begin, TypeOK, disk, rows
<1>5. ASSUME NEW x \in views, Retire(x) PROVE TypeOK'
  BY <1>5 DEF Retire, TypeOK, disk
<1>6. ASSUME NEW t \in Tables, Write(t) PROVE TypeOK'
  BY <1>6, NewVersionStep DEF Write, TypeOK, rows
<1>7. ASSUME NEW t \in Tables, Age(t) PROVE TypeOK'
  BY <1>7 DEF Age, TypeOK, rows
<1>8. CASE Settle \/ UNCHANGED vars
  BY <1>8 DEF Settle, vars, TypeOK, rows
<1> QED
  BY <1>1, <1>2, <1>3, <1>4, <1>5, <1>6, <1>7, <1>8 DEF Next

-----------------------------------------------------------------------------
\* What the invariants need to know of a step, action by action.

\* While a maintenance runs no creation does, so no row is added.
LEMMA MaintenanceAlone ==
    ASSUME KeptApart, NEW m \in Maintainers, MaintenanceStep(m) \/ Fail(m)
    PROVE  /\ job[m].at # "idle"
           /\ \A c \in Creators : made[c].at \in {"idle", "done"}
           /\ UNCHANGED <<snapshots, views, lineage, made>>
<1>1. job[m].at # "idle"
  BY DEF MaintenanceStep, ReadPins, ListTags, DeleteTag, CreateTag, Compact, RefreshIndexes, Rewrite,
         Cleanup, Fail
<1>2. UNCHANGED <<snapshots, views, lineage, made>>
  BY DEF MaintenanceStep, ReadPins, ListTags, DeleteTag, CreateTag, Compact, RefreshIndexes, Rewrite,
         Cleanup, Fail, rows
<1> QED
  BY <1>1, <1>2 DEF KeptApart

\* While a creation runs every maintenance is idle.
LEMMA CreationAlone ==
    ASSUME KeptApart, NEW c \in Creators, CreationStep(c)
    PROVE  /\ made[c].at \in {"reading", "read", "dropped", "added"}
           /\ \A m \in Maintainers : job[m].at = "idle"
           /\ UNCHANGED <<latest, exists, aged, flaky, tags, job>>
<1>1. made[c].at \in {"reading", "read", "dropped", "added"}
  BY DEF CreationStep, ReadVersion, DropRow, AddRow, EmitLineage
<1>2. UNCHANGED <<latest, exists, aged, flaky, tags, job>>
  BY DEF CreationStep, ReadVersion, DropRow, AddRow, EmitLineage, disk
<1> QED
  BY <1>1, <1>2 DEF KeptApart

\* The prune leaves what is tagged, and the current version.
LEMMA CleanupStep ==
    ASSUME TypeOK, LatestOnDisk, NEW m \in Maintainers, Cleanup(m)
    PROVE  /\ job[m].at = "cleanup" /\ job'[m].at \in {"idle", "list"}
           /\ \A n \in Maintainers \ {m} : job'[n] = job[n]
           /\ \A t \in Tables : exists'[t] \subseteq exists[t] /\ latest[t] \in exists'[t]
           /\ exists[job[m].table] \cap tags[job[m].table] \subseteq exists'[job[m].table]
           /\ \A t \in Tables \ {job[m].table} : exists'[t] = exists[t]
           /\ UNCHANGED <<latest, tags>>
<1> DEFINE t == job[m].table
<1>1. t \in Tables /\ job \in [Maintainers -> Job] /\ job[m] \in Job
  BY DEF TypeOK, Job
<1>2. latest[t] \notin Old(t, job[m].kind)
  <2>1. CASE job[m].kind = "ingest"
    <3>1. {w \in exists[t] : w > latest[t]} = {}
      <4>1. \A w \in exists[t] : w \in Nat /\ latest[t] \in Nat /\ w <= latest[t]
        BY <1>1, TableAssumption DEF LatestOnDisk, TypeOK, Versions
      <4> QED
        BY <4>1
    <3>2. Cardinality({w \in exists[t] : w > latest[t]}) = 0
      BY <3>1, FS_EmptySet
    <3> HIDE DEF t
    <3> QED
      BY <2>1, <3>2, TableAssumption DEF Old
  <2>2. CASE job[m].kind # "ingest"
    BY <2>2 DEF Old
  <2> QED
    BY <2>1, <2>2
<1>3. exists' = [exists EXCEPT ![t] = @ \ (Old(t, job[m].kind) \ tags[t])] /\ UNCHANGED <<latest, tags>>
  BY DEF Cleanup
<1>4. \A u \in Tables : exists'[u] \subseteq exists[u] /\ latest[u] \in exists'[u]
  <2> HIDE DEF t
  <2> QED
    BY <1>1, <1>2, <1>3 DEF TypeOK, LatestOnDisk
<1>5. exists[t] \cap tags[t] \subseteq exists'[t] /\ \A u \in Tables \ {t} : exists'[u] = exists[u]
  <2> HIDE DEF t
  <2> QED
    BY <1>1, <1>3 DEF TypeOK
<1>6. job'[m].at \in {"idle", "list"} /\ \A n \in Maintainers \ {m} : job'[n] = job[n]
  <2>1. CASE Stop(m)
    BY <1>1, <2>1 DEF Stop, IdleJob
  <2>2. CASE ~Stop(m)
    <3>1. job' = [job EXCEPT ![m].at = "list", ![m].table = t + 1]
      BY <2>2 DEF Cleanup
    <3> HIDE DEF t
    <3> QED
      BY <1>1, <3>1 DEF Job
  <2> QED
    BY <2>1, <2>2
<1> QED
  BY <1>3, <1>4, <1>5, <1>6 DEF Cleanup

\* Outside of the prune, versions are only added.
LEMMA DiskStep ==
    ASSUME TypeOK, LatestOnDisk, [Next]_vars, \A m \in Maintainers : ~Cleanup(m)
    PROVE  \A t \in Tables : /\ latest'[t] \in exists'[t] /\ \A v \in exists'[t] : v <= latest'[t]
                             /\ exists[t] \subseteq exists'[t]
<1>1. ASSUME NEW t \in Tables, NewVersion(t)
      PROVE  \A u \in Tables : /\ latest'[u] \in exists'[u] /\ \A v \in exists'[u] : v <= latest'[u]
                               /\ exists[u] \subseteq exists'[u]
  <2>1. \A u \in Tables : latest[u] \in Nat /\ exists[u] \subseteq Nat
    BY TableAssumption DEF TypeOK, Versions
  <2> QED
    BY <1>1, <2>1, NewVersionStep DEF LatestOnDisk
<1>2. ASSUME NEW m \in Maintainers, MaintenanceStep(m)
      PROVE  (\E t \in Tables : NewVersion(t)) \/ UNCHANGED <<latest, exists>>
  <2>1. job[m].table \in Tables
    BY DEF TypeOK, Job
  <2> QED
    BY <1>2, <2>1 DEF MaintenanceStep, ReadPins, ListTags, DeleteTag, CreateTag, Compact, RefreshIndexes,
        Rewrite, disk
<1>3. (\E t \in Tables : NewVersion(t)) \/ UNCHANGED <<latest, exists>>
  BY <1>2 DEF Next, Fail, Start, CreationStep, ReadVersion, DropRow, AddRow, EmitLineage, Begin, Retire,
      Write, Age, Settle, vars, disk
<1>4. CASE UNCHANGED <<latest, exists>>
  BY <1>4 DEF LatestOnDisk
<1> QED
  BY <1>1, <1>3, <1>4

LEMMA LatestStep == ASSUME TypeOK, LatestOnDisk, [Next]_vars PROVE LatestOnDisk'
<1>1. ASSUME NEW m \in Maintainers, Cleanup(m) PROVE LatestOnDisk'
  BY <1>1, CleanupStep DEF LatestOnDisk
<1> QED
  BY <1>1, DiskStep DEF LatestOnDisk

\* Only Start and Begin leave the idle state, and each waits for the other side.
LEMMA ApartStep == ASSUME Quiet, TypeOK, KeptApart, [Next]_vars PROVE KeptApart'
<1>1. ASSUME NEW m \in Maintainers, MaintenanceStep(m) \/ Fail(m) PROVE KeptApart'
  <2>1. PICK j \in Job : job' = [job EXCEPT ![m] = j]
    BY <1>1, JobStep
  <2> QED
    BY <1>1, <2>1, MaintenanceAlone DEF KeptApart, TypeOK
<1>2. ASSUME NEW m \in Maintainers, NEW k, Start(m, k) PROVE KeptApart'
  BY <1>2 DEF Start, KeptApart, TypeOK
<1>3. ASSUME NEW c \in Creators, CreationStep(c) PROVE KeptApart'
  BY <1>3, CreationAlone DEF KeptApart
<1>4. ASSUME NEW c \in Creators, NEW k, Begin(c, k) PROVE KeptApart'
  BY <1>4 DEF Begin, KeptApart, TypeOK
<1>5. CASE UNCHANGED <<job, made>>
  BY <1>5 DEF KeptApart
<1> QED
  BY <1>1, <1>2, <1>3, <1>4, <1>5 DEF Next, Retire, Write, Age, Settle, vars

LEMMA TakenStep ==
    ASSUME TypeOK, LatestOnDisk, KeptApart, TakenOnDisk, [Next]_vars
    PROVE  TakenOnDisk'
<1>1. ASSUME NEW m \in Maintainers, MaintenanceStep(m) \/ Fail(m) PROVE TakenOnDisk'
  BY <1>1, MaintenanceAlone DEF TakenOnDisk
<1>2. ASSUME NEW c \in Creators, ReadVersion(c) PROVE TakenOnDisk'
  <2>1. UNCHANGED exists
    BY <1>2 DEF ReadVersion, disk
  <2>2. PICK j \in Creation :
            /\ made' = [made EXCEPT ![c] = j]
            /\ made[c].at = "reading"
            /\ \A u \in DOMAIN j.taken :
                    \/ j.taken[u] = latest[u]
                    \/ u \in DOMAIN made[c].taken /\ j.taken[u] = made[c].taken[u]
    BY <1>2, ReadVersionStep
  <2>3. \A u \in DOMAIN j.taken : u \in Tables
    BY TableAssumption DEF Creation, Partial, Tables
  <2>4. \A u \in DOMAIN j.taken : j.taken[u] \in exists[u]
    BY <2>2, <2>3 DEF TakenOnDisk, LatestOnDisk
  <2>5. made'[c] = j /\ \A d \in Creators \ {c} : made'[d] = made[d]
    BY <2>2 DEF TypeOK
  <2> QED
    BY <2>1, <2>4, <2>5 DEF TakenOnDisk
<1>3. ASSUME NEW c \in Creators, DropRow(c) \/ AddRow(c) \/ EmitLineage(c) PROVE TakenOnDisk'
  <2>1. UNCHANGED exists
    BY <1>3 DEF DropRow, AddRow, EmitLineage, disk
  <2>2. PICK next : made' = [made EXCEPT ![c].at = next] /\ made[c].at \notin {"idle", "done"}
    BY <1>3 DEF DropRow, AddRow, EmitLineage
  <2>3. made'[c].taken = made[c].taken /\ \A d \in Creators \ {c} : made'[d] = made[d]
    BY <2>2 DEF TypeOK, Creation
  <2> QED
    BY <2>1, <2>2, <2>3 DEF TakenOnDisk
<1>4. ASSUME NEW c \in Creators, NEW k, Begin(c, k) PROVE TakenOnDisk'
  <2>1. made'[c].taken = << >> /\ \A d \in Creators \ {c} : made'[d] = made[d]
    BY <1>4 DEF Begin, TypeOK
  <2>2. UNCHANGED exists
    BY <1>4 DEF Begin, disk
  <2> QED
    BY <2>1, <2>2 DEF TakenOnDisk
<1>5. ASSUME NEW t \in Tables, Write(t) PROVE TakenOnDisk'
  <2>1. \A u \in Tables : exists[u] \subseteq exists'[u]
    BY <1>5, NewVersionStep DEF Write
  <2>2. \A c \in Creators : \A u \in DOMAIN made[c].taken : u \in Tables
    BY TableAssumption DEF TypeOK, Creation, Partial, Tables
  <2> QED
    BY <1>5, <2>1, <2>2 DEF Write, TakenOnDisk
<1>6. CASE UNCHANGED <<exists, made>>
  BY <1>6 DEF TakenOnDisk
<1> QED
  BY <1>1, <1>2, <1>3, <1>4, <1>5, <1>6
     DEF Next, CreationStep, Start, Retire, Age, Settle, vars, disk

\* Rows come only from creations, which every maintenance sits out.
LEMMA RowsShrink ==
    ASSUME KeptApart, [Next]_vars, NEW m \in Maintainers, job[m].at # "idle"
    PROVE  snapshots' \subseteq snapshots /\ views' \subseteq views
<1>1. ASSUME NEW c \in Creators PROVE ~CreationStep(c)
  BY <1>1, CreationAlone
<1> QED
  BY <1>1 DEF Next, MaintenanceStep, ReadPins, ListTags, DeleteTag, CreateTag, Compact, RefreshIndexes,
      Rewrite, Cleanup, Fail, Start, Begin, Retire, Write, Age, Settle, vars, rows

LEMMA PinsReadStep ==
    ASSUME TypeOK, KeptApart, PinsRead, [Next]_vars
    PROVE  PinsRead'
<1> SUFFICES ASSUME NEW n \in Maintainers
             PROVE
        /\ job'[n].at \in {"lineage", "views", "list"} \cup Tagging => PinsOf(snapshots') \subseteq job'[n].pins
        /\ job'[n].at \in {"list"} \cup Tagging => PinsOf(views') \subseteq job'[n].pins
  BY DEF PinsRead, PinsOf
<1>1. job \in [Maintainers -> Job] /\ job[n] \in Job
  BY DEF TypeOK
<1>2. CASE job[n].at # "idle"
  <2>1. PinsOf(snapshots') \subseteq PinsOf(snapshots) /\ PinsOf(views') \subseteq PinsOf(views)
    BY <1>2, RowsShrink DEF PinsOf
  <2>2. CASE ReadPins(n)
    <3>1. CASE /\ job[n].at = "snapshots"
               /\ job' = [job EXCEPT ![n].pins = @ \cup PinsOf(snapshots), ![n].at = "lineage"]
      BY <1>1, <2>1, <3>1 DEF Job, Tagging
    <3>2. CASE /\ job[n].at = "lineage"
               /\ job' = [job EXCEPT ![n].pins = @ \cup lineage, ![n].at = "views"]
      BY <1>1, <2>1, <3>2 DEF Job, Tagging, PinsRead
    <3>3. CASE /\ job[n].at = "views"
               /\ job' = [job EXCEPT ![n].pins = @ \cup PinsOf(views), ![n].at = "list"]
      BY <1>1, <2>1, <3>3 DEF Job, Tagging, PinsRead
    <3> QED
      BY <2>2, <3>1, <3>2, <3>3, ReadPinsStep
  <2>3. CASE Stop(n)
    BY <1>1, <2>3 DEF Stop, IdleJob, Tagging
  <2>4. CASE job'[n].pins = job[n].pins /\ (job[n].at = "list" \/ job[n].at \in Tagging)
    BY <2>1, <2>4 DEF PinsRead
  <2>5. CASE job'[n] = job[n]
    BY <2>1, <2>5 DEF PinsRead
  <2>6. ASSUME MaintenanceStep(n) \/ Fail(n), ~ReadPins(n), ~Stop(n)
        PROVE  job'[n].pins = job[n].pins /\ (job[n].at = "list" \/ job[n].at \in Tagging)
    <3>1. CASE ListTags(n)
      <4>1. PICK old, stale, todo :
                job' = [job EXCEPT ![n].at = "untag", ![n].existing = old, ![n].stale = stale, ![n].todo = todo]
        BY <3>1 DEF ListTags
      <4>2. job'[n].pins = job[n].pins
        BY <1>1, <4>1 DEF Job
      <4> QED
        BY <3>1, <4>2 DEF ListTags
    <3>2. CASE DeleteTag(n) \/ CreateTag(n)
      <4>1. PICK v : job' = [job EXCEPT ![n].stale = @ \ {v}] \/ job' = [job EXCEPT ![n].todo = @ \ {v}]
        BY <2>6, <3>2 DEF DeleteTag, CreateTag
      <4>2. job'[n].pins = job[n].pins
        BY <1>1, <4>1 DEF Job
      <4> QED
        BY <3>2, <4>2 DEF DeleteTag, CreateTag, Tagging
    <3>3. CASE Compact(n) \/ RefreshIndexes(n)
      BY <1>1, <3>3 DEF Compact, RefreshIndexes, Rewrite, Goto, Tagging, Job
    <3>4. CASE Cleanup(n)
      <4>1. PICK t : job' = [job EXCEPT ![n].at = "list", ![n].table = t]
        BY <2>6, <3>4 DEF Cleanup
      <4> QED
        BY <1>1, <3>4, <4>1 DEF Cleanup, Tagging, Job
    <3> QED
      BY <2>6, <3>1, <3>2, <3>3, <3>4 DEF MaintenanceStep, Fail
  <2>7. ASSUME NEW m \in Maintainers \ {n}, MaintenanceStep(m) \/ Fail(m) PROVE job'[n] = job[n]
    <3>1. \E j \in Job : job' = [job EXCEPT ![m] = j]
      BY <2>7, JobStep
    <3> QED
      BY <3>1, <1>1
  <2>8. ASSUME NEW m \in Maintainers, NEW k, Start(m, k) PROVE job'[n] = job[n]
    BY <1>1, <1>2, <2>8 DEF Start
  <2> QED
    BY <2>2, <2>3, <2>4, <2>5, <2>6, <2>7, <2>8
       DEF Next, CreationStep, ReadVersion, DropRow, AddRow, EmitLineage, Begin, Retire, Write, Age, Settle, vars
<1>3. CASE job[n].at = "idle"
  <2>1. job'[n].at \in {"idle", "snapshots"}
    <3>1. ASSUME NEW m \in Maintainers, MaintenanceStep(m) \/ Fail(m) PROVE job'[n] = job[n]
      <4>1. \E j \in Job : job' = [job EXCEPT ![m] = j]
        BY <3>1, JobStep
      <4> QED
        BY <3>1, <4>1, <1>1, <1>3, MaintenanceAlone
    <3>2. ASSUME NEW m \in Maintainers, NEW k, Start(m, k) PROVE job'[n].at \in {"idle", "snapshots"}
      BY <1>1, <1>3, <3>2 DEF Start, IdleJob
    <3> QED
      BY <1>3, <3>1, <3>2
         DEF Next, CreationStep, ReadVersion, DropRow, AddRow, EmitLineage, Begin, Retire, Write, Age, Settle, vars
  <2> QED
    BY <2>1 DEF Tagging
<1> QED
  BY <1>2, <1>3

\* A maintenance deletes the lowest of its stale tags; it creates the tag of its lowest pin.
LEMMA DeleteTagStep ==
    ASSUME TypeOK, NEW m \in Maintainers, DeleteTag(m)
    PROVE  \/ \E v \in job[m].stale : /\ tags' = [tags EXCEPT ![job[m].table] = @ \ {v}]
                                      /\ job' = [job EXCEPT ![m].stale = @ \ {v}]
           \/ Stop(m) /\ UNCHANGED tags
<1>1. job[m].stale \in SUBSET Versions /\ job[m].stale # {}
  BY DEF DeleteTag, TypeOK, Job
<1> QED
  BY <1>1, LowestVersion DEF DeleteTag

LEMMA CreateTagStep ==
    ASSUME TypeOK, NEW m \in Maintainers, CreateTag(m)
    PROVE  \/ \E v \in job[m].todo : /\ tags' = [tags EXCEPT ![job[m].table] = @ \cup {v}]
                                     /\ job' = [job EXCEPT ![m].todo = @ \ {v}]
           \/ Stop(m) /\ UNCHANGED tags
<1>1. job[m].todo \in SUBSET Versions /\ job[m].todo # {}
  BY DEF CreateTag, TypeOK, Job
<1> QED
  BY <1>1, LowestVersion DEF CreateTag

\* No maintenance deletes the tag of a pinned version.
LEMMA TagsStay ==
    ASSUME TypeOK, PinsTagged, [Next]_vars,
           NEW t \in Tables, NEW v \in Versions, <<t, v>> \in PinsOf(snapshots \cup views), v \in tags[t]
    PROVE  v \in tags'[t]
<1>1. ASSUME NEW m \in Maintainers, DeleteTag(m) PROVE v \in tags'[t]
  <2>1. CASE Stop(m) /\ UNCHANGED tags
    BY <2>1
  <2>2. CASE ~(Stop(m) /\ UNCHANGED tags)
    <3>1. PICK u \in job[m].stale : tags' = [tags EXCEPT ![job[m].table] = @ \ {u}]
      BY <1>1, <2>2, DeleteTagStep
    <3>2. job[m].at \in Tagging
      BY <1>1 DEF DeleteTag, Tagging
    <3>3. job[m].table = t => v # u
      BY <3>1, <3>2 DEF PinsTagged
    <3> QED
      BY <3>1, <3>3 DEF TypeOK
  <2> QED
    BY <2>1, <2>2
<1>2. ASSUME NEW m \in Maintainers, CreateTag(m) PROVE v \in tags'[t]
  BY <1>2, CreateTagStep DEF TypeOK
<1>3. CASE UNCHANGED tags
  BY <1>3
<1> QED
  BY <1>1, <1>2, <1>3 DEF Next, MaintenanceStep, ReadPins, ListTags, Compact, RefreshIndexes, Rewrite, Cleanup,
     Fail, Start, CreationStep, ReadVersion, DropRow, AddRow, EmitLineage, Begin, Retire, Write, Age, Settle, vars

\* Another process leaves the state of a maintenance that is under way alone.
LEMMA OthersStep ==
    ASSUME TypeOK, KeptApart, [Next]_vars, NEW n \in Maintainers, ~MaintenanceStep(n), ~Fail(n)
    PROVE  job'[n] = job[n] \/ (job[n].at = "idle" /\ job'[n].at = "snapshots")
<1>1. job \in [Maintainers -> Job]
  BY DEF TypeOK
<1>2. ASSUME NEW m \in Maintainers \ {n}, MaintenanceStep(m) \/ Fail(m) PROVE job'[n] = job[n]
  <2>1. \E j \in Job : job' = [job EXCEPT ![m] = j]
    BY <1>2, JobStep
  <2> QED
    BY <2>1, <1>1
<1>3. ASSUME NEW m \in Maintainers, NEW k, Start(m, k)
      PROVE  job'[n] = job[n] \/ (job[n].at = "idle" /\ job'[n].at = "snapshots")
  BY <1>1, <1>3 DEF Start, IdleJob
<1> QED
  BY <1>2, <1>3
     DEF Next, CreationStep, ReadVersion, DropRow, AddRow, EmitLineage, Begin, Retire, Write, Age, Settle, vars

LEMMA PinsTaggedStep ==
    ASSUME TypeOK, KeptApart, PinsRead, PinsTagged, PinnedVersionsSurvive, [Next]_vars
    PROVE  PinsTagged'
<1> SUFFICES ASSUME NEW n \in Maintainers, job'[n].at \in Tagging, NEW v \in Versions,
                    <<job'[n].table, v>> \in PinsOf(snapshots' \cup views')
             PROVE  /\ v \notin job'[n].stale
                    /\ v \in tags'[job'[n].table] \/ (job'[n].at = "untag" /\ v \in job'[n].todo)
  BY DEF PinsTagged, PinsOf
<1>1. job \in [Maintainers -> Job] /\ job[n] \in Job
  BY DEF TypeOK
<1> DEFINE t == job[n].table
<1>2. t \in Tables
  BY <1>1 DEF Job
<1>3. job[n].at # "idle" /\ job'[n].table = t
      /\ ((~MaintenanceStep(n) /\ ~Fail(n)) => job'[n] = job[n])
  <2>1. CASE ~MaintenanceStep(n) /\ ~Fail(n)
    BY <2>1, OthersStep DEF Tagging
  <2>2. CASE Fail(n)
    BY <1>1, <2>2 DEF Fail, Stop, IdleJob, Tagging
  <2>3. ASSUME MaintenanceStep(n) PROVE job[n].at # "idle" /\ job'[n].table = t
    <3>1. job[n].at # "idle"
      BY <2>3, MaintenanceAlone
    <3>2. CASE Stop(n)
      BY <1>1, <3>2 DEF Stop, IdleJob, Tagging
    <3>3. CASE ReadPins(n)
      <4>1. PICK more, next : job' = [job EXCEPT ![n].pins = more, ![n].at = next]
        BY <3>3, ReadPinsStep
      <4> QED
        BY <1>1, <3>1, <4>1 DEF Job
    <3>4. CASE ListTags(n)
      <4>1. PICK old, stale, todo :
                job' = [job EXCEPT ![n].at = "untag", ![n].existing = old, ![n].stale = stale, ![n].todo = todo]
        BY <3>4 DEF ListTags
      <4>2. job'[n].table = job[n].table
        BY <1>1, <4>1 DEF Job
      <4> QED
        BY <3>1, <4>2
    <3>5. CASE DeleteTag(n) \/ CreateTag(n)
      <4>1. PICK u : Stop(n) \/ job' = [job EXCEPT ![n].stale = @ \ {u}] \/ job' = [job EXCEPT ![n].todo = @ \ {u}]
        BY <3>5 DEF DeleteTag, CreateTag
      <4> QED
        BY <1>1, <3>1, <3>2, <4>1 DEF Job
    <3>6. CASE Compact(n) \/ RefreshIndexes(n)
      BY <1>1, <3>1, <3>6 DEF Compact, RefreshIndexes, Rewrite, Goto, Job
    <3>7. CASE Cleanup(n)
      <4>1. CASE ~Stop(n)
        BY <1>1, <3>7, <4>1 DEF Cleanup, Tagging, Job
      <4> QED
        BY <3>2, <4>1
    <3> QED
      BY <2>3, <3>2, <3>3, <3>4, <3>5, <3>6, <3>7 DEF MaintenanceStep
  <2> QED
    BY <2>1, <2>2, <2>3
<1> HIDE DEF t
<1>4. snapshots' \subseteq snapshots /\ views' \subseteq views
  BY <1>3, RowsShrink
<1>5. <<t, v>> \in PinsOf(snapshots \cup views)
  BY <1>3, <1>4 DEF PinsOf
<1>6. job[n].at \in Tagging => /\ v \notin job[n].stale
                               /\ v \in tags[t] \/ (job[n].at = "untag" /\ v \in job[n].todo)
                               /\ v \in tags[t] => v \in tags'[t]
  BY <1>2, <1>5, TagsStay DEF PinsTagged, t
<1>7. CASE ListTags(n)
  <2>1. <<t, v>> \in job[n].pins
    <3>1. PinsOf(snapshots) \subseteq job[n].pins /\ PinsOf(views) \subseteq job[n].pins
      BY <1>7 DEF ListTags, PinsRead
    <3> QED
      BY <1>5, <3>1 DEF PinsOf
  <2>2. v \in exists[t]
    BY <1>5 DEF PinnedVersionsSurvive
  <2>3. v \in PinnedBy(n, t)
    BY <2>1 DEF PinnedBy
  <2> DEFINE old == tags[t]
             stale == tags[t] \ PinnedBy(n, t)
             todo == PinnedBy(n, t) \cap exists[t]
  <2>4. /\ job' = [job EXCEPT ![n].at = "untag", ![n].existing = old, ![n].stale = stale, ![n].todo = todo]
        /\ v \notin stale /\ v \in todo
    BY <1>7, <2>2, <2>3 DEF ListTags, t
  <2> HIDE DEF old, stale, todo
  <2>5. job'[n].at = "untag" /\ job'[n].stale = stale /\ job'[n].todo = todo
    <3> DEFINE j == [job[n] EXCEPT !.at = "untag", !.existing = old, !.stale = stale, !.todo = todo]
    <3>1. j.at = "untag" /\ j.stale = stale /\ j.todo = todo
      BY <1>1 DEF Job
    <3>2. job'[n] = j
      BY <1>1, <2>4
    <3> QED
      BY <3>1, <3>2
  <2> QED
    BY <2>4, <2>5
<1>8. CASE DeleteTag(n)
  <2>1. job[n].at = "untag" /\ job[n].at \in Tagging
    BY <1>8 DEF DeleteTag, Tagging
  <2>2. CASE Stop(n)
    BY <1>1, <2>2 DEF Stop, IdleJob, Tagging
  <2>3. CASE ~Stop(n)
    <3>1. PICK u : job' = [job EXCEPT ![n].stale = @ \ {u}]
      BY <1>8, <2>3, DeleteTagStep
    <3>2. job'[n].at = "untag" /\ job'[n].stale \subseteq job[n].stale /\ job'[n].todo = job[n].todo
      BY <1>1, <2>1, <3>1 DEF Job
    <3> QED
      BY <1>3, <1>6, <2>1, <3>2
  <2> QED
    BY <2>2, <2>3
<1>9. CASE CreateTag(n)
  <2>1. job[n].at = "untag" /\ job[n].at \in Tagging
    BY <1>9 DEF CreateTag, Tagging
  <2>2. CASE Stop(n)
    BY <1>1, <2>2 DEF Stop, IdleJob, Tagging
  <2>3. CASE ~Stop(n)
    <3>1. PICK u \in job[n].todo : /\ tags' = [tags EXCEPT ![t] = @ \cup {u}]
                                   /\ job' = [job EXCEPT ![n].todo = @ \ {u}]
      BY <1>9, <2>3, CreateTagStep DEF t
    <3>2. job'[n].at = "untag" /\ job'[n].stale = job[n].stale /\ job'[n].todo = job[n].todo \ {u}
      BY <1>1, <2>1, <3>1 DEF Job
    <3>3. u \in tags'[t]
      BY <1>2, <3>1 DEF TypeOK
    <3> QED
      BY <1>3, <1>6, <2>1, <3>2, <3>3
  <2> QED
    BY <2>2, <2>3
<1>10. CASE Compact(n) \/ RefreshIndexes(n)
  <2>1. job[n].at \in Tagging /\ (job[n].at = "untag" => job[n].todo = {})
    BY <1>10 DEF Compact, RefreshIndexes, Rewrite, Tagging
  <2>2. job'[n].stale = job[n].stale
    BY <1>1, <1>10 DEF Compact, RefreshIndexes, Rewrite, Goto, Job
  <2> QED
    BY <1>3, <1>6, <2>1, <2>2
<1>11. CASE ReadPins(n)
  <2>1. job'[n].at \in {"lineage", "views", "list"}
    <3>1. CASE job' = [job EXCEPT ![n].pins = @ \cup PinsOf(snapshots), ![n].at = "lineage"]
      BY <1>1, <3>1 DEF Job
    <3>2. CASE job' = [job EXCEPT ![n].pins = @ \cup lineage, ![n].at = "views"]
      BY <1>1, <3>2 DEF Job
    <3>3. CASE job' = [job EXCEPT ![n].pins = @ \cup PinsOf(views), ![n].at = "list"]
      BY <1>1, <3>3 DEF Job
    <3> QED
      BY <1>11, <3>1, <3>2, <3>3, ReadPinsStep
  <2> QED
    BY <2>1 DEF Tagging
<1>12. CASE Cleanup(n) \/ Fail(n)
  <2>1. CASE Stop(n)
    BY <1>1, <2>1 DEF Stop, IdleJob, Tagging
  <2>2. CASE ~Stop(n)
    BY <1>1, <1>12, <2>2 DEF Cleanup, Fail, Tagging, Job
  <2> QED
    BY <2>1, <2>2
<1>13. CASE ~MaintenanceStep(n) /\ ~Fail(n)
  BY <1>3, <1>6, <1>13
<1> QED
  BY <1>7, <1>8, <1>9, <1>10, <1>11, <1>12, <1>13 DEF MaintenanceStep

LEMMA SurviveStep ==
    ASSUME TypeOK, LatestOnDisk, KeptApart, TakenOnDisk, PinsTagged, PinnedVersionsSurvive, [Next]_vars
    PROVE  PinnedVersionsSurvive'
<1> DEFINE Kept == \A t \in Tables : {v \in exists[t] : <<t, v>> \in PinsOf(snapshots \cup views)} \subseteq exists'[t]
<1>1. Kept
  <2>1. CASE \A m \in Maintainers : ~Cleanup(m)
    BY <2>1, DiskStep
  <2>2. ASSUME NEW m \in Maintainers, Cleanup(m) PROVE Kept
    <3>1. job[m].at \in Tagging /\ job[m].at # "untag"
      BY <2>2, CleanupStep DEF Tagging
    <3>2. ASSUME NEW v \in exists[job[m].table], <<job[m].table, v>> \in PinsOf(snapshots \cup views)
          PROVE  v \in exists'[job[m].table]
      <4>1. v \in Versions
        BY <3>2 DEF PinsOf, Pins
      <4>2. v \in tags[job[m].table]
        BY <3>1, <3>2, <4>1 DEF PinsTagged
      <4> QED
        BY <2>2, <4>2, CleanupStep
    <3> QED
      BY <2>2, <3>2, CleanupStep
  <2> QED
    BY <2>1, <2>2
<1>2. CASE snapshots' \cup views' \subseteq snapshots \cup views
  BY <1>1, <1>2 DEF PinnedVersionsSurvive, PinsOf, Pins
<1>3. ASSUME NEW c \in Creators, AddRow(c) PROVE PinnedVersionsSurvive'
  <2>1. snapshots' \cup views' = (snapshots \cup views) \cup {made[c].taken} /\ made[c].at \in {"read", "dropped"}
    BY <1>3 DEF AddRow
  <2>2. UNCHANGED exists
    BY <1>3 DEF AddRow, disk
  <2>3. made[c].taken \in Pinning /\ \A t \in Tables : made[c].taken[t] \in exists[t]
    BY <2>1 DEF TypeOK, Pinning, TakenOnDisk
  <2> QED
    BY <2>1, <2>2, <2>3 DEF PinnedVersionsSurvive, PinsOf, Pins
<1>4. (\E c \in Creators : AddRow(c)) \/ snapshots' \cup views' \subseteq snapshots \cup views
  BY DEF Next, MaintenanceStep, ReadPins, ListTags, DeleteTag, CreateTag, Compact, RefreshIndexes, Rewrite,
      Cleanup, Fail, Start, CreationStep, ReadVersion, DropRow, EmitLineage, Begin, Retire, Write, Age, Settle,
      vars, rows
<1> QED
  BY <1>2, <1>3, <1>4

LEMMA Initially == Init => IInv
<1> SUFFICES ASSUME Init PROVE IInv
  OBVIOUS
<1>1. 1 \in Versions
  BY TableAssumption DEF Versions
<1>2. TypeOK
  <2>1. [at |-> "idle", kind |-> None, taken |-> << >>] \in Creation
    BY NothingTaken, TableAssumption DEF Creation, Partial
  <2> QED
    BY <1>1, <2>1, IdleIsJob DEF Init, TypeOK
<1>3. (\A m \in Maintainers : job[m].at = "idle") /\ (\A c \in Creators : made[c].at = "idle")
  BY DEF Init, IdleJob
<1>4. LatestOnDisk /\ PinnedVersionsSurvive
  BY <1>1 DEF Init, LatestOnDisk, PinnedVersionsSurvive, PinsOf, Versions
<1>5. KeptApart /\ TakenOnDisk
  BY <1>3 DEF KeptApart, TakenOnDisk
<1>6. PinsRead /\ PinsTagged
  BY <1>3 DEF PinsRead, PinsTagged, Tagging
<1> QED
  BY <1>2, <1>4, <1>5, <1>6 DEF IInv

LEMMA Inductive == Quiet => (IInv /\ [Next]_vars => IInv')
  BY TypeStep, LatestStep, ApartStep, TakenStep, PinsReadStep, PinsTaggedStep, SurviveStep DEF IInv

\* Whatever maintenance, ingests and writers do, fail or leave half done, every version
\* that a snapshot or a published view pins stays on disk, if no snapshot or view is
\* created while a maintenance is under way.
THEOREM PinsSurvive == Quiet => (Spec => []PinnedVersionsSurvive)
<1> SUFFICES ASSUME Quiet PROVE Spec => []PinnedVersionsSurvive
  OBVIOUS
<1>1. Init => IInv
  BY Initially
<1>2. IInv /\ [Next]_vars => IInv'
  BY Inductive
<1>3. IInv => PinnedVersionsSurvive
  BY DEF IInv
<1> QED
  BY <1>1, <1>2, <1>3, PTL DEF Spec

\* With creations that overlap maintenance the types hold all the same.
THEOREM TypeCorrect == Spec => []TypeOK
<1>1. Init => TypeOK
  BY Initially DEF IInv
<1>2. TypeOK /\ [Next]_vars => TypeOK'
  BY TypeStep
<1> QED
  BY <1>1, <1>2, PTL DEF Spec

-----------------------------------------------------------------------------
\* TrainingManifests, for any number of runs, training jobs, imports and cleanups
\* in any order, and any deaths and failures.

CONSTANTS Runs, Workers, MaxContent, MaxCalls, MaxFaults, Overlaps
VARIABLES tracker, runRows, tables, catalog, call, calls, faults, overlap

Manifests == INSTANCE TrainingManifests WITH rows <- runRows

Manifest == [id : Runs \X (0 .. MaxContent), content : 0 .. MaxContent]
Policies == {"auto", "keep"}
DropCall == [at : {"drop"}, todo : SUBSET Runs, physical : SUBSET Runs]
ManifestCall ==
    [at : {"idle"}] \cup [at : {"delete", "add"}, manifests : SUBSET Manifest]
        \cup [at : {"get", "train"}, run : Runs] \cup [at : {"put", "pin"}, run : Runs, policy : Policies]
        \cup [at : {"tables"}, protected : SUBSET Runs]
        \cup [at : {"entries"}, protected : SUBSET Runs, physical : SUBSET Runs]
        \cup DropCall \cup [at : {"forget"}, run : Runs, rest : DropCall]
CleanupAt == {"tables", "entries", "drop", "forget"}

ManifestsTyped ==
    /\ tracker \in [Runs -> 0 .. MaxContent]
    /\ runRows \subseteq [id : Runs \X (0 .. MaxContent), content : 0 .. MaxContent, by : Workers]
    /\ tables \subseteq Runs
    /\ catalog \in [Runs -> Policies \cup {None}]
    /\ call \in [Workers -> ManifestCall]

\* No manifest is replaced and no policy set while a cleanup runs; no entry is
\* written back while a policy is set.
CallsApart ==
    \A w, u \in Workers :
        /\ call[w].at \in CleanupAt => call[u].at \notin {"delete", "add", "pin"}
        /\ call[w].at = "pin" => call[u].at # "put"

\* A table that an operator keeps is there, and an entry is written back as it is.
KeptCall(c) ==
    /\ c.at = "put" => (c.policy = "keep" <=> catalog[c.run] = "keep")
    /\ c.at = "pin" => c.run \in tables
KeptThere ==
    /\ \A r \in Runs : catalog[r] = "keep" => r \in tables
    /\ \A w \in Workers : KeptCall(call[w])

\* What a cleanup has yet to drop is still neither kept nor pinned.
Droppable(c) ==
    /\ \A r \in c.todo : catalog[r] # "keep"
    /\ \A r \in c.physical : r \in c.todo /\ r \notin Manifests!Pinned
JudgedCall(c) ==
    /\ c.at \in {"tables", "entries"} => c.protected = Manifests!Pinned
    /\ c.at = "entries" => \A r \in Runs : catalog[r] = "keep" => r \in c.physical
    /\ c.at = "drop" => Droppable(c)
    /\ c.at = "forget" => catalog[c.run] # "keep" /\ Droppable(c.rest)
Judged == \A w \in Workers : JudgedCall(call[w])

ManifestInv == ManifestsTyped /\ (~overlap => CallsApart /\ KeptThere /\ Judged)

LEMMA ManifestFields ==
    ASSUME NEW c \in ManifestCall
    PROVE  /\ c.at \in {"idle", "delete", "add", "get", "train", "put", "pin"} \cup CleanupAt
           /\ c.at \in {"delete", "add"} => c \in [at : {"delete", "add"}, manifests : SUBSET Manifest]
           /\ c.at \in {"get", "train"} => c.run \in Runs
           /\ c.at \in {"put", "pin"} => c.run \in Runs /\ c.policy \in Policies
           /\ c.at \in {"tables", "entries"} => c.protected \subseteq Runs
           /\ c.at = "entries" => c.physical \subseteq Runs
           /\ c.at = "drop" => c \in DropCall
           /\ c.at = "forget" => c.run \in Runs /\ c.rest \in DropCall
  BY DEF ManifestCall, DropCall, CleanupAt

LEMMA PinnedRuns == ManifestsTyped => Manifests!Pinned \subseteq Runs
  BY DEF ManifestsTyped, Manifests!Pinned

\* What an import writes for a run
LEMMA ClassifyTyped ==
    ASSUME NEW r \in Runs, NEW content \in 0 .. MaxContent, NEW previous, NEW conflict, MaxContent \in Nat
    PROVE  Manifests!Classify(r, content, previous, conflict) \subseteq Manifest
<1>1. [id |-> <<r, 0>>, content |-> content] \in Manifest /\ [id |-> <<r, content>>, content |-> content] \in Manifest
  BY DEF Manifest
<1>2. Manifests!BaseId(r) = <<r, 0>> /\ Manifests!SupersedingId(r, content) = <<r, content>>
  BY DEF Manifests!BaseId, Manifests!SupersedingId
<1> HIDE DEF Manifest
<1> QED
  BY <1>1, <1>2 DEF Manifests!Classify

\* A step in which one worker goes on to c and nothing it may not touch changes.
LEMMA QuietCall ==
    ASSUME ManifestInv, NEW w \in Workers, NEW c \in ManifestCall, call' = [call EXCEPT ![w] = c],
           UNCHANGED <<runRows, catalog, overlap, tracker>>, tables \subseteq tables', tables' \subseteq Runs,
           ~overlap =>
             /\ c.at \in CleanupAt => \A u \in Workers : call[u].at \notin {"delete", "add", "pin"}
             /\ c.at \in {"delete", "add", "pin"} => \A u \in Workers \ {w} : call[u].at \notin CleanupAt
             /\ c.at = "put" => \A u \in Workers : call[u].at # "pin"
             /\ c.at = "pin" => \A u \in Workers : call[u].at # "put"
             /\ KeptCall(c) /\ JudgedCall(c)
    PROVE  ManifestInv'
<1>1. /\ call \in [Workers -> ManifestCall] /\ call' \in [Workers -> ManifestCall]
      /\ call'[w] = c /\ \A u \in Workers : u # w => call'[u] = call[u]
  BY DEF ManifestInv, ManifestsTyped
<1>2. ManifestsTyped'
  BY <1>1 DEF ManifestInv, ManifestsTyped
<1>3. Manifests!Pinned' = Manifests!Pinned
  BY DEF Manifests!Pinned
<1>4. ASSUME ~overlap PROVE CallsApart' /\ KeptThere' /\ Judged'
  <2>1. CallsApart'
    BY <1>1, <1>4 DEF ManifestInv, CallsApart, CleanupAt
  <2>2. KeptThere'
    <3>1. \A r \in Runs : catalog[r] = "keep" => r \in tables'
      BY <1>4 DEF ManifestInv, KeptThere
    <3>2. ASSUME NEW u \in Workers PROVE KeptCall(call[u])'
      <4>1. KeptCall(call'[u])
        BY <1>1, <1>4 DEF ManifestInv, KeptThere
      <4> QED
        BY <4>1 DEF KeptCall
    <3> QED
      BY <3>1, <3>2 DEF KeptThere
  <2>3. Judged'
    <3>1. ASSUME NEW u \in Workers PROVE JudgedCall(call[u])'
      <4>1. JudgedCall(call'[u])
        BY <1>1, <1>4 DEF ManifestInv, Judged
      <4> QED
        BY <1>3, <4>1 DEF JudgedCall, Droppable
    <3> QED
      BY <3>1 DEF Judged
  <2> QED
    BY <2>1, <2>2, <2>3
<1> QED
  BY <1>2, <1>4 DEF ManifestInv

\* While manifests are replaced no cleanup runs.
LEMMA ReplaceStep ==
    ASSUME ManifestInv, NEW w \in Workers, Manifests!DeleteRows(w) \/ Manifests!AddRows(w)
    PROVE  ManifestInv'
<1>1. /\ call[w].at \in {"delete", "add"} /\ call \in [Workers -> ManifestCall]
      /\ UNCHANGED <<tracker, tables, catalog, overlap>>
  BY DEF ManifestInv, ManifestsTyped, Manifests!DeleteRows, Manifests!AddRows, Manifests!permutations, Manifests!env
<1>2. call[w] \in [at : {"delete", "add"}, manifests : SUBSET Manifest]
  BY <1>1, ManifestFields
<1>3. PICK c \in ManifestCall : call' = [call EXCEPT ![w] = c] /\ c.at \in {"idle", "add"}
  <2>1. CASE Manifests!DeleteRows(w)
    <3> DEFINE c == [call[w] EXCEPT !.at = "add"]
    <3>1. c \in [at : {"delete", "add"}, manifests : SUBSET Manifest] /\ c.at = "add"
      BY <1>2
    <3>2. call' = [call EXCEPT ![w] = c]
      BY <1>1, <2>1 DEF Manifests!DeleteRows
    <3> HIDE DEF c
    <3>3. c \in ManifestCall
      BY <3>1 DEF ManifestCall
    <3> QED
      BY <3>1, <3>2, <3>3
  <2>2. CASE Manifests!AddRows(w)
    <3>1. [at |-> "idle"] \in ManifestCall
      BY DEF ManifestCall
    <3> QED
      BY <2>2, <3>1 DEF Manifests!AddRows, Manifests!Return, Manifests!Goto, Manifests!Idle
  <2> QED
    BY <2>1, <2>2
<1>4. runRows' \subseteq [id : Runs \X (0 .. MaxContent), content : 0 .. MaxContent, by : Workers]
  <2>1. CASE Manifests!DeleteRows(w)
    BY <2>1 DEF Manifests!DeleteRows, ManifestInv, ManifestsTyped
  <2>2. CASE Manifests!AddRows(w)
    BY <1>2, <2>2 DEF Manifests!AddRows, Manifest, ManifestInv, ManifestsTyped
  <2> QED
    BY <2>1, <2>2
<1>5. ManifestsTyped'
  BY <1>1, <1>3, <1>4 DEF ManifestInv, ManifestsTyped
<1>6. ASSUME ~overlap PROVE CallsApart' /\ KeptThere' /\ Judged'
  <2>1. \A u \in Workers : call'[u].at \notin CleanupAt
    BY <1>1, <1>3, <1>6 DEF ManifestInv, CallsApart, CleanupAt
  <2>2. CallsApart'
    BY <1>1, <1>3, <1>6, <2>1 DEF ManifestInv, CallsApart
  <2>3. KeptThere'
    <3>1. ASSUME NEW u \in Workers PROVE KeptCall(call[u])'
      BY <1>1, <1>3, <1>6, <3>1 DEF ManifestInv, KeptThere, KeptCall
    <3> QED
      BY <1>1, <1>6, <3>1 DEF ManifestInv, KeptThere
  <2>4. Judged'
    BY <2>1 DEF Judged, JudgedCall, CleanupAt
  <2> QED
    BY <2>2, <2>3, <2>4
<1> QED
  BY <1>1, <1>5, <1>6 DEF ManifestInv

\* An entry is written back as it was, or set while no cleanup runs.
LEMMA PutStep ==
    ASSUME Manifests!ManifestAssumption, ManifestInv, NEW w \in Workers, Manifests!Put(w)
    PROVE  ManifestInv'
<1> DEFINE run == call[w].run
           policy == call[w].policy
<1>1. /\ call[w].at \in {"put", "pin"} /\ call \in [Workers -> ManifestCall]
      /\ UNCHANGED <<tracker, runRows, tables, overlap>>
      /\ catalog' = [catalog EXCEPT ![run] = policy]
  BY DEF ManifestInv, ManifestsTyped, Manifests!Put, Manifests!env
<1>2. run \in Runs /\ policy \in Policies
  BY <1>1, ManifestFields
<1>3. PICK c \in ManifestCall : call' = [call EXCEPT ![w] = c] /\ c.at \in {"idle", "train"}
  <2>1. [at |-> "train", run |-> run] \in ManifestCall /\ [at |-> "idle"] \in ManifestCall
    BY <1>2 DEF ManifestCall
  <2>2. call' = [call EXCEPT ![w] = IF call[w].at = "put" THEN [at |-> "train", run |-> run]
                                                         ELSE [at |-> "idle"]]
    BY DEF Manifests!Put, Manifests!Goto, Manifests!Idle
  <2> QED
    BY <2>1, <2>2
<1>4. ManifestsTyped'
  BY <1>1, <1>2, <1>3 DEF ManifestInv, ManifestsTyped
<1> HIDE DEF run, policy
<1>5. ASSUME ~overlap PROVE CallsApart' /\ KeptThere' /\ Judged'
  <2>1. /\ CallsApart /\ KeptThere /\ Judged /\ catalog \in [Runs -> Policies \cup {None}]
        /\ call'[w] = c /\ \A u \in Workers : u # w => call'[u] = call[u]
    BY <1>1, <1>3, <1>5 DEF ManifestInv, ManifestsTyped
  <2>2. CallsApart'
    BY <1>1, <1>3, <2>1 DEF CallsApart, CleanupAt
  <2>3. call[w].at = "put" => (policy = "keep" <=> catalog[run] = "keep")
    BY <2>1 DEF KeptThere, KeptCall, run, policy
  <2>4. call[w].at = "pin" => run \in tables
    BY <2>1 DEF KeptThere, KeptCall, run, policy
  <2>5. \A r \in Runs : catalog'[r] = "keep" <=> IF r = run THEN policy = "keep" ELSE catalog[r] = "keep"
    BY <1>1, <1>2, <2>1
  <2>6. KeptThere'
    <3>1. \A r \in Runs : catalog'[r] = "keep" => r \in tables
      BY <1>1, <1>2, <2>1, <2>3, <2>4, <2>5 DEF KeptThere
    <3>2. ASSUME NEW u \in Workers PROVE KeptCall(call[u])'
      <4>1. CASE u = w
        BY <1>3, <2>1, <4>1 DEF KeptCall
      <4>2. CASE u # w
        <5>1. KeptCall(call[u]) /\ call'[u] = call[u]
          BY <2>1, <4>2 DEF KeptThere
        <5>2. call[u].at = "put" => call[u].run \in Runs /\ call[w].at = "put"
          BY <1>1, <2>1, ManifestFields DEF CallsApart
        <5>3. call[u].at = "put" => (catalog'[call[u].run] = "keep" <=> catalog[call[u].run] = "keep")
          BY <2>3, <2>5, <5>2
        <5> QED
          BY <1>1, <5>1, <5>3 DEF KeptCall
      <4> QED
        BY <4>1, <4>2
    <3> QED
      BY <1>1, <3>1, <3>2 DEF KeptThere
  <2>7. Judged'
    <3>1. ASSUME NEW u \in Workers PROVE JudgedCall(call[u])'
      <4>1. CASE call'[u].at \notin CleanupAt
        BY <4>1 DEF JudgedCall, CleanupAt
      <4>2. CASE call'[u].at \in CleanupAt
        <5>1. u # w /\ call'[u] = call[u] /\ JudgedCall(call[u])
          BY <1>3, <2>1, <4>2 DEF Judged, CleanupAt
        <5>2. call[w].at = "put"
          BY <1>1, <2>1, <4>2, <5>1 DEF CallsApart
        <5>3. \A r \in Runs : catalog'[r] = "keep" <=> catalog[r] = "keep"
          BY <2>3, <2>5, <5>2
        <5>4. Manifests!Pinned' = Manifests!Pinned
          BY <1>1 DEF Manifests!Pinned
        <5>5. ASSUME NEW d \in DropCall, Droppable(d) PROVE Droppable(d)'
          BY <5>3, <5>4, <5>5 DEF Droppable, DropCall
        <5>6. /\ call[u].at = "drop" => call[u] \in DropCall
              /\ call[u].at = "forget" => call[u].run \in Runs /\ call[u].rest \in DropCall
          BY <1>1, ManifestFields
        <5>7. call[u].at = "drop" => Droppable(call[u])'
          BY <5>1, <5>5, <5>6 DEF JudgedCall
        <5>8. call[u].at = "forget" => Droppable(call[u].rest)' /\ catalog'[call[u].run] # "keep"
          BY <5>1, <5>3, <5>5, <5>6 DEF JudgedCall
        <5>9. call[u].at = "entries" => \A r \in Runs : catalog'[r] = "keep" => r \in call[u].physical
          BY <5>1, <5>3 DEF JudgedCall
        <5>10. call[u].at \in {"tables", "entries"} => call[u].protected = Manifests!Pinned'
          BY <5>1, <5>4 DEF JudgedCall
        <5> QED
          BY <5>1, <5>7, <5>8, <5>9, <5>10 DEF JudgedCall, Droppable
      <4> QED
        BY <4>1, <4>2
    <3> QED
      BY <3>1 DEF Judged
  <2> QED
    BY <2>2, <2>6, <2>7
<1> QED
  BY <1>1, <1>4, <1>5 DEF ManifestInv

\* A table is dropped; what is left to drop shrinks.
LEMMA DropStep ==
    ASSUME ManifestInv, NEW w \in Workers, NEW r \in Runs, Manifests!Drop(w, r)
    PROVE  ManifestInv'
<1>1. /\ call[w].at = "drop" /\ r \in call[w].todo /\ call \in [Workers -> ManifestCall]
      /\ UNCHANGED <<tracker, runRows, catalog, overlap>>
      /\ tables' = IF r \in call[w].physical THEN tables \ {r} ELSE tables
  BY DEF ManifestInv, ManifestsTyped, Manifests!Drop, Manifests!env
<1>2. call[w] \in DropCall
  BY <1>1, ManifestFields
<1> DEFINE rest == [call[w] EXCEPT !.todo = @ \ {r}, !.physical = @ \ {r}]
<1>3. rest \in DropCall /\ rest.todo = call[w].todo \ {r} /\ rest.physical = call[w].physical \ {r}
  BY <1>2 DEF DropCall
<1>4. \/ call' = [call EXCEPT ![w] = rest]
      \/ call' = [call EXCEPT ![w] = [at |-> "forget", run |-> r, rest |-> rest]]
  BY DEF Manifests!Drop, Manifests!Goto
<1> HIDE DEF rest
<1>5. PICK c \in ManifestCall :
         /\ call' = [call EXCEPT ![w] = c]
         /\ c = rest \/ c = [at |-> "forget", run |-> r, rest |-> rest]
  BY <1>3, <1>4 DEF ManifestCall
<1>6. rest.at = "drop" /\ c.at \in {"drop", "forget"}
  BY <1>3, <1>5 DEF DropCall
<1>7. ManifestsTyped'
  BY <1>1, <1>5 DEF ManifestInv, ManifestsTyped
<1>8. ASSUME ~overlap PROVE CallsApart' /\ KeptThere' /\ Judged'
  <2>1. /\ CallsApart /\ KeptThere /\ Judged
        /\ call'[w] = c /\ \A u \in Workers : u # w => call'[u] = call[u]
    BY <1>1, <1>5, <1>8 DEF ManifestInv, ManifestsTyped
  <2>2. CallsApart'
    BY <1>1, <1>6, <2>1 DEF CallsApart, CleanupAt
  <2>3. catalog[r] # "keep" /\ Droppable(rest)
    <3>1. Droppable(call[w])
      BY <1>1, <2>1 DEF Judged, JudgedCall
    <3> QED
      BY <1>1, <1>3, <3>1 DEF Droppable
  <2>4. KeptThere'
    <3>1. \A q \in Runs : catalog'[q] = "keep" => q \in tables'
      BY <1>1, <2>1, <2>3 DEF KeptThere
    <3>2. ASSUME NEW u \in Workers PROVE KeptCall(call[u])'
      <4>1. call'[u].at # "pin"
        BY <1>1, <1>6, <2>1 DEF CallsApart, CleanupAt
      <4>2. call'[u].at = "put" => call'[u] = call[u] /\ KeptCall(call[u])
        BY <1>6, <2>1 DEF KeptThere
      <4> QED
        BY <1>1, <4>1, <4>2 DEF KeptCall
    <3> QED
      BY <3>1, <3>2 DEF KeptThere
  <2>5. Judged'
    <3>1. Manifests!Pinned' = Manifests!Pinned
      BY <1>1 DEF Manifests!Pinned
    <3>2. JudgedCall(c)
      BY <1>5, <1>6, <2>3 DEF JudgedCall
    <3>3. ASSUME NEW u \in Workers PROVE JudgedCall(call[u])'
      <4>1. JudgedCall(call'[u])
        BY <2>1, <3>2 DEF Judged
      <4> QED
        BY <1>1, <3>1, <4>1 DEF JudgedCall, Droppable
    <3> QED
      BY <3>3 DEF Judged
  <2> QED
    BY <2>2, <2>4, <2>5
<1> QED
  BY <1>1, <1>7, <1>8 DEF ManifestInv

\* The entry of a table that nobody keeps goes.
LEMMA ForgetStep ==
    ASSUME Manifests!ManifestAssumption, ManifestInv, NEW w \in Workers, Manifests!Forget(w)
    PROVE  ManifestInv'
<1> DEFINE run == call[w].run
           c == call[w].rest
<1>1. /\ call[w].at = "forget" /\ call \in [Workers -> ManifestCall]
      /\ UNCHANGED <<tracker, runRows, tables, overlap>>
      /\ catalog' = [catalog EXCEPT ![run] = None] /\ call' = [call EXCEPT ![w] = c]
  BY DEF ManifestInv, ManifestsTyped, Manifests!Forget, Manifests!Goto, Manifests!env
<1>2. run \in Runs /\ c \in DropCall /\ None # "keep"
  BY <1>1, ManifestFields DEF Manifests!ManifestAssumption
<1> HIDE DEF run, c
<1>3. c \in ManifestCall /\ c.at = "drop"
  BY <1>2 DEF ManifestCall, DropCall
<1>4. ManifestsTyped'
  BY <1>1, <1>2, <1>3 DEF ManifestInv, ManifestsTyped
<1>5. ASSUME ~overlap PROVE CallsApart' /\ KeptThere' /\ Judged'
  <2>1. /\ CallsApart /\ KeptThere /\ Judged /\ catalog \in [Runs -> Policies \cup {None}]
        /\ call'[w] = c /\ \A u \in Workers : u # w => call'[u] = call[u]
    BY <1>1, <1>5 DEF ManifestInv, ManifestsTyped
  <2>2. CallsApart'
    BY <1>1, <1>3, <2>1 DEF CallsApart, CleanupAt
  <2>3. catalog[run] # "keep" /\ Droppable(c)
    BY <1>1, <2>1 DEF Judged, JudgedCall, run, c
  <2>4. \A r \in Runs : catalog'[r] = "keep" <=> catalog[r] = "keep"
    BY <1>1, <1>2, <2>1, <2>3
  <2>5. KeptThere'
    <3>1. \A r \in Runs : catalog'[r] = "keep" => r \in tables
      BY <2>1, <2>4 DEF KeptThere
    <3>2. ASSUME NEW u \in Workers PROVE KeptCall(call[u])'
      <4>1. call'[u].at \in {"put", "pin"} => call'[u] = call[u] /\ KeptCall(call[u]) /\ call[u].run \in Runs
        BY <1>1, <1>3, <2>1, ManifestFields DEF KeptThere
      <4> QED
        BY <1>1, <2>4, <4>1 DEF KeptCall
    <3> QED
      BY <1>1, <3>1, <3>2 DEF KeptThere
  <2>6. Judged'
    <3>1. Manifests!Pinned' = Manifests!Pinned
      BY <1>1 DEF Manifests!Pinned
    <3>2. JudgedCall(c)
      BY <1>3, <2>3 DEF JudgedCall
    <3>3. ASSUME NEW d \in DropCall, Droppable(d) PROVE Droppable(d)'
      BY <2>4, <3>1, <3>3 DEF Droppable, DropCall
    <3>4. ASSUME NEW u \in Workers PROVE JudgedCall(call[u])'
      <4>1. JudgedCall(call'[u]) /\ call'[u] \in ManifestCall
        BY <1>1, <1>3, <2>1, <3>2 DEF Judged
      <4>2. /\ call'[u].at = "drop" => call'[u] \in DropCall
            /\ call'[u].at = "forget" => call'[u].run \in Runs /\ call'[u].rest \in DropCall
        BY <4>1, ManifestFields
      <4>3. ASSUME call'[u].at = "drop" PROVE Droppable(call'[u]) /\ Droppable(call[u])'
        <5>1. Droppable(call'[u]) /\ call'[u] \in DropCall
          BY <4>1, <4>2, <4>3 DEF JudgedCall
        <5> QED
          BY <2>4, <3>1, <5>1 DEF Droppable, DropCall
      <4>4. ASSUME call'[u].at = "forget" PROVE catalog'[call'[u].run] # "keep" /\ Droppable(call[u].rest)'
        <5>1. Droppable(call'[u].rest) /\ call'[u].rest \in DropCall /\ catalog[call'[u].run] # "keep"
          BY <4>1, <4>2, <4>4 DEF JudgedCall
        <5> QED
          BY <2>4, <3>1, <4>2, <4>4, <5>1 DEF Droppable, DropCall
      <4>5. call'[u].at = "entries" => \A r \in Runs : catalog'[r] = "keep" => r \in call'[u].physical
        BY <2>4, <4>1 DEF JudgedCall
      <4>6. call'[u].at \in {"tables", "entries"} => call'[u].protected = Manifests!Pinned'
        BY <3>1, <4>1 DEF JudgedCall
      <4> QED
        BY <4>3, <4>4, <4>5, <4>6 DEF JudgedCall
    <3> QED
      BY <3>4 DEF Judged
  <2> QED
    BY <2>2, <2>5, <2>6
<1> QED
  BY <1>1, <1>4, <1>5 DEF ManifestInv

\* The candidates are judged: what is neither kept nor protected is to go.
LEMMA JudgeStep ==
    ASSUME ManifestInv, NEW w \in Workers, Manifests!ListTables(w) \/ Manifests!ListEntries(w)
    PROVE  ManifestInv'
<1>1. /\ call[w].at \in {"tables", "entries"} /\ call \in [Workers -> ManifestCall]
      /\ UNCHANGED <<tracker, runRows, tables, catalog, overlap>>
      /\ tables \subseteq Runs
  BY DEF ManifestInv, ManifestsTyped, Manifests!ListTables, Manifests!ListEntries, Manifests!permutations,
         Manifests!env
<1>2. ~overlap => \A u \in Workers : call[u].at \notin {"delete", "add", "pin"}
  BY <1>1 DEF ManifestInv, CallsApart, CleanupAt
<1>3. CASE Manifests!ListTables(w)
  <2> DEFINE c == [at |-> "entries", protected |-> call[w].protected, physical |-> tables]
  <2>1. call[w].at = "tables" /\ call' = [call EXCEPT ![w] = c]
    BY <1>3 DEF Manifests!ListTables, Manifests!Goto
  <2>2. c \in ManifestCall
    BY <1>1, <2>1, ManifestFields DEF ManifestCall
  <2>3. ~overlap => JudgedCall(c) /\ KeptCall(c)
    BY <2>1 DEF ManifestInv, KeptThere, KeptCall, Judged, JudgedCall
  <2>4. c.at = "entries"
    OBVIOUS
  <2> HIDE DEF c
  <2> QED
    BY <1>1, <1>2, <2>1, <2>2, <2>3, <2>4, QuietCall
<1>4. CASE Manifests!ListEntries(w)
  <2> DEFINE todo == {r \in Manifests!Candidates(call[w]) : ~Manifests!ShouldKeep(call[w], r)}
             c == [at |-> "drop", todo |-> todo, physical |-> todo \cap call[w].physical]
  <2>1. call[w].at = "entries" /\ call' = [call EXCEPT ![w] = c]
    BY <1>4 DEF Manifests!ListEntries, Manifests!Goto
  <2>2. call[w].physical \subseteq Runs
    BY <1>1, <2>1, ManifestFields
  <2>3. todo \subseteq Runs
    BY <2>2 DEF Manifests!Candidates
  <2>4. c \in DropCall /\ c.at = "drop" /\ c.todo = todo /\ c.physical = todo \cap call[w].physical
    BY <2>2, <2>3 DEF DropCall
  <2>5. ~overlap => Droppable(c)
    <3> SUFFICES ASSUME ~overlap PROVE Droppable(c)
      OBVIOUS
    <3>1. /\ call[w].protected = Manifests!Pinned
          /\ \A r \in Runs : catalog[r] = "keep" => r \in call[w].physical
      BY <2>1 DEF ManifestInv, Judged, JudgedCall
    <3>2. ASSUME NEW r \in todo PROVE catalog[r] # "keep"
      BY <2>3, <3>1 DEF Manifests!ShouldKeep
    <3>3. ASSUME NEW r \in todo \cap call[w].physical PROVE r \in todo /\ r \notin Manifests!Pinned
      BY <3>1 DEF Manifests!ShouldKeep
    <3> HIDE DEF todo, c
    <3> QED
      BY <2>4, <3>2, <3>3 DEF Droppable
  <2> HIDE DEF todo, c
  <2>6. ~overlap => JudgedCall(c) /\ KeptCall(c)
    BY <2>4, <2>5 DEF JudgedCall, KeptCall
  <2>7. c \in ManifestCall
    BY <2>4 DEF ManifestCall
  <2> QED
    BY <1>1, <1>2, <2>1, <2>4, <2>6, <2>7, QuietCall
<1> QED
  BY <1>3, <1>4

\* A call of a training job or of an import goes on, fails, ends or dies.
LEMMA CallGoesOn ==
    ASSUME Manifests!ManifestAssumption, ManifestInv, NEW w \in Workers,
           Manifests!RecordGet(w) \/ Manifests!PutFails(w) \/ Manifests!EndCleanup(w) \/ Manifests!Die(w)
    PROVE  ManifestInv'
<1>1. /\ call \in [Workers -> ManifestCall] /\ catalog \in [Runs -> Policies \cup {None}] /\ tables \subseteq Runs
      /\ [at |-> "idle"] \in ManifestCall
      /\ \A r \in Runs : /\ [at |-> "train", run |-> r] \in ManifestCall
                         /\ \A policy \in Policies : [at |-> "put", run |-> r, policy |-> policy] \in ManifestCall
  BY DEF ManifestInv, ManifestsTyped, ManifestCall
<1>2. CASE Manifests!RecordGet(w)
  <2> DEFINE run == call[w].run
             policy == IF catalog[run] = None THEN "auto" ELSE catalog[run]
             c == [at |-> "put", run |-> run, policy |-> policy]
  <2>1. /\ call[w].at = "get" /\ call' = [call EXCEPT ![w] = c]
        /\ UNCHANGED <<tracker, runRows, tables, catalog, overlap>>
        /\ overlap \/ \A u \in Workers : call[u].at # "pin"
    BY <1>2 DEF Manifests!RecordGet, Manifests!At, Manifests!Goto, Manifests!permutations, Manifests!env
  <2>2. run \in Runs /\ None # "keep"
    BY <1>1, <2>1, ManifestFields DEF Manifests!ManifestAssumption
  <2>3. policy \in Policies /\ (policy = "keep" <=> catalog[run] = "keep")
    BY <1>1, <2>2 DEF Policies
  <2>4. c \in ManifestCall /\ c.at = "put" /\ c.run = run /\ c.policy = policy
    BY <1>1, <2>2, <2>3
  <2> HIDE DEF run, policy, c
  <2>5. KeptCall(c) /\ JudgedCall(c)
    BY <2>3, <2>4 DEF KeptCall, JudgedCall
  <2> QED
    BY <1>1, <2>1, <2>4, <2>5, QuietCall DEF CleanupAt
<1>3. CASE Manifests!PutFails(w) \/ Manifests!EndCleanup(w) \/ Manifests!Die(w)
  <2>1. PICK c \in ManifestCall : c.at \in {"idle", "train"} /\ call' = [call EXCEPT ![w] = c]
    <3>1. CASE Manifests!PutFails(w)
      <4>1. call[w].at = "put" /\ call' = [call EXCEPT ![w] = [at |-> "train", run |-> call[w].run]]
        BY <3>1 DEF Manifests!PutFails, Manifests!Goto
      <4>2. call[w].run \in Runs
        BY <1>1, <4>1, ManifestFields
      <4> QED
        BY <1>1, <4>1, <4>2
    <3>2. CASE Manifests!EndCleanup(w) \/ Manifests!Die(w)
      BY <1>1, <3>2 DEF Manifests!EndCleanup, Manifests!Die, Manifests!Return, Manifests!Goto, Manifests!Idle
    <3> QED
      BY <1>3, <3>1, <3>2
  <2>2. UNCHANGED <<tracker, runRows, tables, catalog, overlap>>
    BY <1>3 DEF Manifests!PutFails, Manifests!EndCleanup, Manifests!Die, Manifests!permutations, Manifests!env
  <2>3. KeptCall(c) /\ JudgedCall(c)
    BY <2>1 DEF KeptCall, JudgedCall
  <2> QED
    BY <1>1, <2>1, <2>2, <2>3, QuietCall DEF CleanupAt
<1> QED
  BY <1>2, <1>3

\* A manifest is about to be replaced: no cleanup runs, unless cleanups overlap.
LEMMA ReplaceBegins ==
    ASSUME Manifests!ManifestAssumption, ManifestInv, NEW w \in Workers,
           Manifests!RecordRun(w) \/ \E conflict \in {"external-wins", "lake-wins", "append-superseding"} :
                                        Manifests!Import(w, conflict)
    PROVE  ManifestInv'
<1>1. /\ call \in [Workers -> ManifestCall] /\ tracker \in [Runs -> 0 .. MaxContent] /\ tables \subseteq Runs
      /\ MaxContent \in Nat /\ [at |-> "idle"] \in ManifestCall
      /\ UNCHANGED <<tracker, runRows, tables, catalog, overlap>>
  BY DEF ManifestInv, ManifestsTyped, ManifestCall, Manifests!ManifestAssumption, Manifests!RecordRun,
         Manifests!Import, Manifests!permutations, Manifests!env
<1>2. \A S \in SUBSET Manifest : [at |-> "delete", manifests |-> S] \in ManifestCall
  BY DEF ManifestCall
<1>3. PICK c \in ManifestCall :
         /\ call' = [call EXCEPT ![w] = c]
         /\ c.at = "idle" \/ (c.at = "delete" /\ (overlap \/ \A u \in Workers : call[u].at \notin CleanupAt))
  <2>1. CASE Manifests!RecordRun(w)
    <3>1. \/ call' = [call EXCEPT ![w] = [at |-> "idle"]]
          \/ /\ call' = [call EXCEPT ![w] = [at |-> "delete",
                                             manifests |-> {[id |-> <<call[w].run, 0>>, content |-> 0]}]]
             /\ overlap \/ \A u \in Workers : call[u].at \notin CleanupAt
      BY <2>1 DEF Manifests!RecordRun, Manifests!MayChange, Manifests!Cleaning, Manifests!At, Manifests!Replace,
                  Manifests!Return, Manifests!Goto, Manifests!Idle, Manifests!BaseId, Manifests!LakeContent, CleanupAt
    <3>2. call[w].run \in Runs
      <4>1. call[w].at = "train"
        BY <2>1 DEF Manifests!RecordRun
      <4> QED
        BY <1>1, <4>1, ManifestFields
    <3>3. {[id |-> <<call[w].run, 0>>, content |-> 0]} \in SUBSET Manifest
      BY <1>1, <3>2 DEF Manifest
    <3> QED
      BY <1>1, <1>2, <3>1, <3>3
  <2>2. ASSUME NEW conflict \in {"external-wins", "lake-wins", "append-superseding"}, Manifests!Import(w, conflict)
        PROVE  \E c \in ManifestCall :
                  /\ call' = [call EXCEPT ![w] = c]
                  /\ c.at = "delete" /\ (overlap \/ \A u \in Workers : call[u].at \notin CleanupAt)
    <3>1. PICK existing \in Manifests!Indexes :
             call' = [call EXCEPT ![w] =
                        [at |-> "delete",
                         manifests |-> UNION {Manifests!Classify(r, tracker[r], existing[r], conflict) :
                                                r \in {q \in Runs : tracker[q] # 0}}]]
      BY <2>2 DEF Manifests!Import, Manifests!Replace, Manifests!Goto
    <3> DEFINE S == UNION {Manifests!Classify(r, tracker[r], existing[r], conflict) :
                             r \in {q \in Runs : tracker[q] # 0}}
    <3>2. \A r \in Runs : Manifests!Classify(r, tracker[r], existing[r], conflict) \subseteq Manifest
      BY <1>1, ClassifyTyped
    <3>3. S \in SUBSET Manifest
      BY <3>2
    <3>4. overlap \/ \A u \in Workers : call[u].at \notin CleanupAt
      BY <2>2 DEF Manifests!Import, Manifests!MayChange, Manifests!Cleaning, Manifests!At, CleanupAt
    <3>5. call' = [call EXCEPT ![w] = [at |-> "delete", manifests |-> S]]
      BY <3>1
    <3> HIDE DEF S
    <3> QED
      BY <1>2, <3>3, <3>4, <3>5
  <2> QED
    BY <2>1, <2>2
<1>4. KeptCall(c) /\ JudgedCall(c)
  BY <1>3 DEF KeptCall, JudgedCall
<1> QED
  BY <1>1, <1>3, <1>4, QuietCall DEF CleanupAt

\* A training job, a change of policy or a cleanup begins.
LEMMA CallBegins ==
    ASSUME ManifestInv, NEW w \in Workers,
           \/ Manifests!Gather(w)
           \/ \E r \in Runs : \/ Manifests!Materialize(w, r)
                              \/ \E policy \in Policies : Manifests!SetPolicy(w, r, policy)
    PROVE  ManifestInv'
<1>1. /\ call \in [Workers -> ManifestCall] /\ tables \subseteq Runs
      /\ UNCHANGED <<tracker, runRows, catalog, overlap>>
  BY DEF ManifestInv, ManifestsTyped, Manifests!Gather, Manifests!Materialize, Manifests!SetPolicy,
         Manifests!permutations, Manifests!env
<1>2. CASE Manifests!Gather(w)
  <2> DEFINE c == [at |-> "tables", protected |-> Manifests!Pinned]
  <2>1. c \in ManifestCall
    BY PinnedRuns DEF ManifestInv, ManifestCall
  <2>2. /\ call' = [call EXCEPT ![w] = c] /\ UNCHANGED tables
        /\ overlap \/ \A u \in Workers : call[u].at \notin {"delete", "add", "pin"}
    BY <1>2 DEF Manifests!Gather, Manifests!Replacing, Manifests!At, Manifests!Goto, Manifests!permutations
  <2>3. c.at = "tables" /\ KeptCall(c) /\ JudgedCall(c)
    BY DEF KeptCall, JudgedCall
  <2> HIDE DEF c
  <2> QED
    BY <1>1, <2>1, <2>2, <2>3, QuietCall
<1>3. ASSUME NEW r \in Runs, Manifests!Materialize(w, r) PROVE ManifestInv'
  <2> DEFINE c == [at |-> "get", run |-> r]
  <2>1. c \in ManifestCall
    BY DEF ManifestCall
  <2>2. call' = [call EXCEPT ![w] = c] /\ tables' = tables \cup {r}
    BY <1>3 DEF Manifests!Materialize, Manifests!Goto
  <2>3. c.at = "get" /\ KeptCall(c) /\ JudgedCall(c)
    BY DEF KeptCall, JudgedCall
  <2> HIDE DEF c
  <2> QED
    BY <1>1, <2>1, <2>2, <2>3, QuietCall DEF CleanupAt
<1>4. ASSUME NEW r \in Runs, NEW policy \in Policies, Manifests!SetPolicy(w, r, policy) PROVE ManifestInv'
  <2> DEFINE c == [at |-> "pin", run |-> r, policy |-> policy]
  <2>1. c \in ManifestCall
    BY DEF ManifestCall
  <2>2. /\ call' = [call EXCEPT ![w] = c] /\ UNCHANGED tables
        /\ overlap \/ (/\ r \in tables
                       /\ \A u \in Workers : call[u].at # "put" /\ call[u].at \notin CleanupAt)
    BY <1>4 DEF Manifests!SetPolicy, Manifests!MayChange, Manifests!Cleaning, Manifests!At, Manifests!Goto,
                Manifests!permutations, CleanupAt
  <2>3. c.at = "pin" /\ JudgedCall(c) /\ (~overlap => KeptCall(c))
    BY <2>2 DEF KeptCall, JudgedCall
  <2> HIDE DEF c
  <2> QED
    BY <1>1, <2>1, <2>2, <2>3, QuietCall DEF CleanupAt
<1> QED
  BY <1>2, <1>3, <1>4

LEMMA ManifestsInitially == Manifests!ManifestAssumption /\ Manifests!Init => ManifestInv
<1> SUFFICES ASSUME Manifests!ManifestAssumption, Manifests!Init PROVE ManifestInv
  OBVIOUS
<1>1. /\ tracker = [r \in Runs |-> 0] /\ runRows = {} /\ catalog \in [Runs -> Policies \cup {None}]
      /\ tables = {r \in Runs : catalog[r] # None} /\ call = [w \in Workers |-> [at |-> "idle"]]
      /\ MaxContent \in Nat /\ None # "keep"
  BY DEF Manifests!Init, Manifests!Policies, Policies, Manifests!Idle, Manifests!ManifestAssumption
<1>2. ManifestsTyped
  BY <1>1 DEF ManifestsTyped, ManifestCall
<1>3. CallsApart /\ KeptThere /\ Judged
  BY <1>1 DEF CallsApart, CleanupAt, KeptThere, KeptCall, Judged, JudgedCall
<1> QED
  BY <1>2, <1>3 DEF ManifestInv

LEMMA ManifestsInductive ==
    Manifests!ManifestAssumption /\ ManifestInv /\ [Manifests!Next]_(Manifests!vars) => ManifestInv'
<1> SUFFICES ASSUME Manifests!ManifestAssumption, ManifestInv, [Manifests!Next]_(Manifests!vars) PROVE ManifestInv'
  OBVIOUS
<1>1. ASSUME NEW w \in Workers, Manifests!Step(w) PROVE ManifestInv'
  BY <1>1, ReplaceStep, CallGoesOn, PutStep, ReplaceBegins, JudgeStep, ForgetStep, DropStep DEF Manifests!Step
<1>2. ASSUME NEW r \in Runs, Manifests!Edit(r) PROVE ManifestInv'
  <2>1. UNCHANGED <<runRows, tables, catalog, call, overlap>>
    BY <1>2 DEF Manifests!Edit, Manifests!permutations, Manifests!env
  <2>2. ManifestsTyped'
    BY <1>2, <2>1 DEF ManifestInv, ManifestsTyped, Manifests!Edit, Manifests!ManifestAssumption
  <2> QED
    BY <2>1, <2>2 DEF ManifestInv, CallsApart, KeptThere, KeptCall, Judged, JudgedCall, Droppable, Manifests!Pinned
<1>3. CASE UNCHANGED Manifests!vars
  <2>1. UNCHANGED <<tracker, runRows, tables, catalog, call, overlap>>
    BY <1>3 DEF Manifests!vars, Manifests!permutations, Manifests!env
  <2> QED
    BY <2>1 DEF ManifestInv, ManifestsTyped, CallsApart, KeptThere, KeptCall, Judged, JudgedCall, Droppable,
                Manifests!Pinned
<1>4. ASSUME NEW w \in Workers,
             \/ Manifests!Die(w) \/ Manifests!Gather(w)
             \/ \E conflict \in {"external-wins", "lake-wins", "append-superseding"} : Manifests!Import(w, conflict)
             \/ \E r \in Runs : \/ Manifests!Materialize(w, r)
                                \/ \E policy \in Policies : Manifests!SetPolicy(w, r, policy)
      PROVE  ManifestInv'
  BY <1>4, CallGoesOn, ReplaceBegins, CallBegins
<1> QED
  BY <1>1, <1>2, <1>3, <1>4 DEF Manifests!Next, Manifests!Policies, Policies

\* As long as no manifest is recorded or imported and no policy set while a cleanup runs, a
\* cleanup drops no table whose plan a row of training_runs names and none that an operator
\* keeps, with any number of runs, of training jobs that build tables and write entries back
\* meanwhile, and of cleanups (training_permutation_catalog.py).  A run that is recorded
\* between a cleanup's lookup and its drop is not covered.
THEOREM ReferencedTablesStay ==
    ASSUME Manifests!ManifestAssumption PROVE Manifests!Spec => Manifests!OnlyUnreferencedDropped
<1>1. Manifests!Init => ManifestInv
  BY ManifestsInitially
<1>2. ManifestInv /\ [Manifests!Next]_(Manifests!vars) => ManifestInv'
  BY ManifestsInductive
<1>3. ManifestInv =>
        [\A w \in Workers, r \in Runs :
            ~overlap /\ Manifests!Drop(w, r) /\ r \in tables \ tables'
               => r \notin Manifests!Pinned /\ catalog[r] # "keep"]_(Manifests!vars)
  <2> SUFFICES ASSUME ManifestInv, NEW w \in Workers, NEW r \in Runs,
                      ~overlap, Manifests!Drop(w, r), r \in tables \ tables'
               PROVE  r \notin Manifests!Pinned /\ catalog[r] # "keep"
    OBVIOUS
  <2>1. call[w].at = "drop" /\ r \in call[w].todo /\ r \in call[w].physical
    BY DEF Manifests!Drop
  <2>2. Droppable(call[w])
    BY <2>1 DEF ManifestInv, Judged, JudgedCall
  <2> QED
    BY <2>1, <2>2 DEF Droppable
<1> QED
  BY <1>1, <1>2, <1>3, PTL DEF Manifests!Spec, Manifests!OnlyUnreferencedDropped
=============================================================================

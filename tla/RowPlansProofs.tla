--------------------------- MODULE RowPlansProofs ---------------------------
(***************************************************************************)
(* Proofs about RowPlans, for any number of plans, chunks, compiles and    *)
(* retention passes, any clock and any number of faults.                   *)
(***************************************************************************)
EXTENDS RowPlans, FiniteSetTheorems, TLAPS

Rows == UNION {[S -> Header] : S \in SUBSET Plans}
CompileState == [at : {"idle", "write", "publish"}, plan : Plans \cup {None}, freeze : BOOLEAN,
                 next : Nat, since : Nat, again : BOOLEAN]
PruneState == [at : {"idle", "check", "delete", "recount", "flip", "supersede", "mark"},
               active : SUBSET Plans, victims : SUBSET Plans, supersede : SUBSET Plans, rows : Rows]
CompactState == [at : {"idle", "scan", "recheck", "delete"}, cutoff : Int, heads : SUBSET Plans,
                 victims : SUBSET Plans]
RefState ==
    {ref \in [at : {"absent", "adding", "there"}, plan : Plans \cup {None}, owed : BOOLEAN] :
        /\ ref.at # "absent" => ref.plan \in Plans
        /\ ref.owed => ref.at = "there"}

ChunksTyped ==
    /\ chunks = [p \in Plans |-> chunks[p]]
    /\ \A p \in Plans : chunks[p] \in [ChunksOf(p) -> Nat]

TypeOK ==
    /\ header \in [Plans -> Header \cup {None}]
    /\ ChunksTyped
    /\ refs \in [Records -> RefState]
    /\ compile \in [Compilers -> CompileState]
    /\ prune \in [Pruners -> PruneState]
    /\ compact \in [Compactors -> CompactState]
    /\ clock \in Nat \ {0} /\ faults \in Nat /\ overlap \in BOOLEAN

\* Headers are of the past.
Dated == \A p \in Plans : header[p] # None => header[p].at <= clock

\* A compile that is under way has committed within the grace window.
CompilesFast ==
    \A k \in Compilers :
        IF compile[k].at = "idle" THEN compile[k].plan = None /\ ~compile[k].again
        ELSE compile[k].plan \in Plans /\ compile[k].since <= clock /\ clock - compile[k].since <= Grace

\* Retention works on plans that have a header; when it marks a plan it knows that
\* the chunks it has seen under that header are gone.
PruneKnown(r) ==
    /\ \A p \in prune[r].active \cup prune[r].victims \cup prune[r].supersede : header[p] # None
    /\ prune[r].at = "idle" => prune[r].victims = {}
    /\ prune[r].at \notin {"flip", "mark"} => DOMAIN prune[r].rows = {}
    /\ \A p \in DOMAIN prune[r].rows : prune[r].rows[p].at <= clock
    /\ prune[r].at = "flip" => \A p \in DOMAIN prune[r].rows :
           \A i \in Stored(p) : chunks[p][i] >= prune[r].rows[p].at
PrunesKnown == \A r \in Pruners : PruneKnown(r)

-----------------------------------------------------------------------------
\* What holds without overlap.

\* One retention pass at a time, and none beside a repeated compile.
OneAtATime ==
    /\ \A r, s \in Pruners : prune[r].at # "idle" /\ prune[s].at # "idle" => r = s
    /\ \A c, d \in Compactors : compact[c].at # "idle" /\ compact[d].at # "idle" => c = d
    /\ \A r \in Pruners, c \in Compactors : prune[r].at = "idle" \/ compact[c].at = "idle"
    /\ Retaining => ~Recompiling

\* The only compile of a plan: nothing is published, and its last commit is the newest chunk.
Sole(k) ==
    LET p == compile[k].plan
    IN  compile[k].at # "idle" /\ ~compile[k].again =>
            /\ header[p] = None
            /\ \A j \in Compilers \ {k} : compile[j].plan # p
            /\ \A i \in Stored(p) : i < compile[k].next
            /\ Stored(p) # {} => \E i \in Stored(p) : chunks[p][i] >= compile[k].since

\* What was read back stays until the header is there.
Whole(k) == compile[k].at = "publish" => Complete(compile[k].plan)
CompilesSafe == \A k \in Compilers : Sole(k) /\ Whole(k)

OldEnough(p) == ~header[p].frozen /\ Cardinality(NewerPlans(header, p)) >= Retain

\* The victims of a pass stay old and, once looked up, owed to no record; nobody else
\* writes the headers that it has read.
PruneSafe(r) ==
    /\ \A p \in prune[r].victims : OldEnough(p)
    /\ prune[r].at \in {"delete", "recount", "flip"} =>
           \A t \in Records : refs[t].owed => refs[t].plan \notin prune[r].victims
    /\ prune[r].at = "flip" => DOMAIN prune[r].rows \subseteq prune[r].victims
    /\ \A p \in DOMAIN prune[r].rows : prune[r].rows[p] = header[p]
PrunesSafe == \A r \in Pruners : PruneSafe(r)

\* Nobody compiles what compaction deletes.
CompactSafe(c) ==
    /\ compact[c].at = "scan" => compact[c].cutoff + Grace <= clock
    /\ compact[c].at \in {"recheck", "delete"} => \A p \in compact[c].victims :
           Stored(p) # {} /\ \A k \in Compilers : compile[k].plan # p
    /\ compact[c].at = "delete" => \A p \in compact[c].victims : header[p] = None
CompactsSafe == \A c \in Compactors : CompactSafe(c)

\* A record counts on the plan.
Owed(p) == \E t \in Records : refs[t].owed /\ refs[t].plan = p

ReferencedReadable == \A t \in Records : refs[t].owed => Readable(refs[t].plan)
LostAreOld == \A p \in Plans : header[p] # None /\ ~Readable(p) => OldEnough(p)

Safe == /\ OneAtATime /\ CompilesSafe /\ PrunesSafe /\ CompactsSafe
        /\ ReferencedReadable /\ LostAreOld

\* An inductive invariant of the specification.
IInv == /\ TypeOK /\ Dated /\ CompilesFast /\ PrunesKnown /\ NoStrandedChunks
        /\ ~overlap => Safe

-----------------------------------------------------------------------------
\* The local state of a compile and of a retention pass, one field at a time.

CompileAt(k, label) == [k EXCEPT !.at = label]
CompileNext(k, i) == [k EXCEPT !.next = i]
CompileSince(k, t) == [k EXCEPT !.since = t]
CompileAgain(k) == [k EXCEPT !.again = TRUE]

LEMMA AtField ==
    ASSUME NEW k \in CompileState, NEW label \in {"idle", "write", "publish"}
    PROVE  LET j == CompileAt(k, label)
           IN  /\ j \in CompileState /\ j.at = label /\ j.plan = k.plan /\ j.next = k.next
               /\ j.since = k.since /\ j.again = k.again
  BY DEF CompileAt, CompileState

LEMMA NextField ==
    ASSUME NEW k \in CompileState, NEW i \in Nat
    PROVE  LET j == CompileNext(k, i)
           IN  /\ j \in CompileState /\ j.at = k.at /\ j.plan = k.plan /\ j.next = i
               /\ j.since = k.since /\ j.again = k.again
  BY DEF CompileNext, CompileState

LEMMA SinceField ==
    ASSUME NEW k \in CompileState, NEW t \in Nat
    PROVE  LET j == CompileSince(k, t)
           IN  /\ j \in CompileState /\ j.at = k.at /\ j.plan = k.plan /\ j.next = k.next
               /\ j.since = t /\ j.again = k.again
  BY DEF CompileSince, CompileState

LEMMA AgainField ==
    ASSUME NEW k \in CompileState
    PROVE  LET j == CompileAgain(k)
           IN  /\ j \in CompileState /\ j.at = k.at /\ j.plan = k.plan /\ j.next = k.next
               /\ j.since = k.since /\ j.again = TRUE
  BY DEF CompileAgain, CompileState

LEMMA CompileMoves ==
    ASSUME compile \in [Compilers -> CompileState], NEW k \in Compilers, NEW j \in CompileState,
           compile' = [compile EXCEPT ![k] = j]
    PROVE  /\ compile' \in [Compilers -> CompileState] /\ compile'[k] = j
           /\ \A h \in Compilers \ {k} : compile'[h] = compile[h]
  OBVIOUS

LEMMA PruneMoves ==
    ASSUME prune \in [Pruners -> PruneState], NEW r \in Pruners, NEW j \in PruneState,
           prune' = [prune EXCEPT ![r] = j]
    PROVE  /\ prune' \in [Pruners -> PruneState] /\ prune'[r] = j
           /\ \A h \in Pruners \ {r} : prune'[h] = prune[h]
  OBVIOUS

LEMMA CompactMoves ==
    ASSUME compact \in [Compactors -> CompactState], NEW c \in Compactors, NEW j \in CompactState,
           compact' = [compact EXCEPT ![c] = j]
    PROVE  /\ compact' \in [Compactors -> CompactState] /\ compact'[c] = j
           /\ \A h \in Compactors \ {c} : compact'[h] = compact[h]
  OBVIOUS

LEMMA OwedParts ==
    ASSUME IInv
    PROVE  \A t \in Records : refs[t].owed => refs[t].plan \in Plans /\ refs[t].at = "there"
  BY DEF IInv, TypeOK, RefState, NoRef

LEMMA NoRows == << >> \in Rows /\ DOMAIN << >> = {}
<1>1. << >> = [p \in {} |-> None] /\ DOMAIN << >> = {}
  OBVIOUS
<1>2. [p \in {} |-> None] \in [{} -> Header]
  OBVIOUS
<1> QED
  BY <1>1, <1>2 DEF Rows

LEMMA IdleStates ==
    /\ NoCompile \in CompileState /\ NoCompile.at = "idle" /\ NoCompile.plan = None /\ ~NoCompile.again
    /\ NoPrune \in PruneState /\ NoPrune.at = "idle" /\ NoPrune.active = {} /\ NoPrune.victims = {}
    /\ NoPrune.supersede = {} /\ DOMAIN NoPrune.rows = {}
    /\ NoCompact \in CompactState /\ NoCompact.at = "idle" /\ NoCompact.victims = {}
<1>1. NoCompile \in CompileState /\ NoCompile.at = "idle" /\ NoCompile.plan = None /\ ~NoCompile.again
  BY DEF NoCompile, CompileState
<1>2. /\ NoPrune \in PruneState /\ NoPrune.at = "idle" /\ NoPrune.active = {} /\ NoPrune.victims = {}
      /\ NoPrune.supersede = {} /\ NoPrune.rows = << >>
  BY NoRows DEF NoPrune, PruneState
<1>3. NoCompact \in CompactState /\ NoCompact.at = "idle" /\ NoCompact.victims = {}
  BY DEF NoCompact, CompactState
<1> QED
  BY <1>1, <1>2, <1>3, NoRows

-----------------------------------------------------------------------------
\* What a write and a delete of chunks leave.

LEMMA ChunkOfPlan ==
    ASSUME ChunksTyped, NEW p \in Plans, NEW i \in ChunksOf(p)
    PROVE  chunks[p][i] \in Nat
  BY DEF ChunksTyped

LEMMA WriteEffect ==
    ASSUME ChunksTyped, clock \in Nat, NEW p \in Plans, NEW i \in ChunksOf(p),
           chunks' = [chunks EXCEPT ![p][i] = IF @ = 0 THEN clock ELSE @]
    PROVE  /\ ChunksTyped'
           /\ chunks'[p][i] = IF chunks[p][i] = 0 THEN clock ELSE chunks[p][i]
           /\ \A q \in Plans : \A j \in ChunksOf(q) : q # p \/ j # i => chunks'[q][j] = chunks[q][j]
<1> DEFINE f == [chunks[p] EXCEPT ![i] = IF chunks[p][i] = 0 THEN clock ELSE chunks[p][i]]
<1>1. chunks' = [chunks EXCEPT ![p] = f]
  OBVIOUS
<1>2. chunks[p] \in [ChunksOf(p) -> Nat]
  BY DEF ChunksTyped
<1>3. /\ f \in [ChunksOf(p) -> Nat] /\ f[i] = IF chunks[p][i] = 0 THEN clock ELSE chunks[p][i]
      /\ \A j \in ChunksOf(p) : j # i => f[j] = chunks[p][j]
  BY <1>2
<1> HIDE DEF f
<1>4. DOMAIN chunks = Plans
  BY DEF ChunksTyped
<1>5. chunks'[p] = f /\ \A q \in Plans : q # p => chunks'[q] = chunks[q]
  BY <1>1, <1>4
<1>6. chunks' = [q \in Plans |-> chunks'[q]]
  BY <1>1, <1>4
<1>7. \A q \in Plans : chunks'[q] \in [ChunksOf(q) -> Nat]
  BY <1>3, <1>5 DEF ChunksTyped
<1> QED
  BY <1>3, <1>5, <1>6, <1>7 DEF ChunksTyped

LEMMA DeleteEffect ==
    ASSUME ChunksTyped, NEW S \in SUBSET Plans, DeleteChunks(S)
    PROVE  /\ ChunksTyped'
           /\ \A q \in S : \A i \in ChunksOf(q) : chunks'[q][i] = 0
           /\ \A q \in Plans \ S : chunks'[q] = chunks[q]
<1>1. \A q \in Plans : chunks'[q] = IF q \in S THEN NoChunks(q) ELSE chunks[q]
  BY DEF DeleteChunks
<1>2. chunks' = [q \in Plans |-> chunks'[q]]
  BY DEF DeleteChunks
<1>3. \A q \in Plans : NoChunks(q) \in [ChunksOf(q) -> Nat] /\ \A i \in ChunksOf(q) : NoChunks(q)[i] = 0
  BY DEF NoChunks
<1>4. \A q \in Plans : chunks'[q] \in [ChunksOf(q) -> Nat]
  BY <1>1, <1>3 DEF ChunksTyped
<1> QED
  BY <1>1, <1>2, <1>3, <1>4 DEF ChunksTyped

LEMMA CompleteMeans ==
    ASSUME NEW p \in Plans
    PROVE  Complete(p) <=> \A i \in ChunksOf(p) : chunks[p][i] > 0
  BY DEF Complete, Stored

-----------------------------------------------------------------------------
\* Compiles.

\* A compile that goes on, or ends, without touching the catalog.
LEMMA CompileOnlyStep ==
    ASSUME IInv, NEW k \in Compilers, NEW j \in CompileState, compile' = [compile EXCEPT ![k] = j],
           UNCHANGED <<header, chunks, refs, prune, compact, clock, overlap>>, faults' \in Nat,
           \/ j = NoCompile
           \/ /\ compile[k].at = "write" /\ j.at = "publish" /\ j.plan = compile[k].plan
              /\ j.next = compile[k].next /\ j.since = compile[k].since /\ j.again = compile[k].again
              /\ Complete(j.plan)
    PROVE  IInv'
<1>1. /\ compile' \in [Compilers -> CompileState] /\ compile'[k] = j
      /\ \A h \in Compilers \ {k} : compile'[h] = compile[h]
  BY CompileMoves DEF IInv, TypeOK
<1>2. TypeOK' /\ Dated' /\ PrunesKnown' /\ NoStrandedChunks'
  BY <1>1 DEF IInv, TypeOK, ChunksTyped, Dated, PrunesKnown, PruneKnown, NoStrandedChunks, Stored
<1>3. \A h \in Compilers : compile[h].at # "idle" => compile[h].plan \in Plans /\ compile[h].plan # None
  BY PlanAssumption DEF IInv, CompilesFast
<1>4. /\ j.plan = None \/ j.plan = compile[k].plan
      /\ j.at # "idle" => compile[k].at # "idle"
      /\ j.again => compile[k].again
  BY IdleStates
<1>5. CompilesFast'
  BY <1>1, IdleStates DEF IInv, CompilesFast
<1>6. ASSUME Safe PROVE Safe'
  <2>1. OneAtATime'
    BY <1>1, <1>4, <1>6 DEF Safe, OneAtATime, Retaining, Recompiling
  <2>2. CompilesSafe'
    <3>1. ASSUME NEW h \in Compilers PROVE Sole(h)' /\ Whole(h)'
      <4>1. Sole(h) /\ Whole(h)
        BY <1>6 DEF Safe, CompilesSafe
      <4>2. CASE h = k
        BY <1>1, <1>3, <1>4, <4>1, <4>2, IdleStates DEF Sole, Whole, Stored, Complete
      <4>3. CASE h # k
        BY <1>1, <1>3, <1>4, <4>1, <4>3 DEF Sole, Whole, Stored, Complete
      <4> QED
        BY <4>2, <4>3
    <3> QED
      BY <3>1 DEF CompilesSafe
  <2>3. PrunesSafe' /\ ReferencedReadable' /\ LostAreOld'
    BY <1>6 DEF Safe, PrunesSafe, PruneSafe, OldEnough, NewerPlans, ReferencedReadable, LostAreOld, Readable,
                Complete, Stored
  <2>4. CompactsSafe'
    <3>1. \A p \in Plans : p # None
      BY PlanAssumption
    <3>2. \A c \in Compactors : compact[c].victims \subseteq Plans
      BY DEF IInv, TypeOK, CompactState
    <3> QED
      BY <1>1, <1>4, <1>6, <3>1, <3>2 DEF Safe, CompactsSafe, CompactSafe, Stored
  <2> QED
    BY <2>1, <2>2, <2>3, <2>4 DEF Safe
<1> QED
  BY <1>2, <1>5, <1>6 DEF IInv

LEMMA StartStep ==
    ASSUME IInv, NEW k \in Compilers, NEW p \in Plans, NEW freeze \in BOOLEAN, Start(k, p, freeze)
    PROVE  IInv'
<1> DEFINE new == [at |-> "write", plan |-> p, freeze |-> freeze, next |-> 1, since |-> clock, again |-> Known(p)]
<1>1. /\ compile[k].at = "idle" /\ compile[k].plan = None
      /\ overlap \/ ~Known(p) \/ ~Retaining
      /\ compile' = [j \in Compilers |-> IF j = k THEN new
                       ELSE IF compile[j].plan = p THEN CompileAgain(compile[j]) ELSE compile[j]]
      /\ UNCHANGED <<header, chunks, refs, prune, compact, clock, faults, overlap>>
  BY DEF Start, CompileAgain, catalog, env, IInv, CompilesFast
<1>2. /\ new \in CompileState /\ new.at = "write" /\ new.plan = p /\ new.next = 1 /\ new.since = clock
      /\ new.again = Known(p) /\ Known(p) \in BOOLEAN
  BY DEF CompileState, IInv, TypeOK, Known
<1> HIDE DEF new
<1>3. \A j \in Compilers : compile[j] \in CompileState
  BY DEF IInv, TypeOK
<1>4. /\ compile' \in [Compilers -> CompileState] /\ compile'[k] = new
      /\ \A j \in Compilers \ {k} :
            /\ compile'[j].at = compile[j].at /\ compile'[j].plan = compile[j].plan
            /\ compile'[j].next = compile[j].next /\ compile'[j].since = compile[j].since
            /\ compile[j].plan # p => compile'[j] = compile[j]
            /\ compile[j].plan = p => compile'[j].again = TRUE
  BY <1>1, <1>2, <1>3, AgainField
<1>5. TypeOK' /\ Dated' /\ PrunesKnown' /\ NoStrandedChunks'
  BY <1>1, <1>4 DEF IInv, TypeOK, ChunksTyped, Dated, PrunesKnown, PruneKnown, NoStrandedChunks, Stored
<1>6. p # None /\ clock \in Nat /\ Grace \in Nat
  BY PlanAssumption, BoundAssumption DEF IInv, TypeOK
<1>7. CompilesFast'
  <2>1. ASSUME NEW j \in Compilers \ {k}
        PROVE  IF compile'[j].at = "idle" THEN compile'[j].plan = None /\ ~compile'[j].again
               ELSE compile'[j].plan \in Plans /\ compile'[j].since <= clock' /\ clock' - compile'[j].since <= Grace
    BY <1>1, <1>4, <1>6 DEF IInv, CompilesFast
  <2> QED
    BY <1>1, <1>2, <1>4, <1>6, <2>1 DEF CompilesFast
<1>8. ASSUME ~overlap, Safe PROVE Safe'
  <2>1. ~Known(p) => header[p] = None /\ Stored(p) = {} /\ \A j \in Compilers : compile[j].plan # p
    BY DEF Known
  <2>2. OneAtATime'
    <3>1. Retaining => ~Recompiling /\ ~Known(p)
      BY <1>1, <1>8 DEF Safe, OneAtATime
    <3>2. Retaining => ~Recompiling'
      BY <1>2, <1>4, <2>1, <3>1 DEF Recompiling
    <3> QED
      BY <1>1, <1>8, <3>2 DEF Safe, OneAtATime, Retaining
  <2>3. CompilesSafe'
    <3>1. ASSUME NEW h \in Compilers \ {k} PROVE Sole(h)' /\ Whole(h)'
      <4>1. Sole(h) /\ Whole(h)
        BY <1>8 DEF Safe, CompilesSafe
      <4>2. CASE compile[h].plan = p
        BY <1>1, <1>4, <4>1, <4>2 DEF Sole, Whole, Stored, Complete
      <4>3. CASE compile[h].plan # p
        BY <1>1, <1>2, <1>4, <4>1, <4>3 DEF Sole, Whole, Stored, Complete
      <4> QED
        BY <4>2, <4>3
    <3>2. Sole(k)' /\ Whole(k)'
      BY <1>1, <1>2, <1>4, <2>1 DEF Sole, Whole, Stored, Complete
    <3> QED
      BY <3>1, <3>2 DEF CompilesSafe
  <2>4. PrunesSafe' /\ ReferencedReadable' /\ LostAreOld'
    BY <1>1, <1>8 DEF Safe, PrunesSafe, PruneSafe, OldEnough, NewerPlans, ReferencedReadable, LostAreOld, Readable,
                      Complete, Stored
  <2>5. CompactsSafe'
    <3>1. ASSUME NEW c \in Compactors PROVE CompactSafe(c)'
      <4>1. CompactSafe(c)
        BY <1>8 DEF Safe, CompactsSafe
      <4>2. compact[c].at \in {"recheck", "delete"} => ~Known(p)
        BY <1>1, <1>8 DEF Retaining
      <4> QED
        BY <1>1, <1>2, <1>4, <2>1, <4>1, <4>2 DEF CompactSafe, Stored
    <3> QED
      BY <3>1 DEF CompactsSafe
  <2> QED
    BY <2>2, <2>3, <2>4, <2>5 DEF Safe
<1> QED
  BY <1>1, <1>5, <1>7, <1>8 DEF IInv

LEMMA ReadBackStep ==
    ASSUME IInv, NEW k \in Compilers, ReadBack(k)
    PROVE  IInv'
<1>1. /\ compile[k].at = "write" /\ UNCHANGED <<header, chunks, refs, prune, compact, clock, faults, overlap>>
      /\ compile' = [compile EXCEPT ![k] = IF Complete(compile[k].plan) THEN CompileAt(compile[k], "publish")
                                           ELSE NoCompile]
  BY DEF ReadBack, CompileAt, catalog, env
<1>2. compile[k] \in CompileState /\ faults \in Nat
  BY DEF IInv, TypeOK
<1> DEFINE j == CompileAt(compile[k], "publish")
<1>3. /\ j \in CompileState /\ j.at = "publish" /\ j.plan = compile[k].plan /\ j.next = compile[k].next
      /\ j.since = compile[k].since /\ j.again = compile[k].again
  BY <1>2, AtField
<1> HIDE DEF j
<1>4. CASE Complete(compile[k].plan)
  <2>1. compile' = [compile EXCEPT ![k] = j]
    BY <1>1, <1>4 DEF j
  <2> QED
    BY <1>1, <1>2, <1>3, <1>4, <2>1, CompileOnlyStep
<1>5. CASE ~Complete(compile[k].plan)
  <2>1. compile' = [compile EXCEPT ![k] = NoCompile]
    BY <1>1, <1>5
  <2> QED
    BY <1>1, <1>2, <2>1, CompileOnlyStep, IdleStates
<1> QED
  BY <1>4, <1>5

\* Plans that only get newer keep an old plan old.
LEMMA StaysOld ==
    ASSUME TypeOK, TypeOK', NEW q \in Plans, header[q] # None, OldEnough(q), header'[q] # None,
           header'[q].frozen = header[q].frozen, header'[q].at = header[q].at,
           \A u \in Plans : header[u] # None => header'[u] # None /\ header'[u].at >= header[u].at
    PROVE  OldEnough(q)'
<1>1. \A u \in Plans : u \in Nat /\ (header[u] # None => header[u].at \in Nat)
                                /\ (header'[u] # None => header'[u].at \in Nat)
  <2>1. \A u \in Plans : (header[u] # None => header[u] \in Header) /\ (header'[u] # None => header'[u] \in Header)
    BY DEF TypeOK
  <2> QED
    BY <2>1, PlanAssumption DEF Header
<1>2. NewerPlans(header, q) \subseteq NewerPlans(header', q)
  BY <1>1 DEF NewerPlans, Newer
<1>3. IsFiniteSet(NewerPlans(header', q)) /\ IsFiniteSet(NewerPlans(header, q))
  <2>1. NewerPlans(header', q) \subseteq Plans /\ NewerPlans(header, q) \subseteq Plans
    BY DEF NewerPlans
  <2> QED
    BY <2>1, FS_Subset, PlanAssumption
<1>4. /\ Cardinality(NewerPlans(header, q)) <= Cardinality(NewerPlans(header', q))
      /\ Cardinality(NewerPlans(header, q)) \in Nat /\ Cardinality(NewerPlans(header', q)) \in Nat
  BY <1>2, <1>3, FS_Subset, FS_CardinalityType
<1>5. Retain \in Nat
  BY BoundAssumption
<1> QED
  BY <1>4, <1>5 DEF OldEnough

LEMMA WriteChunkStep ==
    ASSUME IInv, NEW k \in Compilers, WriteChunk(k)
    PROVE  IInv'
<1>a. PICK p, i : p = compile[k].plan /\ i = compile[k].next
  OBVIOUS
<1> DEFINE new == CompileSince(CompileNext(compile[k], i + 1), clock)
<1>1. /\ compile[k].at = "write" /\ i \in ChunksOf(p) /\ compile' = [compile EXCEPT ![k] = new]
      /\ chunks' = [chunks EXCEPT ![p][i] = IF @ = 0 THEN clock ELSE @]
      /\ UNCHANGED <<header, refs, prune, compact, clock, faults, overlap>>
  BY <1>a DEF WriteChunk, CompileSince, CompileNext, env
<1>2. /\ compile \in [Compilers -> CompileState] /\ compile[k] \in CompileState /\ p \in Plans /\ i \in Nat
      /\ clock \in Nat \ {0} /\ ChunksTyped
  BY <1>a, <1>1 DEF IInv, TypeOK, CompilesFast, CompileState
<1>3. /\ new \in CompileState /\ new.at = "write" /\ new.plan = p /\ new.next = i + 1 /\ new.since = clock
      /\ new.again = compile[k].again
  <2>1. PICK n \in Nat, t \in Nat : n = i + 1 /\ t = clock
    BY <1>2
  <2> DEFINE j == CompileNext(compile[k], n)
             l == CompileSince(j, t)
  <2>2. /\ j \in CompileState /\ j.at = compile[k].at /\ j.plan = compile[k].plan /\ j.next = n
        /\ j.again = compile[k].again
    BY <1>2, NextField
  <2> HIDE DEF j
  <2>3. /\ l \in CompileState /\ l.at = j.at /\ l.plan = j.plan /\ l.next = j.next
        /\ l.since = t /\ l.again = j.again
    BY <2>2, SinceField
  <2>4. new = l
    BY <2>1 DEF j
  <2> QED
    BY <1>a, <1>1, <2>1, <2>2, <2>3, <2>4
<1> HIDE DEF new
<1>4. /\ compile' \in [Compilers -> CompileState] /\ compile'[k] = new
      /\ \A h \in Compilers \ {k} : compile'[h] = compile[h]
  BY <1>1, <1>2, <1>3, CompileMoves
<1>5. /\ ChunksTyped' /\ chunks'[p][i] = IF chunks[p][i] = 0 THEN clock ELSE chunks[p][i]
      /\ \A q \in Plans : \A j \in ChunksOf(q) : q # p \/ j # i => chunks'[q][j] = chunks[q][j]
  BY <1>1, <1>2, WriteEffect
<1>6. \A q \in Plans : \A j \in ChunksOf(q) :
          /\ chunks[q][j] \in Nat
          /\ chunks[q][j] > 0 => chunks'[q][j] = chunks[q][j]
          /\ chunks[q][j] = 0 => chunks'[q][j] \in {0, clock}
  BY <1>2, <1>5 DEF ChunksTyped
<1>7. \A q \in Plans : Stored(q) \subseteq Stored(q)' /\ \A j \in Stored(q)' : j \in Stored(q) \/ chunks'[q][j] = clock
  BY <1>2, <1>6 DEF Stored, ChunksOf
<1>8. \A q \in Plans :
          /\ Complete(q) => Complete(q)'
          /\ Readable(q) => Readable(q)'
          /\ q # p => Stored(q)' = Stored(q)
  <2>1. \A q \in Plans : Complete(q) => Complete(q)'
    BY <1>6 DEF Complete, Stored, ChunksOf
  <2>2. \A q \in Plans : q # p => Stored(q)' = Stored(q)
    BY <1>5 DEF Stored, ChunksOf
  <2> QED
    BY <1>1, <2>1, <2>2 DEF Readable
<1>9. i \in Stored(p)' /\ Stored(p)' \subseteq Stored(p) \cup {i}
  BY <1>1, <1>2, <1>5, <1>6 DEF Stored, ChunksOf
<1>10. TypeOK' /\ Dated'
  BY <1>1, <1>4, <1>5 DEF IInv, TypeOK, Dated
<1>11. CompilesFast'
  <2>1. Grace \in Nat
    BY BoundAssumption
  <2> QED
    BY <1>1, <1>2, <1>3, <1>4, <2>1 DEF IInv, CompilesFast
<1>12. NoStrandedChunks'
  <2>1. ASSUME NEW q \in Plans, header[q] # None, header[q].state = "pruned", NEW j \in Stored(q)'
        PROVE  chunks'[q][j] >= header[q].at
    <3>1. CASE j \in Stored(q)
      BY <1>6, <2>1, <3>1 DEF IInv, NoStrandedChunks, Stored, ChunksOf
    <3>2. CASE chunks'[q][j] = clock
      BY <2>1, <3>2 DEF IInv, Dated
    <3> QED
      BY <1>7, <2>1, <3>1, <3>2
  <2> QED
    BY <1>1, <2>1 DEF NoStrandedChunks
<1>13. PrunesKnown'
  <2>1. ASSUME NEW r \in Pruners, prune[r].at = "flip", NEW q \in DOMAIN prune[r].rows, NEW j \in Stored(q)'
        PROVE  chunks'[q][j] >= prune[r].rows[q].at
    <3>1. q \in Plans
      BY <2>1 DEF IInv, TypeOK, PruneState, Rows
    <3>2. CASE j \in Stored(q)
      BY <1>6, <2>1, <3>1, <3>2 DEF IInv, PrunesKnown, PruneKnown, Stored, ChunksOf
    <3>3. CASE chunks'[q][j] = clock
      BY <2>1, <3>3 DEF IInv, PrunesKnown, PruneKnown
    <3> QED
      BY <1>7, <2>1, <3>1, <3>2, <3>3
  <2> QED
    BY <1>1, <2>1 DEF IInv, PrunesKnown, PruneKnown
<1>14. ASSUME Safe PROVE Safe'
  <2>1. OneAtATime'
    BY <1>1, <1>3, <1>4, <1>14 DEF Safe, OneAtATime, Retaining, Recompiling
  <2>2. CompilesSafe'
    <3>1. ASSUME NEW h \in Compilers \ {k} PROVE Sole(h)' /\ Whole(h)'
      <4>1. Sole(h) /\ Whole(h) /\ compile'[h] = compile[h]
        BY <1>4, <1>14 DEF Safe, CompilesSafe
      <4>2. compile[h].at # "idle" => compile[h].plan \in Plans
        BY DEF IInv, CompilesFast
      <4>3. Whole(h)'
        <5> PICK q : q = compile[h].plan
          OBVIOUS
        <5>1. q \in Plans => (Complete(q) => Complete(q)')
          BY <1>8
        <5> QED
          BY <4>1, <4>2, <5>1 DEF Whole, Complete, Stored, ChunksOf
      <4>4. Sole(h)'
        <5> PICK q : q = compile[h].plan
          OBVIOUS
        <5>1. ASSUME compile[h].at # "idle", ~compile[h].again
              PROVE  q \in Plans /\ q # p /\ \A j \in Compilers \ {h} : compile'[j].plan = compile[j].plan
          BY <1>a, <1>3, <1>4, <4>1, <4>2, <5>1 DEF Sole
        <5>2. ASSUME q \in Plans, q # p
              PROVE  Stored(q)' = Stored(q) /\ \A j \in Stored(q) : chunks'[q][j] = chunks[q][j]
          BY <1>6, <1>8, <5>2 DEF Stored
        <5> QED
          BY <1>1, <4>1, <5>1, <5>2 DEF Sole, Stored, ChunksOf
      <4> QED
        BY <4>3, <4>4
    <3>2. Whole(k)'
      BY <1>3, <1>4 DEF Whole
    <3>3. Sole(k)'
      <4>1. Sole(k)
        BY <1>14 DEF Safe, CompilesSafe
      <4>2. ASSUME ~compile[k].again
            PROVE  /\ header[p] = None /\ \A j \in Compilers \ {k} : compile[j].plan # p
                   /\ \A j \in Stored(p) : j < i
        BY <1>a, <1>1, <4>1, <4>2 DEF Sole
      <4>3. ASSUME ~compile[k].again PROVE chunks'[p][i] >= clock
        BY <1>1, <1>2, <1>5, <1>6, <4>2, <4>3 DEF Stored, ChunksOf
      <4>4. ASSUME ~compile[k].again, NEW j \in Stored(p)' PROVE j < i + 1
        <5>1. Stored(p) \subseteq Nat
          BY DEF Stored, ChunksOf
        <5> QED
          BY <1>2, <1>9, <4>2, <4>4, <5>1
      <4> QED
        BY <1>1, <1>3, <1>4, <1>9, <4>2, <4>3, <4>4 DEF Sole
    <3> QED
      BY <3>1, <3>2, <3>3 DEF CompilesSafe
  <2>3. PrunesSafe'
    BY <1>1, <1>14 DEF Safe, PrunesSafe, PruneSafe, OldEnough, NewerPlans
  <2>4. CompactsSafe'
    <3>1. \A c \in Compactors : compact[c].victims \subseteq Plans
      BY DEF IInv, TypeOK, CompactState
    <3>2. \A h \in Compilers : compile'[h].plan = compile[h].plan
      BY <1>a, <1>3, <1>4
    <3> QED
      BY <1>1, <1>7, <1>14, <3>1, <3>2 DEF Safe, CompactsSafe, CompactSafe
  <2>5. ReferencedReadable' /\ LostAreOld'
    <3>1. \A t \in Records : refs[t].owed => refs[t].plan \in Plans
      BY OwedParts
    <3>2. \A q \in Plans : OldEnough(q)' = OldEnough(q)
      BY <1>1 DEF OldEnough, NewerPlans
    <3>3. ReferencedReadable'
      BY <1>1, <1>8, <1>14, <3>1 DEF Safe, ReferencedReadable
    <3>4. ASSUME NEW q \in Plans, header[q] # None, ~Readable(q)' PROVE OldEnough(q)'
      BY <1>8, <1>14, <3>2, <3>4 DEF Safe, LostAreOld
    <3> QED
      BY <1>1, <3>3, <3>4 DEF LostAreOld
  <2> QED
    BY <2>1, <2>2, <2>3, <2>4, <2>5 DEF Safe
<1> QED
  BY <1>1, <1>10, <1>11, <1>12, <1>13, <1>14 DEF IInv

LEMMA PublishStep ==
    ASSUME IInv, NEW k \in Compilers, Publish(k)
    PROVE  IInv'
<1>a. PICK p : p = compile[k].plan
  OBVIOUS
<1> DEFINE h == [state |-> "active", frozen |-> compile[k].freeze, at |-> clock]
<1>1. /\ compile[k].at = "publish" /\ compile' = [compile EXCEPT ![k] = NoCompile]
      /\ header' = [header EXCEPT ![p] = h]
      /\ UNCHANGED <<chunks, refs, prune, compact, clock, faults, overlap>>
  BY <1>a DEF Publish, env
<1>2. /\ compile \in [Compilers -> CompileState] /\ p \in Plans /\ header \in [Plans -> Header \cup {None}]
      /\ compile[k].freeze \in BOOLEAN /\ clock \in Nat
  BY <1>a, <1>1 DEF IInv, TypeOK, CompilesFast, CompileState
<1>3. h \in Header /\ h # None /\ h.state = "active" /\ h.at = clock
  BY <1>2, PlanAssumption DEF Header
<1> HIDE DEF h
<1>4. /\ compile' \in [Compilers -> CompileState] /\ compile'[k] = NoCompile
      /\ \A j \in Compilers \ {k} : compile'[j] = compile[j]
  BY <1>1, <1>2, CompileMoves, IdleStates
<1>5. header' \in [Plans -> Header \cup {None}] /\ header'[p] = h /\ \A q \in Plans \ {p} : header'[q] = header[q]
  BY <1>1, <1>2, <1>3
<1>6. TypeOK' /\ Dated' /\ PrunesKnown' /\ NoStrandedChunks'
  <2>1. TypeOK'
    BY <1>1, <1>4, <1>5 DEF IInv, TypeOK, ChunksTyped
  <2>2. Dated'
    BY <1>1, <1>2, <1>3, <1>5 DEF IInv, Dated
  <2>3. \A r \in Pruners : prune[r].active \cup prune[r].victims \cup prune[r].supersede \subseteq Plans
    BY DEF IInv, TypeOK, PruneState
  <2>4. PrunesKnown'
    BY <1>1, <1>3, <1>5, <2>3 DEF IInv, PrunesKnown, PruneKnown, Stored, ChunksOf
  <2>5. NoStrandedChunks'
    BY <1>1, <1>3, <1>5 DEF IInv, NoStrandedChunks, Stored, ChunksOf
  <2> QED
    BY <2>1, <2>2, <2>4, <2>5
<1>7. CompilesFast'
  BY <1>1, <1>4, IdleStates DEF IInv, CompilesFast
<1>8. \A u \in Plans : header[u] # None => header'[u] # None /\ header'[u].at >= header[u].at
  <2>1. \A u \in Plans : header[u] # None => header[u].at \in Nat /\ header[u].at <= clock
    BY <1>2 DEF Header, IInv, Dated
  <2> QED
    BY <1>2, <1>3, <1>5, <2>1
<1>9. ASSUME Safe PROVE Safe'
  <2>1. /\ Sole(k) /\ Whole(k)
        /\ ~compile[k].again => header[p] = None
        /\ Complete(p)
    BY <1>a, <1>1, <1>9 DEF Safe, CompilesSafe, Sole, Whole
  <2>2. Retaining => ~compile[k].again
    BY <1>9 DEF Safe, OneAtATime, Recompiling
  <2>3. \A q \in Plans \ {p} : header[q] # None /\ OldEnough(q) => OldEnough(q)'
    <3>1. TypeOK /\ TypeOK'
      BY <1>6 DEF IInv
    <3> QED
      BY <1>5, <1>8, <3>1, StaysOld
  <2>4. OneAtATime'
    BY <1>1, <1>4, <1>9, IdleStates DEF Safe, OneAtATime, Retaining, Recompiling
  <2>5. CompilesSafe'
    <3>1. ASSUME NEW j \in Compilers \ {k} PROVE Sole(j)' /\ Whole(j)'
      <4>1. Sole(j) /\ Whole(j) /\ compile'[j] = compile[j]
        BY <1>4, <1>9 DEF Safe, CompilesSafe
      <4>2. compile[j].at # "idle" => compile[j].plan \in Plans /\ compile[j].plan # None
        BY PlanAssumption DEF IInv, CompilesFast
      <4>3. \A i \in Compilers \ {j} : compile'[i].plan = compile[i].plan \/ compile'[i].plan = None
        BY <1>4, IdleStates
      <4>4. compile[j].at # "idle" /\ ~compile[j].again => header'[compile[j].plan] = header[compile[j].plan]
        BY <1>a, <1>1, <1>5, <4>1, <4>2 DEF Sole
      <4> QED
        BY <1>1, <4>1, <4>2, <4>3, <4>4 DEF Sole, Whole, Stored, ChunksOf, Complete
    <3>2. Sole(k)' /\ Whole(k)'
      BY <1>4, IdleStates DEF Sole, Whole
    <3> QED
      BY <3>1, <3>2 DEF CompilesSafe
  <2>6. PrunesSafe'
    <3>1. ASSUME NEW r \in Pruners PROVE PruneSafe(r)'
      <4>1. PruneSafe(r) /\ PruneKnown(r) /\ prune'[r] = prune[r] /\ prune[r] \in PruneState
        BY <1>1, <1>9 DEF Safe, PrunesSafe, IInv, PrunesKnown, TypeOK
      <4>2. prune[r].victims \subseteq Plans /\ DOMAIN prune[r].rows \subseteq Plans
            /\ \A q \in DOMAIN prune[r].rows : prune[r].rows[q] \in Header
        <5>1. prune[r].rows \in Rows /\ prune[r].victims \subseteq Plans
          BY <4>1 DEF PruneState
        <5>2. PICK S \in SUBSET Plans : prune[r].rows \in [S -> Header]
          BY <5>1 DEF Rows
        <5> QED
          BY <5>1, <5>2
      <4>3. p \notin prune[r].victims /\ p \notin DOMAIN prune[r].rows
        <5>1. CASE prune[r].at = "idle"
          BY <4>1, <5>1 DEF PruneKnown
        <5>2. CASE prune[r].at # "idle"
          <6>1. header[p] = None
            BY <2>1, <2>2, <5>2 DEF Retaining
          <6> QED
            BY <4>1, <4>2, <6>1, PlanAssumption DEF PruneKnown, PruneSafe
        <5> QED
          BY <5>1, <5>2
      <4>4. \A q \in prune[r].victims : OldEnough(q)'
        BY <2>3, <4>1, <4>2, <4>3 DEF PruneSafe, PruneKnown
      <4>5. \A q \in DOMAIN prune[r].rows : prune[r].rows[q] = header'[q]
        BY <1>5, <4>1, <4>2, <4>3 DEF PruneSafe
      <4> QED
        BY <1>1, <4>1, <4>4, <4>5 DEF PruneSafe
    <3> QED
      BY <3>1 DEF PrunesSafe
  <2>7. CompactsSafe'
    <3>1. ASSUME NEW c \in Compactors PROVE CompactSafe(c)'
      <4>1. CompactSafe(c) /\ compact'[c] = compact[c] /\ compact[c].victims \subseteq Plans
        BY <1>1, <1>9 DEF Safe, CompactsSafe, IInv, TypeOK, CompactState
      <4>2. compact[c].at \in {"recheck", "delete"} => p \notin compact[c].victims
        BY <1>a, <4>1 DEF CompactSafe
      <4>3. \A j \in Compilers : compile'[j].plan = compile[j].plan \/ compile'[j].plan = None
        BY <1>4, IdleStates
      <4>4. \A q \in Plans : q # None
        BY PlanAssumption
      <4> QED
        BY <1>1, <1>5, <4>1, <4>2, <4>3, <4>4 DEF CompactSafe, Stored, ChunksOf
    <3> QED
      BY <3>1 DEF CompactsSafe
  <2>8. ReferencedReadable'
    <3>1. \A t \in Records : refs[t].owed => refs[t].plan \in Plans
      BY OwedParts
    <3> QED
      BY <1>1, <1>3, <1>5, <1>9, <2>1, <3>1 DEF Safe, ReferencedReadable, Readable, Complete, Stored, ChunksOf
  <2>9. LostAreOld'
    <3>1. Readable(p)'
      BY <1>1, <1>3, <1>5, <2>1 DEF Readable, Complete, Stored, ChunksOf
    <3>2. \A q \in Plans \ {p} : Readable(q)' = Readable(q)
      BY <1>1, <1>5 DEF Readable, Complete, Stored, ChunksOf
    <3> QED
      BY <1>5, <1>9, <2>3, <3>1, <3>2 DEF Safe, LostAreOld
  <2> QED
    BY <2>4, <2>5, <2>6, <2>7, <2>8, <2>9 DEF Safe
<1> QED
  BY <1>1, <1>6, <1>7, <1>9 DEF IInv

-----------------------------------------------------------------------------
\* Retention passes.

PruneCall(at, active, victims, supersede, rows) ==
    [at |-> at, active |-> active, victims |-> victims, supersede |-> supersede, rows |-> rows]

LEMMA PruneFields ==
    ASSUME NEW at \in {"idle", "check", "delete", "recount", "flip", "supersede", "mark"},
           NEW active \in SUBSET Plans, NEW victims \in SUBSET Plans, NEW supersede \in SUBSET Plans,
           NEW rows \in Rows
    PROVE  LET j == PruneCall(at, active, victims, supersede, rows)
           IN  /\ j \in PruneState /\ j.at = at /\ j.active = active /\ j.victims = victims
               /\ j.supersede = supersede /\ j.rows = rows
  BY DEF PruneCall, PruneState

LEMMA PruneParts ==
    ASSUME NEW k \in PruneState
    PROVE  /\ k.at \in {"idle", "check", "delete", "recount", "flip", "supersede", "mark"}
           /\ k.active \in SUBSET Plans /\ k.victims \in SUBSET Plans /\ k.supersede \in SUBSET Plans
           /\ k.rows \in Rows
  BY DEF PruneState

LEMMA ExceptVictims ==
    ASSUME NEW k \in PruneState, NEW at, NEW victims
    PROVE  [k EXCEPT !.at = at, !.victims = victims]
               = PruneCall(at, k.active, victims, k.supersede, k.rows)
<1> DEFINE AtOf(j) == [j EXCEPT !.at = at]
           VictimsOf(j) == [j EXCEPT !.victims = victims]
<1>1. AtOf(k) = PruneCall(at, k.active, k.victims, k.supersede, k.rows)
  BY DEF PruneCall, PruneState
<1>2. \A A, V, S, R : VictimsOf(PruneCall(at, A, V, S, R)) = PruneCall(at, A, victims, S, R)
  BY DEF PruneCall
<1>3. [k EXCEPT !.at = at, !.victims = victims] = VictimsOf(AtOf(k))
  OBVIOUS
<1> HIDE DEF AtOf, VictimsOf
<1> QED
  BY <1>1, <1>2, <1>3

LEMMA ExceptAt ==
    ASSUME NEW k \in PruneState, NEW at
    PROVE  [k EXCEPT !.at = at] = [k EXCEPT !.at = at, !.victims = k.victims]
<1>1. [k EXCEPT !.at = at] = PruneCall(at, k.active, k.victims, k.supersede, k.rows)
  BY DEF PruneCall, PruneState
<1>2. PICK victims : victims = k.victims
  OBVIOUS
<1>3. [k EXCEPT !.at = at, !.victims = victims] = PruneCall(at, k.active, victims, k.supersede, k.rows)
  BY ExceptVictims
<1> QED
  BY <1>1, <1>2, <1>3

LEMMA ExceptSupersede ==
    ASSUME NEW k \in PruneState, NEW at, NEW victims, NEW supersede
    PROVE  [k EXCEPT !.at = at, !.victims = victims, !.supersede = supersede]
               = PruneCall(at, k.active, victims, supersede, k.rows)
<1> DEFINE VictimsOf == [k EXCEPT !.at = at, !.victims = victims]
           SupersedeOf(j) == [j EXCEPT !.supersede = supersede]
<1>1. VictimsOf = PruneCall(at, k.active, victims, k.supersede, k.rows)
  BY ExceptVictims
<1>2. \A A, V, S, R : SupersedeOf(PruneCall(at, A, V, S, R)) = PruneCall(at, A, V, supersede, R)
  BY DEF PruneCall
<1>3. [k EXCEPT !.at = at, !.victims = victims, !.supersede = supersede] = SupersedeOf(VictimsOf)
  OBVIOUS
<1> HIDE DEF VictimsOf, SupersedeOf
<1> QED
  BY <1>1, <1>2, <1>3

LEMMA ExceptRows ==
    ASSUME NEW k \in PruneState, NEW at, NEW rows
    PROVE  [k EXCEPT !.at = at, !.rows = rows]
               = PruneCall(at, k.active, k.victims, k.supersede, rows)
<1> DEFINE AtOf(j) == [j EXCEPT !.at = at]
           RowsOf(j) == [j EXCEPT !.rows = rows]
<1>1. AtOf(k) = PruneCall(at, k.active, k.victims, k.supersede, k.rows)
  BY DEF PruneCall, PruneState
<1>2. \A A, V, S, R : RowsOf(PruneCall(at, A, V, S, R)) = PruneCall(at, A, V, S, rows)
  BY DEF PruneCall
<1>3. [k EXCEPT !.at = at, !.rows = rows] = RowsOf(AtOf(k))
  OBVIOUS
<1> HIDE DEF AtOf, RowsOf
<1> QED
  BY <1>1, <1>2, <1>3

LEMMA ExceptAll ==
    ASSUME NEW k \in PruneState, NEW at
    PROVE  [k EXCEPT !.at = at, !.active = {}, !.victims = {}, !.rows = << >>]
               = PruneCall(at, {}, {}, k.supersede, << >>)
<1> DEFINE AtOf(j) == [j EXCEPT !.at = at]
           ActiveOf(j) == [j EXCEPT !.active = {}]
           VictimsOf(j) == [j EXCEPT !.victims = {}]
           RowsOf(j) == [j EXCEPT !.rows = << >>]
<1>1. AtOf(k) = PruneCall(at, k.active, k.victims, k.supersede, k.rows)
  BY DEF PruneCall, PruneState
<1>2. \A A, V, S, R : ActiveOf(PruneCall(at, A, V, S, R)) = PruneCall(at, {}, V, S, R)
  BY DEF PruneCall
<1>3. \A A, V, S, R : VictimsOf(PruneCall(at, A, V, S, R)) = PruneCall(at, A, {}, S, R)
  BY DEF PruneCall
<1>4. \A A, V, S, R : RowsOf(PruneCall(at, A, V, S, R)) = PruneCall(at, A, V, S, << >>)
  BY DEF PruneCall
<1>5. [k EXCEPT !.at = at, !.active = {}, !.victims = {}, !.rows = << >>]
          = RowsOf(VictimsOf(ActiveOf(AtOf(k))))
  OBVIOUS
<1> HIDE DEF AtOf, ActiveOf, VictimsOf, RowsOf
<1> QED
  BY <1>1, <1>2, <1>3, <1>4, <1>5

\* The header rows of a set of plans, as a pass reads them.
LEMMA ReadRows ==
    ASSUME header \in [Plans -> Header \cup {None}], NEW S \in SUBSET Plans,
           \A p \in S : header[p] # None
    PROVE  /\ [p \in S |-> header[p]] \in Rows
           /\ DOMAIN [p \in S |-> header[p]] = S
           /\ \A p \in S : [q \in S |-> header[q]][p] = header[p]
<1>1. [p \in S |-> header[p]] \in [S -> Header]
  OBVIOUS
<1> QED
  BY <1>1 DEF Rows

LEMMA RowsTyped ==
    ASSUME NEW rows \in Rows
    PROVE  DOMAIN rows \subseteq Plans /\ \A p \in DOMAIN rows : rows[p] \in Header
<1>1. PICK S \in SUBSET Plans : rows \in [S -> Header]
  BY DEF Rows
<1> QED
  BY <1>1

\* The records are the same, or less is owed to them.
RefsKept ==
    /\ refs' \in [Records -> RefState]
    /\ \A t \in Records : refs'[t].owed => refs[t].owed /\ refs'[t].plan = refs[t].plan

LEMMA UnchangedKept == IInv /\ UNCHANGED refs => RefsKept
  BY DEF RefsKept, IInv, TypeOK

\* A step of a retention pass that leaves the catalog alone.
LEMMA PruneOnlyStep ==
    ASSUME IInv, NEW r \in Pruners, NEW j \in PruneState, prune' = [prune EXCEPT ![r] = j],
           UNCHANGED <<header, chunks, compile, compact, clock, overlap>>, faults' \in Nat, RefsKept,
           PruneKnown(r)',
           ~overlap /\ Safe =>
               /\ PruneSafe(r)'
               /\ j.at # "idle" => prune[r].at # "idle" \/ (~Retaining /\ ~Recompiling)
    PROVE  IInv'
<1>1. /\ prune' \in [Pruners -> PruneState] /\ prune'[r] = j
      /\ \A h \in Pruners \ {r} : prune'[h] = prune[h]
  BY PruneMoves DEF IInv, TypeOK
<1>2. TypeOK' /\ Dated' /\ CompilesFast' /\ NoStrandedChunks'
  BY <1>1 DEF IInv, TypeOK, ChunksTyped, Dated, CompilesFast, NoStrandedChunks, Stored, ChunksOf, RefsKept
<1>3. PrunesKnown'
  <2>1. ASSUME NEW h \in Pruners \ {r} PROVE PruneKnown(h)'
    <3>1. PruneKnown(h) /\ prune'[h] = prune[h]
      BY <1>1 DEF IInv, PrunesKnown
    <3> QED
      BY <3>1 DEF PruneKnown, Stored, ChunksOf
  <2> QED
    BY <2>1 DEF PrunesKnown
<1>4. ASSUME ~overlap, Safe PROVE Safe'
  <2>1. OneAtATime'
    <3>1. Recompiling' = Recompiling
      BY DEF Recompiling
    <3>2. CASE j.at = "idle"
      BY <1>1, <1>4, <3>1, <3>2 DEF Safe, OneAtATime, Retaining
    <3>3. CASE prune[r].at # "idle"
      BY <1>1, <1>4, <3>1, <3>3 DEF Safe, OneAtATime, Retaining
    <3>4. CASE ~Retaining /\ ~Recompiling
      BY <1>1, <1>4, <3>1, <3>4 DEF Safe, OneAtATime, Retaining
    <3> QED
      BY <1>4, <3>2, <3>3, <3>4
  <2>2. CompilesSafe' /\ CompactsSafe'
    BY <1>4 DEF Safe, CompilesSafe, Sole, Whole, CompactsSafe, CompactSafe, Complete, Stored, ChunksOf
  <2>a. ReferencedReadable'
    BY <1>4 DEF Safe, ReferencedReadable, Readable, Complete, Stored, ChunksOf, RefsKept
  <2>3. LostAreOld'
    BY <1>4 DEF Safe, LostAreOld, OldEnough, NewerPlans, Readable, Complete, Stored, ChunksOf
  <2>4. PrunesSafe'
    <3>1. ASSUME NEW h \in Pruners \ {r} PROVE PruneSafe(h)'
      <4>1. PruneSafe(h) /\ prune'[h] = prune[h]
        BY <1>1, <1>4 DEF Safe, PrunesSafe
      <4> QED
        BY <4>1 DEF PruneSafe, OldEnough, NewerPlans, RefsKept
    <3> QED
      BY <1>4, <3>1 DEF PrunesSafe
  <2> QED
    BY <2>1, <2>2, <2>a, <2>3, <2>4 DEF Safe
<1> QED
  BY <1>2, <1>3, <1>4 DEF IInv

\* What the steps of a pass start from.
LEMMA PassState ==
    ASSUME IInv, NEW r \in Pruners
    PROVE  /\ prune[r] \in PruneState /\ prune \in [Pruners -> PruneState]
           /\ header \in [Plans -> Header \cup {None}] /\ clock \in Nat /\ faults \in Nat
           /\ PruneKnown(r)
           /\ ~overlap => Safe /\ PruneSafe(r)
  BY DEF IInv, TypeOK, PrunesKnown, Safe, PrunesSafe

LEMMA PruneScanStep ==
    ASSUME IInv, NEW r \in Pruners, NEW age \in BOOLEAN, PruneScan(r, age)
    PROVE  IInv'
<1> DEFINE live == {p \in Plans : header[p] # None /\ header[p].state # "pruned"}
           old == {p \in live : Cardinality(NewerPlans(header, p) \cap live) >= Retain}
           victims == {p \in old : Prunable(p) /\ age /\ header[p].at <= clock}
           active == {p \in old : header[p].state = "active"}
           supersede == (old \ victims) \cap active
           j == PruneCall("check", active, victims, supersede, << >>)
<1>1. /\ prune[r].at = "idle" /\ prune' = [prune EXCEPT ![r] = j]
      /\ overlap \/ (~Recompiling /\ ~Retaining)
      /\ UNCHANGED <<header, chunks, refs, compile, compact, clock, faults, overlap>>
  BY DEF PruneScan, PruneCall, catalog, env
<1>2. /\ active \in SUBSET Plans /\ victims \in SUBSET Plans /\ supersede \in SUBSET Plans
      /\ \A p \in active \cup victims \cup supersede : header[p] # None
      /\ \A p \in victims : /\ ~header[p].frozen
                            /\ Cardinality(NewerPlans(header, p) \cap live) >= Retain
  BY DEF Prunable
<1>3. \A p \in victims : OldEnough(p)
  <2>1. ASSUME NEW p \in victims PROVE OldEnough(p)
    <3>1. IsFiniteSet(NewerPlans(header, p))
      <4>1. NewerPlans(header, p) \subseteq Plans
        BY DEF NewerPlans
      <4> QED
        BY <4>1, FS_Subset, PlanAssumption
    <3>2. NewerPlans(header, p) \cap live \subseteq NewerPlans(header, p)
      OBVIOUS
    <3> DEFINE S == NewerPlans(header, p) \cap live
               T == NewerPlans(header, p)
    <3>3. IsFiniteSet(S) /\ Cardinality(S) <= Cardinality(T)
      BY <3>1, <3>2, FS_Subset
    <3>4. Cardinality(S) \in Nat /\ Cardinality(T) \in Nat /\ Retain \in Nat
      BY <3>1, <3>3, FS_CardinalityType, BoundAssumption
    <3>5. Cardinality(S) >= Retain /\ ~header[p].frozen
      BY <1>2, <2>1
    <3> HIDE DEF S
    <3>6. Cardinality(T) >= Retain
      BY <3>3, <3>4, <3>5
    <3> QED
      BY <3>5, <3>6 DEF OldEnough
  <2> QED
    BY <2>1
<1> HIDE DEF active, victims, supersede
<1>4. /\ j \in PruneState /\ j.at = "check" /\ j.active = active /\ j.victims = victims
      /\ j.supersede = supersede /\ j.rows = << >>
  BY <1>2, NoRows, PruneFields
<1> HIDE DEF j
<1>5. prune'[r] = j
  BY <1>1, <1>4, PassState
<1>6. PruneKnown(r)'
  BY <1>1, <1>2, <1>4, <1>5, NoRows DEF PruneKnown
<1>7. PruneSafe(r)'
  <2>1. \A p \in victims : OldEnough(p)'
    BY <1>1, <1>3 DEF OldEnough, NewerPlans
  <2> QED
    BY <1>4, <1>5, <2>1, NoRows DEF PruneSafe
<1> QED
  BY <1>1, <1>4, <1>6, <1>7, UnchangedKept, PassState, PruneOnlyStep

\* The batch is looked up: referenced plans are superseded, not pruned.
LEMMA SpareStep ==
    ASSUME IInv, NEW r \in Pruners, NEW referenced \in SUBSET Plans, prune[r].at = "check",
           Spare(r, referenced), RefsKept,
           \A t \in Records : refs'[t].owed /\ refs'[t].plan \in prune[r].victims
                                  => refs'[t].plan \in referenced,
           UNCHANGED <<header, chunks, compile, compact, clock, overlap>>, faults' \in Nat
    PROVE  IInv'
<1>a. PICK victims, supersede :
          /\ victims = prune[r].victims \ referenced
          /\ supersede = prune[r].supersede \cup (referenced \cap prune[r].active)
  OBVIOUS
<1> DEFINE j == PruneCall("delete", prune[r].active, victims, supersede, prune[r].rows)
<1>1. prune' = [prune EXCEPT ![r] = [prune[r] EXCEPT !.at = "delete", !.victims = victims,
                                                     !.supersede = supersede]]
  BY <1>a DEF Spare
<1>2. prune' = [prune EXCEPT ![r] = j]
  <2>1. prune[r] \in PruneState
    BY PassState
  <2>2. [prune[r] EXCEPT !.at = "delete", !.victims = victims, !.supersede = supersede] = j
    BY <2>1, ExceptSupersede
  <2> QED
    BY <1>1, <2>2
<1>3. /\ j \in PruneState /\ j.at = "delete" /\ j.active = prune[r].active /\ j.victims = victims
      /\ j.supersede = supersede /\ j.rows = prune[r].rows
  <2>1. prune[r] \in PruneState
    BY PassState
  <2> QED
    BY <1>a, <2>1, PruneParts, PruneFields
<1> HIDE DEF j
<1>4. prune'[r] = j
  BY <1>2, <1>3, PassState
<1>5. PruneKnown(r)'
  BY <1>a, <1>3, <1>4, PassState DEF PruneKnown
<1>6. ~overlap => PruneSafe(r)'
  <2>1. ~overlap => \A p \in prune[r].victims : OldEnough(p)'
    BY PassState DEF PruneSafe, OldEnough, NewerPlans
  <2> QED
    BY <1>a, <1>3, <1>4, <2>1, PassState DEF PruneSafe, PruneKnown
<1> QED
  BY <1>2, <1>3, <1>5, <1>6, PruneOnlyStep

LEMMA PruneCheckStep ==
    ASSUME IInv, NEW r \in Pruners, PruneCheck(r) \/ PruneCheckFails(r)
    PROVE  IInv'
<1>1. prune[r].victims \in SUBSET Plans /\ faults \in Nat
  BY PassState, PruneParts
<1>2. Referenced(r, REFERENCING_TABLES) \in SUBSET Plans
  BY <1>1 DEF Referenced
<1>3. \A t \in Records : refs[t].owed /\ refs[t].plan \in prune[r].victims
                            => refs[t].plan \in Referenced(r, REFERENCING_TABLES)
  BY OwedParts, RecordAssumption DEF Referenced, NamedBy
<1>4. CASE PruneCheck(r)
  <2>1. RefsKept
    BY <1>4, UnchangedKept DEF PruneCheck
  <2> QED
    BY <1>1, <1>2, <1>3, <1>4, <2>1, SpareStep DEF PruneCheck, catalog, env
<1>5. CASE PruneCheckFails(r)
  <2>1. RefsKept
    BY <1>5, UnchangedKept DEF PruneCheckFails
  <2> QED
    BY <1>1, <1>5, <2>1, SpareStep DEF PruneCheckFails, catalog
<1> QED
  BY <1>4, <1>5

\* A referencing table that is passed by owes nothing for the batch any more.
LEMMA PruneCheckSkipsStep ==
    ASSUME IInv, NEW r \in Pruners, NEW tables \in SUBSET REFERENCING_TABLES, PruneCheckSkips(r, tables)
    PROVE  IInv'
<1> DEFINE kept == Referenced(r, REFERENCING_TABLES \ tables)
           skipped(t) == TableOf[t] \in tables /\ NamedBy(t, prune[r].victims)
           forget(ref) == [ref EXCEPT !.owed = FALSE]
<1>1. prune[r].victims \in SUBSET Plans /\ faults \in Nat /\ refs \in [Records -> RefState]
  BY PassState, PruneParts DEF IInv, TypeOK
<1>2. refs' = [t \in Records |-> IF skipped(t) THEN forget(refs[t]) ELSE refs[t]]
  BY DEF PruneCheckSkips
<1>3. \A ref \in RefState : forget(ref) \in RefState /\ ~forget(ref).owed
  BY DEF RefState, NoRef
<1>4. kept \in SUBSET Plans
  BY <1>1 DEF Referenced
<1>5. ASSUME NEW t \in Records, refs[t].owed, refs[t].plan \in prune[r].victims, refs[t].plan \notin kept
      PROVE  skipped(t)
  BY <1>5, OwedParts, RecordAssumption DEF Referenced, NamedBy
<1> HIDE DEF kept, skipped, forget
<1>6. RefsKept
  BY <1>1, <1>2, <1>3 DEF RefsKept
<1>7. \A t \in Records : refs'[t].owed /\ refs'[t].plan \in prune[r].victims => refs'[t].plan \in kept
  BY <1>1, <1>2, <1>3, <1>5
<1>8. /\ prune[r].at = "check" /\ Spare(r, kept) /\ faults' \in Nat
      /\ UNCHANGED <<header, chunks, compile, compact, clock, overlap>>
  BY <1>1 DEF PruneCheckSkips, catalog, kept
<1> QED
  BY <1>4, <1>6, <1>7, <1>8, SpareStep

\* A step of a pass that only goes on, with the victims it has or with none.
LEMMA PruneGoesOn ==
    ASSUME IInv, NEW r \in Pruners, NEW victims \in SUBSET prune[r].victims,
           NEW at \in {"recount", "flip"}, prune[r].at \in {"delete", "recount"},
           prune' = [prune EXCEPT ![r] = [prune[r] EXCEPT !.at = at, !.victims = victims]],
           UNCHANGED <<header, chunks, refs, compile, compact, clock, overlap>>, faults' \in Nat
    PROVE  IInv'
<1> DEFINE j == PruneCall(at, prune[r].active, victims, prune[r].supersede, prune[r].rows)
<1>1. prune' = [prune EXCEPT ![r] = j]
  <2>1. prune[r] \in PruneState
    BY PassState
  <2>2. [prune[r] EXCEPT !.at = at, !.victims = victims] = j
    BY <2>1, ExceptVictims
  <2> QED
    BY <2>2
<1>2. /\ j \in PruneState /\ j.at = at /\ j.active = prune[r].active /\ j.victims = victims
      /\ j.supersede = prune[r].supersede /\ j.rows = prune[r].rows
  <2>1. prune[r] \in PruneState /\ victims \in SUBSET Plans
    BY PassState, PruneParts
  <2> QED
    BY <2>1, PruneParts, PruneFields
<1> HIDE DEF j
<1>3. prune'[r] = j
  BY <1>1, <1>2, PassState
<1>4. DOMAIN prune[r].rows = {}
  BY PassState DEF PruneKnown
<1>5. PruneKnown(r)'
  BY <1>2, <1>3, <1>4, PassState DEF PruneKnown
<1>6. ~overlap => PruneSafe(r)'
  <2>1. ~overlap => \A p \in prune[r].victims : OldEnough(p)'
    BY PassState DEF PruneSafe, OldEnough, NewerPlans
  <2> QED
    BY <1>2, <1>3, <1>4, <2>1, PassState DEF PruneSafe
<1> QED
  BY <1>1, <1>2, <1>5, <1>6, UnchangedKept, PruneOnlyStep

LEMMA PruneFaultStep ==
    ASSUME IInv, NEW r \in Pruners,
           PruneDeleteRaises(r) \/ PruneDeleteMisses(r) \/ PruneRecountFails(r)
    PROVE  IInv'
<1>1. /\ faults' \in Nat /\ prune[r].at \in {"delete", "recount"}
      /\ UNCHANGED <<header, chunks, refs, compile, compact, clock, overlap>>
  BY PassState DEF PruneDeleteRaises, PruneDeleteMisses, PruneRecountFails, catalog
<1>2. CASE PruneDeleteRaises(r)
  BY <1>1, <1>2, PruneGoesOn DEF PruneDeleteRaises
<1>3. [prune[r] EXCEPT !.at = "recount"] = [prune[r] EXCEPT !.at = "recount", !.victims = prune[r].victims]
  BY PassState, ExceptAt
<1>4. [prune[r] EXCEPT !.at = "flip"] = [prune[r] EXCEPT !.at = "flip", !.victims = prune[r].victims]
  BY PassState, ExceptAt
<1>5. CASE PruneDeleteMisses(r)
  BY <1>1, <1>3, <1>5, PruneGoesOn DEF PruneDeleteMisses
<1>6. CASE PruneRecountFails(r)
  BY <1>1, <1>4, <1>6, PruneGoesOn DEF PruneRecountFails
<1> QED
  BY <1>2, <1>5, <1>6

\* A pass reads the header rows of the plans it is about to mark.
LEMMA ReadRowsStep ==
    ASSUME IInv, NEW r \in Pruners, NEW S \in SUBSET Plans, NEW at \in {"flip", "mark"},
           prune[r].at \in {"recount", "supersede"}, \A p \in S : header[p] # None,
           at = "flip" => S \subseteq prune[r].victims /\ prune[r].at = "recount"
                          /\ \A p \in S : Stored(p) = {},
           prune' = [prune EXCEPT ![r] = [prune[r] EXCEPT !.at = at, !.rows = [p \in S |-> header[p]]]],
           UNCHANGED <<header, chunks, refs, compile, compact, clock, faults, overlap>>
    PROVE  IInv'
<1>a. PICK rows : rows = [p \in S |-> header[p]]
  OBVIOUS
<1>1. rows \in Rows /\ DOMAIN rows = S /\ \A p \in S : rows[p] = header[p]
  BY <1>a, PassState, ReadRows
<1> DEFINE j == PruneCall(at, prune[r].active, prune[r].victims, prune[r].supersede, rows)
<1>2. prune' = [prune EXCEPT ![r] = j]
  <2>1. prune[r] \in PruneState
    BY PassState
  <2>2. [prune[r] EXCEPT !.at = at, !.rows = rows] = j
    BY <2>1, ExceptRows
  <2> QED
    BY <1>a, <2>2
<1>3. /\ j \in PruneState /\ j.at = at /\ j.active = prune[r].active /\ j.victims = prune[r].victims
      /\ j.supersede = prune[r].supersede /\ j.rows = rows
  <2>1. prune[r] \in PruneState
    BY PassState
  <2> QED
    BY <1>1, <2>1, PruneParts, PruneFields
<1> HIDE DEF j
<1>4. prune'[r] = j
  BY <1>2, <1>3, PassState
<1>5. PruneKnown(r)'
  <2>1. \A p \in S : rows[p].at <= clock
    BY <1>1 DEF IInv, Dated
  <2>2. at = "flip" => \A p \in S : Stored(p)' = {}
    BY DEF Stored, ChunksOf
  <2> QED
    BY <1>1, <1>3, <1>4, <2>1, <2>2, PassState DEF PruneKnown
<1>6. ~overlap => PruneSafe(r)'
  <2>1. ~overlap => \A p \in prune[r].victims : OldEnough(p)'
    BY PassState DEF PruneSafe, OldEnough, NewerPlans
  <2> QED
    BY <1>1, <1>3, <1>4, <2>1, PassState DEF PruneSafe
<1> QED
  BY <1>2, <1>3, <1>5, <1>6, UnchangedKept, PassState, PruneOnlyStep

LEMMA PruneReadStep ==
    ASSUME IInv, NEW r \in Pruners, PruneRecount(r) \/ SupersedeRead(r)
    PROVE  IInv'
<1>1. /\ prune[r].victims \in SUBSET Plans /\ prune[r].supersede \in SUBSET Plans
      /\ \A p \in prune[r].victims \cup prune[r].supersede : header[p] # None
  BY PassState, PruneParts DEF PruneKnown
<1>2. CASE PruneRecount(r)
  <2> DEFINE S == IF \E p \in prune[r].victims : Stored(p) # {} THEN {} ELSE prune[r].victims
  <2>1. /\ prune[r].at = "recount" /\ UNCHANGED <<header, chunks, refs, compile, compact, clock, faults, overlap>>
        /\ prune' = [prune EXCEPT ![r] = [prune[r] EXCEPT !.at = "flip", !.rows = [p \in S |-> header[p]]]]
    BY <1>2 DEF PruneRecount, catalog, env
  <2>2. S \in SUBSET Plans /\ S \subseteq prune[r].victims /\ \A p \in S : header[p] # None /\ Stored(p) = {}
    BY <1>1
  <2> HIDE DEF S
  <2> QED
    BY <2>1, <2>2, ReadRowsStep
<1>3. CASE SupersedeRead(r)
  <2>1. /\ prune[r].at = "supersede" /\ UNCHANGED <<header, chunks, refs, compile, compact, clock, faults, overlap>>
        /\ prune' = [prune EXCEPT ![r] = [prune[r] EXCEPT !.at = "mark",
                                              !.rows = [p \in prune[r].supersede |-> header[p]]]]
    BY <1>3 DEF SupersedeRead, catalog, env
  <2> QED
    BY <1>1, <2>1, ReadRowsStep
<1> QED
  BY <1>2, <1>3

\* A batch of plans loses its chunks: the others keep theirs.
LEMMA DeleteLeaves ==
    ASSUME IInv, NEW S \in SUBSET Plans, DeleteChunks(S),
           UNCHANGED <<header, refs, compile, clock>>
    PROVE  /\ ChunksTyped' /\ Dated' /\ CompilesFast' /\ NoStrandedChunks'
           /\ \A q \in S : Stored(q)' = {}
           /\ \A q \in Plans \ S : Stored(q)' = Stored(q) /\ chunks'[q] = chunks[q]
           /\ \A q \in Plans : \A i \in Stored(q)' : i \in Stored(q) /\ chunks'[q][i] = chunks[q][i]
           /\ Safe
              /\ (\A p \in S : /\ ~Owed(p)
                               /\ header[p] # None => OldEnough(p)
                               /\ \A k \in Compilers : compile[k].plan # p)
                  => CompilesSafe' /\ ReferencedReadable' /\ LostAreOld'
<1>1. /\ ChunksTyped' /\ \A q \in S : \A i \in ChunksOf(q) : chunks'[q][i] = 0
      /\ \A q \in Plans \ S : chunks'[q] = chunks[q]
  BY DeleteEffect DEF IInv, TypeOK
<1>2. Dated' /\ CompilesFast'
  BY DEF IInv, Dated, CompilesFast
<1>3. \A q \in S : Stored(q)' = {}
  BY <1>1 DEF Stored, ChunksOf
<1>4. \A q \in Plans \ S : Stored(q)' = Stored(q) /\ chunks'[q] = chunks[q]
  BY <1>1 DEF Stored, ChunksOf
<1>5. \A q \in Plans : \A i \in Stored(q)' : i \in Stored(q) /\ chunks'[q][i] = chunks[q][i]
  BY <1>3, <1>4
<1>6. NoStrandedChunks'
  <2>1. ASSUME NEW q \in Plans, header[q] # None, header[q].state = "pruned", NEW i \in Stored(q)'
        PROVE  chunks'[q][i] >= header[q].at
    BY <1>5, <2>1 DEF IInv, NoStrandedChunks
  <2> QED
    BY <2>1 DEF NoStrandedChunks
<1>7. ASSUME Safe, \A p \in S : /\ ~Owed(p)
                                /\ header[p] # None => OldEnough(p)
                                /\ \A k \in Compilers : compile[k].plan # p
      PROVE  CompilesSafe' /\ ReferencedReadable' /\ LostAreOld'
  <2>1. \A q \in Plans \ S : Complete(q)' = Complete(q) /\ Readable(q)' = Readable(q)
    BY <1>4 DEF Complete, Readable, Stored, ChunksOf
  <2>2. \A q \in Plans : OldEnough(q)' = OldEnough(q)
    BY DEF OldEnough, NewerPlans
  <2>3. ReferencedReadable'
    <3>1. \A t \in Records : refs[t].owed => refs[t].plan \in Plans
      BY OwedParts
    <3> QED
      BY <1>7, <2>1, <3>1 DEF Safe, ReferencedReadable, Owed
  <2>4. LostAreOld'
    BY <1>7, <2>1, <2>2 DEF Safe, LostAreOld
  <2>5. ASSUME NEW k \in Compilers PROVE Sole(k)' /\ Whole(k)'
    <3>1. Sole(k) /\ Whole(k) /\ (compile[k].at # "idle" => compile[k].plan \in Plans)
      BY <1>7 DEF Safe, CompilesSafe, IInv, CompilesFast
    <3>2. PICK p : p = compile[k].plan
      OBVIOUS
    <3>3. p \in Plans => p \notin S
      BY <1>7, <3>2
    <3>4. p \in Plans => chunks'[p] = chunks[p]
      BY <1>4, <3>3
    <3> QED
      BY <3>1, <3>2, <3>4 DEF Sole, Whole, Complete, Stored, ChunksOf
  <2> QED
    BY <2>3, <2>4, <2>5 DEF CompilesSafe
<1> QED
  BY <1>1, <1>2, <1>3, <1>4, <1>5, <1>6, <1>7

\* Beside a retention pass, no compile works on a plan that has a header.
LEMMA NotCompiled ==
    ASSUME IInv, Safe, Retaining, NEW p \in Plans, header[p] # None, NEW k \in Compilers
    PROVE  compile[k].plan # p
<1>1. ~compile[k].again /\ Sole(k)
  BY DEF Safe, OneAtATime, Recompiling, CompilesSafe
<1>2. p # None
  BY PlanAssumption
<1> QED
  BY <1>1, <1>2 DEF Sole, IInv, CompilesFast

LEMMA PruneDeleteStep ==
    ASSUME IInv, NEW r \in Pruners, PruneDelete(r)
    PROVE  IInv'
<1>a. PICK S : S = prune[r].victims
  OBVIOUS
<1> DEFINE j == PruneCall("recount", prune[r].active, S, prune[r].supersede, prune[r].rows)
<1>1. /\ prune[r].at = "delete" /\ DeleteChunks(S)
      /\ prune' = [prune EXCEPT ![r] = [prune[r] EXCEPT !.at = "recount"]]
      /\ UNCHANGED <<header, refs, compile, compact, clock, faults, overlap>>
  BY <1>a DEF PruneDelete, env
<1>2. prune[r] \in PruneState /\ S \in SUBSET Plans
  BY <1>a, PassState, PruneParts
<1>3. prune' = [prune EXCEPT ![r] = j]
  <2>1. [prune[r] EXCEPT !.at = "recount"] = [prune[r] EXCEPT !.at = "recount", !.victims = prune[r].victims]
    BY <1>2, ExceptAt
  <2>2. [prune[r] EXCEPT !.at = "recount", !.victims = S] = j
    BY <1>2, ExceptVictims
  <2> QED
    BY <1>1, <1>a, <2>1, <2>2
<1>4. /\ j \in PruneState /\ j.at = "recount" /\ j.active = prune[r].active /\ j.victims = S
      /\ j.supersede = prune[r].supersede /\ j.rows = prune[r].rows
  BY <1>2, PruneParts, PruneFields
<1> HIDE DEF j
<1>5. /\ prune' \in [Pruners -> PruneState] /\ prune'[r] = j
      /\ \A h \in Pruners \ {r} : prune'[h] = prune[h]
  BY <1>3, <1>4, PassState, PruneMoves
<1>6. /\ ChunksTyped' /\ Dated' /\ CompilesFast' /\ NoStrandedChunks'
      /\ \A q \in Plans : \A i \in Stored(q)' : i \in Stored(q) /\ chunks'[q][i] = chunks[q][i]
  BY <1>1, <1>2, DeleteLeaves
<1>7. TypeOK'
  BY <1>1, <1>5, <1>6 DEF IInv, TypeOK
<1>8. DOMAIN prune[r].rows = {}
  BY <1>1, PassState DEF PruneKnown
<1>9. PrunesKnown'
  <2>1. PruneKnown(r)'
    BY <1>a, <1>1, <1>4, <1>5, <1>8, PassState DEF PruneKnown
  <2>2. ASSUME NEW h \in Pruners \ {r} PROVE PruneKnown(h)'
    <3>1. PruneKnown(h) /\ prune'[h] = prune[h] /\ prune[h] \in PruneState
      BY <1>5, PassState
    <3>2. \A q \in DOMAIN prune[h].rows : q \in Plans
      BY <3>1, PruneParts, RowsTyped
    <3> QED
      BY <1>1, <1>6, <3>1, <3>2 DEF PruneKnown
  <2> QED
    BY <2>1, <2>2 DEF PrunesKnown
<1>10. ASSUME ~overlap PROVE Safe'
  <2>1. Safe /\ Retaining /\ PruneSafe(r)
    BY <1>1, <1>10, PassState DEF Retaining
  <2>2. \A p \in S : ~Owed(p) /\ OldEnough(p)
    BY <1>a, <1>1, <2>1 DEF PruneSafe, Owed
  <2>3. \A p \in S : \A k \in Compilers : compile[k].plan # p
    <3>1. \A p \in S : header[p] # None
      BY <1>a, PassState DEF PruneKnown
    <3> QED
      BY <1>2, <2>1, <3>1, NotCompiled
  <2>4. CompilesSafe' /\ ReferencedReadable' /\ LostAreOld'
    BY <1>1, <1>2, <2>1, <2>2, <2>3, DeleteLeaves
  <2>5. OneAtATime'
    <3>1. Recompiling' = Recompiling
      BY <1>1 DEF Recompiling
    <3> QED
      BY <1>1, <1>5, <2>1, <3>1 DEF Safe, OneAtATime, Retaining
  <2>6. PrunesSafe'
    <3>1. \A q \in Plans : OldEnough(q)' = OldEnough(q)
      BY <1>1 DEF OldEnough, NewerPlans
    <3>2. ASSUME NEW h \in Pruners \ {r} PROVE PruneSafe(h)'
      <4>1. PruneSafe(h) /\ prune'[h] = prune[h] /\ prune[h].victims \subseteq Plans
        BY <1>5, <1>10, PassState, PruneParts
      <4> QED
        BY <1>1, <3>1, <4>1 DEF PruneSafe
    <3>3. PruneSafe(r)'
      BY <1>a, <1>1, <1>2, <1>4, <1>5, <1>8, <2>1, <3>1 DEF PruneSafe
    <3> QED
      BY <3>2, <3>3 DEF PrunesSafe
  <2>7. CompactsSafe'
    <3>1. \A c \in Compactors : compact[c].at = "idle"
      BY <1>1, <2>1 DEF Safe, OneAtATime
    <3> QED
      BY <1>1, <3>1 DEF CompactsSafe, CompactSafe
  <2> QED
    BY <2>4, <2>5, <2>6, <2>7 DEF Safe
<1> QED
  BY <1>1, <1>6, <1>7, <1>9, <1>10 DEF IInv

\* The upsert of a batch of header rows.
LEMMA MarkEffect ==
    ASSUME header \in [Plans -> Header \cup {None}], NEW rows \in Rows,
           NEW state \in {"superseded", "pruned"}, ApplyState(rows, state)
    PROVE  /\ header' \in [Plans -> Header \cup {None}]
           /\ \A p \in DOMAIN rows : /\ header'[p] \in Header /\ header'[p].state = state
                                     /\ header'[p].frozen = rows[p].frozen /\ header'[p].at = rows[p].at
           /\ \A p \in Plans : p \notin DOMAIN rows => header'[p] = header[p]
<1>1. DOMAIN rows \subseteq Plans /\ \A p \in DOMAIN rows : rows[p] \in Header
  BY RowsTyped
<1> DEFINE mark(row) == [row EXCEPT !.state = state]
<1>2. \A row \in Header : /\ mark(row) \in Header /\ mark(row).state = state
                          /\ mark(row).frozen = row.frozen /\ mark(row).at = row.at
  BY DEF Header
<1>3. header' = [p \in Plans |-> IF p \in DOMAIN rows THEN mark(rows[p]) ELSE header[p]]
  BY DEF ApplyState
<1> HIDE DEF mark
<1> QED
  BY <1>1, <1>2, <1>3

\* A pass marks the plans whose headers it has read.
LEMMA MarkStep ==
    ASSUME IInv, NEW r \in Pruners, NEW state \in {"superseded", "pruned"}, NEW j \in PruneState,
           prune[r].at \in {"flip", "mark"}, state = "pruned" => prune[r].at = "flip",
           ApplyState(prune[r].rows, state), prune' = [prune EXCEPT ![r] = j],
           j.active = {} /\ j.victims = {} /\ j.supersede \subseteq prune[r].supersede,
           DOMAIN j.rows = {} /\ j.at \notin {"flip", "mark"},
           UNCHANGED <<chunks, refs, compile, compact, clock, faults, overlap>>
    PROVE  IInv'
<1>a. PICK rows : rows = prune[r].rows
  OBVIOUS
<1>1. /\ prune' \in [Pruners -> PruneState] /\ prune'[r] = j
      /\ \A h \in Pruners \ {r} : prune'[h] = prune[h]
  BY PruneMoves, PassState
<1>2. prune[r] \in PruneState /\ rows \in Rows
  BY <1>a, PassState, PruneParts
<1>3. DOMAIN rows \subseteq Plans /\ \A p \in DOMAIN rows : rows[p] \in Header
  BY <1>2, RowsTyped
<1>4. /\ header' \in [Plans -> Header \cup {None}]
      /\ \A p \in DOMAIN rows : /\ header'[p] \in Header /\ header'[p].state = state
                                /\ header'[p].frozen = rows[p].frozen /\ header'[p].at = rows[p].at
      /\ \A p \in Plans : p \notin DOMAIN rows => header'[p] = header[p]
  BY <1>a, <1>2, PassState, MarkEffect
<1>5. \A p \in Header : p # None
  BY PlanAssumption
<1>6. TypeOK'
  BY <1>1, <1>4 DEF IInv, TypeOK, ChunksTyped
<1>7. \A p \in DOMAIN rows : rows[p].at <= clock
  BY <1>a, PassState DEF PruneKnown
<1>8. Dated' /\ CompilesFast'
  BY <1>4, <1>7 DEF IInv, Dated, CompilesFast
<1>9. NoStrandedChunks'
  <2>1. ASSUME NEW p \in Plans, header'[p] # None, header'[p].state = "pruned", NEW i \in Stored(p)
        PROVE  chunks[p][i] >= header'[p].at
    <3>1. CASE p \in DOMAIN rows
      BY <1>a, <1>4, <2>1, <3>1, PassState DEF PruneKnown
    <3>2. CASE p \notin DOMAIN rows
      BY <1>4, <2>1, <3>2 DEF IInv, NoStrandedChunks
    <3> QED
      BY <3>1, <3>2
  <2> QED
    BY <2>1 DEF NoStrandedChunks, Stored, ChunksOf
<1>10. PrunesKnown'
  <2>1. \A p \in Plans : header[p] # None => header'[p] # None
    BY <1>4, <1>5
  <2>2. PruneKnown(r)'
    <3>1. j.supersede \subseteq Plans /\ \A p \in j.supersede : header[p] # None
      BY <1>2, PassState, PruneParts DEF PruneKnown
    <3> QED
      BY <1>1, <2>1, <3>1 DEF PruneKnown
  <2>3. ASSUME NEW h \in Pruners \ {r} PROVE PruneKnown(h)'
    <3>1. PruneKnown(h) /\ prune'[h] = prune[h] /\ prune[h] \in PruneState
      BY <1>1, PassState
    <3>2. prune[h].active \cup prune[h].victims \cup prune[h].supersede \subseteq Plans
      BY <3>1, PruneParts
    <3> QED
      BY <2>1, <3>1, <3>2 DEF PruneKnown, Stored, ChunksOf
  <2> QED
    BY <2>2, <2>3 DEF PrunesKnown
<1>11. ASSUME ~overlap PROVE Safe'
  <2>1. Safe /\ Retaining /\ PruneSafe(r)
    BY <1>11, PassState DEF Retaining
  <2>2. \A p \in DOMAIN rows : rows[p] = header[p]
    BY <1>a, <2>1 DEF PruneSafe
  <2>3. /\ \A p \in Plans : header'[p] = None <=> header[p] = None
        /\ \A p \in Plans : header[p] # None => /\ header'[p].frozen = header[p].frozen
                                                /\ header'[p].at = header[p].at
    BY <1>3, <1>4, <1>5, <2>2
  <2>4. \A p \in Plans : OldEnough(p) /\ header[p] # None => OldEnough(p)'
    <3>1. \A p \in Plans : header[p] # None => header[p].at \in Nat
      BY PassState DEF Header
    <3>2. TypeOK
      BY DEF IInv
    <3>3. \A p \in Plans : header[p] # None => header'[p] # None /\ header'[p].at >= header[p].at
      BY <2>3, <3>1
    <3> QED
      BY <1>6, <2>3, <3>2, <3>3, StaysOld
  <2>5. \A p \in Plans : /\ ~Owed(p) \/ Readable(p)'
                         /\ Readable(p) => Readable(p)' \/ OldEnough(p)
    <3>1. ASSUME NEW p \in Plans, Readable(p), ~Readable(p)' PROVE ~Owed(p) /\ OldEnough(p)
      <4>1. p \in DOMAIN rows /\ state = "pruned"
        BY <1>4, <2>3, <3>1 DEF Readable, Complete, Stored, ChunksOf
      <4> QED
        BY <1>a, <2>1, <4>1 DEF PruneSafe, Owed
    <3>2. \A p \in Plans : Owed(p) => Readable(p)
      BY <2>1 DEF Safe, ReferencedReadable, Owed
    <3> QED
      BY <3>1, <3>2
  <2>6. ReferencedReadable'
    <3>1. \A t \in Records : refs[t].owed => refs[t].plan \in Plans
      BY OwedParts
    <3> QED
      BY <2>5, <3>1 DEF ReferencedReadable, Owed
  <2>7. LostAreOld'
    <3>1. ASSUME NEW p \in Plans, header'[p] # None, ~Readable(p)' PROVE OldEnough(p)'
      <4>1. header[p] # None /\ (~Readable(p) => OldEnough(p))
        BY <2>1, <2>3, <3>1 DEF Safe, LostAreOld
      <4> QED
        BY <2>4, <2>5, <3>1, <4>1
    <3> QED
      BY <3>1 DEF LostAreOld
  <2>8. OneAtATime'
    <3>1. Recompiling' = Recompiling
      BY DEF Recompiling
    <3> QED
      BY <1>1, <2>1, <3>1 DEF Safe, OneAtATime, Retaining
  <2>9. CompilesSafe'
    <3>1. ASSUME NEW k \in Compilers PROVE Sole(k)' /\ Whole(k)'
      <4>1. Sole(k) /\ Whole(k) /\ (compile[k].at # "idle" => compile[k].plan \in Plans)
        BY <2>1 DEF Safe, CompilesSafe, IInv, CompilesFast
      <4>2. PICK p : p = compile[k].plan
        OBVIOUS
      <4> QED
        BY <2>3, <4>1, <4>2 DEF Sole, Whole, Complete, Stored, ChunksOf
    <3> QED
      BY <3>1 DEF CompilesSafe
  <2>10. PrunesSafe'
    <3>1. \A h \in Pruners : prune'[h].victims = {} /\ DOMAIN prune'[h].rows = {}
      <4>1. \A h \in Pruners \ {r} : prune[h].at = "idle" /\ PruneKnown(h)
        BY <2>1, PassState DEF Safe, OneAtATime
      <4> QED
        BY <1>1, <4>1 DEF PruneKnown
    <3> QED
      BY <3>1 DEF PrunesSafe, PruneSafe
  <2>11. CompactsSafe'
    <3>1. \A c \in Compactors : compact[c].at = "idle"
      BY <2>1 DEF Safe, OneAtATime
    <3> QED
      BY <3>1 DEF CompactsSafe, CompactSafe
  <2> QED
    BY <2>6, <2>7, <2>8, <2>9, <2>10, <2>11 DEF Safe
<1> QED
  BY <1>6, <1>8, <1>9, <1>10, <1>11 DEF IInv

LEMMA PruneMarkStep ==
    ASSUME IInv, NEW r \in Pruners, PruneFlip(r) \/ SupersedeMark(r)
    PROVE  IInv'
<1>1. prune[r] \in PruneState
  BY PassState
<1>2. CASE PruneFlip(r)
  <2> DEFINE j == PruneCall("supersede", {}, {}, prune[r].supersede, << >>)
  <2>1. /\ prune[r].at = "flip" /\ ApplyState(prune[r].rows, "pruned")
        /\ UNCHANGED <<chunks, refs, compile, compact, clock, faults, overlap>>
        /\ prune' = [prune EXCEPT ![r] = [prune[r] EXCEPT !.at = "supersede", !.active = {}, !.victims = {},
                                                          !.rows = << >>]]
    BY <1>2 DEF PruneFlip, env
  <2>2. [prune[r] EXCEPT !.at = "supersede", !.active = {}, !.victims = {}, !.rows = << >>] = j
    BY <1>1, ExceptAll
  <2>3. prune' = [prune EXCEPT ![r] = j]
    BY <2>1, <2>2
  <2>4. /\ j \in PruneState /\ j.at = "supersede" /\ j.active = {} /\ j.victims = {}
        /\ j.supersede = prune[r].supersede /\ j.rows = << >>
    BY <1>1, NoRows, PruneParts, PruneFields
  <2> HIDE DEF j
  <2> QED
    BY <2>1, <2>3, <2>4, NoRows, MarkStep
<1>3. CASE SupersedeMark(r)
  <2>1. /\ prune[r].at = "mark" /\ ApplyState(prune[r].rows, "superseded")
        /\ UNCHANGED <<chunks, refs, compile, compact, clock, faults, overlap>>
        /\ prune' = [prune EXCEPT ![r] = NoPrune]
    BY <1>3 DEF SupersedeMark, env
  <2> QED
    BY <2>1, IdleStates, MarkStep
<1> QED
  BY <1>2, <1>3

-----------------------------------------------------------------------------
\* Compaction.

CompactCall(at, cutoff, heads, victims) == [at |-> at, cutoff |-> cutoff, heads |-> heads, victims |-> victims]

LEMMA CompactFields ==
    ASSUME NEW at \in {"idle", "scan", "recheck", "delete"}, NEW cutoff \in Int,
           NEW heads \in SUBSET Plans, NEW victims \in SUBSET Plans
    PROVE  LET j == CompactCall(at, cutoff, heads, victims)
           IN  /\ j \in CompactState /\ j.at = at /\ j.cutoff = cutoff /\ j.heads = heads
               /\ j.victims = victims
  BY DEF CompactCall, CompactState

LEMMA CompactParts ==
    ASSUME NEW c \in CompactState
    PROVE  c.cutoff \in Int /\ c.heads \in SUBSET Plans /\ c.victims \in SUBSET Plans
  BY DEF CompactState

LEMMA CompactExcept ==
    ASSUME NEW c \in CompactState, NEW at, NEW victims
    PROVE  [c EXCEPT !.at = at, !.victims = victims] = CompactCall(at, c.cutoff, c.heads, victims)
<1> DEFINE AtOf(j) == [j EXCEPT !.at = at]
           VictimsOf(j) == [j EXCEPT !.victims = victims]
<1>1. AtOf(c) = CompactCall(at, c.cutoff, c.heads, c.victims)
  BY DEF CompactCall, CompactState
<1>2. \A T, H, V : VictimsOf(CompactCall(at, T, H, V)) = CompactCall(at, T, H, victims)
  BY DEF CompactCall
<1>3. [c EXCEPT !.at = at, !.victims = victims] = VictimsOf(AtOf(c))
  OBVIOUS
<1> HIDE DEF AtOf, VictimsOf
<1> QED
  BY <1>1, <1>2, <1>3

\* A step of compaction that leaves the catalog alone.
LEMMA CompactOnlyStep ==
    ASSUME IInv, NEW c \in Compactors, NEW j \in CompactState, compact' = [compact EXCEPT ![c] = j],
           UNCHANGED <<header, chunks, refs, compile, prune, clock, overlap>>, faults' \in Nat,
           ~overlap /\ Safe =>
               /\ CompactSafe(c)'
               /\ j.at # "idle" => compact[c].at # "idle" \/ (~Retaining /\ ~Recompiling)
    PROVE  IInv'
<1>1. /\ compact' \in [Compactors -> CompactState] /\ compact'[c] = j
      /\ \A h \in Compactors \ {c} : compact'[h] = compact[h]
  BY CompactMoves DEF IInv, TypeOK
<1>2. TypeOK' /\ Dated' /\ CompilesFast' /\ NoStrandedChunks' /\ PrunesKnown'
  BY <1>1 DEF IInv, TypeOK, ChunksTyped, Dated, CompilesFast, NoStrandedChunks, PrunesKnown, PruneKnown,
              Stored, ChunksOf
<1>3. ASSUME ~overlap, Safe PROVE Safe'
  <2>1. OneAtATime'
    <3>1. Recompiling' = Recompiling
      BY DEF Recompiling
    <3>2. CASE j.at = "idle"
      BY <1>1, <1>3, <3>1, <3>2 DEF Safe, OneAtATime, Retaining
    <3>3. CASE compact[c].at # "idle"
      BY <1>1, <1>3, <3>1, <3>3 DEF Safe, OneAtATime, Retaining
    <3>4. CASE ~Retaining /\ ~Recompiling
      BY <1>1, <1>3, <3>1, <3>4 DEF Safe, OneAtATime, Retaining
    <3> QED
      BY <1>3, <3>2, <3>3, <3>4
  <2>2. CompilesSafe'
    BY <1>3 DEF Safe, CompilesSafe, Sole, Whole, Complete, Stored, ChunksOf
  <2>a. PrunesSafe'
    BY <1>3 DEF Safe, PrunesSafe, PruneSafe, OldEnough, NewerPlans
  <2>b. ReferencedReadable'
    BY <1>3 DEF Safe, ReferencedReadable, Readable, Complete, Stored, ChunksOf
  <2>3. LostAreOld'
    BY <1>3 DEF Safe, LostAreOld, OldEnough, NewerPlans, Readable, Complete, Stored, ChunksOf
  <2>4. CompactsSafe'
    <3>1. ASSUME NEW h \in Compactors \ {c} PROVE CompactSafe(h)'
      <4>1. CompactSafe(h) /\ compact'[h] = compact[h]
        BY <1>1, <1>3 DEF Safe, CompactsSafe
      <4> QED
        BY <4>1 DEF CompactSafe, Stored, ChunksOf
    <3> QED
      BY <1>3, <3>1 DEF CompactsSafe
  <2> QED
    BY <2>1, <2>2, <2>a, <2>b, <2>3, <2>4 DEF Safe
<1> QED
  BY <1>2, <1>3 DEF IInv

\* What the steps of compaction start from.
LEMMA CompactionState ==
    ASSUME IInv, NEW c \in Compactors
    PROVE  /\ compact[c] \in CompactState /\ compact \in [Compactors -> CompactState]
           /\ header \in [Plans -> Header \cup {None}] /\ clock \in Nat /\ faults \in Nat
           /\ ~overlap => Safe /\ CompactSafe(c)
  BY DEF IInv, TypeOK, Safe, CompactsSafe

LEMMA CompactHeadsStep ==
    ASSUME IInv, NEW c \in Compactors, CompactHeads(c)
    PROVE  IInv'
<1> DEFINE heads == {p \in Plans : header[p] # None}
           j == CompactCall("scan", clock - Grace, heads, {})
<1>1. /\ compact' = [compact EXCEPT ![c] = j]
      /\ overlap \/ (~Recompiling /\ ~Retaining)
      /\ UNCHANGED <<header, chunks, refs, compile, prune, clock, faults, overlap>>
  BY DEF CompactHeads, CompactCall, catalog, env
<1>2. /\ j \in CompactState /\ j.at = "scan" /\ j.cutoff = clock - Grace /\ j.victims = {}
      /\ clock \in Nat /\ Grace \in Nat
  <2>1. clock \in Nat /\ Grace \in Nat /\ heads \in SUBSET Plans /\ {} \in SUBSET Plans
    BY CompactionState, BoundAssumption
  <2>2. clock - Grace \in Int
    BY <2>1
  <2> HIDE DEF heads
  <2> QED
    BY <2>1, <2>2, CompactFields
<1> HIDE DEF j
<1>3. compact'[c] = j
  BY <1>1, <1>2, CompactionState
<1>4. CompactSafe(c)'
  <2>1. j.cutoff + Grace <= clock
    BY <1>2
  <2> QED
    BY <1>1, <1>2, <1>3, <2>1 DEF CompactSafe
<1> QED
  BY <1>1, <1>2, <1>4, CompactionState, CompactOnlyStep

LEMMA CompactScanStep ==
    ASSUME IInv, NEW c \in Compactors, CompactScan(c) \/ CompactRecheck(c)
    PROVE  IInv'
<1>1. compact[c] \in CompactState /\ compact[c].victims \subseteq Plans /\ compact[c].cutoff \in Int
  BY CompactionState, CompactParts
<1>2. ASSUME NEW at \in {"recheck", "delete"}, NEW V \in SUBSET Plans, compact[c].at # "idle",
             UNCHANGED <<header, chunks, refs, compile, prune, clock, faults, overlap>>,
             compact' = [compact EXCEPT ![c] = [compact[c] EXCEPT !.at = at, !.victims = V]],
             ~overlap => \A p \in V : /\ Stored(p) # {} /\ \A k \in Compilers : compile[k].plan # p
                                      /\ at = "delete" => header[p] = None
      PROVE  IInv'
  <2> DEFINE j == CompactCall(at, compact[c].cutoff, compact[c].heads, V)
  <2>1. [compact[c] EXCEPT !.at = at, !.victims = V] = j
    BY <1>1, CompactExcept
  <2>2. compact' = [compact EXCEPT ![c] = j]
    BY <1>2, <2>1
  <2>3. j \in CompactState /\ j.at = at /\ j.victims = V
    BY <1>1, CompactParts, CompactFields
  <2> HIDE DEF j
  <2>4. compact'[c] = j
    BY <2>2, <2>3, CompactionState
  <2>5. ~overlap => CompactSafe(c)'
    <3>1. \A p \in V : Stored(p)' = Stored(p)
      BY <1>2 DEF Stored, ChunksOf
    <3> QED
      BY <1>2, <2>3, <2>4, <3>1 DEF CompactSafe
  <2> QED
    BY <1>2, <2>2, <2>3, <2>5, CompactionState, CompactOnlyStep
<1>3. CASE CompactScan(c)
  <2>a. PICK V : V = {p \in Plans \ compact[c].heads :
                         /\ Stored(p) # {}
                         /\ \A i \in Stored(p) : chunks[p][i] < compact[c].cutoff}
    OBVIOUS
  <2>1. /\ compact[c].at = "scan" /\ UNCHANGED <<header, chunks, refs, compile, prune, clock, faults, overlap>>
        /\ compact' = [compact EXCEPT ![c] = [compact[c] EXCEPT !.at = "recheck", !.victims = V]]
    BY <1>3, <2>a DEF CompactScan, catalog, env
  <2>2. ASSUME ~overlap, NEW p \in V, NEW k \in Compilers, compile[k].plan = p PROVE FALSE
    <3>1. Safe /\ Retaining /\ compact[c].cutoff + Grace <= clock
      BY <2>1, <2>2, CompactionState DEF Retaining, CompactSafe
    <3>2. p \in Plans /\ p # None
      BY <2>a, PlanAssumption
    <3>3. compile[k].at # "idle" /\ ~compile[k].again /\ Sole(k) /\ compile[k].since \in Nat
      BY <2>2, <3>1, <3>2 DEF IInv, CompilesFast, Safe, OneAtATime, Recompiling, CompilesSafe, TypeOK,
                              CompileState
    <3>4. PICK i \in Stored(p) : chunks[p][i] >= compile[k].since
      BY <2>a, <2>2, <3>3 DEF Sole
    <3>5. clock - compile[k].since <= Grace
      BY <3>3 DEF IInv, CompilesFast
    <3>6. chunks[p][i] < compact[c].cutoff /\ chunks[p][i] \in Nat
      <4>1. ChunksTyped /\ i \in ChunksOf(p)
        BY <3>4 DEF IInv, TypeOK, Stored
      <4> QED
        BY <2>a, <3>2, <3>4, <4>1, ChunkOfPlan
    <3>7. clock \in Nat /\ Grace \in Nat
      BY CompactionState, BoundAssumption
    <3> QED
      BY <1>1, <3>1, <3>3, <3>4, <3>5, <3>6, <3>7
  <2>3. V \in SUBSET Plans /\ \A p \in V : Stored(p) # {}
    BY <2>a
  <2> QED
    BY <1>2, <2>1, <2>2, <2>3
<1>4. CASE CompactRecheck(c)
  <2>a. PICK V : V = {p \in compact[c].victims : header[p] = None}
    OBVIOUS
  <2>1. /\ compact[c].at = "recheck" /\ UNCHANGED <<header, chunks, refs, compile, prune, clock, faults, overlap>>
        /\ compact' = [compact EXCEPT ![c] = [compact[c] EXCEPT !.at = "delete", !.victims = V]]
    BY <1>4, <2>a DEF CompactRecheck, catalog, env
  <2>2. V \in SUBSET Plans /\ V \subseteq compact[c].victims /\ \A p \in V : header[p] = None
    BY <1>1, <2>a
  <2>3. ~overlap => \A p \in V : Stored(p) # {} /\ \A k \in Compilers : compile[k].plan # p
    BY <2>1, <2>2, CompactionState DEF CompactSafe
  <2> QED
    BY <1>2, <2>1, <2>2, <2>3
<1> QED
  BY <1>3, <1>4

LEMMA CompactDeleteStep ==
    ASSUME IInv, NEW c \in Compactors, CompactDelete(c)
    PROVE  IInv'
<1>a. PICK S : S = compact[c].victims
  OBVIOUS
<1>1. /\ compact[c].at = "delete" /\ DeleteChunks(S)
      /\ compact' = [compact EXCEPT ![c] = NoCompact]
      /\ UNCHANGED <<header, refs, compile, prune, clock, faults, overlap>>
  BY <1>a DEF CompactDelete, env
<1>2. S \in SUBSET Plans
  BY <1>a, CompactionState, CompactParts
<1>3. /\ compact' \in [Compactors -> CompactState] /\ compact'[c] = NoCompact
      /\ \A h \in Compactors \ {c} : compact'[h] = compact[h]
  BY <1>1, CompactionState, CompactMoves, IdleStates
<1>4. /\ ChunksTyped' /\ Dated' /\ CompilesFast' /\ NoStrandedChunks'
      /\ \A q \in Plans : \A i \in Stored(q)' : i \in Stored(q) /\ chunks'[q][i] = chunks[q][i]
  BY <1>1, <1>2, DeleteLeaves
<1>5. TypeOK'
  BY <1>1, <1>3, <1>4 DEF IInv, TypeOK
<1>6. PrunesKnown'
  <2>1. ASSUME NEW h \in Pruners PROVE PruneKnown(h)'
    <3>1. PruneKnown(h) /\ prune[h] \in PruneState
      BY PassState
    <3>2. \A q \in DOMAIN prune[h].rows : q \in Plans
      BY <3>1, PruneParts, RowsTyped
    <3> QED
      BY <1>1, <1>4, <3>1, <3>2 DEF PruneKnown
  <2> QED
    BY <2>1 DEF PrunesKnown
<1>7. ASSUME ~overlap PROVE Safe'
  <2>1. Safe /\ CompactSafe(c)
    BY <1>7, CompactionState
  <2>2. \A p \in S : header[p] = None /\ \A k \in Compilers : compile[k].plan # p
    BY <1>a, <1>1, <2>1 DEF CompactSafe
  <2>3. \A p \in S : ~Owed(p)
    BY <2>1, <2>2 DEF Safe, ReferencedReadable, Readable, Owed
  <2>4. CompilesSafe' /\ ReferencedReadable' /\ LostAreOld'
    BY <1>1, <1>2, <2>1, <2>2, <2>3, DeleteLeaves
  <2>5. OneAtATime'
    <3>1. Recompiling' = Recompiling
      BY <1>1 DEF Recompiling
    <3> QED
      BY <1>1, <1>3, <2>1, <3>1, IdleStates DEF Safe, OneAtATime, Retaining
  <2>6. PrunesSafe'
    BY <1>1, <2>1 DEF Safe, PrunesSafe, PruneSafe, OldEnough, NewerPlans
  <2>7. CompactsSafe'
    <3>1. \A h \in Compactors : compact'[h].at = "idle"
      BY <1>1, <1>3, <2>1, IdleStates DEF Safe, OneAtATime
    <3> QED
      BY <3>1 DEF CompactsSafe, CompactSafe
  <2> QED
    BY <2>4, <2>5, <2>6, <2>7 DEF Safe
<1> QED
  BY <1>1, <1>4, <1>5, <1>6, <1>7 DEF IInv

-----------------------------------------------------------------------------
\* The environment.

\* A step of a record: what it comes to be owed can be read and is not being deleted.
LEMMA RecordOnlyStep ==
    ASSUME IInv, UNCHANGED <<header, chunks, compile, prune, compact, clock, overlap>>, faults' \in Nat,
           refs' \in [Records -> RefState],
           \A t \in Records : refs'[t].owed =>
               \/ refs[t].owed /\ refs'[t].plan = refs[t].plan
               \/ refs'[t].plan \in Plans /\ Readable(refs'[t].plan) /\ ~Deleting(refs'[t].plan)
    PROVE  IInv'
<1>1. TypeOK' /\ Dated' /\ CompilesFast' /\ PrunesKnown' /\ NoStrandedChunks'
  BY DEF IInv, TypeOK, ChunksTyped, Dated, CompilesFast, PrunesKnown, PruneKnown, NoStrandedChunks,
         Stored, ChunksOf
<1>2. ASSUME ~overlap, Safe PROVE Safe'
  <2>1. OneAtATime' /\ CompilesSafe' /\ CompactsSafe'
    BY <1>2 DEF Safe, OneAtATime, Retaining, Recompiling, CompilesSafe, Sole, Whole, CompactsSafe,
                CompactSafe, Complete, Stored, ChunksOf
  <2>2. \A q \in Plans : Readable(q)' = Readable(q) /\ OldEnough(q)' = OldEnough(q)
    BY DEF Readable, Complete, Stored, ChunksOf, OldEnough, NewerPlans
  <2>3. LostAreOld'
    BY <1>2, <2>2 DEF Safe, LostAreOld
  <2>4. ReferencedReadable'
    BY <1>2, <2>2, OwedParts DEF Safe, ReferencedReadable
  <2>5. PrunesSafe'
    <3>1. ASSUME NEW r \in Pruners PROVE PruneSafe(r)'
      <4>1. PruneSafe(r) /\ prune'[r] = prune[r] /\ prune[r].victims \subseteq Plans
        BY <1>2, PassState, PruneParts
      <4>2. prune[r].at \in {"delete", "recount", "flip"} =>
                \A t \in Records : refs'[t].owed => refs'[t].plan \notin prune[r].victims
        BY <4>1 DEF PruneSafe, Deleting
      <4> QED
        BY <2>2, <4>1, <4>2 DEF PruneSafe
    <3> QED
      BY <3>1 DEF PrunesSafe
  <2> QED
    BY <2>1, <2>3, <2>4, <2>5 DEF Safe
<1> QED
  BY <1>1, <1>2 DEF IInv

\* One record changes.
LEMMA RecordMoves ==
    ASSUME IInv, NEW t \in Records, NEW ref \in RefState, refs' = [refs EXCEPT ![t] = ref],
           UNCHANGED <<header, chunks, compile, prune, compact, clock, overlap>>, faults' \in Nat,
           ref.owed => ref.plan \in Plans /\ Readable(ref.plan) /\ ~Deleting(ref.plan)
    PROVE  IInv'
<1>1. refs \in [Records -> RefState]
  BY DEF IInv, TypeOK
<1>2. refs' \in [Records -> RefState] /\ refs'[t] = ref /\ \A u \in Records \ {t} : refs'[u] = refs[u]
  BY <1>1
<1> QED
  BY <1>2, RecordOnlyStep

LEMMA RecordStep ==
    ASSUME IInv, NEW t \in Records, RecordAdd(t) \/ \E p \in Plans : RecordDelete(t, p)
    PROVE  IInv'
<1>1. refs[t] \in RefState /\ faults \in Nat
  BY DEF IInv, TypeOK
<1>2. CASE RecordAdd(t)
  <2>a. PICK p : p = refs[t].plan
    OBVIOUS
  <2>b. PICK owed \in BOOLEAN : owed = (Readable(p) /\ ~Deleting(p))
    BY DEF Readable, Deleting
  <2> DEFINE ref == [at |-> "there", plan |-> p, owed |-> owed]
  <2>1. p \in Plans
    BY <1>1, <1>2, <2>a DEF RecordAdd, RefState, NoRef
  <2>2. ref \in RefState /\ ref.plan = p /\ ref.owed = owed
    BY <2>1 DEF RefState
  <2>3. refs' = [refs EXCEPT ![t] = ref] /\ UNCHANGED <<header, chunks, compile, prune, compact, clock, faults, overlap>>
    BY <1>2, <2>a, <2>b DEF RecordAdd, catalog, env
  <2> HIDE DEF ref
  <2> QED
    BY <1>1, <2>b, <2>1, <2>2, <2>3, RecordMoves
<1>3. ASSUME NEW p \in Plans, RecordDelete(t, p) PROVE IInv'
  <2> DEFINE ref == [at |-> "adding", plan |-> p, owed |-> FALSE]
  <2>1. ref \in RefState /\ ~ref.owed
    BY DEF RefState
  <2>2. refs' = [refs EXCEPT ![t] = ref] /\ UNCHANGED <<header, chunks, compile, prune, compact, clock, faults, overlap>>
    BY <1>3 DEF RecordDelete, catalog, env
  <2> HIDE DEF ref
  <2> QED
    BY <1>1, <2>1, <2>2, RecordMoves
<1> QED
  BY <1>2, <1>3

LEMMA DieStep ==
    ASSUME IInv, Die
    PROVE  IInv'
<1>1. faults' \in Nat /\ UNCHANGED <<header, chunks, clock, overlap>>
  BY DEF Die, catalog, IInv, TypeOK
<1>2. ASSUME NEW k \in Compilers, compile' = [compile EXCEPT ![k] = NoCompile],
             UNCHANGED <<prune, compact, refs>>
      PROVE  IInv'
  BY <1>1, <1>2, IdleStates, CompileOnlyStep
<1>3. ASSUME NEW r \in Pruners, prune' = [prune EXCEPT ![r] = NoPrune], UNCHANGED <<compile, compact, refs>>
      PROVE  IInv'
  <2>1. prune'[r] = NoPrune /\ RefsKept
    BY <1>3, PassState, UnchangedKept
  <2>2. PruneKnown(r)' /\ PruneSafe(r)'
    BY <2>1, IdleStates DEF PruneKnown, PruneSafe
  <2> QED
    BY <1>1, <1>3, <2>1, <2>2, IdleStates, PruneOnlyStep
<1>4. ASSUME NEW c \in Compactors, compact' = [compact EXCEPT ![c] = NoCompact],
             UNCHANGED <<compile, prune, refs>>
      PROVE  IInv'
  <2>1. compact'[c] = NoCompact
    BY <1>4, CompactionState
  <2>2. CompactSafe(c)'
    BY <2>1, IdleStates DEF CompactSafe
  <2> QED
    BY <1>1, <1>4, <2>2, IdleStates, CompactOnlyStep
<1>5. ASSUME NEW t \in Records, refs' = [refs EXCEPT ![t] = NoRef], UNCHANGED <<compile, prune, compact>>
      PROVE  IInv'
  <2>1. NoRef \in RefState /\ ~NoRef.owed
    BY DEF RefState, NoRef
  <2> QED
    BY <1>1, <1>5, <2>1, RecordMoves
<1> QED
  BY <1>2, <1>3, <1>4, <1>5 DEF Die

LEMMA TickStep ==
    ASSUME IInv, Tick
    PROVE  IInv'
<1>1. /\ clock' = clock + 1 /\ clock \in Nat \ {0} /\ Grace \in Nat
      /\ \A k \in Compilers : compile[k].at \in {"write", "publish"} => clock - compile[k].since < Grace
      /\ UNCHANGED <<header, chunks, refs, compile, prune, compact, faults, overlap>>
  BY BoundAssumption DEF Tick, catalog, IInv, TypeOK
<1>2. TypeOK'
  BY <1>1 DEF IInv, TypeOK, ChunksTyped
<1>3. Dated'
  <2>1. \A p \in Plans : header[p] # None => header[p].at \in Nat
    BY DEF IInv, TypeOK, Header
  <2> QED
    BY <1>1, <2>1 DEF IInv, Dated
<1>4. CompilesFast'
  <2>1. \A k \in Compilers : compile[k].at \in {"idle", "write", "publish"} /\ compile[k].since \in Nat
    BY DEF IInv, TypeOK, CompileState
  <2> QED
    BY <1>1, <2>1 DEF IInv, CompilesFast
<1>5. NoStrandedChunks'
  BY <1>1 DEF IInv, NoStrandedChunks, Stored, ChunksOf
<1>6. PrunesKnown'
  <2>1. ASSUME NEW r \in Pruners PROVE PruneKnown(r)'
    <3>1. PruneKnown(r) /\ prune[r] \in PruneState
      BY PassState
    <3>2. \A p \in DOMAIN prune[r].rows : prune[r].rows[p].at \in Nat
      <4>1. \A p \in DOMAIN prune[r].rows : prune[r].rows[p] \in Header
        BY <3>1, PruneParts, RowsTyped
      <4> QED
        BY <4>1 DEF Header
    <3> QED
      BY <1>1, <3>1, <3>2 DEF PruneKnown, Stored, ChunksOf
  <2> QED
    BY <2>1 DEF PrunesKnown
<1>7. ASSUME ~overlap, Safe PROVE Safe'
  <2>1. OneAtATime' /\ CompilesSafe'
    BY <1>1, <1>7 DEF Safe, OneAtATime, Retaining, Recompiling, CompilesSafe, Sole, Whole, Complete, Stored,
                      ChunksOf
  <2>2. \A q \in Plans : Readable(q)' = Readable(q) /\ OldEnough(q)' = OldEnough(q)
    BY <1>1 DEF Readable, Complete, Stored, ChunksOf, OldEnough, NewerPlans
  <2>3. LostAreOld' /\ ReferencedReadable'
    <3>1. \A t \in Records : refs[t].owed => refs[t].plan \in Plans
      BY OwedParts
    <3> QED
      BY <1>1, <1>7, <2>2, <3>1 DEF Safe, LostAreOld, ReferencedReadable
  <2>4. PrunesSafe'
    <3>1. \A r \in Pruners : prune[r].victims \subseteq Plans
      BY PassState, PruneParts
    <3> QED
      BY <1>1, <1>7, <2>2, <3>1 DEF Safe, PrunesSafe, PruneSafe
  <2>5. CompactsSafe'
    <3>1. ASSUME NEW c \in Compactors PROVE CompactSafe(c)'
      <4>1. CompactSafe(c) /\ compact[c].cutoff \in Int
        BY <1>7, CompactionState, CompactParts
      <4> QED
        BY <1>1, <4>1 DEF CompactSafe, Stored, ChunksOf
    <3> QED
      BY <3>1 DEF CompactsSafe
  <2> QED
    BY <2>1, <2>3, <2>4, <2>5 DEF Safe
<1> QED
  BY <1>1, <1>2, <1>3, <1>4, <1>5, <1>6, <1>7 DEF IInv

-----------------------------------------------------------------------------

LEMMA Initially == Init => IInv
<1> SUFFICES ASSUME Init PROVE IInv
  OBVIOUS
<1>1. /\ header = [p \in Plans |-> None] /\ chunks = [p \in Plans |-> NoChunks(p)]
      /\ refs = [t \in Records |-> NoRef]
      /\ \A k \in Compilers : compile[k] = NoCompile
      /\ \A r \in Pruners : prune[r] = NoPrune
      /\ \A c \in Compactors : compact[c] = NoCompact
  BY DEF Init
<1>2. TypeOK
  <2>1. /\ compile \in [Compilers -> CompileState] /\ prune \in [Pruners -> PruneState]
        /\ compact \in [Compactors -> CompactState]
    BY IdleStates DEF Init
  <2>2. clock \in Nat \ {0} /\ faults \in Nat /\ overlap \in BOOLEAN
    BY BoundAssumption DEF Init
  <2>3. ChunksTyped
    BY <1>1 DEF ChunksTyped, NoChunks
  <2>4. refs \in [Records -> RefState]
    BY <1>1 DEF RefState, NoRef
  <2> QED
    BY <1>1, <2>1, <2>2, <2>3, <2>4 DEF TypeOK
<1>3. \A p \in Plans : header[p] = None
  BY <1>1
<1>4. Dated /\ CompilesFast /\ PrunesKnown /\ NoStrandedChunks
  BY <1>1, <1>3, IdleStates DEF Dated, CompilesFast, PrunesKnown, PruneKnown, NoStrandedChunks
<1>5. Safe
  <2>1. OneAtATime
    BY <1>1, IdleStates DEF OneAtATime, Retaining
  <2>2. CompilesSafe /\ PrunesSafe /\ CompactsSafe
    BY <1>1, IdleStates DEF CompilesSafe, Sole, Whole, PrunesSafe, PruneSafe, CompactsSafe, CompactSafe,
                             NoRef
  <2>3. ReferencedReadable
    BY <1>1 DEF ReferencedReadable, NoRef
  <2> QED
    BY <1>3, <2>1, <2>2, <2>3 DEF Safe, LostAreOld
<1> QED
  BY <1>2, <1>4, <1>5 DEF IInv

LEMMA Inductive == IInv /\ [Next]_vars => IInv'
<1> SUFFICES ASSUME IInv, [Next]_vars PROVE IInv'
  OBVIOUS
<1>1. CASE UNCHANGED vars
  <2>1. UNCHANGED <<header, chunks, refs, compile, prune, compact, clock, faults, overlap>>
    BY <1>1 DEF vars, catalog, env
  <2>2. TypeOK' /\ Dated' /\ CompilesFast' /\ PrunesKnown' /\ NoStrandedChunks'
    BY <2>1 DEF IInv, TypeOK, ChunksTyped, Dated, CompilesFast, PrunesKnown, PruneKnown, NoStrandedChunks,
                Stored, ChunksOf
  <2>3. Safe => OneAtATime' /\ CompilesSafe' /\ CompactsSafe'
    BY <2>1 DEF Safe, OneAtATime, Retaining, Recompiling, CompilesSafe, Sole, Whole, CompactsSafe,
                CompactSafe, Complete, Stored, ChunksOf
  <2>4. Safe => PrunesSafe' /\ ReferencedReadable' /\ LostAreOld'
    BY <2>1 DEF Safe, PrunesSafe, PruneSafe, OldEnough, NewerPlans, ReferencedReadable, LostAreOld, Readable,
                Complete, Stored, ChunksOf
  <2> QED
    BY <2>1, <2>2, <2>3, <2>4 DEF IInv, Safe
<1>2. ASSUME NEW k \in Compilers, NEW p \in Plans, NEW freeze \in BOOLEAN, Start(k, p, freeze)
      PROVE  IInv'
  BY <1>2, StartStep
<1>3. ASSUME NEW k \in Compilers, CompileStep(k) PROVE IInv'
  BY <1>3, WriteChunkStep, ReadBackStep, PublishStep DEF CompileStep
<1>4. ASSUME NEW r \in Pruners, NEW age \in BOOLEAN, PruneScan(r, age) PROVE IInv'
  BY <1>4, PruneScanStep
<1>5. ASSUME NEW r \in Pruners, PruneStep(r) PROVE IInv'
  BY <1>5, PruneCheckStep, PruneDeleteStep, PruneReadStep, PruneMarkStep DEF PruneStep
<1>6. ASSUME NEW r \in Pruners,
             \/ PruneCheckFails(r) \/ PruneDeleteRaises(r) \/ PruneDeleteMisses(r) \/ PruneRecountFails(r)
      PROVE  IInv'
  BY <1>6, PruneCheckStep, PruneFaultStep
<1>a. ASSUME NEW r \in Pruners, NEW tables \in SUBSET REFERENCING_TABLES, PruneCheckSkips(r, tables)
      PROVE  IInv'
  BY <1>a, PruneCheckSkipsStep
<1>7. ASSUME NEW c \in Compactors, CompactHeads(c) \/ CompactStep(c) PROVE IInv'
  BY <1>7, CompactHeadsStep, CompactScanStep, CompactDeleteStep DEF CompactStep
<1>8. ASSUME NEW t \in Records, RecordAdd(t) \/ \E p \in Plans : RecordDelete(t, p) PROVE IInv'
  BY <1>8, RecordStep
<1>9. CASE Die
  BY <1>9, DieStep
<1>10. CASE Tick
  BY <1>10, TickStep
<1> QED
  BY <1>1, <1>2, <1>3, <1>4, <1>5, <1>6, <1>a, <1>7, <1>8, <1>9, <1>10 DEF Next

LEMMA Invariant == Spec => []IInv
  BY Initially, Inductive, PTL DEF Spec

\* Every variable keeps its type: the headers, the chunks, and the local state of every
\* compile and retention pass.
THEOREM TypeCorrect == Spec => []TypeOK
<1>1. IInv => TypeOK
  BY DEF IInv
<1> QED
  BY <1>1, Invariant, PTL

\* prune_row_plans: chunks are gone before their header says so, also when deletes fail
\* and passes die, and whatever runs beside retention.
THEOREM PrunedLeaveNothing == Spec => []NoStrandedChunks
<1>1. IInv => NoStrandedChunks
  BY DEF IInv
<1> QED
  BY <1>1, Invariant, PTL

\* prune_row_plans, compact_row_plan_chunks: neither a crash, nor a failed delete, nor a
\* slow compile loses one of the newest plans or a frozen one.
THEOREM NewestAndFrozenSurvive == Spec => []OnlyOldPlansAreLost
<1>1. IInv => OnlyOldPlansAreLost
  BY DEF IInv, Safe, LostAreOld, OldEnough, OnlyOldPlansAreLost
<1> QED
  BY <1>1, Invariant, PTL

\* referenced_plan_ids: a plan that could be read, and was not being deleted, when a
\* training run or report was recorded with it can be read as long as the record names it,
\* unless a lookup passes by the table of the record because it cannot be opened: nothing
\* is promised of that record from then on.
THEOREM EvidenceSurvives == Spec => []EvidenceIsReplayable
<1>1. IInv => EvidenceIsReplayable
  BY DEF IInv, Safe, ReferencedReadable, EvidenceIsReplayable
<1> QED
  BY <1>1, Invariant, PTL

=============================================================================

-------------------------- MODULE ViewCatalogProofs --------------------------
(***************************************************************************)
(* Proofs about ViewCatalog, for any number of views, file commits and     *)
(* workers, any clock, and with every fault and forced retirement.         *)
(***************************************************************************)
EXTENDS ViewCatalog, FiniteSetTheorems, TLAPS

\* What a worker remembers in each kind of call
PublishCall == [at : {"files", "header", "verify"}, view : Views, now : Nat, next : Nat]
PointerCall == [at : {"merge", "observe", "swap", "drop"}, row : PointerRow,
                seen : PointerRow \cup {None}, tries : Nat]
RetireCall == [at : {"guard", "retire"}, view : Views, todo : SUBSET {"header", "files", "pointer"},
               repoint : BOOLEAN]
SweepCall == [at : {"heads", "sweep"}, cutoff : Int, aged : SUBSET Views]
CompareCall == [at : {"compare"}, seen : PointerRow]
RepairCall == [at : {"repair"}, row : PointerRow \cup {None}]
Call == {Idle} \cup PublishCall \cup PointerCall \cup RetireCall \cup SweepCall
            \cup CompareCall \cup RepairCall

FilesTyped ==
    /\ files = [v \in Views |-> files[v]]
    /\ \A v \in Views : files[v] \in [FilesOf(v) -> Nat]

TypeOK ==
    /\ header \in [Views -> Nat]
    /\ FilesTyped
    /\ pointer \in PointerRow \cup {None}
    /\ call \in [Workers -> Call]
    /\ conditional \in BOOLEAN
    /\ clock \in Nat \ {0} /\ forced \in Nat /\ faults \in Nat

\* Headers are of the past.
Dated == \A v \in Views : header[v] <= clock

\* What a publish has flushed carries its time, which is within the grace window
\* until the header is there.
PublishSafe(k) ==
    k.at \in {"files", "header", "verify"} =>
        /\ k.now > 0 /\ k.now <= clock
        /\ k.at \in {"files", "header"} =>
              /\ clock - k.now < Grace /\ header[k.view] <= k.now
              /\ \A i \in FilesOf(k.view) : k.at = "header" \/ i < k.next => files[k.view][i] = k.now

\* A view that is retired without force is not the newest one, and its header goes
\* before its files.
RetireSafe(k) ==
    k.at \in {"guard", "retire"} =>
        /\ "header" \notin k.todo => header[k.view] = 0
        /\ k.at = "retire" /\ forced = 0 /\ header[k.view] > 0 =>
              \E u \in Published : Older(HeaderRow(k.view), HeaderRow(u))

\* A sweep leaves the files of views that have got a header since it looked.
SweepSafe(k) ==
    k.at \in {"heads", "sweep"} =>
        /\ k.cutoff + Grace <= clock
        /\ k.at = "sweep" => \A v \in k.aged : header[v] > 0 => \A i \in FilesOf(v) : files[v][i] > k.cutoff

\* A swap replaces an older row.
SwapSafe(k) == k.at = "swap" /\ k.seen # None => Older(k.seen, k.row)

CallSafe(k) == PublishSafe(k) /\ RetireSafe(k) /\ SweepSafe(k) /\ SwapSafe(k)
CallsSafe == \A w \in Workers : CallSafe(call[w])

\* Whoever publishes a view has it for itself.
Publishes(k, v) == k.at \in {"files", "header", "verify"} /\ k.view = v
Retires(k, v) == k.at \in {"guard", "retire"} /\ k.view = v
Exclusive ==
    \A w, u \in Workers, v \in Views :
        Publishes(call[w], v) => ~Retires(call[u], v) /\ (u = w \/ ~Publishes(call[u], v))

\* An inductive invariant of the specification.
IInv == TypeOK /\ Dated /\ CallsSafe /\ Exclusive /\ PublishedViewsAreComplete

-----------------------------------------------------------------------------
\* The order of rows.

LEMMA RowOrder ==
    /\ \A a, b, c \in PointerRow : Older(a, b) /\ Older(b, c) => Older(a, c)
    /\ \A a, b \in PointerRow : Older(a, b) => ~Older(b, a) /\ a # b
    /\ \A a, b \in PointerRow : a # b => Older(a, b) \/ Older(b, a)
<1>1. \A a \in PointerRow : a.view \in Nat /\ a.at \in Nat
  BY ViewAssumption DEF PointerRow
<1>2. \A a, b \in PointerRow : a # b => a.at # b.at \/ a.view # b.view
  BY DEF PointerRow
<1>3. ASSUME NEW a \in PointerRow, NEW b \in PointerRow, NEW c \in PointerRow, Older(a, b), Older(b, c)
      PROVE  Older(a, c)
  <2>1. /\ a.at \in Nat /\ b.at \in Nat /\ c.at \in Nat
        /\ a.view \in Nat /\ b.view \in Nat /\ c.view \in Nat
    BY <1>1
  <2> QED
    BY <1>3, <2>1 DEF Older
<1>4. ASSUME NEW a \in PointerRow, NEW b \in PointerRow
      PROVE  (Older(a, b) => ~Older(b, a) /\ a # b) /\ (a # b => Older(a, b) \/ Older(b, a))
  <2>1. a.at \in Nat /\ b.at \in Nat /\ a.view \in Nat /\ b.view \in Nat
    BY <1>1
  <2> QED
    BY <1>2, <2>1 DEF Older
<1> QED
  BY <1>3, <1>4

LEMMA HeaderRows ==
    ASSUME header \in [Views -> Nat], NEW v \in Views
    PROVE  /\ HeaderRow(v) \in PointerRow /\ HeaderRow(v) # None
           /\ HeaderRow(v).view = v /\ HeaderRow(v).at = header[v]
  BY ViewAssumption DEF HeaderRow, Row, PointerRow

\* A repo that has a view has a newest one: one that has the fewest newer ones.
LEMMA NewestExists ==
    ASSUME header \in [Views -> Nat]
    PROVE  /\ Published = {} => Newest = None
           /\ Published # {} =>
                 \E n \in Published : /\ Newest = HeaderRow(n)
                                      /\ \A u \in Published \ {n} : Older(HeaderRow(u), HeaderRow(n))
<1>1. CASE Published = {}
  BY <1>1 DEF Newest
<1>2. CASE Published # {}
  <2> DEFINE S == Published
             Newer(v) == {u \in S : Older(HeaderRow(v), HeaderRow(u))}
             Sets == {Newer(v) : v \in S}
  <2>1. S \subseteq Views /\ IsFiniteSet(S) /\ S # {}
    BY <1>2, ViewAssumption, FS_Subset DEF Published
  <2>2. \A v \in S : HeaderRow(v) \in PointerRow /\ HeaderRow(v).view = v
    BY <2>1, HeaderRows
  <2>3. Sets \subseteq FiniteSubsetsOf(S) /\ Sets # {}
    <3> HIDE DEF S
    <3>1. FiniteSubsetsOf(S) = SUBSET S
      BY <2>1, FS_FiniteSubsetsOfFinite
    <3>2. Sets \subseteq SUBSET S
      OBVIOUS
    <3>3. Sets # {}
      BY <2>1
    <3> HIDE DEF Sets
    <3> QED
      BY <3>1, <3>2, <3>3
  <2>4. PICK N \in Sets : \A M \in Sets : <<M, N>> \notin StrictSubsetOrdering(S)
    <3> HIDE DEF S, Sets
    <3> QED
      BY <2>1, <2>3, FS_StrictSubsetOrderingWellFounded, WFMin
  <2>5. PICK n \in S : N = Newer(n)
    OBVIOUS
  <2> HIDE DEF S
  <2>6. ASSUME NEW u \in S, Older(HeaderRow(n), HeaderRow(u)) PROVE FALSE
    <3>1. \A v \in S : Older(HeaderRow(u), HeaderRow(v)) => Older(HeaderRow(n), HeaderRow(v))
      BY <2>2, <2>6, RowOrder
    <3>2. ~Older(HeaderRow(u), HeaderRow(u))
      BY <2>2, RowOrder
    <3>3. Newer(u) \subseteq Newer(n) /\ u \in Newer(n) /\ u \notin Newer(u)
      BY Zenon, <2>6, <3>1, <3>2
    <3>4. <<Newer(u), Newer(n)>> \in StrictSubsetOrdering(S)
      BY <3>3 DEF StrictSubsetOrdering
    <3> QED
      BY <2>4, <2>5, <3>4
  <2>7. \A u \in S \ {n} : Older(HeaderRow(u), HeaderRow(n))
    BY <2>2, <2>6, RowOrder
  <2>8. \E v \in Published : \A u \in Published \ {v} : Older(HeaderRow(u), HeaderRow(v))
    BY <2>7 DEF S
  <2> DEFINE m == CHOOSE v \in Published : \A u \in Published \ {v} : Older(HeaderRow(u), HeaderRow(v))
  <2>9. m \in Published /\ \A u \in Published \ {m} : Older(HeaderRow(u), HeaderRow(m))
    BY <2>8
  <2>10. Newest = HeaderRow(m)
    BY <1>2 DEF Newest
  <2> HIDE DEF m
  <2> QED
    BY <1>2, <2>9, <2>10
<1> QED
  BY <1>1, <1>2

-----------------------------------------------------------------------------
\* The local state of a call.

LEMMA CallKinds ==
    ASSUME NEW k \in Call
    PROVE  /\ k.at \in {"files", "header", "verify"} => k \in PublishCall
           /\ k.at \in {"merge", "observe", "swap", "drop"} => k \in PointerCall
           /\ k.at \in {"guard", "retire"} => k \in RetireCall
           /\ k.at \in {"heads", "sweep"} => k \in SweepCall
           /\ k.at = "compare" => k \in CompareCall
           /\ k.at = "repair" => k \in RepairCall
<1>1. Idle.at = "idle"
  BY DEF Idle
<1>2. /\ \A j \in PublishCall : j.at \in {"files", "header", "verify"}
      /\ \A j \in PointerCall : j.at \in {"merge", "observe", "swap", "drop"}
      /\ \A j \in RetireCall : j.at \in {"guard", "retire"}
      /\ \A j \in SweepCall : j.at \in {"heads", "sweep"}
      /\ \A j \in CompareCall : j.at = "compare"
      /\ \A j \in RepairCall : j.at = "repair"
  BY DEF PublishCall, PointerCall, RetireCall, SweepCall, CompareCall, RepairCall
<1> QED
  BY <1>1, <1>2 DEF Call

LEMMA CallMoves ==
    ASSUME call \in [Workers -> Call], NEW w \in Workers, NEW j \in Call, call' = [call EXCEPT ![w] = j]
    PROVE  /\ call' \in [Workers -> Call] /\ call'[w] = j
           /\ \A u \in Workers \ {w} : call'[u] = call[u]
  OBVIOUS

\* One field at a time
CallAt(k, stage) == [k EXCEPT !.at = stage]
CallNext(k, i) == [k EXCEPT !.next = i]
CallSeen(k, row) == [k EXCEPT !.seen = row]
CallTries(k, n) == [k EXCEPT !.tries = n]
CallTodo(k, todo) == [k EXCEPT !.todo = todo]
CallAged(k, aged) == [k EXCEPT !.aged = aged]

LEMMA PublishFields ==
    ASSUME NEW k \in PublishCall
    PROVE  /\ k \in Call /\ k.view \in Views /\ k.now \in Nat /\ k.next \in Nat
           /\ \A stage \in {"files", "header", "verify"} :
                 LET j == CallAt(k, stage)
                 IN  /\ j \in PublishCall /\ j \in Call /\ j.at = stage /\ j.view = k.view
                     /\ j.now = k.now /\ j.next = k.next
           /\ \A i \in Nat :
                 LET j == CallNext(k, i)
                 IN  /\ j \in PublishCall /\ j \in Call /\ j.at = k.at /\ j.view = k.view
                     /\ j.now = k.now /\ j.next = i
<1>1. k \in Call /\ k.view \in Views /\ k.now \in Nat /\ k.next \in Nat
  BY DEF PublishCall, Call
<1>2. ASSUME NEW stage \in {"files", "header", "verify"}
      PROVE  LET j == CallAt(k, stage)
             IN  /\ j \in PublishCall /\ j.at = stage /\ j.view = k.view /\ j.now = k.now /\ j.next = k.next
  BY DEF PublishCall, CallAt
<1>3. ASSUME NEW i \in Nat
      PROVE  LET j == CallNext(k, i)
             IN  /\ j \in PublishCall /\ j.at = k.at /\ j.view = k.view /\ j.now = k.now /\ j.next = i
  BY DEF PublishCall, CallNext
<1>4. \A j \in PublishCall : j \in Call
  BY DEF Call
<1> QED
  BY <1>1, <1>2, <1>3, <1>4

LEMMA PointerFields ==
    ASSUME NEW k \in PointerCall
    PROVE  /\ k \in Call /\ k.row \in PointerRow /\ k.seen \in PointerRow \cup {None} /\ k.tries \in Nat
           /\ \A stage \in {"merge", "observe", "swap", "drop"} :
                 LET j == CallAt(k, stage)
                 IN  /\ j \in PointerCall /\ j \in Call /\ j.at = stage /\ j.row = k.row
                     /\ j.seen = k.seen
           /\ \A row \in PointerRow \cup {None} :
                 LET j == CallSeen(k, row)
                 IN  /\ j \in PointerCall /\ j \in Call /\ j.at = k.at /\ j.row = k.row
                     /\ j.seen = row
           /\ \A n \in Nat :
                 LET j == CallTries(k, n)
                 IN  /\ j \in PointerCall /\ j \in Call /\ j.at = k.at /\ j.row = k.row
                     /\ j.seen = k.seen
<1>1. k \in Call /\ k.row \in PointerRow /\ k.seen \in PointerRow \cup {None} /\ k.tries \in Nat
  BY DEF PointerCall, Call
<1>2. ASSUME NEW stage \in {"merge", "observe", "swap", "drop"}
      PROVE  LET j == CallAt(k, stage)
             IN  /\ j \in PointerCall /\ j.at = stage /\ j.row = k.row /\ j.seen = k.seen
  BY DEF PointerCall, CallAt
<1>3. ASSUME NEW row \in PointerRow \cup {None}
      PROVE  LET j == CallSeen(k, row)
             IN  /\ j \in PointerCall /\ j.at = k.at /\ j.row = k.row /\ j.seen = row
  BY DEF PointerCall, CallSeen
<1>4. ASSUME NEW n \in Nat
      PROVE  LET j == CallTries(k, n)
             IN  /\ j \in PointerCall /\ j.at = k.at /\ j.row = k.row /\ j.seen = k.seen
  BY DEF PointerCall, CallTries
<1>5. \A j \in PointerCall : j \in Call
  BY DEF Call
<1> QED
  BY <1>1, <1>2, <1>3, <1>4, <1>5

LEMMA RetireFields ==
    ASSUME NEW k \in RetireCall
    PROVE  /\ k \in Call /\ k.view \in Views /\ k.todo \in SUBSET {"header", "files", "pointer"}
           /\ LET j == CallAt(k, "retire")
              IN  /\ j \in RetireCall /\ j \in Call /\ j.at = "retire" /\ j.view = k.view
                  /\ j.todo = k.todo
           /\ \A todo \in SUBSET {"header", "files", "pointer"} :
                 LET j == CallTodo(k, todo)
                 IN  /\ j \in RetireCall /\ j \in Call /\ j.at = k.at /\ j.view = k.view
                     /\ j.todo = todo
<1>1. k \in Call /\ k.view \in Views /\ k.todo \in SUBSET {"header", "files", "pointer"}
  BY DEF RetireCall, Call
<1>2. LET j == CallAt(k, "retire")
      IN  j \in RetireCall /\ j.at = "retire" /\ j.view = k.view /\ j.todo = k.todo
  BY DEF RetireCall, CallAt
<1>3. ASSUME NEW todo \in SUBSET {"header", "files", "pointer"}
      PROVE  LET j == CallTodo(k, todo)
             IN  j \in RetireCall /\ j.at = k.at /\ j.view = k.view /\ j.todo = todo
  BY DEF RetireCall, CallTodo
<1>4. \A j \in RetireCall : j \in Call
  BY DEF Call
<1> QED
  BY <1>1, <1>2, <1>3, <1>4

LEMMA SweepFields ==
    ASSUME NEW k \in SweepCall, NEW aged \in SUBSET Views
    PROVE  /\ k \in Call /\ k.cutoff \in Int /\ k.aged \in SUBSET Views
           /\ LET j == CallAged(CallAt(k, "sweep"), aged)
              IN  j \in SweepCall /\ j \in Call /\ j.at = "sweep" /\ j.cutoff = k.cutoff /\ j.aged = aged
<1> DEFINE l == CallAt(k, "sweep")
<1>1. l \in SweepCall /\ l.at = "sweep" /\ l.cutoff = k.cutoff
  BY DEF SweepCall, CallAt
<1> HIDE DEF l
<1>2. LET j == CallAged(l, aged)
      IN  j \in SweepCall /\ j.at = "sweep" /\ j.cutoff = k.cutoff /\ j.aged = aged
  BY <1>1 DEF SweepCall, CallAged
<1>3. k \in Call /\ k.cutoff \in Int /\ k.aged \in SUBSET Views /\ \A j \in SweepCall : j \in Call
  BY DEF SweepCall, Call
<1> QED
  BY <1>2, <1>3 DEF l

\* What the actions start from.
LEMMA CallState ==
    ASSUME IInv, NEW w \in Workers
    PROVE  /\ call \in [Workers -> Call] /\ call[w] \in Call /\ CallSafe(call[w])
           /\ header \in [Views -> Nat] /\ FilesTyped /\ pointer \in PointerRow \cup {None}
           /\ clock \in Nat \ {0} /\ forced \in Nat /\ faults \in Nat
  BY DEF IInv, TypeOK, CallsSafe

LEMMA IdleCall ==
    /\ Idle \in Call /\ Idle.at = "idle"
    /\ \A v : ~Publishes(Idle, v) /\ ~Retires(Idle, v)
<1>1. Idle \in Call /\ Idle.at = "idle"
  BY DEF Idle, Call
<1> QED
  BY <1>1 DEF Publishes, Retires

-----------------------------------------------------------------------------
\* Steps that leave headers and files alone.
LEMMA QuietStep ==
    ASSUME IInv, NEW w \in Workers, NEW j \in Call, call' = [call EXCEPT ![w] = j],
           UNCHANGED <<header, files, conditional, clock, forced>>,
           pointer' \in PointerRow \cup {None}, faults' \in Nat, CallSafe(j),
           \A v \in Views : /\ Publishes(j, v) => Publishes(call[w], v)
                            /\ Retires(j, v) => Retires(call[w], v)
    PROVE  IInv'
<1>1. call' \in [Workers -> Call] /\ call'[w] = j /\ \A u \in Workers \ {w} : call'[u] = call[u]
  BY CallState, CallMoves
<1>2. TypeOK' /\ Dated' /\ PublishedViewsAreComplete'
  BY <1>1 DEF IInv, TypeOK, FilesTyped, Dated, PublishedViewsAreComplete, Published, Complete, FilesOf
<1>3. \A k : CallSafe(k) => CallSafe(k)'
  BY DEF CallSafe, PublishSafe, RetireSafe, SweepSafe, SwapSafe, Published, HeaderRow, FilesOf, Row, Older
<1>4. CallsSafe'
  <2>1. \A u \in Workers : CallSafe(call'[u])
    BY <1>1, CallState
  <2> QED
    BY <1>3, <2>1 DEF CallsSafe
<1>5. Exclusive'
  <2>1. \A u \in Workers, v \in Views : /\ Publishes(call'[u], v) => Publishes(call[u], v)
                                        /\ Retires(call'[u], v) => Retires(call[u], v)
    BY <1>1
  <2> QED
    BY <2>1 DEF IInv, Exclusive, Publishes, Retires
<1> QED
  BY <1>2, <1>4, <1>5 DEF IInv

\* A call that neither publishes, retires, sweeps nor swaps has nothing to keep.
LEMMA NeutralStep ==
    ASSUME IInv, NEW w \in Workers, NEW j \in Call, call' = [call EXCEPT ![w] = j],
           j.at \in {"idle", "merge", "observe", "drop", "compare", "repair"},
           UNCHANGED <<header, files, conditional, clock, forced>>,
           pointer' \in PointerRow \cup {None}, faults' \in Nat
    PROVE  IInv'
<1>1. CallSafe(j) /\ \A v \in Views : ~Publishes(j, v) /\ ~Retires(j, v)
  BY DEF CallSafe, PublishSafe, RetireSafe, SweepSafe, SwapSafe, Publishes, Retires
<1> QED
  BY <1>1, QuietStep

LEMMA UpdateStep ==
    ASSUME IInv, NEW w \in Workers, NEW row \in PointerRow, UpdatePointer(w, row),
           UNCHANGED <<header, files, pointer, conditional, clock, forced, faults>>
    PROVE  IInv'
<1> DEFINE j == [at |-> IF conditional THEN "merge" ELSE "observe", row |-> row, seen |-> None, tries |-> 1]
<1>1. j \in PointerCall /\ j.at \in {"merge", "observe"}
  BY DEF PointerCall
<1>2. call' = [call EXCEPT ![w] = j]
  BY DEF UpdatePointer
<1> HIDE DEF j
<1> QED
  BY <1>1, <1>2, NeutralStep, CallState DEF Call

LEMMA ReturnStep ==
    ASSUME IInv, NEW w \in Workers, Return(w),
           UNCHANGED <<header, files, conditional, clock, forced>>,
           pointer' \in PointerRow \cup {None}, faults' \in Nat
    PROVE  IInv'
  BY IdleCall, NeutralStep DEF Return

LEMMA VerifyStep ==
    ASSUME IInv, NEW w \in Workers, Verify(w)
    PROVE  IInv'
<1>1. /\ call[w].at = "verify"
      /\ UpdatePointer(w, Row(call[w].view, call[w].now)) \/ Return(w)
      /\ UNCHANGED <<header, files, pointer, conditional, clock, forced, faults>>
  BY DEF Verify, tables, env
<1>2. Row(call[w].view, call[w].now) \in PointerRow
  <2>1. call[w] \in PublishCall
    BY <1>1, CallState, CallKinds
  <2> QED
    BY <2>1, PublishFields DEF Row, PointerRow
<1> QED
  BY <1>1, <1>2, UpdateStep, ReturnStep, CallState

LEMMA AdvanceRow ==
    ASSUME pointer \in PointerRow \cup {None}, NEW row \in PointerRow
    PROVE  /\ Advance(row) \in PointerRow
           /\ pointer # None => ~Older(Advance(row), pointer)
  BY RowOrder DEF Advance

\* What a pointer step does to the pointer.
LEMMA PointerRows ==
    ASSUME IInv, NEW w \in Workers,
           PointerStep(w) \/ PointerFails(w) \/ ReconcileRepair(w) \/ RetirePointer(w)
    PROVE  /\ pointer' \in PointerRow \cup {None}
           /\ pointer # None /\ pointer' # None => ~Older(pointer', pointer)
<1>1. /\ pointer \in PointerRow \cup {None} /\ call[w] \in Call /\ CallSafe(call[w])
      /\ pointer # None => ~Older(pointer, pointer)
  BY CallState, RowOrder
<1>2. CASE MergePointer(w)
  <2>1. call[w].row \in PointerRow
    BY <1>1, <1>2, CallKinds, PointerFields DEF MergePointer
  <2> QED
    BY <1>1, <1>2, <2>1, AdvanceRow DEF MergePointer
<1>3. CASE SwapPointer(w)
  <2>1. call[w].at = "swap" /\ call[w].row \in PointerRow /\ call[w].seen \in PointerRow \cup {None}
    BY <1>1, <1>3, CallKinds, PointerFields DEF SwapPointer
  <2>2. call[w].seen # None => ~Older(call[w].row, call[w].seen)
    BY <1>1, <2>1, RowOrder DEF CallSafe, SwapSafe
  <2> QED
    BY <1>1, <1>3, <2>1, <2>2 DEF SwapPointer
<1>4. CASE ObservePointer(w) \/ PointerFails(w)
  BY <1>1, <1>4 DEF ObservePointer, PointerFails, tables
<1>5. CASE DropPointer(w) \/ RetirePointer(w)
  BY <1>1, <1>5 DEF DropPointer, RetirePointer
<1>6. CASE ReconcileRepair(w)
  <2>1. call[w].row \in PointerRow \cup {None}
    BY <1>1, <1>6, CallKinds DEF ReconcileRepair, RepairCall
  <2> QED
    BY <1>1, <1>6, <2>1, AdvanceRow DEF ReconcileRepair
<1> QED
  BY <1>2, <1>3, <1>4, <1>5, <1>6 DEF PointerStep

LEMMA PointerStepStep ==
    ASSUME IInv, NEW w \in Workers, PointerStep(w) \/ PointerFails(w)
    PROVE  IInv'
<1>1. /\ pointer' \in PointerRow \cup {None} /\ faults' \in Nat
      /\ UNCHANGED <<header, files, conditional, clock, forced>>
  <2>1. pointer' \in PointerRow \cup {None}
    BY PointerRows
  <2>2. faults \in Nat
    BY CallState
  <2> QED
    BY <2>1, <2>2 DEF PointerStep, PointerFails, MergePointer, ObservePointer, SwapPointer, DropPointer,
                      tables, env
<1>2. call[w].at \in {"merge", "observe", "swap", "drop"}
  BY DEF PointerStep, PointerFails, MergePointer, ObservePointer, SwapPointer, DropPointer
<1>3. call[w] \in PointerCall
  BY <1>2, CallState, CallKinds
<1>4. CASE MergePointer(w) \/ DropPointer(w)
  BY <1>1, <1>4, ReturnStep DEF MergePointer, DropPointer
<1>5. CASE PointerFails(w)
  <2>1. call' = [call EXCEPT ![w] = CallAt(call[w], "drop")]
    BY <1>5 DEF PointerFails, Goto, CallAt
  <2>2. CallAt(call[w], "drop") \in Call /\ CallAt(call[w], "drop").at = "drop"
    BY <1>3, PointerFields
  <2> QED
    BY <1>1, <2>1, <2>2, NeutralStep
<1>6. CASE ObservePointer(w)
  <2>1. CASE Return(w)
    BY <1>1, <2>1, ReturnStep
  <2>2. CASE ~Return(w)
    <3> DEFINE k == CallAt(call[w], "swap")
               j == CallSeen(k, pointer)
    <3>1. /\ pointer = None \/ Older(pointer, call[w].row)
          /\ call' = [call EXCEPT ![w] = j]
      BY <1>6, <2>2 DEF ObservePointer, CallAt, CallSeen
    <3>2. k \in PointerCall /\ k.at = "swap" /\ k.row = call[w].row
      BY <1>3, PointerFields
    <3> HIDE DEF k
    <3>3. j \in Call /\ j.at = "swap" /\ j.row = call[w].row /\ j.seen = pointer
      BY <3>2, CallState, PointerFields
    <3> HIDE DEF j
    <3>4. CallSafe(j) /\ \A v \in Views : ~Publishes(j, v) /\ ~Retires(j, v)
      BY <3>1, <3>3 DEF CallSafe, PublishSafe, RetireSafe, SweepSafe, SwapSafe, Publishes, Retires
    <3> QED
      BY <1>1, <3>1, <3>3, <3>4, QuietStep
  <2> QED
    BY <2>1, <2>2
<1>7. CASE SwapPointer(w)
  <2>1. PICK stage \in {"observe", "drop"}, n \in Nat :
          stage = (IF call[w].tries < Attempts THEN "observe" ELSE "drop") /\ n = call[w].tries + 1
    <3>1. call[w].tries \in Nat
      BY <1>3, PointerFields
    <3> QED
      BY <3>1
  <2> DEFINE k == CallAt(call[w], stage)
             l == CallTries(k, n)
             j == CallSeen(l, None)
  <2>2. call' = [call EXCEPT ![w] = j]
    BY <1>7, <2>1 DEF SwapPointer, CallAt, CallTries, CallSeen
  <2>a. stage \in {"merge", "observe", "swap", "drop"} /\ None \in PointerRow \cup {None}
    OBVIOUS
  <2>3. k \in PointerCall /\ k.at = stage
    BY <1>3, <2>a, PointerFields
  <2> HIDE DEF k
  <2>4. l \in PointerCall /\ l.at = stage
    BY <2>3, PointerFields
  <2> HIDE DEF l
  <2>5. j \in Call /\ j.at = stage
    BY <2>a, <2>4, PointerFields
  <2> HIDE DEF j
  <2> QED
    BY <1>1, <2>2, <2>5, NeutralStep
<1> QED
  BY <1>4, <1>5, <1>6, <1>7 DEF PointerStep

LEMMA GuardStep ==
    ASSUME IInv, NEW w \in Workers, Guard(w)
    PROVE  IInv'
<1>1. /\ call[w].at = "guard"
      /\ UNCHANGED <<header, files, pointer, conditional, clock, forced, faults>>
  BY DEF Guard, tables, env
<1>2. CASE Return(w)
  BY <1>1, <1>2, ReturnStep, CallState
<1>3. CASE ~Return(w)
  <2>a. PICK v : v = call[w].view
    OBVIOUS
  <2> DEFINE j == CallAt(call[w], "retire")
  <2>1. /\ Newest = None \/ Newest.view # v
        /\ call' = [call EXCEPT ![w] = j]
    BY <1>3, <2>a DEF Guard, Goto, CallAt
  <2>2. call[w] \in RetireCall /\ CallSafe(call[w]) /\ header \in [Views -> Nat]
    BY <1>1, CallState, CallKinds
  <2>3. j \in Call /\ j.at = "retire" /\ j.view = v /\ j.todo = call[w].todo /\ v \in Views
    BY <2>a, <2>2, RetireFields
  <2> HIDE DEF j
  <2>4. header[v] > 0 => \E u \in Published : Older(HeaderRow(v), HeaderRow(u))
    <3>1. SUFFICES ASSUME header[v] > 0 PROVE \E u \in Published : Older(HeaderRow(v), HeaderRow(u))
      OBVIOUS
    <3>2. v \in Published
      BY <2>3, <3>1 DEF Published
    <3>3. PICK n \in Published : /\ Newest = HeaderRow(n)
                                 /\ \A u \in Published \ {n} : Older(HeaderRow(u), HeaderRow(n))
      BY <2>2, <3>2, NewestExists
    <3>4. n \in Views
      BY DEF Published
    <3>5. Newest # None /\ Newest.view = n
      BY <2>2, <3>3, <3>4, HeaderRows
    <3> QED
      BY <2>1, <3>2, <3>3, <3>5
  <2>5. "header" \notin j.todo => header[v] = 0
    BY <1>1, <2>a, <2>2, <2>3 DEF CallSafe, RetireSafe
  <2>6. CallSafe(j)
    BY <2>3, <2>4, <2>5 DEF CallSafe, PublishSafe, RetireSafe, SweepSafe, SwapSafe
  <2>7. \A u \in Views : (Publishes(j, u) => Publishes(call[w], u)) /\ (Retires(j, u) => Retires(call[w], u))
    BY <1>1, <2>a, <2>3 DEF Publishes, Retires
  <2> QED
    BY <1>1, <2>1, <2>3, <2>6, <2>7, CallState, QuietStep
<1> QED
  BY <1>2, <1>3

LEMMA RetirePointerStep ==
    ASSUME IInv, NEW w \in Workers, RetirePointer(w)
    PROVE  IInv'
<1>a. PICK todo : todo = call[w].todo \ {"pointer"}
  OBVIOUS
<1> DEFINE j == CallTodo(call[w], todo)
<1>1. /\ call[w].at = "retire" /\ call' = [call EXCEPT ![w] = j]
      /\ UNCHANGED <<header, files, conditional, clock, forced, faults>>
  BY <1>a DEF RetirePointer, Done, CallTodo, env
<1>2. call[w] \in RetireCall /\ CallSafe(call[w])
  BY <1>1, CallState, CallKinds
<1>3. todo \in SUBSET {"header", "files", "pointer"}
  BY <1>a, <1>2, RetireFields
<1>4. j \in Call /\ j.at = "retire" /\ j.view = call[w].view /\ j.todo = todo
  BY <1>1, <1>2, <1>3, RetireFields
<1> HIDE DEF j
<1>5. CallSafe(j)
  BY <1>a, <1>1, <1>2, <1>4 DEF CallSafe, PublishSafe, RetireSafe, SweepSafe, SwapSafe
<1>6. \A v \in Views : (Publishes(j, v) => Publishes(call[w], v)) /\ (Retires(j, v) => Retires(call[w], v))
  BY <1>1, <1>4 DEF Publishes, Retires
<1>7. pointer' \in PointerRow \cup {None}
  BY PointerRows
<1> QED
  BY <1>1, <1>4, <1>5, <1>6, <1>7, CallState, QuietStep

LEMMA RetireCountStep ==
    ASSUME IInv, NEW w \in Workers, RetireCount(w)
    PROVE  IInv'
<1>1. /\ (Newest # None /\ UpdatePointer(w, Newest)) \/ Return(w)
      /\ UNCHANGED <<header, files, pointer, conditional, clock, forced, faults>>
  BY DEF RetireCount, tables, env
<1>2. Newest \in PointerRow \cup {None}
  BY CallState, NewestExists, HeaderRows DEF Published
<1> QED
  BY <1>1, <1>2, UpdateStep, ReturnStep, CallState

LEMMA ReconcileReadStep ==
    ASSUME IInv, NEW w \in Workers, ReconcileRead(w)
    PROVE  IInv'
<1> DEFINE j == [at |-> "compare", seen |-> pointer]
<1>1. /\ pointer # None /\ call' = [call EXCEPT ![w] = j]
      /\ UNCHANGED <<header, files, pointer, conditional, clock, forced, faults>>
  BY DEF ReconcileRead, tables, env
<1>2. j \in CompareCall /\ j.at = "compare"
  BY <1>1, CallState DEF CompareCall
<1> HIDE DEF j
<1> QED
  BY <1>1, <1>2, CallState, NeutralStep DEF Call

LEMMA ReconcileStepStep ==
    ASSUME IInv, NEW w \in Workers, ReconcileStep(w)
    PROVE  IInv'
<1>1. Newest \in PointerRow \cup {None}
  BY CallState, NewestExists, HeaderRows DEF Published
<1>2. CASE ReconcileCompare(w)
  <2>a. PICK row \in PointerRow \cup {None} :
          row = IF Newest = None \/ Older(Newest, call[w].seen) THEN None ELSE Newest
    BY <1>1
  <2> DEFINE j == [at |-> "repair", row |-> row]
  <2>1. /\ Return(w) \/ call' = [call EXCEPT ![w] = j]
        /\ UNCHANGED <<header, files, pointer, conditional, clock, forced, faults>>
    BY <1>2, <2>a DEF ReconcileCompare, tables, env
  <2>2. j \in RepairCall /\ j.at = "repair"
    BY DEF RepairCall
  <2> HIDE DEF j
  <2>3. j \in Call
    BY <2>2 DEF Call
  <2> QED
    BY <2>1, <2>2, <2>3, CallState, NeutralStep, ReturnStep
<1>3. CASE ReconcileRepair(w)
  <2>1. pointer' \in PointerRow \cup {None}
    BY <1>3, PointerRows
  <2> QED
    BY <1>3, <2>1, ReturnStep, CallState DEF ReconcileRepair, env
<1> QED
  BY <1>2, <1>3 DEF ReconcileStep

LEMMA SweepScanStep ==
    ASSUME IInv, NEW w \in Workers, SweepScan(w)
    PROVE  IInv'
<1>a. PICK aged : aged = {v \in Views : Aged(v, clock - Grace)}
  OBVIOUS
<1> DEFINE j == [at |-> "heads", cutoff |-> clock - Grace, aged |-> aged]
<1>1. /\ call' = [call EXCEPT ![w] = j]
      /\ UNCHANGED <<header, files, pointer, conditional, clock, forced, faults>>
  BY <1>a DEF SweepScan, tables, env
<1>2. clock - Grace \in Int /\ (clock - Grace) + Grace <= clock /\ aged \in SUBSET Views
  BY <1>a, CallState, BoundAssumption
<1>3. j \in SweepCall /\ j.at = "heads" /\ j.cutoff = clock - Grace
  BY <1>2 DEF SweepCall
<1> HIDE DEF j
<1>4. j \in Call
  BY <1>3 DEF Call
<1>5. CallSafe(j)
  BY <1>2, <1>3 DEF CallSafe, PublishSafe, RetireSafe, SweepSafe, SwapSafe
<1>6. \A v \in Views : ~Publishes(j, v) /\ ~Retires(j, v)
  BY <1>3 DEF Publishes, Retires
<1> QED
  BY <1>1, <1>4, <1>5, <1>6, CallState, QuietStep

LEMMA SweepHeadsStep ==
    ASSUME IInv, NEW w \in Workers, SweepHeads(w)
    PROVE  IInv'
<1>1. /\ call[w].at = "heads"
      /\ UNCHANGED <<header, files, pointer, conditional, clock, forced, faults>>
  BY DEF SweepHeads, tables, env
<1>2. call[w] \in SweepCall /\ CallSafe(call[w])
  BY <1>1, CallState, CallKinds
<1>3. CASE Return(w)
  BY <1>1, <1>3, CallState, ReturnStep
<1>4. CASE ~Return(w)
  <2>a. PICK aged \in SUBSET Views : aged = call[w].aged \ Published
    BY <1>2 DEF SweepCall
  <2> DEFINE j == CallAged(CallAt(call[w], "sweep"), aged)
  <2>1. call' = [call EXCEPT ![w] = j]
    BY <1>4, <2>a DEF SweepHeads, CallAged, CallAt
  <2>2. j \in Call /\ j.at = "sweep" /\ j.cutoff = call[w].cutoff /\ j.aged = aged
    BY <1>2, SweepFields
  <2> HIDE DEF j
  <2>3. \A v \in aged : ~(header[v] > 0)
    BY <2>a DEF Published
  <2>4. CallSafe(j)
    BY <1>1, <1>2, <2>2, <2>3 DEF CallSafe, PublishSafe, RetireSafe, SweepSafe, SwapSafe
  <2>5. \A v \in Views : ~Publishes(j, v) /\ ~Retires(j, v)
    BY <2>2 DEF Publishes, Retires
  <2> QED
    BY <1>1, <2>1, <2>2, <2>4, <2>5, CallState, QuietStep
<1> QED
  BY <1>3, <1>4

LEMMA DieStep ==
    ASSUME IInv, NEW w \in Workers, Die(w)
    PROVE  IInv'
  BY CallState, ReturnStep DEF Die, tables

-----------------------------------------------------------------------------
\* Steps that begin a call.

LEMMA SafeFrame ==
    ASSUME UNCHANGED <<header, files, clock>>, forced \in Nat, forced' \in Nat, forced' >= forced
    PROVE  \A k : CallSafe(k) => CallSafe(k)'
<1>1. \A v : HeaderRow(v)' = HeaderRow(v)
  BY DEF HeaderRow, Row
<1>2. Published' = Published
  BY DEF Published
<1>3. ASSUME NEW k, RetireSafe(k) PROVE RetireSafe(k)'
  BY <1>1, <1>2, <1>3 DEF RetireSafe, Older
<1>4. \A k : /\ PublishSafe(k) => PublishSafe(k)'
             /\ SweepSafe(k) => SweepSafe(k)'
             /\ SwapSafe(k) => SwapSafe(k)'
  BY DEF PublishSafe, SweepSafe, SwapSafe, FilesOf, Older
<1> QED
  BY <1>3, <1>4 DEF CallSafe

LEMMA PublishBegins ==
    ASSUME IInv, NEW w \in Workers, NEW v \in Views, Publish(w, v)
    PROVE  IInv'
<1> DEFINE j == [at |-> "files", view |-> v, now |-> clock, next |-> 1]
<1>1. /\ call' = [call EXCEPT ![w] = j]
      /\ \A u \in Workers : ~Publishes(call[u], v) /\ ~Retires(call[u], v)
      /\ UNCHANGED <<header, files, pointer, conditional, clock, forced, faults>>
  BY DEF Publish, Publishing, Retiring, Publishes, Retires, tables, env
<1>2. /\ j \in PublishCall /\ j.at = "files" /\ j.view = v /\ j.now = clock /\ j.next = 1
  BY CallState DEF PublishCall
<1> HIDE DEF j
<1>3. j \in Call
  BY <1>2 DEF Call
<1>4. call' \in [Workers -> Call] /\ call'[w] = j /\ \A u \in Workers \ {w} : call'[u] = call[u]
  BY <1>1, <1>3, CallState, CallMoves
<1>5. TypeOK' /\ Dated' /\ PublishedViewsAreComplete'
  BY <1>1, <1>4 DEF IInv, TypeOK, FilesTyped, Dated, PublishedViewsAreComplete, Published, Complete, FilesOf
<1>6. CallSafe(j)
  <2>1. clock \in Nat \ {0} /\ Grace \in Nat \ {0}
    BY CallState, BoundAssumption
  <2>2. clock > 0 /\ clock <= clock /\ clock - clock < Grace
    BY <2>1
  <2>3. header[v] <= clock
    BY DEF IInv, Dated
  <2>4. \A i \in FilesOf(v) : ~(i < 1)
    BY ViewAssumption DEF FilesOf
  <2> QED
    BY <1>2, <2>2, <2>3, <2>4 DEF CallSafe, PublishSafe, RetireSafe, SweepSafe, SwapSafe
<1>7. CallsSafe'
  <2>1. \A k : CallSafe(k) => CallSafe(k)'
    BY <1>1, CallState, SafeFrame
  <2>2. \A u \in Workers : CallSafe(call'[u])
    BY <1>4, <1>6, CallState
  <2> QED
    BY <2>1, <2>2 DEF CallsSafe
<1>8. Exclusive'
  <2>1. \A u \in Views : ~Retires(j, u) /\ (Publishes(j, u) => u = v)
    BY <1>2 DEF Publishes, Retires
  <2>2. \A x, u \in Workers, y \in Views :
            Publishes(call'[x], y) => ~Retires(call'[u], y) /\ (u = x \/ ~Publishes(call'[u], y))
    BY <1>1, <1>4, <2>1 DEF IInv, Exclusive
  <2> QED
    BY <2>2 DEF Exclusive, Publishes, Retires
<1> QED
  BY <1>5, <1>7, <1>8 DEF IInv

LEMMA RetireBegins ==
    ASSUME IInv, NEW w \in Workers, NEW v \in Views, NEW force \in BOOLEAN, Retire(w, v, force)
    PROVE  IInv'
<1>a. PICK had : had = {t \in {"header", "files", "pointer"} :
                          \/ t = "header" /\ header[v] > 0
                          \/ t = "files" /\ HasFiles(v)
                          \/ t = "pointer" /\ pointer # None /\ pointer.view = v}
  OBVIOUS
<1>b. had \in SUBSET {"header", "files", "pointer"} /\ ("header" \in had <=> header[v] > 0)
  BY <1>a
<1> DEFINE j == [at |-> IF "header" \in had /\ ~force THEN "guard" ELSE "retire",
                 view |-> v, todo |-> had, repoint |-> {"pointer", "header"} \subseteq had]
<1>1. /\ call' = [call EXCEPT ![w] = j]
      /\ \A u \in Workers : ~Publishes(call[u], v)
      /\ forced' = IF force THEN forced + 1 ELSE forced
      /\ UNCHANGED <<header, files, pointer, conditional, clock, faults>>
  BY <1>a DEF Retire, Publishing, Publishes, tables
<1>2. /\ j \in RetireCall /\ j.view = v /\ j.todo = had
      /\ j.at = IF "header" \in had /\ ~force THEN "guard" ELSE "retire"
  BY <1>b DEF RetireCall
<1> HIDE DEF j
<1>3. j \in Call /\ j.at \in {"guard", "retire"}
  BY <1>2 DEF Call
<1>4. call' \in [Workers -> Call] /\ call'[w] = j /\ \A u \in Workers \ {w} : call'[u] = call[u]
  BY <1>1, <1>3, CallState, CallMoves
<1>5. forced \in Nat /\ forced' \in Nat /\ forced' >= forced /\ (force => forced' # 0)
  BY <1>1, CallState
<1>6. TypeOK' /\ Dated' /\ PublishedViewsAreComplete'
  BY <1>1, <1>4, <1>5 DEF IInv, TypeOK, FilesTyped, Dated, PublishedViewsAreComplete, Published, Complete,
                          FilesOf
<1>7. CallSafe(j)'
  <2>1. header[v] \in Nat
    BY CallState
  <2>2. RetireSafe(j)'
    BY <1>b, <1>1, <1>2, <1>5, <2>1 DEF RetireSafe
  <2> QED
    BY <1>3, <2>2 DEF CallSafe, PublishSafe, SweepSafe, SwapSafe
<1>8. CallsSafe'
  <2>1. \A k : CallSafe(k) => CallSafe(k)'
    BY <1>1, <1>5, SafeFrame
  <2>2. \A u \in Workers \ {w} : CallSafe(call'[u])
    BY <1>4, CallState
  <2> QED
    BY <1>4, <1>7, <2>1, <2>2 DEF CallsSafe
<1>9. Exclusive'
  <2>1. \A u \in Views : ~Publishes(j, u) /\ (Retires(j, u) => u = v)
    BY <1>2, <1>3 DEF Publishes, Retires
  <2>2. \A x, u \in Workers, y \in Views :
            Publishes(call'[x], y) => ~Retires(call'[u], y) /\ (u = x \/ ~Publishes(call'[u], y))
    BY <1>1, <1>4, <2>1 DEF IInv, Exclusive
  <2> QED
    BY <2>2 DEF Exclusive, Publishes, Retires
<1> QED
  BY <1>6, <1>8, <1>9 DEF IInv

-----------------------------------------------------------------------------
\* Steps that write headers and files.

\* A call that goes on with its view keeps it for itself.
LEMMA ExclusiveStep ==
    ASSUME IInv, NEW w \in Workers, NEW j \in Call, call' = [call EXCEPT ![w] = j],
           \A v \in Views : /\ Publishes(j, v) => Publishes(call[w], v)
                            /\ Retires(j, v) => Retires(call[w], v)
    PROVE  /\ call' \in [Workers -> Call] /\ call'[w] = j
           /\ \A u \in Workers \ {w} : call'[u] = call[u]
           /\ Exclusive'
<1>1. call' \in [Workers -> Call] /\ call'[w] = j /\ \A u \in Workers \ {w} : call'[u] = call[u]
  BY CallState, CallMoves
<1>2. \A u \in Workers, v \in Views : /\ Publishes(call'[u], v) => Publishes(call[u], v)
                                      /\ Retires(call'[u], v) => Retires(call[u], v)
  BY <1>1
<1>3. Exclusive'
  BY <1>2 DEF IInv, Exclusive, Publishes, Retires
<1> QED
  BY <1>1, <1>3

\* A sweep only looks at what is older than a publish that is under way.
LEMMA PublishIsYoung ==
    ASSUME IInv, NEW k \in Call, NEW l \in Call, CallSafe(k), CallSafe(l), k.at \in {"files", "header"},
           l.at \in {"heads", "sweep"}
    PROVE  k.now > l.cutoff
<1>1. k.now \in Nat /\ l.cutoff \in Int /\ clock \in Nat /\ Grace \in Nat
  BY CallKinds, BoundAssumption DEF PublishCall, SweepCall, IInv, TypeOK
<1>2. clock - k.now < Grace /\ l.cutoff + Grace <= clock
  BY DEF CallSafe, PublishSafe, SweepSafe
<1> QED
  BY <1>1, <1>2

LEMMA WriteFilesStep ==
    ASSUME IInv, NEW w \in Workers, WriteFiles(w)
    PROVE  IInv'
<1>a. PICK v, i, now : v = call[w].view /\ i = call[w].next /\ now = call[w].now
  OBVIOUS
<1>1. /\ call[w].at = "files"
      /\ files' = [files EXCEPT ![v][i] = now]
      /\ UNCHANGED <<header, pointer, conditional, clock, forced, faults>>
  BY <1>a DEF WriteFiles, env
<1>2. call[w] \in PublishCall /\ CallSafe(call[w])
  BY <1>1, CallState, CallKinds
<1>3. v \in Views /\ i \in Nat /\ now \in Nat
  BY <1>a, <1>2, PublishFields
<1>4. /\ now > 0 /\ now <= clock /\ clock - now < Grace /\ header[v] <= now
      /\ \A m \in FilesOf(v) : m < i => files[v][m] = now
  BY <1>a, <1>1, <1>2 DEF CallSafe, PublishSafe
<1>5. /\ FilesTyped'
      /\ \A m \in FilesOf(v) : files'[v][m] = IF m = i THEN now ELSE files[v][m]
      /\ \A u \in Views \ {v} : files'[u] = files[u]
  <2>1. /\ files = [u \in Views |-> files[u]]
        /\ \A u \in Views : files[u] \in [FilesOf(u) -> Nat]
    BY CallState DEF FilesTyped
  <2>2. PICK f : f = [files[v] EXCEPT ![i] = now]
    OBVIOUS
  <2>3. f \in [FilesOf(v) -> Nat] /\ \A m \in FilesOf(v) : f[m] = IF m = i THEN now ELSE files[v][m]
    BY <1>3, <2>1, <2>2
  <2>4. files' = [u \in Views |-> IF u = v THEN f ELSE files[u]]
    BY <1>1, <1>3, <2>1, <2>2
  <2>5. files'[v] = f /\ \A u \in Views \ {v} : files'[u] = files[u]
    BY <1>3, <2>4
  <2>6. files' = [u \in Views |-> files'[u]]
    BY <2>4
  <2>7. \A u \in Views : files'[u] \in [FilesOf(u) -> Nat]
    BY <2>1, <2>3, <2>5
  <2> QED
    BY <2>3, <2>5, <2>6, <2>7 DEF FilesTyped, FilesOf
<1>6. PICK j \in Call : /\ call' = [call EXCEPT ![w] = j]
                        /\ j.at \in {"files", "header"} /\ j.view = v /\ j.now = now
                        /\ j.at = "files" => j.next = i + 1
                        /\ j.at = "header" => ~(i < FileCount[v])
  <2>1. CASE i < FileCount[v]
    <3>1. PICK n \in Nat : n = i + 1
      BY <1>3
    <3> DEFINE j == CallNext(call[w], n)
    <3>2. call' = [call EXCEPT ![w] = j]
      BY <1>a, <2>1, <3>1 DEF WriteFiles, CallNext
    <3>3. j \in Call /\ j.at = "files" /\ j.view = v /\ j.now = now /\ j.next = n
      BY <1>a, <1>1, <1>2, PublishFields
    <3> HIDE DEF j
    <3> QED
      BY <3>1, <3>2, <3>3
  <2>2. CASE ~(i < FileCount[v])
    <3> DEFINE j == CallAt(call[w], "header")
    <3>1. call' = [call EXCEPT ![w] = j]
      BY <1>a, <2>2 DEF WriteFiles, Goto, CallAt
    <3>2. j \in Call /\ j.at = "header" /\ j.view = v /\ j.now = now
      BY <1>a, <1>2, PublishFields
    <3> HIDE DEF j
    <3> QED
      BY <2>2, <3>1, <3>2
  <2> QED
    BY <2>1, <2>2
<1>7. \A u \in Views : /\ Publishes(j, u) => Publishes(call[w], u)
                       /\ Retires(j, u) => Retires(call[w], u)
  BY <1>a, <1>1, <1>6 DEF Publishes, Retires
<1>8. /\ call' \in [Workers -> Call] /\ call'[w] = j
      /\ \A u \in Workers \ {w} : call'[u] = call[u]
      /\ Exclusive'
  BY <1>6, <1>7, ExclusiveStep
<1>9. TypeOK' /\ Dated'
  BY <1>1, <1>5, <1>8 DEF IInv, TypeOK, Dated
<1>10. PublishedViewsAreComplete'
  <2>1. \A u \in Views : \A m \in FilesOf(u) : files[u][m] > 0 => files'[u][m] > 0
    BY <1>4, <1>5
  <2>2. \A u \in Views : FilesOf(u)' = FilesOf(u)
    BY DEF FilesOf
  <2> QED
    BY <1>1, <2>1, <2>2 DEF IInv, PublishedViewsAreComplete, Published, Complete
<1>11. CallSafe(j)'
  <2>1. \A m \in FilesOf(v) : j.at = "header" \/ m < j.next => files'[v][m] = now
    <3>1. ASSUME NEW m \in FilesOf(v), j.at = "header" \/ m < j.next, m # i PROVE m < i
      <4>1. m \in Nat /\ m <= FileCount[v] /\ FileCount[v] \in Nat
        BY <1>3, ViewAssumption DEF FilesOf
      <4> QED
        BY <1>3, <1>6, <3>1, <4>1
    <3> QED
      BY <1>4, <1>5, <3>1
  <2>2. PublishSafe(j)'
    BY <1>1, <1>4, <1>6, <2>1 DEF PublishSafe, FilesOf
  <2> QED
    BY <1>6, <2>2 DEF CallSafe, RetireSafe, SweepSafe, SwapSafe
<1>12. ASSUME NEW u \in Workers \ {w}, NEW k, k = call[u] PROVE CallSafe(k)'
  <2>1. k \in Call /\ CallSafe(k) /\ call[w] \in Call
    BY <1>12, CallState
  <2>2. PublishSafe(k)'
    <3>1. SUFFICES ASSUME k.at \in {"files", "header", "verify"} PROVE PublishSafe(k)'
      BY DEF PublishSafe
    <3>2. k.view \in Views
      BY <2>1, <3>1, CallKinds, PublishFields
    <3>3. k.view # v
      BY <1>a, <1>1, <1>3, <1>12, <3>1 DEF IInv, Exclusive, Publishes
    <3>4. files'[k.view] = files[k.view]
      BY <1>5, <3>2, <3>3
    <3> QED
      BY <1>1, <2>1, <3>4 DEF CallSafe, PublishSafe, FilesOf
  <2>3. SweepSafe(k)'
    <3>1. SUFFICES ASSUME k.at \in {"heads", "sweep"} PROVE SweepSafe(k)'
      BY DEF SweepSafe
    <3>2. k.aged \subseteq Views
      BY <2>1, <3>1, CallKinds DEF SweepCall
    <3>3. now > k.cutoff
      BY <1>a, <1>1, <1>2, <2>1, <3>1, PublishIsYoung
    <3>4. \A x \in k.aged : \A m \in FilesOf(x) : files[x][m] > k.cutoff => files'[x][m] > k.cutoff
      BY <1>5, <3>2, <3>3
    <3> QED
      BY <1>1, <2>1, <3>4 DEF CallSafe, SweepSafe, FilesOf
  <2>4. RetireSafe(k)'
    <3>1. Published' = Published /\ \A x : HeaderRow(x)' = HeaderRow(x)
      BY <1>1 DEF Published, HeaderRow, Row
    <3> QED
      BY <1>1, <2>1, <3>1 DEF CallSafe, RetireSafe, Older
  <2> QED
    BY <2>1, <2>2, <2>3, <2>4 DEF CallSafe, SwapSafe, Older
<1>13. CallsSafe'
  BY <1>8, <1>11, <1>12 DEF CallsSafe
<1> QED
  BY <1>8, <1>9, <1>10, <1>13 DEF IInv

LEMMA WriteHeaderStep ==
    ASSUME IInv, NEW w \in Workers, WriteHeader(w)
    PROVE  IInv'
<1>a. PICK v, now : v = call[w].view /\ now = call[w].now
  OBVIOUS
<1>1. /\ call[w].at = "header" /\ Goto(w, "verify")
      /\ header' = [header EXCEPT ![v] = now]
      /\ UNCHANGED <<files, pointer, conditional, clock, forced, faults>>
  BY <1>a DEF WriteHeader, env
<1>2. call[w] \in PublishCall /\ CallSafe(call[w])
  BY <1>1, CallState, CallKinds
<1>3. v \in Views /\ now \in Nat
  BY <1>a, <1>2, PublishFields
<1>4. PICK j \in Call : /\ call' = [call EXCEPT ![w] = j]
                        /\ j.at = "verify" /\ j.view = v /\ j.now = now
  <2> DEFINE l == CallAt(call[w], "verify")
  <2>1. call' = [call EXCEPT ![w] = l]
    BY <1>1 DEF Goto, CallAt
  <2>2. l \in Call /\ l.at = "verify" /\ l.view = v /\ l.now = now
    BY <1>a, <1>2, PublishFields
  <2> HIDE DEF l
  <2> QED
    BY <2>1, <2>2
<1>5. /\ now > 0 /\ now <= clock /\ header[v] <= now
      /\ \A m \in FilesOf(v) : files[v][m] = now
  BY <1>a, <1>1, <1>2 DEF CallSafe, PublishSafe
<1>6. /\ header' \in [Views -> Nat] /\ header'[v] = now
      /\ \A u \in Views \ {v} : header'[u] = header[u]
      /\ \A u \in Views : header'[u] >= header[u]
  BY <1>1, <1>3, <1>5, CallState
<1>7. \A u \in Views : /\ Publishes(j, u) => Publishes(call[w], u)
                       /\ Retires(j, u) => Retires(call[w], u)
  BY <1>a, <1>1, <1>4 DEF Publishes, Retires
<1>8. /\ call' \in [Workers -> Call] /\ call'[w] = j
      /\ \A u \in Workers \ {w} : call'[u] = call[u]
      /\ Exclusive'
  BY <1>4, <1>7, ExclusiveStep
<1>9. TypeOK' /\ Dated'
  BY <1>1, <1>5, <1>6, <1>8 DEF IInv, TypeOK, FilesTyped, Dated, FilesOf
<1>10. PublishedViewsAreComplete'
  <2>1. \A u \in Views : header'[u] > 0 => \A m \in FilesOf(u) : files[u][m] > 0
    BY <1>5, <1>6 DEF IInv, PublishedViewsAreComplete, Published, Complete
  <2> QED
    BY <1>1, <2>1 DEF PublishedViewsAreComplete, Published, Complete, FilesOf
<1>11. CallSafe(j)'
  <2>1. PublishSafe(j)'
    BY <1>1, <1>4, <1>5 DEF PublishSafe
  <2> QED
    BY <1>4, <2>1 DEF CallSafe, RetireSafe, SweepSafe, SwapSafe
<1>12. ASSUME NEW u \in Workers \ {w}, NEW k, k = call[u] PROVE CallSafe(k)'
  <2>1. k \in Call /\ CallSafe(k) /\ call[w] \in Call
    BY <1>12, CallState
  <2>2. PublishSafe(k)'
    <3>1. SUFFICES ASSUME k.at \in {"files", "header", "verify"} PROVE PublishSafe(k)'
      BY DEF PublishSafe
    <3>2. k.view \in Views
      BY <2>1, <3>1, CallKinds, PublishFields
    <3>3. k.view # v
      BY <1>a, <1>1, <1>3, <1>12, <3>1 DEF IInv, Exclusive, Publishes
    <3>4. header'[k.view] = header[k.view]
      BY <1>6, <3>2, <3>3
    <3> QED
      BY <1>1, <2>1, <3>4 DEF CallSafe, PublishSafe, FilesOf
  <2>3. SweepSafe(k)'
    <3>1. SUFFICES ASSUME k.at \in {"heads", "sweep"} PROVE SweepSafe(k)'
      BY DEF SweepSafe
    <3>2. k.aged \subseteq Views
      BY <2>1, <3>1, CallKinds DEF SweepCall
    <3>3. now > k.cutoff
      BY <1>a, <1>1, <1>2, <2>1, <3>1, PublishIsYoung
    <3>4. ASSUME k.at = "sweep", NEW x \in k.aged, header'[x] > 0, NEW m \in FilesOf(x)
          PROVE  files[x][m] > k.cutoff
      <4>1. CASE x = v
        BY <1>5, <3>3, <4>1
      <4>2. CASE x # v
        <5>1. header[x] > 0
          BY <1>6, <3>2, <3>4, <4>2
        <5> QED
          BY <2>1, <3>4, <5>1 DEF CallSafe, SweepSafe
      <4> QED
        BY <4>1, <4>2
    <3> QED
      BY <1>1, <2>1, <3>4 DEF CallSafe, SweepSafe, FilesOf
  <2>4. RetireSafe(k)'
    <3>1. SUFFICES ASSUME k.at \in {"guard", "retire"} PROVE RetireSafe(k)'
      BY DEF RetireSafe
    <3>2. k.view \in Views
      BY <2>1, <3>1, CallKinds, RetireFields
    <3>3. k.view # v
      BY <1>a, <1>1, <1>3, <1>12, <3>1 DEF IInv, Exclusive, Publishes, Retires
    <3>4. header'[k.view] = header[k.view]
      BY <1>6, <3>2, <3>3
    <3>5. ASSUME k.at = "retire", forced = 0, header[k.view] > 0
          PROVE  (\E x \in Published : Older(HeaderRow(k.view), HeaderRow(x)))'
      <4>1. PICK x \in Published : Older(HeaderRow(k.view), HeaderRow(x))
        BY <2>1, <3>1, <3>5 DEF CallSafe, RetireSafe
      <4>2. x \in Views /\ header[x] > 0
        BY DEF Published
      <4>3. header[x] \in Nat /\ header'[x] \in Nat /\ header'[x] >= header[x] /\ header[k.view] \in Nat
        BY <1>6, <3>2, <4>2, CallState
      <4>4. header[k.view] < header[x] \/ (header[k.view] = header[x] /\ k.view < x)
        BY <4>1 DEF Older, HeaderRow, Row
      <4>5. header[k.view] < header'[x] \/ (header[k.view] = header'[x] /\ k.view < x)
        BY <4>3, <4>4
      <4>6. Older(HeaderRow(k.view), HeaderRow(x))'
        BY <3>4, <4>5 DEF Older, HeaderRow, Row
      <4>7. x \in Published'
        BY <4>2, <4>3 DEF Published
      <4> QED
        BY <4>6, <4>7
    <3> QED
      BY <1>1, <2>1, <3>1, <3>4, <3>5 DEF CallSafe, RetireSafe
  <2> QED
    BY <2>1, <2>2, <2>3, <2>4 DEF CallSafe, SwapSafe, Older
<1>13. CallsSafe'
  BY <1>8, <1>11, <1>12 DEF CallsSafe
<1> QED
  BY <1>8, <1>9, <1>10, <1>13 DEF IInv

\* The deletions: fewer headers, a call that has less left to do.
LEMMA TodoLeft ==
    ASSUME IInv, NEW w \in Workers, NEW t \in {"header", "files"}, call[w].at = "retire", Done(w, t)
    PROVE  /\ call[w] \in RetireCall /\ CallSafe(call[w]) /\ call[w].view \in Views
           /\ \E j \in Call : /\ call' = [call EXCEPT ![w] = j]
                              /\ j.at = "retire" /\ j.view = call[w].view
                              /\ j.todo = call[w].todo \ {t}
                              /\ call' \in [Workers -> Call] /\ call'[w] = j
                              /\ \A u \in Workers \ {w} : call'[u] = call[u]
                              /\ Exclusive'
<1>1. call[w] \in RetireCall /\ CallSafe(call[w])
  BY CallState, CallKinds
<1>2. PICK todo : todo = call[w].todo \ {t}
  OBVIOUS
<1> DEFINE j == CallTodo(call[w], todo)
<1>3. call' = [call EXCEPT ![w] = j]
  BY <1>2 DEF Done, CallTodo
<1>4. todo \in SUBSET {"header", "files", "pointer"}
  BY <1>1, <1>2, RetireFields
<1>5. /\ j \in Call /\ j.at = "retire" /\ j.view = call[w].view /\ j.todo = todo
      /\ call[w].view \in Views
  BY <1>1, <1>4, RetireFields
<1> HIDE DEF j
<1>6. \A u \in Views : /\ Publishes(j, u) => Publishes(call[w], u)
                       /\ Retires(j, u) => Retires(call[w], u)
  BY <1>5 DEF Publishes, Retires
<1>7. /\ call' \in [Workers -> Call] /\ call'[w] = j
      /\ \A u \in Workers \ {w} : call'[u] = call[u]
      /\ Exclusive'
  BY <1>3, <1>5, <1>6, ExclusiveStep
<1> QED
  BY <1>1, <1>2, <1>3, <1>5, <1>7

LEMMA RetireHeaderStep ==
    ASSUME IInv, NEW w \in Workers, RetireHeader(w)
    PROVE  IInv'
<1>a. PICK v : v = call[w].view
  OBVIOUS
<1>1. /\ call[w].at = "retire" /\ Done(w, "header")
      /\ header' = [header EXCEPT ![v] = 0]
      /\ UNCHANGED <<files, pointer, conditional, clock, forced, faults>>
  BY <1>a DEF RetireHeader, env
<1>2. call[w] \in RetireCall /\ CallSafe(call[w]) /\ v \in Views
  BY <1>a, <1>1, TodoLeft
<1>3. PICK j \in Call : /\ j.at = "retire" /\ j.view = v
                        /\ call' \in [Workers -> Call] /\ call'[w] = j
                        /\ \A u \in Workers \ {w} : call'[u] = call[u]
                        /\ Exclusive'
  BY <1>a, <1>1, TodoLeft
<1>4. /\ header' \in [Views -> Nat] /\ header'[v] = 0
      /\ \A u \in Views \ {v} : header'[u] = header[u]
      /\ \A u \in Views : header'[u] <= header[u]
  BY <1>1, <1>2, CallState
<1>5. TypeOK' /\ Dated'
  <2>1. \A u \in Views : header[u] <= clock /\ header[u] \in Nat /\ header'[u] \in Nat /\ clock \in Nat
    BY <1>4, CallState DEF IInv, Dated
  <2>2. \A u \in Views : header'[u] <= clock
    BY <1>4, <2>1
  <2> QED
    BY <1>1, <1>3, <1>4, <2>2 DEF IInv, TypeOK, FilesTyped, Dated, FilesOf
<1>6. \A u \in Views : header'[u] > 0 => u # v /\ header[u] > 0
  BY <1>4
<1>7. PublishedViewsAreComplete'
  <2>1. \A u \in Views : header'[u] > 0 => \A m \in FilesOf(u) : files[u][m] > 0
    BY <1>6 DEF IInv, PublishedViewsAreComplete, Published, Complete
  <2> QED
    BY <1>1, <2>1 DEF PublishedViewsAreComplete, Published, Complete, FilesOf
<1>8. CallSafe(j)'
  <2>1. RetireSafe(j)'
    BY <1>3, <1>4 DEF RetireSafe
  <2> QED
    BY <1>3, <2>1 DEF CallSafe, PublishSafe, SweepSafe, SwapSafe
<1>9. ASSUME NEW u \in Workers \ {w}, NEW k, k = call[u] PROVE CallSafe(k)'
  <2>1. k \in Call /\ CallSafe(k)
    BY <1>9, CallState
  <2>2. PublishSafe(k)'
    <3>1. SUFFICES ASSUME k.at \in {"files", "header", "verify"} PROVE PublishSafe(k)'
      BY DEF PublishSafe
    <3>2. k.view \in Views
      BY <2>1, <3>1, CallKinds, PublishFields
    <3>3. k.view # v
      BY <1>a, <1>1, <1>2, <1>9, <3>1 DEF IInv, Exclusive, Publishes, Retires
    <3>4. header'[k.view] = header[k.view]
      BY <1>4, <3>2, <3>3
    <3> QED
      BY <1>1, <2>1, <3>4 DEF CallSafe, PublishSafe, FilesOf
  <2>3. SweepSafe(k)'
    <3>1. SUFFICES ASSUME k.at \in {"heads", "sweep"} PROVE SweepSafe(k)'
      BY DEF SweepSafe
    <3>2. k.aged \subseteq Views
      BY <2>1, <3>1, CallKinds DEF SweepCall
    <3>3. \A x \in k.aged : header'[x] > 0 => header[x] > 0
      BY <1>6, <3>2
    <3> QED
      BY <1>1, <2>1, <3>3 DEF CallSafe, SweepSafe, FilesOf
  <2>4. RetireSafe(k)'
    <3>1. SUFFICES ASSUME k.at \in {"guard", "retire"} PROVE RetireSafe(k)'
      BY DEF RetireSafe
    <3>2. k.view \in Views
      BY <2>1, <3>1, CallKinds, RetireFields
    <3>3. "header" \notin k.todo => header'[k.view] = 0
      BY <1>4, <2>1, <3>1, <3>2 DEF CallSafe, RetireSafe
    <3>4. ASSUME k.at = "retire", forced = 0, header'[k.view] > 0
          PROVE  (\E x \in Published : Older(HeaderRow(k.view), HeaderRow(x)))'
      <4>1. k.view # v /\ header[k.view] > 0 /\ header'[k.view] = header[k.view]
        BY <1>4, <1>6, <3>2, <3>4
      <4>2. PICK x \in Published : Older(HeaderRow(k.view), HeaderRow(x))
        BY <2>1, <3>1, <3>4, <4>1 DEF CallSafe, RetireSafe
      <4>3. \E y \in Published : y # v /\ Older(HeaderRow(k.view), HeaderRow(y))
        <5>1. CASE x # v
          BY <4>2, <5>1
        <5>2. CASE x = v
          <6>1. header[v] > 0
            BY <5>2 DEF Published
          <6>2. PICK y \in Published : Older(HeaderRow(v), HeaderRow(y))
            BY <1>a, <1>1, <1>2, <3>4, <6>1 DEF CallSafe, RetireSafe
          <6>3. y \in Views
            BY DEF Published
          <6>4. HeaderRow(k.view) \in PointerRow /\ HeaderRow(v) \in PointerRow /\ HeaderRow(y) \in PointerRow
            BY <1>2, <3>2, <6>3, CallState, HeaderRows
          <6>5. Older(HeaderRow(k.view), HeaderRow(y)) /\ y # v
            BY <4>2, <5>2, <6>2, <6>4, RowOrder
          <6> QED
            BY <6>5
        <5> QED
          BY <5>1, <5>2
      <4>4. PICK y \in Published : y # v /\ Older(HeaderRow(k.view), HeaderRow(y))
        BY <4>3
      <4>5. y \in Views /\ header[y] > 0 /\ header'[y] = header[y]
        BY <1>4, <4>4 DEF Published
      <4>6. Older(HeaderRow(k.view), HeaderRow(y))'
        BY <4>1, <4>4, <4>5 DEF Older, HeaderRow, Row
      <4>7. y \in Published'
        BY <4>5 DEF Published
      <4> QED
        BY <4>6, <4>7
    <3> QED
      BY <1>1, <3>1, <3>3, <3>4 DEF RetireSafe
  <2> QED
    BY <2>1, <2>2, <2>3, <2>4 DEF CallSafe, SwapSafe, Older
<1>10. CallsSafe'
  BY <1>3, <1>8, <1>9 DEF CallsSafe
<1> QED
  BY <1>3, <1>5, <1>7, <1>10 DEF IInv

LEMMA RetireFilesStep ==
    ASSUME IInv, NEW w \in Workers, RetireFiles(w)
    PROVE  IInv'
<1>a. PICK v : v = call[w].view
  OBVIOUS
<1>1. /\ call[w].at = "retire" /\ Done(w, "files") /\ "header" \notin call[w].todo
      /\ files' = [files EXCEPT ![v] = NoFiles(v)]
      /\ UNCHANGED <<header, pointer, conditional, clock, forced, faults>>
  BY <1>a DEF RetireFiles, env
<1>2. call[w] \in RetireCall /\ CallSafe(call[w]) /\ v \in Views
  BY <1>a, <1>1, TodoLeft
<1>3. PICK j \in Call : /\ j.at = "retire" /\ j.view = v
                        /\ call' \in [Workers -> Call] /\ call'[w] = j
                        /\ \A u \in Workers \ {w} : call'[u] = call[u]
                        /\ Exclusive'
  BY <1>a, <1>1, TodoLeft
<1>4. header[v] = 0
  BY <1>a, <1>1, <1>2 DEF CallSafe, RetireSafe
<1>5. FilesTyped' /\ \A u \in Views \ {v} : files'[u] = files[u]
  <2>1. /\ files = [u \in Views |-> files[u]]
        /\ \A u \in Views : files[u] \in [FilesOf(u) -> Nat]
    BY CallState DEF FilesTyped
  <2>2. NoFiles(v) \in [FilesOf(v) -> Nat]
    BY DEF NoFiles
  <2>3. files' = [u \in Views |-> IF u = v THEN NoFiles(v) ELSE files[u]]
    BY <1>1, <1>2, <2>1
  <2>4. files'[v] = NoFiles(v) /\ \A u \in Views \ {v} : files'[u] = files[u]
    BY <1>2, <2>3
  <2>5. files' = [u \in Views |-> files'[u]]
    BY <2>3
  <2>6. \A u \in Views : files'[u] \in [FilesOf(u) -> Nat]
    BY <2>1, <2>2, <2>4
  <2> QED
    BY <2>4, <2>5, <2>6 DEF FilesTyped, FilesOf
<1>6. TypeOK' /\ Dated'
  BY <1>1, <1>3, <1>5 DEF IInv, TypeOK, Dated
<1>7. PublishedViewsAreComplete'
  <2>1. \A u \in Views : header[u] > 0 => \A m \in FilesOf(u) : files'[u][m] > 0
    BY <1>4, <1>5 DEF IInv, PublishedViewsAreComplete, Published, Complete
  <2> QED
    BY <1>1, <2>1 DEF PublishedViewsAreComplete, Published, Complete, FilesOf
<1>8. CallSafe(j)'
  <2>1. RetireSafe(j)'
    BY <1>1, <1>3, <1>4 DEF RetireSafe
  <2> QED
    BY <1>3, <2>1 DEF CallSafe, PublishSafe, SweepSafe, SwapSafe
<1>9. ASSUME NEW u \in Workers \ {w}, NEW k, k = call[u] PROVE CallSafe(k)'
  <2>1. k \in Call /\ CallSafe(k)
    BY <1>9, CallState
  <2>2. PublishSafe(k)'
    <3>1. SUFFICES ASSUME k.at \in {"files", "header", "verify"} PROVE PublishSafe(k)'
      BY DEF PublishSafe
    <3>2. k.view \in Views
      BY <2>1, <3>1, CallKinds, PublishFields
    <3>3. k.view # v
      BY <1>a, <1>1, <1>2, <1>9, <3>1 DEF IInv, Exclusive, Publishes, Retires
    <3>4. files'[k.view] = files[k.view]
      BY <1>5, <3>2, <3>3
    <3> QED
      BY <1>1, <2>1, <3>4 DEF CallSafe, PublishSafe, FilesOf
  <2>3. SweepSafe(k)'
    <3>1. SUFFICES ASSUME k.at \in {"heads", "sweep"} PROVE SweepSafe(k)'
      BY DEF SweepSafe
    <3>2. k.aged \subseteq Views
      BY <2>1, <3>1, CallKinds DEF SweepCall
    <3>3. \A x \in k.aged : header[x] > 0 => files'[x] = files[x]
      BY <1>4, <1>5, <3>2
    <3> QED
      BY <1>1, <2>1, <3>3 DEF CallSafe, SweepSafe, FilesOf
  <2>4. RetireSafe(k)'
    <3>1. Published' = Published /\ \A x : HeaderRow(x)' = HeaderRow(x)
      BY <1>1 DEF Published, HeaderRow, Row
    <3> QED
      BY <1>1, <2>1, <3>1 DEF CallSafe, RetireSafe, Older
  <2> QED
    BY <2>1, <2>2, <2>3, <2>4 DEF CallSafe, SwapSafe, Older
<1>10. CallsSafe'
  BY <1>3, <1>8, <1>9 DEF CallsSafe
<1> QED
  BY <1>3, <1>6, <1>7, <1>10 DEF IInv

LEMMA SweepDeleteStep ==
    ASSUME IInv, NEW w \in Workers, SweepDelete(w)
    PROVE  IInv'
<1>a. PICK aged, cutoff : aged = call[w].aged /\ cutoff = call[w].cutoff
  OBVIOUS
<1>1. /\ call[w].at = "sweep" /\ call' = [call EXCEPT ![w] = Idle]
      /\ files' = [v \in Views |-> [i \in FilesOf(v) |->
                     IF v \in aged /\ files[v][i] <= cutoff THEN 0 ELSE files[v][i]]]
      /\ UNCHANGED <<header, pointer, conditional, clock, forced, faults>>
  BY <1>a DEF SweepDelete, Return, env
<1>2. call[w] \in SweepCall /\ call[w] \in Call /\ CallSafe(call[w])
  BY <1>1, CallState, CallKinds
<1>3. cutoff \in Int
  BY <1>a, <1>2 DEF SweepCall
<1>4. /\ FilesTyped'
      /\ \A v \in Views : \A i \in FilesOf(v) :
            files'[v][i] = IF v \in aged /\ files[v][i] <= cutoff THEN 0 ELSE files[v][i]
  <2>1. \A v \in Views : \A i \in FilesOf(v) : files[v][i] \in Nat
    BY CallState DEF FilesTyped
  <2>2. \A v \in Views : files'[v] = [i \in FilesOf(v) |->
                               IF v \in aged /\ files[v][i] <= cutoff THEN 0 ELSE files[v][i]]
    BY <1>1
  <2>3. ASSUME NEW v \in Views PROVE files'[v] \in [FilesOf(v) -> Nat]
    <3>1. \A i \in FilesOf(v) : (IF v \in aged /\ files[v][i] <= cutoff THEN 0 ELSE files[v][i]) \in Nat
      BY <2>1
    <3> QED
      BY <2>2, <3>1
  <2>4. files' = [v \in Views |-> files'[v]]
    BY <1>1, <2>2
  <2> QED
    BY <2>2, <2>3, <2>4 DEF FilesTyped, FilesOf
<1>5. /\ Idle \in Call /\ Idle.at = "idle"
      /\ \A v \in Views : /\ Publishes(Idle, v) => Publishes(call[w], v)
                          /\ Retires(Idle, v) => Retires(call[w], v)
  BY IdleCall
<1>6. /\ call' \in [Workers -> Call] /\ call'[w] = Idle
      /\ \A u \in Workers \ {w} : call'[u] = call[u]
      /\ Exclusive'
  BY <1>1, <1>5, ExclusiveStep
\* What readers find is younger than the cutoff, and so is what is being published.
<1>7. \A v \in Views : header[v] > 0 => \A i \in FilesOf(v) : files'[v][i] = files[v][i]
  <2>1. \A v \in aged : header[v] > 0 => \A i \in FilesOf(v) : files[v][i] > cutoff
    BY <1>a, <1>1, <1>2 DEF CallSafe, SweepSafe
  <2>2. \A v \in Views : \A i \in FilesOf(v) : files[v][i] \in Nat
    BY CallState DEF FilesTyped
  <2> QED
    BY <1>3, <1>4, <2>1, <2>2
<1>8. TypeOK' /\ Dated'
  BY <1>1, <1>4, <1>6 DEF IInv, TypeOK, Dated
<1>9. PublishedViewsAreComplete'
  <2>1. \A v \in Views : header[v] > 0 => \A i \in FilesOf(v) : files'[v][i] > 0
    BY <1>7 DEF IInv, PublishedViewsAreComplete, Published, Complete
  <2> QED
    BY <1>1, <2>1 DEF PublishedViewsAreComplete, Published, Complete, FilesOf
<1>10. CallSafe(Idle)'
  BY <1>5 DEF CallSafe, PublishSafe, RetireSafe, SweepSafe, SwapSafe, Idle
<1>11. ASSUME NEW u \in Workers \ {w}, NEW k, k = call[u] PROVE CallSafe(k)'
  <2>1. k \in Call /\ CallSafe(k)
    BY <1>11, CallState
  <2>2. PublishSafe(k)'
    <3>1. SUFFICES ASSUME k.at \in {"files", "header", "verify"} PROVE PublishSafe(k)'
      BY DEF PublishSafe
    <3>2. k.view \in Views /\ k.now \in Nat
      BY <2>1, <3>1, CallKinds, PublishFields
    <3>3. ASSUME k.at \in {"files", "header"}, NEW i \in FilesOf(k.view), k.at = "header" \/ i < k.next
          PROVE  files'[k.view][i] = k.now
      <4>1. files[k.view][i] = k.now
        BY <2>1, <3>1, <3>3 DEF CallSafe, PublishSafe
      <4>2. k.now > cutoff
        BY <1>a, <1>1, <1>2, <2>1, <3>3, PublishIsYoung
      <4> QED
        BY <1>3, <1>4, <3>2, <4>1, <4>2
    <3> QED
      BY <1>1, <2>1, <3>3 DEF CallSafe, PublishSafe, FilesOf
  <2>3. SweepSafe(k)'
    <3>1. SUFFICES ASSUME k.at \in {"heads", "sweep"} PROVE SweepSafe(k)'
      BY DEF SweepSafe
    <3>2. k.aged \subseteq Views
      BY <2>1, <3>1, CallKinds DEF SweepCall
    <3>3. \A x \in k.aged : header[x] > 0 => \A i \in FilesOf(x) : files'[x][i] = files[x][i]
      BY <1>7, <3>2
    <3> QED
      BY <1>1, <2>1, <3>3 DEF CallSafe, SweepSafe, FilesOf
  <2>4. RetireSafe(k)'
    <3>1. Published' = Published /\ \A x : HeaderRow(x)' = HeaderRow(x)
      BY <1>1 DEF Published, HeaderRow, Row
    <3> QED
      BY <1>1, <2>1, <3>1 DEF CallSafe, RetireSafe, Older
  <2> QED
    BY <2>1, <2>2, <2>3, <2>4 DEF CallSafe, SwapSafe, Older
<1>12. CallsSafe'
  BY <1>6, <1>10, <1>11 DEF CallsSafe
<1> QED
  BY <1>6, <1>8, <1>9, <1>12 DEF IInv

\* The clock waits for publishes, and sweeps fall behind it.
LEMMA TickStep ==
    ASSUME IInv, Tick
    PROVE  IInv'
<1>1. /\ \A w \in Workers : call[w].at \in {"files", "header"} => clock + 1 - call[w].now < Grace
      /\ clock' = clock + 1
      /\ UNCHANGED <<header, files, pointer, call, conditional, forced, faults>>
  BY DEF Tick, tables
<1>2. clock \in Nat \ {0} /\ header \in [Views -> Nat] /\ Grace \in Nat
  BY BoundAssumption DEF IInv, TypeOK
<1>3. TypeOK' /\ Dated' /\ PublishedViewsAreComplete' /\ Exclusive'
  <2>1. \A v \in Views : header[v] <= clock + 1
    BY <1>2 DEF IInv, Dated
  <2>2. clock + 1 \in Nat \ {0}
    BY <1>2
  <2> QED
    BY <1>1, <2>1, <2>2 DEF IInv, TypeOK, FilesTyped, Dated, PublishedViewsAreComplete, Published, Complete,
                            FilesOf, Exclusive, Publishes, Retires
<1>4. ASSUME NEW u \in Workers, NEW k, k = call[u] PROVE CallSafe(k)'
  <2>1. k \in Call /\ CallSafe(k)
    BY <1>4, CallState
  <2>2. PublishSafe(k)'
    <3>1. SUFFICES ASSUME k.at \in {"files", "header", "verify"} PROVE PublishSafe(k)'
      BY DEF PublishSafe
    <3>2. k.now \in Nat /\ k.now <= clock
      BY <2>1, <3>1, CallKinds, PublishFields DEF CallSafe, PublishSafe
    <3>3. k.now <= clock' /\ (k.at \in {"files", "header"} => clock' - k.now < Grace)
      BY <1>1, <1>2, <1>4, <3>2
    <3> QED
      BY <1>1, <2>1, <3>3 DEF CallSafe, PublishSafe, FilesOf
  <2>3. SweepSafe(k)'
    <3>1. SUFFICES ASSUME k.at \in {"heads", "sweep"} PROVE SweepSafe(k)'
      BY DEF SweepSafe
    <3>2. k.cutoff \in Int /\ k.cutoff + Grace <= clock
      BY <2>1, <3>1, CallKinds DEF SweepCall, CallSafe, SweepSafe
    <3>3. k.cutoff + Grace <= clock'
      BY <1>1, <1>2, <3>2
    <3> QED
      BY <1>1, <2>1, <3>3 DEF CallSafe, SweepSafe, FilesOf
  <2>4. RetireSafe(k)'
    <3>1. Published' = Published /\ \A x : HeaderRow(x)' = HeaderRow(x)
      BY <1>1 DEF Published, HeaderRow, Row
    <3> QED
      BY <1>1, <2>1, <3>1 DEF CallSafe, RetireSafe, Older
  <2> QED
    BY <2>1, <2>2, <2>3, <2>4 DEF CallSafe, SwapSafe, Older
<1>5. CallsSafe'
  BY <1>1, <1>4 DEF CallsSafe
<1> QED
  BY <1>3, <1>5 DEF IInv

-----------------------------------------------------------------------------
\* The invariant, and what it gives.

LEMMA Initially == Init => IInv
<1> SUFFICES ASSUME Init PROVE IInv
  OBVIOUS
<1>1. /\ \A v \in Views : header[v] = 0 /\ files[v] = NoFiles(v)
      /\ \A w \in Workers : call[w] = Idle
      /\ clock = 1
  BY DEF Init
<1>2. TypeOK
  <2>1. \A v \in Views : NoFiles(v) \in [FilesOf(v) -> Nat]
    BY DEF NoFiles
  <2>2. FilesTyped
    BY <1>1, <2>1 DEF Init, FilesTyped
  <2>3. call \in [Workers -> Call]
    BY IdleCall DEF Init
  <2> QED
    BY <2>2, <2>3 DEF Init, TypeOK
<1>3. Dated /\ PublishedViewsAreComplete
  BY <1>1 DEF Dated, PublishedViewsAreComplete, Published
<1>4. CallsSafe
  <2>1. CallSafe(Idle)
    BY DEF CallSafe, PublishSafe, RetireSafe, SweepSafe, SwapSafe, Idle
  <2> QED
    BY <1>1, <2>1 DEF CallsSafe
<1>5. Exclusive
  BY <1>1, IdleCall DEF Exclusive
<1> QED
  BY <1>2, <1>3, <1>4, <1>5 DEF IInv

LEMMA Inductive == IInv /\ [Next]_vars => IInv'
<1> SUFFICES ASSUME IInv, [Next]_vars PROVE IInv'
  OBVIOUS
<1>1. ASSUME NEW w \in Workers, NEW v \in Views, Publish(w, v) PROVE IInv'
  BY <1>1, PublishBegins
<1>2. ASSUME NEW w \in Workers, NEW v \in Views, NEW force \in BOOLEAN, Retire(w, v, force) PROVE IInv'
  BY <1>2, RetireBegins
<1>3. ASSUME NEW w \in Workers, ReconcileRead(w) \/ SweepScan(w) \/ PointerFails(w) \/ Die(w) PROVE IInv'
  BY <1>3, ReconcileReadStep, SweepScanStep, PointerStepStep, DieStep
<1>4. ASSUME NEW w \in Workers, Step(w) PROVE IInv'
  <2>1. CASE PublishStep(w)
    BY <2>1, WriteFilesStep, WriteHeaderStep, VerifyStep DEF PublishStep
  <2>2. CASE PointerStep(w)
    BY <2>2, PointerStepStep
  <2>3. CASE RetireStep(w)
    BY <2>3, GuardStep, RetirePointerStep, RetireHeaderStep, RetireFilesStep, RetireCountStep DEF RetireStep
  <2>4. CASE ReconcileStep(w)
    BY <2>4, ReconcileStepStep
  <2>5. CASE SweepStep(w)
    BY <2>5, SweepHeadsStep, SweepDeleteStep DEF SweepStep
  <2> QED
    BY <1>4, <2>1, <2>2, <2>3, <2>4, <2>5 DEF Step
<1>5. CASE Tick
  BY <1>5, TickStep
<1>6. CASE UNCHANGED vars
  <2>1. UNCHANGED <<header, files, pointer, call, conditional, clock, forced, faults>>
    BY <1>6 DEF vars, tables, env
  <2>2. TypeOK' /\ Dated'
    BY <2>1 DEF IInv, TypeOK, FilesTyped, FilesOf, Dated
  <2>3. CallsSafe'
    <3>1. \A k : CallSafe(k) => CallSafe(k)'
      BY <2>1, SafeFrame DEF IInv, TypeOK
    <3> QED
      BY <2>1, <3>1 DEF IInv, CallsSafe
  <2>4. Exclusive'
    BY <2>1 DEF IInv, Exclusive, Publishes, Retires
  <2>5. PublishedViewsAreComplete'
    BY <2>1 DEF IInv, PublishedViewsAreComplete, Published, Complete, FilesOf
  <2> QED
    BY <2>2, <2>3, <2>4, <2>5 DEF IInv
<1> QED
  BY <1>1, <1>2, <1>3, <1>4, <1>5, <1>6 DEF Next

\* Only the pointer steps write the pointer.
LEMMA PointerWriters ==
    ASSUME IInv, [Next]_vars, pointer # None, pointer' # None
    PROVE  ~Older(pointer', pointer)
<1>1. ~Older(pointer, pointer)
  BY RowOrder DEF IInv, TypeOK
<1>2. ASSUME NEW w \in Workers, NEW v \in Views, Publish(w, v) \/ \E force \in BOOLEAN : Retire(w, v, force)
      PROVE  UNCHANGED pointer
  BY <1>2 DEF Publish, Retire, tables
<1>3. ASSUME NEW w \in Workers, ReconcileRead(w) \/ SweepScan(w) \/ Die(w) PROVE UNCHANGED pointer
  BY <1>3 DEF ReconcileRead, SweepScan, Die, tables
<1>4. ASSUME NEW w \in Workers, Step(w) \/ PointerFails(w)
      PROVE  \/ UNCHANGED pointer
             \/ PointerStep(w) \/ PointerFails(w) \/ ReconcileRepair(w) \/ RetirePointer(w)
  BY <1>4 DEF Step, PublishStep, RetireStep, ReconcileStep, SweepStep, WriteFiles, WriteHeader, Verify, Guard,
              RetireHeader, RetireFiles, RetireCount, ReconcileCompare, SweepHeads, SweepDelete, tables
<1>5. ASSUME NEW w \in Workers, Step(w) \/ PointerFails(w) PROVE ~Older(pointer', pointer)
  BY <1>1, <1>4, <1>5, PointerRows
<1>6. CASE Tick \/ UNCHANGED vars
  BY <1>1, <1>6 DEF Tick, vars, tables
<1> QED
  BY <1>1, <1>2, <1>3, <1>5, <1>6 DEF Next

\* Only a retirement takes a header away, and it finds a newer one.
LEMMA HeaderWriters ==
    ASSUME IInv, [Next]_vars, forced' = 0, Published # {}
    PROVE  \E v \in Views : header'[v] > 0
<1>1. PICK p \in Views : header[p] > 0
  BY DEF Published
<1>2. ASSUME NEW w \in Workers, WriteHeader(w) PROVE \E v \in Views : header'[v] > 0
  <2>1. call[w].at = "header" /\ header' = [header EXCEPT ![call[w].view] = call[w].now]
    BY <1>2 DEF WriteHeader
  <2>2. call[w].now > 0
    BY <2>1, CallState DEF CallSafe, PublishSafe
  <2> QED
    BY <1>1, <2>1, <2>2, CallState
<1>3. ASSUME NEW w \in Workers, RetireHeader(w) PROVE \E v \in Views : header'[v] > 0
  <2>a. PICK x : x = call[w].view
    OBVIOUS
  <2>1. call[w].at = "retire" /\ header' = [header EXCEPT ![x] = 0] /\ forced = 0
    BY <1>3, <2>a DEF RetireHeader, env
  <2>2. header \in [Views -> Nat] /\ CallSafe(call[w]) /\ call[w] \in RetireCall
    BY <2>1, CallState, CallKinds
  <2>3. x \in Views
    BY <2>a, <2>2, RetireFields
  <2>4. CASE p = x
    <3>1. PICK u \in Published : Older(HeaderRow(x), HeaderRow(u))
      BY <1>1, <2>a, <2>1, <2>2, <2>4 DEF CallSafe, RetireSafe
    <3>2. u \in Views /\ header[u] > 0
      BY DEF Published
    <3>3. u # x
      BY <2>2, <2>3, <3>1, HeaderRows, RowOrder
    <3> QED
      BY <2>1, <2>2, <3>2, <3>3
  <2>5. CASE p # x
    BY <1>1, <2>1, <2>2, <2>5
  <2> QED
    BY <2>4, <2>5
<1>4. ASSUME NEW w \in Workers, Step(w), ~WriteHeader(w), ~RetireHeader(w) PROVE UNCHANGED header
  BY <1>4 DEF Step, PublishStep, PointerStep, RetireStep, ReconcileStep, SweepStep, WriteFiles, Verify,
              MergePointer, ObservePointer, SwapPointer, DropPointer, Guard, RetirePointer, RetireFiles,
              RetireCount, ReconcileCompare, ReconcileRepair, SweepHeads, SweepDelete, tables
<1>5. ASSUME NEW w \in Workers, NEW v \in Views, Publish(w, v) \/ \E force \in BOOLEAN : Retire(w, v, force)
      PROVE  UNCHANGED header
  BY <1>5 DEF Publish, Retire, tables
<1>6. ASSUME NEW w \in Workers, ReconcileRead(w) \/ SweepScan(w) \/ PointerFails(w) \/ Die(w)
      PROVE  UNCHANGED header
  BY <1>6 DEF ReconcileRead, SweepScan, PointerFails, Die, tables
<1>7. CASE Tick \/ UNCHANGED vars
  BY <1>1, <1>7 DEF Tick, vars, tables
<1>8. ASSUME NEW w \in Workers, Step(w) PROVE \E v \in Views : header'[v] > 0
  BY <1>1, <1>2, <1>3, <1>4, <1>8
<1> QED
  BY <1>1, <1>5, <1>6, <1>7, <1>8 DEF Next

\* The state of the catalog and of every call stays well formed.
THEOREM TypeCorrect == Spec => []TypeOK
<1>1. IInv => TypeOK
  BY DEF IInv
<1>2. IInv /\ [Next]_vars => IInv'
  BY Inductive
<1> QED
  BY <1>1, <1>2, Initially, PTL DEF Spec

\* publish_view, retire_view, reconcile_orphan_view_files: a view that has a header has
\* all its files, whoever publishes, retires, sweeps or dies, and however often.
THEOREM CompleteWhenFound == Spec => []PublishedViewsAreComplete
<1>1. IInv => PublishedViewsAreComplete
  BY DEF IInv
<1>2. IInv /\ [Next]_vars => IInv'
  BY Inductive
<1> QED
  BY <1>1, <1>2, Initially, PTL DEF Spec

\* _update_latest_pointer: no late publish, no compare-and-swap that lost its race and
\* no repair moves the pointer to an older view.
THEOREM PointerMovesForward == Spec => PointerNeverRegresses
<1>1. IInv /\ [Next]_vars => IInv'
  BY Inductive
<1>2. IInv /\ [Next]_vars => [pointer # None /\ pointer' # None => ~Older(pointer', pointer)]_vars
  BY PointerWriters
<1> QED
  BY <1>1, <1>2, Initially, PTL DEF Spec, PointerNeverRegresses

\* retire_view: without force, retirements that race with each other and with publishes
\* never take the last view of a repo.
THEOREM LastViewStays == Spec => LastViewSurvives
<1>1. IInv /\ [Next]_vars => IInv'
  BY Inductive
<1>2. IInv /\ [Next]_vars => [forced' = 0 /\ Published # {} => \E v \in Views : header'[v] > 0]_vars
  BY HeaderWriters
<1> QED
  BY <1>1, <1>2, Initially, PTL DEF Spec, LastViewSurvives

=============================================================================

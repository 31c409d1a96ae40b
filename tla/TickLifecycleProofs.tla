------------------------- MODULE TickLifecycleProofs -------------------------
(***************************************************************************)
(* Proofs about TickLifecycle, for any ticks, any number of alignments and *)
(* cleanups in any order, and any deaths.                                  *)
(***************************************************************************)
EXTENDS TickLifecycle, FiniteSetTheorems, TLAPS

-----------------------------------------------------------------------------
\* The largest and the smallest of some stamps or ticks

\* Finitely many integers have a largest, above which the fewest of them are.
LEMMA GreatestInteger ==
    ASSUME NEW S \in SUBSET Int, IsFiniteSet(S), S # {}
    PROVE  \E x \in S : \A y \in S : x >= y
<1> DEFINE Above(x) == {y \in S : y > x}
           Sets == {Above(x) : x \in S}
<1>1. Sets \subseteq FiniteSubsetsOf(S) /\ Sets # {}
  <2>1. FiniteSubsetsOf(S) = SUBSET S
    BY FS_FiniteSubsetsOfFinite
  <2>2. Sets \subseteq SUBSET S
    OBVIOUS
  <2>3. Sets # {}
    OBVIOUS
  <2> HIDE DEF Sets
  <2> QED
    BY <2>1, <2>2, <2>3
<1>2. PICK A \in Sets : \A B \in Sets : <<B, A>> \notin StrictSubsetOrdering(S)
  <2> HIDE DEF Sets
  <2> QED
    BY <1>1, FS_StrictSubsetOrderingWellFounded, WFMin
<1>3. PICK x \in S : A = Above(x)
  OBVIOUS
<1>4. ASSUME NEW y \in S, y > x PROVE FALSE
  <2>1. Above(y) \subseteq Above(x) /\ y \in Above(x) /\ y \notin Above(y)
    <3>1. x \in Int /\ y \in Int /\ \A z \in S : z \in Int
      OBVIOUS
    <3>2. \A z \in S : z > y => z > x
      <4> HIDE DEF Above, Sets
      <4> QED
        BY <1>4, <3>1
    <3>3. ~(y > y)
      BY <3>1
    <3> QED
      BY Zenon, <1>4, <3>2, <3>3
  <2>2. <<Above(y), Above(x)>> \in StrictSubsetOrdering(S)
    BY <2>1 DEF StrictSubsetOrdering
  <2> QED
    BY <1>2, <1>3, <2>2
<1> QED
  BY <1>4

\* ... and a smallest.
LEMMA LeastInteger ==
    ASSUME NEW S \in SUBSET Int, IsFiniteSet(S), S # {}
    PROVE  \E x \in S : \A y \in S : x <= y
<1> DEFINE T == {-x : x \in S}
           f == [x \in S |-> -x]
<1>1. f \in Surjection(S, T)
  BY DEF Surjection
<1>2. IsFiniteSet(T) /\ T \in SUBSET Int /\ T # {}
  <2>1. IsFiniteSet(T)
    BY <1>1, FS_Surjection
  <2>2. \A x \in S : -x \in Int
    OBVIOUS
  <2> QED
    BY <2>1, <2>2
<1>3. PICK z \in T : \A y \in T : z >= y
  <2> HIDE DEF T
  <2> QED
    BY <1>2, GreatestInteger
<1> QED
  BY <1>3

-----------------------------------------------------------------------------
\* Calls and rows

TickRow == [tick : Ticks, fresh : BOOLEAN, at : Nat \cup {-1}, by : Workers \cup {"earlier"}]
AppendCall == [at : {"append"}, todo : (SUBSET Ticks) \ {{}}, stamp : Nat]
ReplaceCall ==
    {c \in [at : {"add", "delete"}, ids : SUBSET Ticks, todo : SUBSET Ticks,
            fresh : UNION {[S -> BOOLEAN] : S \in SUBSET Ticks}, marker : Nat] :
       /\ c.todo \subseteq c.ids /\ c.fresh \in [c.ids -> BOOLEAN]
       /\ (c.at = "delete") <=> (c.todo = {})}
TickCall ==
    [at : {"idle", "job", "record", "orphan"}] \cup [at : {"plan"}, orphans : BOOLEAN, job : BOOLEAN]
        \cup [at : {"scan"}, job : BOOLEAN] \cup AppendCall \cup ReplaceCall

Typed ==
    /\ rows \subseteq TickRow /\ IsFiniteSet(rows)
    /\ job \in BOOLEAN /\ emptied \in BOOLEAN /\ blind \in BOOLEAN
    /\ call \in [Workers -> TickCall]
    /\ now \in Nat

\* A worker that has yet to add a row has left none there that is the same.
OwnStamps ==
    \A row \in rows :
        row.by # "earlier" /\ call[row.by].at \in {"append", "add"} /\ row.tick \in call[row.by].todo
            => call[row.by].at = "add" /\ row.at < call[row.by].marker

\* What a cleanup has added stays, or something as new does.
KeepsOne ==
    ~emptied =>
        \A w \in Workers : Replacing(w) =>
            \A tick \in call[w].ids \ call[w].todo :
                \E row \in rows : row.tick = tick /\ row.at >= call[w].marker

\* The cleanups agree on which ticks have a row of the job's recipe, and what they
\* have added of it stays, or something as new of it does.
HasFresh(tick) == \E row \in rows : row.tick = tick /\ row.fresh
FreshFrom(tick, marker) == \E row \in rows : row.tick = tick /\ row.fresh /\ row.at >= marker
KeepsFresh ==
    ~blind =>
        /\ \A w \in Workers : Replacing(w) =>
              \A tick \in call[w].ids :
                  /\ call[w].fresh[tick] <=> HasFresh(tick)
                  /\ tick \notin call[w].todo /\ call[w].fresh[tick] => FreshFrom(tick, call[w].marker)
        /\ Appending =>
              /\ \A row \in rows : row.fresh
              /\ \A w \in Workers : Replacing(w) => \A tick \in call[w].ids : call[w].fresh[tick]

IInv == Typed /\ OwnStamps /\ KeepsOne /\ KeepsFresh

LEMMA TicksFinite == Ticks \subseteq Nat /\ Ticks # {} /\ IsFiniteSet(Ticks)
  BY TickAssumption

LEMMA TickFields ==
    ASSUME NEW c \in TickCall
    PROVE  /\ c.at \in {"idle", "job", "record", "orphan", "plan", "scan", "append", "add", "delete"}
           /\ c.at = "append" => c.todo \subseteq Ticks /\ c.todo # {} /\ c.stamp \in Nat
           /\ c.at \in {"plan", "scan"} => c.job \in BOOLEAN
           /\ c.at \in {"add", "delete"} =>
                 /\ c.ids \subseteq Ticks /\ c.todo \subseteq c.ids /\ c.fresh \in [c.ids -> BOOLEAN]
                 /\ c.marker \in Nat
                 /\ (c.at = "delete") <=> (c.todo = {})
  BY DEF TickCall, AppendCall, ReplaceCall

\* What is left of an append, or of an add.
LEMMA AppendLeft ==
    ASSUME NEW c \in TickCall, c.at = "append", NEW S \in SUBSET Ticks, S # {}
    PROVE  LET d == [c EXCEPT !.todo = S]
           IN  d \in TickCall /\ d.at = "append" /\ d.todo = S
<1>1. c \in AppendCall
  BY DEF TickCall, ReplaceCall
<1> QED
  BY <1>1 DEF TickCall, AppendCall

LEMMA AddLeft ==
    ASSUME NEW c \in TickCall, c.at = "add", NEW S \in SUBSET c.todo
    PROVE  LET d == IF S = {} THEN [c EXCEPT !.at = "delete", !.todo = {}] ELSE [c EXCEPT !.todo = S]
           IN  /\ d \in TickCall /\ d.at \in {"add", "delete"} /\ d.todo = S
               /\ d.ids = c.ids /\ d.fresh = c.fresh /\ d.marker = c.marker
<1>1. c \in ReplaceCall
  BY DEF TickCall, AppendCall
<1>2. CASE S = {}
  <2> DEFINE d == [c EXCEPT !.at = "delete", !.todo = {}]
  <2>1. /\ d \in [at : {"add", "delete"}, ids : SUBSET Ticks, todo : SUBSET Ticks,
                  fresh : UNION {[T -> BOOLEAN] : T \in SUBSET Ticks}, marker : Nat]
        /\ d.at = "delete" /\ d.todo = {} /\ d.ids = c.ids /\ d.fresh = c.fresh /\ d.marker = c.marker
    BY <1>1 DEF ReplaceCall
  <2> HIDE DEF d
  <2>2. d \in TickCall
    BY <1>1, <2>1 DEF TickCall, ReplaceCall
  <2> QED
    BY <1>2, <2>1, <2>2 DEF d
<1>3. CASE S # {}
  <2> DEFINE d == [c EXCEPT !.todo = S]
  <2>1. /\ d \in [at : {"add", "delete"}, ids : SUBSET Ticks, todo : SUBSET Ticks,
                  fresh : UNION {[T -> BOOLEAN] : T \in SUBSET Ticks}, marker : Nat]
        /\ d.at = "add" /\ d.todo = S /\ d.ids = c.ids /\ d.fresh = c.fresh /\ d.marker = c.marker
    BY <1>1 DEF ReplaceCall
  <2> HIDE DEF d
  <2>2. d \in TickCall
    BY <1>1, <1>3, <2>1 DEF TickCall, ReplaceCall
  <2> QED
    BY <1>3, <2>1, <2>2 DEF d
<1> QED
  BY <1>2, <1>3

LEMMA FirstTick ==
    ASSUME NEW S \in SUBSET Ticks, S # {}
    PROVE  Min(S) \in S
<1>1. Ticks \subseteq Nat /\ IsFiniteSet(Ticks)
  BY TicksFinite
<1>2. IsFiniteSet(S)
  BY <1>1, FS_Subset
<1>3. S \in SUBSET Int
  BY <1>1
<1>4. \E x \in S : \A y \in S : x <= y
  BY <1>2, <1>3, LeastInteger
<1> QED
  BY <1>4 DEF Min

\* The marker of a cleanup is later than every copy it saw.
LEMMA MarkerIsLater ==
    ASSUME Typed, NEW copies \in SUBSET rows, copies # {}
    PROVE  Marker(copies) \in Nat /\ \A row \in copies : row.at < Marker(copies)
<1> DEFINE stamps == {row.at : row \in copies}
           newest == Max(stamps)
<1>1. IsFiniteSet(stamps) /\ stamps # {} /\ stamps \subseteq Nat \cup {-1}
  <2>1. IsFiniteSet(copies)
    BY FS_Subset DEF Typed
  <2> DEFINE f == [row \in copies |-> row.at]
  <2>2. f \in Surjection(copies, stamps)
    BY DEF Surjection
  <2>3. IsFiniteSet(stamps)
    BY <2>1, <2>2, FS_Surjection
  <2> QED
    BY <2>3 DEF Typed, TickRow
<1>2. newest \in stamps /\ \A at \in stamps : newest >= at
  <2> HIDE DEF stamps
  <2>1. \E x \in stamps : \A y \in stamps : x >= y
    BY <1>1, GreatestInteger
  <2> QED
    BY <2>1 DEF Max
<1>3. Marker(copies) = (IF newest = -1 THEN now ELSE newest) + 1
  BY DEF Marker, NoStamp, Microsecond
<1>4. newest \in Nat \cup {-1} /\ \A row \in copies : row.at \in Nat \cup {-1} /\ row.at <= newest
  BY <1>1, <1>2
<1> HIDE DEF newest
<1> QED
  BY <1>3, <1>4 DEF Typed

-----------------------------------------------------------------------------
\* The steps

\* A step that leaves the rows alone and after which the worker neither appends
\* nor replaces copies.
LEMMA QuietStep ==
    ASSUME IInv, NEW w \in Workers, NEW c \in TickCall, c.at \notin {"append", "add", "delete"},
           call' = [call EXCEPT ![w] = c], UNCHANGED <<rows, emptied, blind>>,
           job' \in BOOLEAN, now' \in Nat
    PROVE  IInv'
<1>1. /\ call \in [Workers -> TickCall] /\ call' \in [Workers -> TickCall]
      /\ call'[w] = c /\ \A u \in Workers \ {w} : call'[u] = call[u]
  BY DEF IInv, Typed
<1>2. Typed'
  BY <1>1 DEF IInv, Typed, TickRow
<1>3. OwnStamps'
  <2> SUFFICES ASSUME NEW row \in rows, row.by # "earlier",
                      call'[row.by].at \in {"append", "add"}, row.tick \in call'[row.by].todo
               PROVE  call'[row.by].at = "add" /\ row.at < call'[row.by].marker
    BY DEF OwnStamps
  <2>1. row.by \in Workers
    BY DEF IInv, Typed, TickRow
  <2> QED
    BY <1>1, <2>1 DEF IInv, OwnStamps
<1>4. \A u \in Workers : Replacing(u)' => Replacing(u) /\ call'[u] = call[u]
  BY <1>1 DEF Replacing
<1>5. Appending' => Appending
  BY <1>1 DEF Appending
<1>6. KeepsOne'
  BY <1>4 DEF IInv, KeepsOne
<1>7. KeepsFresh'
  BY <1>4, <1>5 DEF IInv, KeepsFresh, HasFresh, FreshFrom
<1> QED
  BY <1>2, <1>3, <1>6, <1>7 DEF IInv

\* The alignment is emptied.
LEMMA EmptyStep ==
    ASSUME IInv, NEW w \in Workers, NEW c \in TickCall, c.at \notin {"add", "delete"},
           call' = [call EXCEPT ![w] = c], EmptyAlignment, job' \in BOOLEAN, now' \in Nat,
           ~Replacing(w)
    PROVE  IInv'
<1>1. /\ call \in [Workers -> TickCall] /\ call' \in [Workers -> TickCall]
      /\ call'[w] = c /\ \A u \in Workers \ {w} : call'[u] = call[u]
  BY DEF IInv, Typed
<1>2. /\ rows' = {} /\ emptied' \in BOOLEAN /\ blind' = emptied'
      /\ emptied' <=> \E u \in Workers : Replacing(u)
  BY DEF EmptyAlignment
<1>3. Typed'
  <2>1. IsFiniteSet({})
    BY FS_EmptySet
  <2> QED
    BY <1>1, <1>2, <2>1 DEF Typed
<1>4. OwnStamps'
  BY <1>2 DEF OwnStamps
<1>5. ~emptied' => \A u \in Workers : ~Replacing(u)'
  BY <1>1, <1>2 DEF Replacing
<1>6. KeepsOne' /\ KeepsFresh'
  BY <1>2, <1>5 DEF KeepsOne, KeepsFresh
<1> QED
  BY <1>3, <1>4, <1>6 DEF IInv

LEMMA AppendForm ==
    ASSUME IInv, NEW w \in Workers, Append(w)
    PROVE  \E tick \in call[w].todo, c \in TickCall :
               /\ rows' = rows \cup {Row(tick, TRUE, call[w].stamp, w)}
               /\ call' = [call EXCEPT ![w] = c]
               /\ c.at \in {"append", "job"}
               /\ c.at = "append" => c.todo = call[w].todo \ {tick}
<1> DEFINE tick == Min(call[w].todo)
           rest == call[w].todo \ {tick}
           c == IF rest = {} THEN [at |-> "job"] ELSE [call[w] EXCEPT !.todo = rest]
<1>1. call[w] \in TickCall /\ call[w].at = "append"
  BY DEF IInv, Typed, Append
<1>2. call[w].todo \subseteq Ticks /\ call[w].todo # {}
  BY <1>1, TickFields
<1>3. tick \in call[w].todo
  BY <1>2, FirstTick
<1>4. rows' = rows \cup {Row(tick, TRUE, call[w].stamp, w)} /\ call' = [call EXCEPT ![w] = c]
  BY DEF Append, Goto
<1>5. c \in TickCall /\ c.at \in {"append", "job"} /\ (c.at = "append" => c.todo = rest)
  <2>1. CASE rest = {}
    BY <2>1 DEF TickCall
  <2>2. CASE rest # {}
    BY <1>1, <1>2, <2>2, AppendLeft
  <2> QED
    BY <2>1, <2>2
<1> HIDE DEF c, tick
<1> QED
  BY <1>3, <1>4, <1>5

LEMMA AppendStep ==
    ASSUME IInv, NEW w \in Workers, Append(w)
    PROVE  IInv'
<1>1. PICK tick \in call[w].todo, c \in TickCall :
          /\ rows' = rows \cup {Row(tick, TRUE, call[w].stamp, w)}
          /\ call' = [call EXCEPT ![w] = c]
          /\ c.at \in {"append", "job"}
          /\ c.at = "append" => c.todo = call[w].todo \ {tick}
  BY AppendForm
<1> DEFINE new == Row(tick, TRUE, call[w].stamp, w)
<1>2. UNCHANGED <<job, now, emptied, blind>> /\ call[w].at = "append"
  BY DEF Append, history
<1>3. /\ call \in [Workers -> TickCall] /\ call' \in [Workers -> TickCall]
      /\ call'[w] = c /\ \A u \in Workers \ {w} : call'[u] = call[u]
  BY <1>1 DEF IInv, Typed
<1>4. new \in TickRow /\ new.tick = tick /\ new.fresh = TRUE /\ new.by = w
  <2>1. tick \in Ticks /\ call[w].stamp \in Nat
    BY <1>1, <1>2, <1>3, TickFields
  <2> QED
    BY <2>1 DEF Row, TickRow
<1> HIDE DEF new
<1>5. rows' = rows \cup {new}
  BY <1>1 DEF new
<1>6. Typed'
  <2>1. IsFiniteSet(rows')
    BY <1>5, FS_AddElement DEF IInv, Typed
  <2>2. rows' \subseteq TickRow
    BY <1>4, <1>5 DEF IInv, Typed
  <2> QED
    BY <1>2, <1>3, <2>1, <2>2 DEF IInv, Typed, TickRow
<1>7. OwnStamps'
  <2> SUFFICES ASSUME NEW row \in rows', row.by # "earlier",
                      call'[row.by].at \in {"append", "add"}, row.tick \in call'[row.by].todo
               PROVE  call'[row.by].at = "add" /\ row.at < call'[row.by].marker
    BY DEF OwnStamps
  <2>1. row.by \in Workers
    BY <1>4, <1>5 DEF IInv, Typed, TickRow
  <2>2. CASE row.by # w
    BY <1>3, <1>4, <1>5, <2>1, <2>2 DEF IInv, OwnStamps
  <2>3. CASE row.by = w
    <3>1. c.at = "append" /\ row.tick \in call[w].todo \ {tick}
      BY <1>1, <1>3, <2>3
    <3>2. row \in rows
      BY <1>4, <1>5, <3>1
    <3> QED
      BY <1>2, <2>3, <3>1, <3>2 DEF IInv, OwnStamps
  <2> QED
    BY <2>2, <2>3
<1>8. \A u \in Workers : Replacing(u)' => Replacing(u) /\ call'[u] = call[u]
  BY <1>1, <1>3 DEF Replacing
<1>9. KeepsOne'
  BY <1>2, <1>5, <1>8 DEF IInv, KeepsOne
<1>10. KeepsFresh'
  <2> SUFFICES ASSUME ~blind PROVE KeepsFresh'
    BY <1>2 DEF KeepsFresh
  <2>1. Appending
    BY <1>2 DEF Appending
  <2>2. \A row \in rows' : row.fresh
    BY <1>4, <1>5, <2>1 DEF IInv, KeepsFresh
  <2>3. ASSUME NEW u \in Workers, Replacing(u)', NEW t \in call'[u].ids
        PROVE  /\ call'[u].fresh[t] /\ HasFresh(t)'
               /\ t \notin call'[u].todo => FreshFrom(t, call[u].marker)'
    <3>1. Replacing(u) /\ call'[u] = call[u]
      BY <1>8, <2>3
    <3>2. /\ call[u].fresh[t] /\ HasFresh(t)
          /\ t \notin call[u].todo => FreshFrom(t, call[u].marker)
      BY <2>1, <2>3, <3>1 DEF IInv, KeepsFresh
    <3> QED
      BY <1>5, <3>1, <3>2 DEF HasFresh, FreshFrom
  <2>4. \A u \in Workers : Replacing(u)' => call'[u].marker = call[u].marker
    BY <1>8
  <2> QED
    BY <2>2, <2>3, <2>4 DEF KeepsFresh, FreshFrom
<1> QED
  BY <1>6, <1>7, <1>9, <1>10 DEF IInv

\* The rows to keep are chosen.
LEMMA ChooseStep ==
    ASSUME IInv, NEW w \in Workers, NEW keep \in [Duplicated -> rows], Duplicated # {},
           call[w].at = "scan",
           \A tick \in Duplicated : keep[tick] \in Canonical(tick, call[w].job),
           NEW c, c = [at |-> "add", ids |-> Duplicated, todo |-> Duplicated,
                       fresh |-> [tick \in Duplicated |-> keep[tick].fresh],
                       marker |-> Marker({row \in rows : row.tick \in Duplicated})],
           call' = [call EXCEPT ![w] = c], Choose(w), UNCHANGED <<rows, job, now>>
    PROVE  IInv'
<1> DEFINE D == Duplicated
           copies == {row \in rows : row.tick \in D}
<1>1. D \subseteq Ticks /\ D # {}
  BY DEF Duplicated
<1>2. \A tick \in D : keep[tick] \in rows /\ keep[tick].tick = tick
  BY DEF Canonical, RowsOf
<1> DEFINE marker == Marker(copies)
           fresh == [tick \in D |-> keep[tick].fresh]
<1>3. c.at = "add" /\ c.ids = D /\ c.todo = D /\ c.fresh = fresh /\ c.marker = marker
  OBVIOUS
<1>4. c = [at |-> "add", ids |-> D, todo |-> D, fresh |-> fresh, marker |-> marker]
  OBVIOUS
<1> HIDE DEF D
<1>5. marker \in Nat /\ \A row \in copies : row.at < marker
  <2>1. copies \in SUBSET rows /\ copies # {}
    BY <1>1, <1>2
  <2> HIDE DEF copies
  <2> QED
    BY <2>1, MarkerIsLater DEF IInv
<1>6. fresh \in [D -> BOOLEAN]
  BY <1>2 DEF IInv, Typed, TickRow
<1> HIDE DEF fresh, marker
<1>7. c \in TickCall
  BY <1>1, <1>4, <1>5, <1>6 DEF TickCall, ReplaceCall
<1>8. /\ call \in [Workers -> TickCall] /\ call' \in [Workers -> TickCall]
      /\ call'[w] = c /\ \A u \in Workers \ {w} : call'[u] = call[u]
  BY <1>7 DEF IInv, Typed
<1> DEFINE first == \A u \in Workers : ~Replacing(u)
<1>9. /\ emptied' = (emptied /\ ~first)
      /\ blind' = ((blind /\ ~(first /\ ~Appending)) \/ ~call[w].job)
  BY DEF Choose
<1>10. call[w].job \in BOOLEAN
  BY <1>8, TickFields
<1>11. Typed'
  <2>1. emptied' \in BOOLEAN /\ blind' \in BOOLEAN
    BY <1>9
  <2> QED
    BY <1>8, <2>1 DEF IInv, Typed, TickRow
<1>12. OwnStamps'
  <2> SUFFICES ASSUME NEW row \in rows, row.by # "earlier",
                      call'[row.by].at \in {"append", "add"}, row.tick \in call'[row.by].todo
               PROVE  call'[row.by].at = "add" /\ row.at < call'[row.by].marker
    BY DEF OwnStamps
  <2>1. row.by \in Workers
    BY DEF IInv, Typed, TickRow
  <2>2. CASE row.by # w
    BY <1>8, <2>1, <2>2 DEF IInv, OwnStamps
  <2>3. CASE row.by = w
    BY <1>3, <1>5, <1>8, <2>3
  <2> QED
    BY <2>2, <2>3
<1>13. \A u \in Workers \ {w} : Replacing(u)' => Replacing(u) /\ call'[u] = call[u]
  BY <1>8 DEF Replacing
<1>14. KeepsOne'
  <2> SUFFICES ASSUME ~emptied', NEW u \in Workers, Replacing(u)', NEW tick \in call'[u].ids \ call'[u].todo
               PROVE  \E row \in rows : row.tick = tick /\ row.at >= call'[u].marker
    BY DEF KeepsOne
  <2>1. u # w
    BY <1>3, <1>8
  <2>2. Replacing(u) /\ call'[u] = call[u]
    BY <1>13, <2>1
  <2>3. ~emptied
    BY <1>9, <2>2
  <2> QED
    BY <2>2, <2>3 DEF IInv, KeepsOne
<1>15. KeepsFresh'
  <2> SUFFICES ASSUME ~blind' PROVE KeepsFresh'
    BY DEF KeepsFresh
  <2>1. call[w].job /\ (~blind \/ (first /\ ~Appending))
    BY <1>9, <1>10
  <2>2. \A tick \in D : c.fresh[tick] <=> HasFresh(tick)
    <3> SUFFICES ASSUME NEW tick \in D PROVE keep[tick].fresh <=> HasFresh(tick)
      BY <1>3 DEF fresh
    <3>1. keep[tick] \in Canonical(tick, call[w].job) /\ keep[tick] \in rows /\ keep[tick].tick = tick
      BY <1>2 DEF D
    <3>2. ASSUME NEW row \in rows, row.tick = tick, row.fresh PROVE keep[tick].fresh
      <4>1. Better(keep[tick], row, call[w].job)
        BY <3>1, <3>2 DEF Canonical, RowsOf
      <4>2. keep[tick].fresh \in BOOLEAN /\ row.fresh \in BOOLEAN
        BY <3>1 DEF IInv, Typed, TickRow
      <4> QED
        BY <2>1, <3>2, <4>1, <4>2 DEF Better
    <3> QED
      BY <3>1, <3>2 DEF HasFresh
  <2>3. ASSUME NEW u \in Workers, Replacing(u)', NEW tick \in call'[u].ids
        PROVE  /\ call'[u].fresh[tick] <=> HasFresh(tick)
               /\ tick \notin call'[u].todo /\ call'[u].fresh[tick] => FreshFrom(tick, call'[u].marker)
    <3>1. CASE u = w
      BY <1>3, <1>8, <2>2, <2>3, <3>1
    <3>2. CASE u # w
      <4>1. Replacing(u) /\ call'[u] = call[u]
        BY <1>13, <2>3, <3>2
      <4>2. ~blind
        BY <2>1, <4>1
      <4> QED
        BY <2>3, <4>1, <4>2 DEF IInv, KeepsFresh
    <3> QED
      BY <3>1, <3>2
  <2>4. ASSUME Appending'
        PROVE  /\ \A row \in rows : row.fresh
               /\ \A u \in Workers : Replacing(u)' => \A tick \in call'[u].ids : call'[u].fresh[tick]
    <3>1. Appending
      BY <1>3, <1>8, <2>4 DEF Appending
    <3>2. ~blind
      BY <2>1, <3>1
    <3>3. /\ \A row \in rows : row.fresh
          /\ \A u \in Workers : Replacing(u) => \A tick \in call[u].ids : call[u].fresh[tick]
      BY <3>1, <3>2 DEF IInv, KeepsFresh
    <3>4. \A tick \in D : c.fresh[tick]
      BY <1>2, <1>3, <3>3 DEF fresh
    <3>5. ASSUME NEW u \in Workers, Replacing(u)', NEW tick \in call'[u].ids PROVE call'[u].fresh[tick]
      <4>1. CASE u = w
        BY <1>3, <1>8, <3>4, <3>5, <4>1
      <4>2. CASE u # w
        BY <1>13, <3>3, <3>5, <4>2
      <4> QED
        BY <4>1, <4>2
    <3> QED
      BY <3>3, <3>5
  <2>5. ASSUME NEW u \in Workers, Replacing(u)', NEW tick \in call'[u].ids
        PROVE  /\ call'[u].fresh[tick] <=> HasFresh(tick)'
               /\ tick \notin call'[u].todo /\ call'[u].fresh[tick] => FreshFrom(tick, call[u].marker)'
    BY <2>3, <2>5 DEF HasFresh, FreshFrom
  <2>6. Appending' => /\ \A row \in rows' : row.fresh
                           /\ \A u \in Workers : Replacing(u)' => \A tick \in call'[u].ids : call'[u].fresh[tick]
    BY <2>4
  <2> HIDE DEF first
  <2> QED
    BY <2>5, <2>6 DEF KeepsFresh
<1> QED
  BY <1>11, <1>12, <1>14, <1>15 DEF IInv

\* A chosen row is added.
LEMMA AddForm ==
    ASSUME IInv, NEW w \in Workers, AddCanonical(w)
    PROVE  \E tick \in call[w].todo, c \in TickCall :
               /\ rows' = rows \cup {Row(tick, call[w].fresh[tick], call[w].marker, w)}
               /\ call' = [call EXCEPT ![w] = c]
               /\ c.at \in {"add", "delete"} /\ c.todo = call[w].todo \ {tick}
               /\ c.ids = call[w].ids /\ c.fresh = call[w].fresh /\ c.marker = call[w].marker
<1> DEFINE tick == Min(call[w].todo)
           rest == call[w].todo \ {tick}
           c == IF rest = {} THEN [call[w] EXCEPT !.at = "delete", !.todo = {}]
                             ELSE [call[w] EXCEPT !.todo = rest]
<1>1. call[w] \in TickCall /\ call[w].at = "add"
  BY DEF IInv, Typed, AddCanonical
<1>2. call[w].todo \subseteq Ticks /\ call[w].todo # {}
  BY <1>1, TickFields
<1>3. tick \in call[w].todo
  BY <1>2, FirstTick
<1>4. /\ rows' = rows \cup {Row(tick, call[w].fresh[tick], call[w].marker, w)}
      /\ call' = [call EXCEPT ![w] = c]
  BY DEF AddCanonical, Goto
<1>5. /\ c \in TickCall /\ c.at \in {"add", "delete"} /\ c.todo = rest
      /\ c.ids = call[w].ids /\ c.fresh = call[w].fresh /\ c.marker = call[w].marker
  <2> HIDE DEF tick
  <2>1. rest \in SUBSET call[w].todo
    OBVIOUS
  <2> HIDE DEF rest
  <2> QED
    BY <1>1, <2>1, AddLeft
<1> HIDE DEF c, tick
<1> QED
  BY <1>3, <1>4, <1>5

LEMMA AddStep ==
    ASSUME IInv, NEW w \in Workers, AddCanonical(w)
    PROVE  IInv'
<1>1. PICK tick \in call[w].todo, c \in TickCall :
          /\ rows' = rows \cup {Row(tick, call[w].fresh[tick], call[w].marker, w)}
          /\ call' = [call EXCEPT ![w] = c]
          /\ c.at \in {"add", "delete"} /\ c.todo = call[w].todo \ {tick}
          /\ c.ids = call[w].ids /\ c.fresh = call[w].fresh /\ c.marker = call[w].marker
  BY AddForm
<1> DEFINE new == Row(tick, call[w].fresh[tick], call[w].marker, w)
<1>2. UNCHANGED <<job, now, emptied, blind>> /\ call[w].at = "add"
  BY DEF AddCanonical, history
<1>3. /\ call \in [Workers -> TickCall] /\ call' \in [Workers -> TickCall]
      /\ call'[w] = c /\ \A u \in Workers \ {w} : call'[u] = call[u]
  BY <1>1 DEF IInv, Typed
<1>4. /\ call[w].todo \subseteq call[w].ids /\ call[w].ids \subseteq Ticks
      /\ call[w].fresh \in [call[w].ids -> BOOLEAN] /\ call[w].marker \in Nat
  BY <1>2, <1>3, TickFields
<1>5. /\ new \in TickRow /\ new.tick = tick /\ new.fresh = call[w].fresh[tick] /\ new.by = w
      /\ new.at = call[w].marker /\ tick \in call[w].ids
  BY <1>1, <1>4 DEF Row, TickRow
<1> HIDE DEF new
<1>6. rows' = rows \cup {new}
  BY <1>1 DEF new
<1>7. Typed'
  <2>1. IsFiniteSet(rows')
    BY <1>6, FS_AddElement DEF IInv, Typed
  <2>2. rows' \subseteq TickRow
    BY <1>5, <1>6 DEF IInv, Typed
  <2> QED
    BY <1>2, <1>3, <2>1, <2>2 DEF IInv, Typed, TickRow
<1>8. OwnStamps'
  <2> SUFFICES ASSUME NEW row \in rows', row.by # "earlier",
                      call'[row.by].at \in {"append", "add"}, row.tick \in call'[row.by].todo
               PROVE  call'[row.by].at = "add" /\ row.at < call'[row.by].marker
    BY DEF OwnStamps
  <2>1. row.by \in Workers
    BY <1>5, <1>6 DEF IInv, Typed, TickRow
  <2>2. CASE row.by # w
    BY <1>3, <1>5, <1>6, <2>1, <2>2 DEF IInv, OwnStamps
  <2>3. CASE row.by = w
    <3>1. c.at = "add" /\ row.tick \in call[w].todo \ {tick}
      BY <1>1, <1>3, <2>3
    <3>2. row \in rows
      BY <1>5, <1>6, <3>1
    <3> QED
      BY <1>1, <1>2, <1>3, <2>3, <3>1, <3>2 DEF IInv, OwnStamps
  <2> QED
    BY <2>2, <2>3
<1>9. /\ Replacing(w)
      /\ \A u \in Workers : Replacing(u)' =>
            /\ Replacing(u) /\ call'[u].ids = call[u].ids /\ call'[u].fresh = call[u].fresh
            /\ call'[u].marker = call[u].marker
            /\ u # w => call'[u] = call[u]
  BY <1>1, <1>2, <1>3 DEF Replacing
<1>10. KeepsOne'
  <2> SUFFICES ASSUME ~emptied, NEW u \in Workers, Replacing(u)', NEW t \in call'[u].ids \ call'[u].todo
               PROVE  \E row \in rows' : row.tick = t /\ row.at >= call'[u].marker
    BY <1>2 DEF KeepsOne
  <2>1. CASE u = w /\ t = tick
    BY <1>1, <1>3, <1>4, <1>5, <1>6, <2>1
  <2>2. CASE ~(u = w /\ t = tick)
    <3>1. t \in call[u].ids \ call[u].todo
      BY <1>1, <1>3, <1>9, <2>2
    <3>2. \E row \in rows : row.tick = t /\ row.at >= call[u].marker
      BY <1>9, <3>1 DEF IInv, KeepsOne
    <3> QED
      BY <1>6, <1>9, <3>2
  <2> QED
    BY <2>1, <2>2
<1>11. KeepsFresh'
  <2> SUFFICES ASSUME ~blind PROVE KeepsFresh'
    BY <1>2 DEF KeepsFresh
  <2>1. call[w].fresh[tick] <=> HasFresh(tick)
    BY <1>5, <1>9 DEF IInv, KeepsFresh
  <2>2. \A t : HasFresh(t)' <=> HasFresh(t)
    <3>1. new.fresh => HasFresh(new.tick)
      BY <1>5, <2>1
    <3> QED
      BY <1>6, <3>1 DEF HasFresh
  <2>3. \A t, m : FreshFrom(t, m) => FreshFrom(t, m)'
    BY <1>6 DEF FreshFrom
  <2>4. ASSUME NEW u \in Workers, Replacing(u)', NEW t \in call'[u].ids
        PROVE  /\ call'[u].fresh[t] <=> HasFresh(t)'
               /\ t \notin call'[u].todo /\ call'[u].fresh[t] => FreshFrom(t, call[u].marker)'
    <3>1. /\ Replacing(u) /\ t \in call[u].ids /\ call'[u].fresh[t] = call[u].fresh[t]
          /\ call'[u].marker = call[u].marker
      BY <1>9, <2>4
    <3>2. /\ call[u].fresh[t] <=> HasFresh(t)
          /\ t \notin call[u].todo /\ call[u].fresh[t] => FreshFrom(t, call[u].marker)
      BY <3>1 DEF IInv, KeepsFresh
    <3>3. ASSUME t \notin call'[u].todo, call'[u].fresh[t] PROVE FreshFrom(t, call[u].marker)'
      <4>1. CASE u = w /\ t = tick
        <5>1. new \in rows' /\ new.tick = t /\ new.fresh /\ new.at = call'[u].marker /\ new.at \in Nat
          BY <1>4, <1>5, <1>6, <3>1, <3>3, <4>1
        <5> QED
          BY <5>1 DEF FreshFrom
      <4>2. CASE ~(u = w /\ t = tick)
        <5>1. t \notin call[u].todo
          BY <1>1, <1>3, <1>9, <2>4, <3>3, <4>2
        <5>2. FreshFrom(t, call[u].marker)
          BY <3>1, <3>2, <3>3, <5>1
        <5> QED
          BY <1>6, <3>1, <5>2 DEF FreshFrom
      <4> QED
        BY <4>1, <4>2
    <3> QED
      BY <2>2, <3>1, <3>2, <3>3
  <2>5. ASSUME Appending'
        PROVE  /\ \A row \in rows' : row.fresh
               /\ \A u \in Workers : Replacing(u)' => \A t \in call'[u].ids : call'[u].fresh[t]
    <3>1. Appending
      BY <1>1, <1>3, <2>5 DEF Appending
    <3>2. /\ \A row \in rows : row.fresh
          /\ \A u \in Workers : Replacing(u) => \A t \in call[u].ids : call[u].fresh[t]
      BY <3>1 DEF IInv, KeepsFresh
    <3>3. new.fresh
      BY <1>5, <1>9, <3>2
    <3> QED
      BY <1>6, <1>9, <3>2, <3>3
  <2> QED
    BY <2>4, <2>5 DEF KeepsFresh
<1> QED
  BY <1>7, <1>8, <1>10, <1>11 DEF IInv

\* The older copies are deleted.
LEMMA DeleteKeeps ==
    ASSUME IInv, NEW w \in Workers, DeleteOlder(w)
    PROVE  /\ ~emptied => \A tick \in call[w].ids :
                \E row \in rows' : row.tick = tick /\ row.at >= call[w].marker
           /\ ~blind => \A tick \in call[w].ids :
                HasFresh(tick) => \E row \in rows' : row.tick = tick /\ row.fresh /\ row.at >= call[w].marker
<1>1. call[w] \in TickCall /\ call[w].at = "delete"
  BY DEF IInv, Typed, DeleteOlder
<1>2. call[w].todo = {} /\ Replacing(w)
  BY <1>1, TickFields DEF Replacing
<1>3. rows' = {row \in rows : row.tick \notin call[w].ids \/ row.at >= call[w].marker}
  BY DEF DeleteOlder
<1>4. ASSUME ~emptied, NEW tick \in call[w].ids
      PROVE  \E row \in rows' : row.tick = tick /\ row.at >= call[w].marker
  <2>1. \E row \in rows : row.tick = tick /\ row.at >= call[w].marker
    BY <1>2, <1>4 DEF IInv, KeepsOne
  <2> QED
    BY <1>3, <2>1
<1>5. ASSUME ~blind, NEW tick \in call[w].ids, HasFresh(tick)
      PROVE  \E row \in rows' : row.tick = tick /\ row.fresh /\ row.at >= call[w].marker
  <2>1. FreshFrom(tick, call[w].marker)
    BY <1>2, <1>5 DEF IInv, KeepsFresh
  <2> QED
    BY <1>3, <2>1 DEF FreshFrom
<1> QED
  BY <1>4, <1>5

LEMMA DeleteStep ==
    ASSUME IInv, NEW w \in Workers, DeleteOlder(w)
    PROVE  IInv'
<1>1. /\ rows' = {row \in rows : row.tick \notin call[w].ids \/ row.at >= call[w].marker}
      /\ UNCHANGED <<job, now, emptied, blind>>
      /\ call' = [call EXCEPT ![w] = [at |-> "idle"]]
  BY DEF DeleteOlder, Return, Goto, Idle, history
<1>2. /\ call \in [Workers -> TickCall] /\ call' \in [Workers -> TickCall]
      /\ call'[w].at = "idle" /\ \A u \in Workers \ {w} : call'[u] = call[u]
  <2>1. [at |-> "idle"] \in TickCall
    BY DEF TickCall
  <2> QED
    BY <1>1, <2>1 DEF IInv, Typed
<1>3. call[w].marker \in Nat
  BY <1>2, TickFields DEF DeleteOlder
<1>4. Typed'
  <2>1. rows' \subseteq rows
    BY <1>1
  <2>2. IsFiniteSet(rows')
    BY <2>1, FS_Subset DEF IInv, Typed
  <2> QED
    BY <1>1, <1>2, <2>1, <2>2 DEF IInv, Typed, TickRow
<1>5. OwnStamps'
  <2> SUFFICES ASSUME NEW row \in rows, row.by # "earlier",
                      call'[row.by].at \in {"append", "add"}, row.tick \in call'[row.by].todo
               PROVE  call'[row.by].at = "add" /\ row.at < call'[row.by].marker
    BY <1>1 DEF OwnStamps
  <2>1. row.by \in Workers
    BY DEF IInv, Typed, TickRow
  <2> QED
    BY <1>2, <2>1 DEF IInv, OwnStamps
<1>6. \A u \in Workers : Replacing(u)' => Replacing(u) /\ call'[u] = call[u] /\ call[u].marker \in Nat
  BY <1>2, TickFields DEF Replacing
<1>7. \A row \in rows : row.at \in Nat \cup {-1}
  BY DEF IInv, Typed, TickRow
<1>8. KeepsOne'
  <2> SUFFICES ASSUME ~emptied, NEW u \in Workers, Replacing(u)', NEW t \in call'[u].ids \ call'[u].todo
               PROVE  \E row \in rows' : row.tick = t /\ row.at >= call'[u].marker
    BY <1>1 DEF KeepsOne
  <2>1. Replacing(u) /\ call'[u] = call[u]
    BY <1>6
  <2>2. PICK row \in rows : row.tick = t /\ row.at >= call[u].marker
    BY <2>1 DEF IInv, KeepsOne
  <2>3. CASE row \in rows'
    BY <2>1, <2>2, <2>3
  <2>4. CASE row \notin rows'
    <3>1. t \in call[w].ids /\ ~(row.at >= call[w].marker)
      BY <1>1, <2>2, <2>4
    <3>2. PICK other \in rows' : other.tick = t /\ other.at >= call[w].marker
      BY <3>1, DeleteKeeps
    <3>3. other \in rows
      BY <1>1
    <3>4. other.at >= call[u].marker
      BY <1>3, <1>6, <1>7, <2>2, <3>1, <3>2, <3>3
    <3> QED
      BY <2>1, <3>2, <3>4
  <2> QED
    BY <2>3, <2>4
<1>9. KeepsFresh'
  <2> SUFFICES ASSUME ~blind PROVE KeepsFresh'
    BY <1>1 DEF KeepsFresh
  <2>1. ASSUME NEW t PROVE HasFresh(t)' <=> HasFresh(t)
    <3>1. HasFresh(t)' => HasFresh(t)
      BY <1>1 DEF HasFresh
    <3>2. ASSUME HasFresh(t) PROVE HasFresh(t)'
      <4>1. CASE t \in call[w].ids
        BY <3>2, <4>1, DeleteKeeps DEF HasFresh
      <4>2. CASE t \notin call[w].ids
        BY <1>1, <3>2, <4>2 DEF HasFresh
      <4> QED
        BY <4>1, <4>2
    <3> QED
      BY <3>1, <3>2
  <2>2. ASSUME NEW u \in Workers, Replacing(u)', NEW t \in call'[u].ids
        PROVE  /\ call'[u].fresh[t] <=> HasFresh(t)'
               /\ t \notin call'[u].todo /\ call'[u].fresh[t] => FreshFrom(t, call[u].marker)'
    <3>1. Replacing(u) /\ call'[u] = call[u]
      BY <1>6, <2>2
    <3>2. /\ call[u].fresh[t] <=> HasFresh(t)
          /\ t \notin call[u].todo /\ call[u].fresh[t] => FreshFrom(t, call[u].marker)
      BY <2>2, <3>1 DEF IInv, KeepsFresh
    <3>3. ASSUME t \notin call[u].todo, call[u].fresh[t]
          PROVE  \E row \in rows' : row.tick = t /\ row.fresh /\ row.at >= call[u].marker
      <4>1. PICK row \in rows : row.tick = t /\ row.fresh /\ row.at >= call[u].marker
        BY <3>2, <3>3 DEF FreshFrom
      <4>2. CASE row \in rows'
        BY <4>1, <4>2
      <4>3. CASE row \notin rows'
        <5>1. t \in call[w].ids /\ ~(row.at >= call[w].marker) /\ HasFresh(t)
          BY <1>1, <4>1, <4>3 DEF HasFresh
        <5>2. PICK other \in rows' : other.tick = t /\ other.fresh /\ other.at >= call[w].marker
          BY <5>1, DeleteKeeps
        <5>3. other \in rows
          BY <1>1
        <5>4. other.at >= call[u].marker
          BY <1>3, <1>6, <1>7, <2>2, <4>1, <5>1, <5>2, <5>3
        <5> QED
          BY <5>2, <5>4
      <4> QED
        BY <4>2, <4>3
    <3> QED
      BY <2>1, <3>1, <3>2, <3>3 DEF FreshFrom
  <2>3. Appending' => Appending
    BY <1>2 DEF Appending
  <2>4. Appending' =>
           /\ \A row \in rows' : row.fresh
           /\ \A u \in Workers : Replacing(u)' => \A t \in call'[u].ids : call'[u].fresh[t]
    BY <1>1, <1>6, <2>3 DEF IInv, KeepsFresh
  <2> QED
    BY <2>2, <2>4 DEF KeepsFresh
<1> QED
  BY <1>4, <1>5, <1>8, <1>9 DEF IInv

-----------------------------------------------------------------------------
\* The copies that earlier alignments can have left are finitely many.
EarlierRow == [tick : Ticks, fresh : BOOLEAN, at : {-1, 10}, by : {"earlier"}]

LEMMA EarlierCopies == IsFiniteSet(EarlierRow)
<1> DEFINE Copy(fresh, at) == {row \in EarlierRow : row.fresh = fresh /\ row.at = at}
<1>1. ASSUME NEW fresh \in BOOLEAN, NEW at \in {-1, 10} PROVE IsFiniteSet(Copy(fresh, at))
  <2> DEFINE S == Copy(fresh, at)
             f == [tick \in Ticks |-> [tick |-> tick, fresh |-> fresh, at |-> at, by |-> "earlier"]]
  <2>1. \A tick \in Ticks : f[tick] \in S
    BY DEF EarlierRow
  <2>2. \A row \in S : row.tick \in Ticks /\ f[row.tick] = row
    BY DEF EarlierRow
  <2>3. f = [tick \in Ticks |-> f[tick]]
    OBVIOUS
  <2> HIDE DEF f, S
  <2>4. f \in Surjection(Ticks, S)
    BY <2>1, <2>2, <2>3 DEF Surjection
  <2>5. IsFiniteSet(S)
    BY <2>4, TicksFinite, FS_Surjection
  <2> QED
    BY <2>5 DEF S
<1>2. EarlierRow = Copy(TRUE, -1) \cup Copy(TRUE, 10) \cup Copy(FALSE, -1) \cup Copy(FALSE, 10)
  BY DEF EarlierRow
<1>3. /\ IsFiniteSet(Copy(TRUE, -1)) /\ IsFiniteSet(Copy(TRUE, 10))
      /\ IsFiniteSet(Copy(FALSE, -1)) /\ IsFiniteSet(Copy(FALSE, 10))
  BY <1>1
<1> HIDE DEF Copy
<1> QED
  BY <1>2, <1>3, FS_Union

LEMMA Initially == Init => IInv
<1> SUFFICES ASSUME Init PROVE IInv
  OBVIOUS
<1>1. rows \subseteq EarlierRow
  BY DEF Init, NoStamp, Second, EarlierRow
<1>2. /\ job \in BOOLEAN /\ emptied = FALSE /\ blind = FALSE /\ now = 10
      /\ call = [w \in Workers |-> [at |-> "idle"]]
  BY DEF Init, Second, Idle
<1>3. \A row \in rows : row \in TickRow /\ row.by = "earlier"
  BY <1>1 DEF EarlierRow, TickRow
<1>4. IsFiniteSet(rows)
  BY <1>1, EarlierCopies, FS_Subset
<1>5. Typed
  BY <1>2, <1>3, <1>4 DEF Typed, TickCall
<1>6. OwnStamps
  BY <1>3 DEF OwnStamps
<1>7. KeepsOne /\ KeepsFresh
  BY <1>2 DEF KeepsOne, KeepsFresh, Replacing, Appending
<1> QED
  BY <1>5, <1>6, <1>7 DEF IInv

LEMMA Inductive == IInv /\ [Next]_vars => IInv'
<1> SUFFICES ASSUME IInv, [Next]_vars PROVE IInv'
  OBVIOUS
<1>1. call \in [Workers -> TickCall] /\ job \in BOOLEAN /\ now \in Nat
  BY DEF IInv, Typed
<1>2. ASSUME NEW w \in Workers, Align(w) PROVE IInv'
  <2> DEFINE c == [at |-> "append", todo |-> Ticks, stamp |-> now']
  <2>1. /\ call' = [call EXCEPT ![w] = c] /\ EmptyAlignment /\ UNCHANGED job /\ now' = now + 10
        /\ call[w].at = "idle"
    BY <1>2 DEF Align, Goto, Idle, Second
  <2>2. now' \in Nat
    BY <1>1, <2>1
  <2>3. c \in TickCall /\ c.at = "append"
    <3>1. c \in AppendCall
      BY <2>2, TicksFinite DEF AppendCall
    <3> QED
      BY <3>1 DEF TickCall
  <2> HIDE DEF c
  <2> QED
    BY <1>1, <2>1, <2>2, <2>3, EmptyStep DEF Replacing
<1>3. ASSUME NEW w \in Workers, RemoveOrphan(w) PROVE IInv'
  <2> DEFINE c == [at |-> "idle"]
  <2>1. /\ call' = [call EXCEPT ![w] = c] /\ EmptyAlignment /\ UNCHANGED <<job, now>>
        /\ call[w].at = "orphan"
    BY <1>3 DEF RemoveOrphan, Return, Goto, Idle
  <2>2. c \in TickCall /\ c.at = "idle"
    BY DEF TickCall
  <2> HIDE DEF c
  <2> QED
    BY <1>1, <2>1, <2>2, EmptyStep DEF Replacing
<1>4. ASSUME NEW w \in Workers, DeleteJob(w) \/ AddJob(w) \/ Plan(w) \/ Die(w)
                                \/ \E orphans \in BOOLEAN : Cleanup(w, orphans)
      PROVE  IInv'
  <2> SUFFICES \E c \in TickCall : /\ c.at \notin {"append", "add", "delete"} /\ call' = [call EXCEPT ![w] = c]
                                   /\ UNCHANGED <<rows, emptied, blind, now>> /\ job' \in BOOLEAN
    BY <1>1, QuietStep
  <2>1. /\ [at |-> "idle"] \in TickCall /\ [at |-> "record"] \in TickCall /\ [at |-> "orphan"] \in TickCall
        /\ \A known, orphans \in BOOLEAN : /\ [at |-> "scan", job |-> known] \in TickCall
                                           /\ [at |-> "plan", orphans |-> orphans, job |-> known] \in TickCall
    BY DEF TickCall
  <2>2. CASE DeleteJob(w)
    BY <2>1, <2>2 DEF DeleteJob, Goto, history
  <2>3. CASE AddJob(w)
    BY <2>1, <2>3 DEF AddJob, Return, Goto, Idle, history
  <2>4. CASE Plan(w)
    <3>1. call[w].job \in BOOLEAN
      BY <1>1, <2>4, TickFields DEF Plan
    <3> QED
      BY <1>1, <2>1, <2>4, <3>1 DEF Plan, Return, Goto, Idle, history
  <2>5. CASE Die(w)
    BY <1>1, <2>1, <2>5 DEF Die, Return, Goto, Idle, history
  <2>6. ASSUME NEW orphans \in BOOLEAN, Cleanup(w, orphans)
        PROVE  /\ call' = [call EXCEPT ![w] = [at |-> "plan", orphans |-> orphans, job |-> job]]
               /\ UNCHANGED <<rows, emptied, blind, now, job>>
    BY <2>6 DEF Cleanup, Goto, history
  <2> QED
    BY <1>1, <1>4, <2>1, <2>2, <2>3, <2>4, <2>5, <2>6
<1>5. ASSUME NEW w \in Workers, Scan(w) PROVE IInv'
  <2>1. call[w].at = "scan" /\ UNCHANGED <<rows, job, now>>
    BY <1>5 DEF Scan
  <2>2. CASE Duplicated = {} /\ Return(w) /\ UNCHANGED history
    <3>1. [at |-> "idle"] \in TickCall
      BY DEF TickCall
    <3>2. call' = [call EXCEPT ![w] = [at |-> "idle"]] /\ UNCHANGED <<emptied, blind>>
      BY <2>2 DEF Return, Goto, Idle, history
    <3> QED
      BY <1>1, <2>1, <3>1, <3>2, QuietStep
  <2>3. CASE Duplicated # {}
    <3>1. /\ \E keep \in [Duplicated -> rows] :
                /\ \A tick \in Duplicated : keep[tick] \in Canonical(tick, call[w].job)
                /\ call' = [call EXCEPT ![w] =
                              [at |-> "add", ids |-> Duplicated, todo |-> Duplicated,
                               fresh |-> [tick \in Duplicated |-> keep[tick].fresh],
                               marker |-> Marker({row \in rows : row.tick \in Duplicated})]]
          /\ Choose(w)
      BY <1>5, <2>3 DEF Scan, Goto
    <3> QED
      BY <2>1, <2>3, <3>1, ChooseStep
  <2> QED
    BY <1>5, <2>2, <2>3 DEF Scan
<1>6. ASSUME NEW w \in Workers, Step(w) PROVE IInv'
  BY <1>3, <1>4, <1>5, <1>6, AppendStep, AddStep, DeleteStep DEF Step
<1>7. CASE UNCHANGED vars
  <2>1. UNCHANGED <<rows, job, now, call, emptied, blind>>
    BY <1>7 DEF vars, history
  <2>2. Typed' /\ OwnStamps' /\ KeepsOne'
    BY <2>1 DEF IInv, Typed, TickRow, OwnStamps, KeepsOne, Replacing
  <2>3. KeepsFresh'
    BY <2>1 DEF IInv, KeepsFresh, HasFresh, FreshFrom, Replacing, Appending
  <2> QED
    BY <2>2, <2>3 DEF IInv
<1> QED
  BY <1>2, <1>4, <1>6, <1>7 DEF Next

\* Alignments and cleanups write what they should, and each of their rows can be told
\* from the earlier ones by its stamp (align.py, aligned_tick_lifecycle.py).
THEOREM TypeCorrect ==
    Spec => []TypeOK
<1>1. Init => IInv
  BY Initially
<1>2. IInv /\ [Next]_vars => IInv'
  BY Inductive
<1>3. IInv => TypeOK
  <2> SUFFICES ASSUME IInv PROVE TypeOK
    OBVIOUS
  <2>1. \A row \in rows :
          /\ row.tick \in Ticks /\ row.fresh \in BOOLEAN /\ row.by \in Workers \cup {"earlier"}
          /\ row.at \in Nat \cup {-1}
    BY DEF IInv, Typed, TickRow
  <2> QED
    BY <2>1 DEF IInv, Typed, OwnStamps, TypeOK, NoStamp
<1> QED
  BY <1>1, <1>2, <1>3, PTL DEF Spec

\* However many cleanups of one alignment overlap and wherever they die, the delete of
\* the older copies leaves every tick a row, unless the alignment was emptied under them.
THEOREM TicksStay ==
    Spec => TickNeverVanishes
<1>1. Init => IInv
  BY Initially
<1>2. IInv /\ [Next]_vars => IInv'
  BY Inductive
<1>3. IInv /\ [Next]_vars =>
         [\A w \in Workers, tick \in Ticks :
            DeleteOlder(w) /\ ~emptied /\ RowsOf(tick) # {} => RowsOf(tick)' # {}]_vars
  <2> SUFFICES ASSUME IInv, NEW w \in Workers, NEW tick \in Ticks, DeleteOlder(w), ~emptied,
                      RowsOf(tick) # {}
               PROVE  RowsOf(tick)' # {}
    OBVIOUS
  <2>1. rows' = {row \in rows : row.tick \notin call[w].ids \/ row.at >= call[w].marker}
    BY DEF DeleteOlder
  <2>2. CASE tick \in call[w].ids
    BY <2>2, DeleteKeeps DEF RowsOf
  <2>3. CASE tick \notin call[w].ids
    BY <2>1, <2>3 DEF RowsOf
  <2> QED
    BY <2>2, <2>3
<1> QED
  BY <1>1, <1>2, <1>3, PTL DEF Spec, TickNeverVanishes

\* However many cleanups that know the job overlap, with each other and with an append,
\* the delete of the older copies leaves every tick that had one a row of the job's recipe.
THEOREM RecipeStays ==
    Spec => FreshSurvives
<1>1. Init => IInv
  BY Initially
<1>2. IInv /\ [Next]_vars => IInv'
  BY Inductive
<1>3. IInv /\ [Next]_vars =>
         [\A w \in Workers, tick \in Ticks :
            DeleteOlder(w) /\ ~blind /\ (\E row \in RowsOf(tick) : row.fresh)
               => \E row \in RowsOf(tick)' : row.fresh]_vars
  <2> SUFFICES ASSUME IInv, NEW w \in Workers, NEW tick \in Ticks, DeleteOlder(w), ~blind,
                      \E row \in RowsOf(tick) : row.fresh
               PROVE  \E row \in RowsOf(tick)' : row.fresh
    OBVIOUS
  <2>1. rows' = {row \in rows : row.tick \notin call[w].ids \/ row.at >= call[w].marker}
    BY DEF DeleteOlder
  <2>2. CASE tick \in call[w].ids
    BY <2>2, DeleteKeeps DEF RowsOf, HasFresh
  <2>3. CASE tick \notin call[w].ids
    BY <2>1, <2>3 DEF RowsOf
  <2> QED
    BY <2>2, <2>3
<1> QED
  BY <1>1, <1>2, <1>3, PTL DEF Spec, FreshSurvives
==============================================================================

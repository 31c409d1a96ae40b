------------------------ MODULE LeRobotClaimsProofs ------------------------
(***************************************************************************)
(* Proofs about LeRobotClaims, for any number of workers, operators,       *)
(* retention passes and auditors, in every scenario.                       *)
(***************************************************************************)
EXTENDS LeRobotClaims, Integers, FiniteSetTheorems, TLAPS

-----------------------------------------------------------------------------
\* Finite orders: the latest of a job's rows, the lowest of the ids to delete

IsTotalOrderOn(R, S) ==
    /\ \A x, y \in S : <<x, y>> \in R \/ <<y, x>> \in R
    /\ \A x, y, z \in S : <<x, y>> \in R /\ <<y, z>> \in R => <<x, z>> \in R

\* What is at most x.
DownTo(R, S, x) == {y \in S : <<y, x>> \in R}

\* A finite set that is not empty has a least element in any total order: the
\* element with the smallest set below it.
LEMMA LeastElement ==
    ASSUME NEW S, IsFiniteSet(S), S # {}, NEW R, IsTotalOrderOn(R, S)
    PROVE  \E x \in S : \A y \in S : <<x, y>> \in R
<1> DEFINE Below == {DownTo(R, S, x) : x \in S}
<1>1. Below \subseteq FiniteSubsetsOf(S) /\ Below # {}
  <2>1. \A x \in S : DownTo(R, S, x) \in SUBSET S
    BY DEF DownTo
  <2>2. Below \subseteq SUBSET S
    BY <2>1
  <2>3. FiniteSubsetsOf(S) = SUBSET S
    BY FS_FiniteSubsetsOfFinite
  <2>4. Below # {}
    OBVIOUS
  <2> QED
    BY <2>2, <2>3, <2>4
<1>2. PICK D \in Below : \A E \in Below : <<E, D>> \notin StrictSubsetOrdering(S)
  <2> HIDE DEF Below
  <2> QED
    BY <1>1, FS_StrictSubsetOrderingWellFounded, WFMin
<1>3. PICK x \in S : D = DownTo(R, S, x)
  BY <1>2
<1>4. ASSUME NEW y \in S, <<x, y>> \notin R PROVE FALSE
  <2>1. <<y, x>> \in R
    BY <1>4 DEF IsTotalOrderOn
  <2>2. DownTo(R, S, y) \subseteq DownTo(R, S, x)
    BY <2>1 DEF DownTo, IsTotalOrderOn
  <2>3. x \in DownTo(R, S, x) /\ x \notin DownTo(R, S, y)
    BY <1>4 DEF DownTo, IsTotalOrderOn
  <2>4. <<DownTo(R, S, y), DownTo(R, S, x)>> \in StrictSubsetOrdering(S)
    BY <2>2, <2>3 DEF StrictSubsetOrdering, DownTo
  <2> QED
    BY <1>2, <1>3, <2>4
<1> QED
  BY <1>4

\* The smallest of finitely many integers.
LEMMA LeastInteger ==
    ASSUME NEW S \in SUBSET Int, IsFiniteSet(S), S # {}
    PROVE  \E x \in S : \A y \in S : x <= y
<1> DEFINE R == {p \in S \X S : p[1] <= p[2]}
<1>1. \A x, y \in S : <<x, y>> \in R <=> x <= y
  OBVIOUS
<1>2. IsTotalOrderOn(R, S)
  <2> HIDE DEF R
  <2> QED
    BY <1>1 DEF IsTotalOrderOn
<1>3. \E x \in S : \A y \in S : <<x, y>> \in R
  BY <1>2, LeastElement
<1> QED
  BY <1>1, <1>3

\* The smallest of any natural numbers.
LEMMA LeastNatural ==
    ASSUME NEW S \in SUBSET Nat, S # {}
    PROVE  \E x \in S : \A y \in S : x <= y
<1>1. PICK n \in S : TRUE
  OBVIOUS
<1> DEFINE T == S \cap (0 .. n)
<1>2. T \in SUBSET Int /\ n \in T
  BY <1>1
<1>3. IsFiniteSet(T)
  <2>1. IsFiniteSet(0 .. n)
    BY <1>1, FS_Interval
  <2> QED
    BY <2>1, FS_Subset
<1>4. PICK x \in T : \A y \in T : x <= y
  <2> HIDE DEF T
  <2> QED
    BY <1>2, <1>3, LeastInteger
<1> QED
  BY <1>1, <1>2, <1>4

-----------------------------------------------------------------------------
\* The local state of calls and passes

Tokens == Calls \cup {Past}
Row == [index : Nat, status : Statuses, token : Tokens, updated_at : Nat, superseded : Nat \cup {None}]

\* The steps of a call before it writes its first row, and those after.
Before == {"idle", "precheck", "done?", "reuse", "reuseAppend", "claimable?", "snapshot",
           "index", "reread", "swap", "boot", "bootCommit", "append"}
Loading == {"flush", "beat"}
Loaded == {"ready", "publish", "finalize"}
After == {"media"} \cup Loading \cup Loaded
Labels == Before \cup After \cup {"bootCheck", "ended"}

Expectations == (Nat \X Tokens) \cup {None}
Batch == Nat \ {0}
Local == [at : Labels, expect : Expectations, seen : Nat, known : SUBSET Nat, index : Nat,
          reference : Nat, batch : Batch, matched : BOOLEAN]

PassState == [at : {"idle", "rows", "holds", "delete", "ended"}, read : SUBSET Nat,
              resolved : SUBSET Nat, ids : SUBSET Nat]
HoldState == [at : {"idle", "put", "active", "released"}, statuses : SUBSET Statuses]

TypeOK ==
    /\ scenario \in Scenarios
    /\ rows \in Seq(Row)
    /\ obs \in [Batches -> Nat]
    /\ transform \in BOOLEAN
    /\ call \in [Calls -> Local]
    /\ claims \subseteq Calls \X Nat
    /\ gone \subseteq Nat
    /\ pass \in [Retainers -> PassState]
    /\ holds \in [Auditors -> HoldState]

\* A call writes each index once, in ascending order: its rows are behind it.
Behind(c, k) ==
    \A q \in DOMAIN rows : rows[q].token = c =>
        /\ k.at \notin Before
        /\ k.at = "bootCheck" => rows[q].index = k.index
        /\ k.at \in After => rows[q].index < k.index

\* The batches that a call has behind it are in the lake, and those it knows.
FramesSafe(k) ==
    /\ \A b \in Batches \cap k.known : obs[b] >= 1
    /\ k.at \notin Loading \cup Loaded => k.batch = 1
    /\ k.at \in Loading => k.batch \in Batches /\ \A b \in Batches : b < k.batch => obs[b] >= 1
    /\ k.at = "beat" => obs[k.batch] >= 1
    /\ k.at \in Loaded => \A b \in Batches : obs[b] >= 1

\* Who swaps has seen a row; who claims a job first has found no row in it.
SeenRow(c, k) == (k.at = "swap" \/ (c \in Operators /\ k.at = "index")) => k.seen \in DOMAIN rows
First(k) ==
    scenario.passes = 0 =>
        /\ k.at \in {"boot", "bootCommit", "bootCheck"} => k.index = 0
        /\ k.at = "reread" /\ DOMAIN rows = {} => k.index = 0

CallSafe(c, k) == Behind(c, k) /\ FramesSafe(k) /\ SeenRow(c, k) /\ First(k)
CallsSafe == \A c \in Calls : CallSafe(c, call[c])

\* (checkpoint_index, claim_token) identifies a row, which is what the update matches on.
OneRowPerToken ==
    \A p, q \in DOMAIN rows : rows[p].index = rows[q].index /\ rows[p].token = rows[q].token => p = q

\* A row that was claimed is superseded for good, and its claim is the only one.
SwapWinners ==
    /\ \A x \in claims : x[2] # 0 => x[2] \in DOMAIN rows /\ rows[x[2]].superseded # None
    /\ \A x, y \in claims : x[2] = y[2] /\ x[2] # 0 => x[1] = y[1]

\* The row that wins a first claim stays where a second one looks for it.
FirstWinner ==
    scenario.passes = 0 =>
        /\ gone = {} /\ \A r \in Retainers : pass[r].at = "idle"
        /\ \A x \in claims : x[2] = 0 =>
              \E q \in DOMAIN rows : rows[q].index = 0 /\ rows[q].token = x[1]
        /\ \A x, y \in claims : x[2] = 0 /\ y[2] = 0 => x[1] = y[1]

\* An inductive invariant of the specification.
IInv == /\ TypeOK /\ CallsSafe /\ OneRowPerToken /\ SwapWinners /\ FirstWinner
        /\ PublishedIsComplete

-----------------------------------------------------------------------------
\* The local state of a call, one field at a time.
SetAt(k, label) == [k EXCEPT !.at = label]
SetExpect(k, e) == [k EXCEPT !.expect = e]
SetSeen(k, p) == [k EXCEPT !.seen = p]
SetKnown(k, S) == [k EXCEPT !.known = S]
SetIndex(k, i) == [k EXCEPT !.index = i]
SetReference(k, t) == [k EXCEPT !.reference = t]
SetBatch(k, b) == [k EXCEPT !.batch = b]
SetMatched(k, m) == [k EXCEPT !.matched = m]

\* What the invariant does not look at may change.
SameBut(f, j, k) ==
    /\ "at" \notin f => j.at = k.at
    /\ "seen" \notin f => j.seen = k.seen
    /\ "known" \notin f => j.known = k.known
    /\ "index" \notin f => j.index = k.index
    /\ "batch" \notin f => j.batch = k.batch

LEMMA Fields ==
    ASSUME NEW k \in Local
    PROVE  /\ \A label \in Labels : SetAt(k, label) \in Local /\ SetAt(k, label).at = label
                                       /\ SameBut({"at"}, SetAt(k, label), k)
           /\ \A e \in Expectations : SetExpect(k, e) \in Local /\ SameBut({}, SetExpect(k, e), k)
           /\ \A p \in Nat : SetSeen(k, p) \in Local /\ SetSeen(k, p).seen = p
                               /\ SameBut({"seen"}, SetSeen(k, p), k)
           /\ \A S \in SUBSET Nat : SetKnown(k, S) \in Local /\ SetKnown(k, S).known = S
                                      /\ SameBut({"known"}, SetKnown(k, S), k)
           /\ \A i \in Nat : SetIndex(k, i) \in Local /\ SetIndex(k, i).index = i
                               /\ SameBut({"index"}, SetIndex(k, i), k)
           /\ \A t \in Nat : SetReference(k, t) \in Local /\ SameBut({}, SetReference(k, t), k)
           /\ \A b \in Batch : SetBatch(k, b) \in Local /\ SetBatch(k, b).batch = b
                                 /\ SameBut({"batch"}, SetBatch(k, b), k)
           /\ \A m \in BOOLEAN : SetMatched(k, m) \in Local /\ SameBut({}, SetMatched(k, m), k)
<1>1. ASSUME NEW label \in Labels
      PROVE  SetAt(k, label) \in Local /\ SetAt(k, label).at = label /\ SameBut({"at"}, SetAt(k, label), k)
  BY DEF SetAt, Local, SameBut
<1>2. ASSUME NEW e \in Expectations PROVE SetExpect(k, e) \in Local /\ SameBut({}, SetExpect(k, e), k)
  BY DEF SetExpect, Local, SameBut
<1>3. ASSUME NEW p \in Nat
      PROVE  SetSeen(k, p) \in Local /\ SetSeen(k, p).seen = p /\ SameBut({"seen"}, SetSeen(k, p), k)
  BY DEF SetSeen, Local, SameBut
<1>4. ASSUME NEW S \in SUBSET Nat
      PROVE  SetKnown(k, S) \in Local /\ SetKnown(k, S).known = S /\ SameBut({"known"}, SetKnown(k, S), k)
  BY DEF SetKnown, Local, SameBut
<1>5. ASSUME NEW i \in Nat
      PROVE  SetIndex(k, i) \in Local /\ SetIndex(k, i).index = i /\ SameBut({"index"}, SetIndex(k, i), k)
  BY DEF SetIndex, Local, SameBut
<1>6. ASSUME NEW t \in Nat PROVE SetReference(k, t) \in Local /\ SameBut({}, SetReference(k, t), k)
  BY DEF SetReference, Local, SameBut
<1>7. ASSUME NEW b \in Batch
      PROVE  SetBatch(k, b) \in Local /\ SetBatch(k, b).batch = b /\ SameBut({"batch"}, SetBatch(k, b), k)
  BY DEF SetBatch, Local, SameBut
<1>8. ASSUME NEW m \in BOOLEAN PROVE SetMatched(k, m) \in Local /\ SameBut({}, SetMatched(k, m), k)
  BY DEF SetMatched, Local, SameBut
<1> QED
  BY <1>1, <1>2, <1>3, <1>4, <1>5, <1>6, <1>7, <1>8

\* Only the call that takes the step changes.
Moves(c) == call' \in [Calls -> Local] /\ \A d \in Calls \ {c} : call'[d] = call[d]

LEMMA Updates ==
    ASSUME call \in [Calls -> Local], NEW c \in Calls, NEW k \in Local, call' = [call EXCEPT ![c] = k]
    PROVE  Moves(c) /\ call'[c] = k
  BY DEF Moves

LEMMA SetAtMoves ==
    ASSUME call \in [Calls -> Local], NEW c \in Calls, NEW k \in Local, NEW label \in Labels,
           call' = [call EXCEPT ![c] = SetAt(k, label)]
    PROVE  Moves(c) /\ call'[c].at = label /\ SameBut({"at"}, call'[c], k)
<1>1. SetAt(k, label) \in Local /\ SetAt(k, label).at = label /\ SameBut({"at"}, SetAt(k, label), k)
  BY Fields
<1> QED
  BY <1>1, Updates

LEMMA GotoMoves ==
    ASSUME call \in [Calls -> Local], NEW c \in Calls, NEW label \in Labels, Goto(c, label)
    PROVE  Moves(c) /\ call'[c].at = label /\ SameBut({"at"}, call'[c], call[c])
<1>1. call' = [call EXCEPT ![c] = SetAt(call[c], label)]
  BY DEF Goto, SetAt
<1>2. call[c] \in Local
  OBVIOUS
<1> QED
  BY <1>1, <1>2, Fields, Updates

LEMMA EndMoves ==
    ASSUME call \in [Calls -> Local], NEW c \in Calls, End(c)
    PROVE  Moves(c) /\ call'[c] = NoCall("ended")
<1>1. NoCall("ended") \in Local
  BY DEF NoCall, Local, Labels, Before, After, Loading, Loaded, Expectations, Batch
<1> QED
  BY <1>1, Updates DEF End

-----------------------------------------------------------------------------
\* The rows of the job.

\* The row that sorts last in a set of rows is one of them.
LEMMA LastRow ==
    ASSUME TypeOK, NEW S \in SUBSET DOMAIN rows, S # {}
    PROVE  LastOf(S) \in S /\ \A q \in S : SortsBefore(rows[q], rows[LastOf(S)])
<1>1. DOMAIN rows = 1 .. Len(rows) /\ Len(rows) \in Nat
  BY DEF TypeOK
<1>2. IsFiniteSet(S)
  <2>1. IsFiniteSet(DOMAIN rows)
    BY <1>1, FS_Interval
  <2> QED
    BY <2>1, FS_Subset
<1>3. \A q \in S : rows[q] \in Row
  BY <1>1 DEF TypeOK
<1>4. \A q \in S : rows[q].updated_at \in Nat /\ rows[q].index \in Nat
  BY <1>3 DEF Row
<1> DEFINE R == {p \in S \X S : SortsBefore(rows[p[2]], rows[p[1]])}
<1>5. \A p, q \in S : <<p, q>> \in R <=> SortsBefore(rows[q], rows[p])
  OBVIOUS
<1>6. IsTotalOrderOn(R, S)
  <2> HIDE DEF R
  <2>1. ASSUME NEW p \in S, NEW q \in S PROVE <<p, q>> \in R \/ <<q, p>> \in R
    <3>1. SortsBefore(rows[q], rows[p]) \/ SortsBefore(rows[p], rows[q])
      BY <1>4 DEF SortsBefore
    <3> QED
      BY <1>5, <3>1
  <2>2. ASSUME NEW p \in S, NEW q \in S, NEW r \in S, <<p, q>> \in R, <<q, r>> \in R
        PROVE  <<p, r>> \in R
    BY <1>4, <1>5, <2>2 DEF SortsBefore
  <2> QED
    BY <2>1, <2>2 DEF IsTotalOrderOn
<1>7. \E p \in S : \A q \in S : SortsBefore(rows[q], rows[p])
  <2> HIDE DEF R
  <2> QED
    BY <1>2, <1>5, <1>6, LeastElement
<1> QED
  BY <1>7 DEF LastOf

LEMMA LatestRow ==
    ASSUME TypeOK
    PROVE  /\ Latest = 0 => Live = {}
           /\ Latest # 0 => Latest \in Live /\ Latest \in DOMAIN rows /\ rows[Latest] \in Row
           /\ Latest \in Nat /\ NextIndex \in Nat
<1>1. \A q \in DOMAIN rows : q \in Nat \ {0} /\ rows[q] \in Row
  BY DEF TypeOK
<1>2. Live \subseteq DOMAIN rows
  BY DEF Live
<1>3. Live # {} => LastOf(Live) \in Live
  BY <1>2, LastRow
<1>4. Latest = 0 => Live = {}
  BY <1>1, <1>2, <1>3 DEF Latest
<1>5. Latest # 0 => Latest \in Live /\ Latest \in DOMAIN rows /\ rows[Latest] \in Row
  BY <1>1, <1>2, <1>3 DEF Latest
<1> QED
  BY <1>1, <1>4, <1>5 DEF NextIndex, Row

\* The latest row sorts after every other live row, and only the latest row does.
LEMMA LatestSortsLast ==
    ASSUME TypeOK, Latest # 0
    PROVE  \A q \in Live : SortsBefore(rows[q], rows[Latest])
<1>1. Live \subseteq DOMAIN rows /\ Live # {}
  BY LatestRow DEF Live
<1> QED
  BY <1>1, LastRow DEF Latest

LEMMA LatestIs ==
    ASSUME TypeOK, NEW p \in Live, \A q \in Live \ {p} : ~SortsBefore(rows[p], rows[q])
    PROVE  Latest = p
<1>1. Latest # 0
  BY LatestRow
<1>2. Latest \in Live /\ SortsBefore(rows[p], rows[Latest])
  BY <1>1, LatestRow, LatestSortsLast
<1> QED
  BY <1>2

LEMMA NewRow ==
    ASSUME rows \in Seq(Row), NEW r \in Row, rows' = Append(rows, r)
    PROVE  /\ rows' \in Seq(Row)
           /\ \E n \in Nat \ {0} : /\ n \notin DOMAIN rows /\ rows'[n] = r
                                    /\ DOMAIN rows' = DOMAIN rows \cup {n}
           /\ \A q \in DOMAIN rows : rows'[q] = rows[q]
<1>1. rows' \in Seq(Row) /\ Len(rows') = Len(rows) + 1
  OBVIOUS
<1>2. DOMAIN rows = 1 .. Len(rows) /\ DOMAIN rows' = 1 .. Len(rows) + 1 /\ Len(rows) \in Nat
  BY <1>1
<1>3. rows'[Len(rows) + 1] = r
  OBVIOUS
<1>4. \A q \in DOMAIN rows : rows'[q] = rows[q]
  BY <1>2
<1> QED
  BY <1>1, <1>2, <1>3, <1>4

LEMMA CheckpointRow ==
    ASSUME NEW i \in Nat, NEW s \in Statuses, NEW w \in Calls, NEW t \in Nat
    PROVE  /\ Checkpoint(i, s, w, t) \in Row
           /\ Checkpoint(i, s, w, t).index = i /\ Checkpoint(i, s, w, t).token = w
  BY DEF Checkpoint, Row, Tokens

-----------------------------------------------------------------------------
\* Steps that change nothing but the local state of their call.
Quiet(c) == Moves(c) /\ UNCHANGED <<scenario, rows, obs, transform, claims, gone, pass, holds>>

LEMMA QuietStep ==
    ASSUME IInv, NEW c \in Calls, Quiet(c), CallSafe(c, call[c])'
    PROVE  IInv'
<1>1. TypeOK'
  BY DEF IInv, TypeOK, Quiet, Moves, Batches
<1>2. CallsSafe'
  <2>1. ASSUME NEW d \in Calls \ {c} PROVE CallSafe(d, call[d])'
    BY DEF IInv, CallsSafe, CallSafe, Behind, FramesSafe, SeenRow, First, Quiet, Moves, Batches
  <2> QED
    BY <2>1 DEF CallsSafe
<1>3. OneRowPerToken' /\ SwapWinners' /\ FirstWinner' /\ PublishedIsComplete'
  BY DEF IInv, OneRowPerToken, SwapWinners, FirstWinner, PublishedIsComplete, Quiet, Batches
<1> QED
  BY <1>1, <1>2, <1>3 DEF IInv

\* A call that ends, or dies, leaves nothing to keep.
LEMMA EndStep ==
    ASSUME IInv, NEW c \in Calls, End(c), UNCHANGED <<scenario, rows, obs, transform, claims, gone, pass, holds>>
    PROVE  IInv'
<1>1. Moves(c) /\ call'[c] = NoCall("ended")
  BY EndMoves DEF IInv, TypeOK
<1>2. CallSafe(c, call[c])'
  BY <1>1 DEF CallSafe, Behind, FramesSafe, SeenRow, First, NoCall, Before, After, Loading, Loaded
<1> QED
  BY <1>1, <1>2, QuietStep DEF Quiet

\* A step of an ingest on its way to the claim.
Early == {"precheck", "done?", "reuse", "reuseAppend", "claimable?", "snapshot", "index"}

LEMMA EarlyStep ==
    ASSUME IInv, NEW w \in Workers, Quiet(w), call[w].at \in Before, call'[w].at \in Early,
           \/ SameBut({"at"}, call'[w], call[w]) \/ SameBut({"at", "index"}, call'[w], call[w])
           \/ SameBut({"at", "known"}, call'[w], call[w]) /\ call'[w].known = {b \in Batches : obs[b] > 0}
    PROVE  IInv'
<1>1. w \in Calls /\ w \notin Operators
  BY CallAssumption DEF Calls
<1>2. CallSafe(w, call[w])
  BY <1>1 DEF IInv, CallsSafe
<1>3. call'[w].at \in Before /\ call'[w].at \notin {"swap", "boot", "bootCommit", "reread", "bootCheck"} \cup After
  BY DEF Early, Before, After, Loading, Loaded
<1>4. call'[w].batch = call[w].batch /\ call[w].at \notin After \cup {"bootCheck"}
  BY DEF SameBut, Before, After, Loading, Loaded
<1>5. Behind(w, call[w])'
  BY <1>2, <1>3, <1>4 DEF CallSafe, Behind, Quiet
<1>6. FramesSafe(call[w])'
  <2>1. \A b \in Batches \cap call'[w].known : obs[b] >= 1
    BY <1>2 DEF CallSafe, FramesSafe, SameBut, IInv, TypeOK
  <2>2. UNCHANGED <<scenario, obs>>
    BY DEF Quiet
  <2> QED
    BY <1>2, <1>3, <1>4, <2>1, <2>2 DEF CallSafe, FramesSafe, Batches, After, Loading, Loaded
<1>7. SeenRow(w, call[w])' /\ First(call[w])'
  BY <1>1, <1>3 DEF SeenRow, First
<1> QED
  BY <1>1, <1>5, <1>6, <1>7, QuietStep DEF CallSafe

-----------------------------------------------------------------------------
\* A row that a call appends under an index that is new for it.
LEMMA AppendStep ==
    ASSUME IInv, NEW c \in Calls, Moves(c), CallSafe(c, call[c])',
           NEW r \in Row, r.token = c, \A q \in DOMAIN rows : rows[q].token = c => rows[q].index # r.index,
           rows' = Append(rows, r), UNCHANGED <<scenario, obs, transform, claims, gone, pass, holds>>
    PROVE  IInv'
<1>1. rows \in Seq(Row)
  BY DEF IInv, TypeOK
<1>2. PICK n \in Nat \ {0} : n \notin DOMAIN rows /\ rows'[n] = r /\ DOMAIN rows' = DOMAIN rows \cup {n}
  BY <1>1, NewRow
<1>3. rows' \in Seq(Row) /\ \A q \in DOMAIN rows : rows'[q] = rows[q]
  BY <1>1, NewRow
<1>4. TypeOK'
  BY <1>3 DEF IInv, TypeOK, Moves, Batches
<1>5. CallsSafe'
  <2>1. ASSUME NEW d \in Calls \ {c} PROVE CallSafe(d, call[d])'
    <3>1. call'[d] = call[d] /\ CallSafe(d, call[d])
      BY DEF IInv, CallsSafe, Moves
    <3>2. Behind(d, call[d])'
      BY <1>2, <1>3, <3>1 DEF CallSafe, Behind
    <3>3. FramesSafe(call[d])'
      BY <3>1 DEF CallSafe, FramesSafe, Batches
    <3>4. SeenRow(d, call[d])' /\ First(call[d])'
      BY <1>2, <3>1 DEF CallSafe, SeenRow, First
    <3> QED
      BY <3>2, <3>3, <3>4 DEF CallSafe
  <2> QED
    BY <2>1 DEF CallsSafe
<1>6. OneRowPerToken'
  BY <1>2, <1>3 DEF IInv, OneRowPerToken
<1>7. SwapWinners' /\ PublishedIsComplete'
  BY <1>2, <1>3 DEF IInv, SwapWinners, PublishedIsComplete, Batches
<1>8. FirstWinner'
  <2>1. ASSUME NEW x \in claims, \E q \in DOMAIN rows : rows[q].index = 0 /\ rows[q].token = x[1]
        PROVE  \E q \in DOMAIN rows' : rows'[q].index = 0 /\ rows'[q].token = x[1]
    BY <1>2, <1>3, <2>1
  <2> QED
    BY <2>1 DEF IInv, FirstWinner
<1> QED
  BY <1>4, <1>5, <1>6, <1>7, <1>8 DEF IInv

\* The last checkpoint of a call.
LEMMA RecordLastStep ==
    ASSUME IInv, NEW w \in Calls, NEW s \in Statuses, NEW t \in Nat,
           call[w].at \in Before \cup After, End(w),
           rows' = Append(rows, Checkpoint(call[w].index, s, w, t)),
           UNCHANGED <<scenario, obs, transform, claims, gone, pass, holds>>
    PROVE  IInv'
<1> DEFINE r == Checkpoint(call[w].index, s, w, t)
<1>1. Moves(w) /\ call'[w] = NoCall("ended")
  BY EndMoves DEF IInv, TypeOK
<1>2. call[w].index \in Nat /\ CallSafe(w, call[w])
  BY DEF IInv, TypeOK, CallsSafe, Local
<1>3. r \in Row /\ r.index = call[w].index /\ r.token = w
  BY <1>2, CheckpointRow
<1>4. CallSafe(w, call[w])'
  BY <1>1 DEF CallSafe, Behind, FramesSafe, SeenRow, First, NoCall, Before, After, Loading, Loaded
<1>5. \A q \in DOMAIN rows : rows[q].token = w => rows[q].index # r.index
  <2>1. \A q \in DOMAIN rows : rows[q] \in Row
    BY DEF IInv, TypeOK
  <2>2. \A q \in DOMAIN rows : rows[q].index \in Nat
    BY <2>1 DEF Row
  <2> QED
    BY <1>2, <1>3, <2>2 DEF CallSafe, Behind
<1> HIDE DEF r
<1>6. rows' = Append(rows, r)
  BY DEF r
<1> QED
  BY <1>1, <1>3, <1>4, <1>5, <1>6, AppendStep

\* A running checkpoint; what the caller does next is safe with the index advanced.
LEMMA RecordRunningStep ==
    ASSUME IInv, NEW w \in Workers, NEW from, from \in {"append"} \cup After, NEW to \in After,
           NEW b \in Batch, RecordRunning(w, from, to, b),
           to \notin Loading \cup Loaded => b = 1,
           to \in Loading => b \in Batches /\ \A a \in Batches : a < b => obs[a] >= 1,
           to = "beat" => obs[b] >= 1,
           to \in Loaded => \A a \in Batches : obs[a] >= 1
    PROVE  IInv'
<1> DEFINE r == Checkpoint(call[w].index, "running", w, Len(rows) + 1)
<1>1. w \in Calls /\ call \in [Calls -> Local] /\ call[w] \in Local /\ rows \in Seq(Row)
  BY DEF IInv, TypeOK, Calls
<1>2. call[w].index \in Nat /\ call[w].index + 1 \in Nat /\ Len(rows) + 1 \in Nat /\ "running" \in Statuses
  BY <1>1 DEF Local, Statuses
<1>3. r \in Row /\ r.index = call[w].index /\ r.token = w
  BY <1>1, <1>2, CheckpointRow
<1>4. CallSafe(w, call[w])
  BY <1>1 DEF IInv, CallsSafe
<1>5. /\ call[w].at = from /\ rows' = Append(rows, r)
      /\ UNCHANGED <<scenario, obs, transform, claims, gone, pass, holds>>
      /\ call' = [call EXCEPT ![w] = SetAt(SetBatch(SetIndex(call[w], call[w].index + 1), b), to)]
  BY DEF RecordRunning, Record, SetAt, SetBatch, SetIndex, env
<1> HIDE DEF r
<1>6. /\ Moves(w) /\ call'[w].at = to /\ call'[w].batch = b /\ call'[w].index = call[w].index + 1
      /\ call'[w].known = call[w].known
  <2>1. to \in Labels
    BY DEF Labels
  <2> DEFINE i == SetIndex(call[w], call[w].index + 1)
             k == SetBatch(i, b)
             l == SetAt(k, to)
  <2>2. i \in Local /\ i.index = call[w].index + 1 /\ i.known = call[w].known
    BY <1>1, <1>2, Fields DEF SameBut
  <2> HIDE DEF i
  <2>3. k \in Local /\ k.batch = b /\ k.index = i.index /\ k.known = i.known
    BY <2>2, Fields DEF SameBut
  <2> HIDE DEF k
  <2>4. l \in Local /\ l.at = to /\ l.batch = b /\ l.index = k.index /\ l.known = k.known
    BY <2>1, <2>3, Fields DEF SameBut
  <2>5. call' = [call EXCEPT ![w] = l]
    BY <1>5 DEF i, k
  <2> HIDE DEF l
  <2> QED
    BY <1>1, <2>2, <2>3, <2>4, <2>5, Updates
<1>7. from \in Before \cup After
  BY DEF Before
<1>8. \A q \in DOMAIN rows : rows[q].index \in Nat
  <2>1. \A q \in DOMAIN rows : rows[q] \in Row
    BY <1>1
  <2> QED
    BY <2>1 DEF Row
<1>9. \A q \in DOMAIN rows : rows[q].token = w => rows[q].index < call[w].index
  BY <1>4, <1>5, <1>7 DEF CallSafe, Behind
<1>10. \A q \in DOMAIN rows : rows[q].token = w => rows[q].index # r.index
  BY <1>2, <1>3, <1>8, <1>9
<1>11. Behind(w, call[w])'
  <2>1. PICK n : rows'[n] = r /\ DOMAIN rows' = DOMAIN rows \cup {n}
    BY <1>1, <1>3, <1>5, NewRow
  <2>2. \A q \in DOMAIN rows : rows'[q] = rows[q]
    BY <1>1, <1>3, <1>5, NewRow
  <2>3. to \notin Before /\ to # "bootCheck"
    BY DEF Before, After, Loading, Loaded
  <2> QED
    BY <1>2, <1>3, <1>6, <1>8, <1>9, <2>1, <2>2, <2>3 DEF Behind
<1>12. FramesSafe(call[w])'
  BY <1>4, <1>5, <1>6 DEF CallSafe, FramesSafe, Batches
<1>13. SeenRow(w, call[w])' /\ First(call[w])'
  BY <1>6, CallAssumption DEF SeenRow, First, After, Loading, Loaded
<1> QED
  BY <1>1, <1>3, <1>5, <1>6, <1>10, <1>11, <1>12, <1>13, AppendStep DEF CallSafe

-----------------------------------------------------------------------------
\* The compare-and-swap.

LEMMA WinSwapStep ==
    ASSUME IInv, NEW c \in Calls, WinSwap(c)
    PROVE  IInv'
<1> DEFINE p == call[c].seen
           won == Swappable(p)
<1>1. call \in [Calls -> Local] /\ rows \in Seq(Row) /\ CallSafe(c, call[c]) /\ call[c].index \in Nat
  BY DEF IInv, TypeOK, CallsSafe, Local
<1>2. /\ call[c].at = "swap" /\ Goto(c, "append") /\ Cardinality(won) = 1
      /\ UNCHANGED <<scenario, obs, transform, gone, pass, holds>> /\ claims' = claims \cup {<<c, p>>}
      /\ rows' = [q \in DOMAIN rows |->
                    IF q \in won THEN [rows[q] EXCEPT !.superseded = call[c].index] ELSE rows[q]]
  BY DEF WinSwap, env
<1>3. p \in DOMAIN rows /\ p \in Nat \ {0}
  BY <1>1, <1>2 DEF CallSafe, SeenRow
<1>4. won = {p} /\ rows[p].superseded = None
  <2>1. won # {}
    BY <1>2, FS_EmptySet
  <2>2. \A q \in won : q = p /\ rows[q].superseded = None
    BY <1>3 DEF Swappable, Live, IInv, OneRowPerToken
  <2> QED
    BY <2>1, <2>2
<1> HIDE DEF won, p
<1>5. /\ DOMAIN rows' = DOMAIN rows /\ rows' \in Seq(Row)
      /\ \A q \in DOMAIN rows : rows'[q].index = rows[q].index /\ rows'[q].token = rows[q].token
      /\ \A q \in DOMAIN rows \ {p} : rows'[q] = rows[q]
      /\ rows'[p].superseded # None
  <2> DEFINE n == [rows[p] EXCEPT !.superseded = call[c].index]
  <2>1. rows[p] \in Row
    BY <1>1, <1>3
  <2>2. /\ n \in Row /\ n.index = rows[p].index /\ n.token = rows[p].token
        /\ n.superseded = call[c].index
    BY <1>1, <2>1 DEF Row
  <2>3. DOMAIN rows' = DOMAIN rows /\ rows'[p] = n /\ \A q \in DOMAIN rows \ {p} : rows'[q] = rows[q]
    BY <1>2, <1>3, <1>4
  <2> HIDE DEF n
  <2>4. call[c].index # None
    BY <1>1, CallAssumption
  <2>5. rows' \in Seq(Row)
    <3>1. DOMAIN rows = 1 .. Len(rows) /\ Len(rows) \in Nat /\ \A q \in DOMAIN rows : rows[q] \in Row
      BY <1>1
    <3>2. rows' \in [1 .. Len(rows) -> Row]
      <4>1. \A q \in DOMAIN rows : rows'[q] \in Row
        BY <2>2, <2>3, <3>1
      <4>2. DOMAIN rows' = 1 .. Len(rows) /\ rows' = [q \in DOMAIN rows' |-> rows'[q]]
        BY <1>2, <2>3, <3>1
      <4> QED
        BY <3>1, <4>1, <4>2
    <3> QED
      BY <3>1, <3>2
  <2> QED
    BY <1>3, <2>2, <2>3, <2>4, <2>5
<1>6. Moves(c) /\ call'[c].at = "append" /\ SameBut({"at"}, call'[c], call[c])
  <2>1. "append" \in Labels
    BY DEF Labels, Before
  <2> QED
    BY <1>1, <1>2, <2>1, GotoMoves
<1>7. TypeOK'
  <2>1. <<c, p>> \in Calls \X Nat
    BY <1>3
  <2> QED
    BY <1>2, <1>5, <1>6, <2>1 DEF IInv, TypeOK, Moves, Batches
<1>8. CallsSafe'
  <2>1. ASSUME NEW d \in Calls PROVE CallSafe(d, call[d])'
    <3>1. CallSafe(d, call[d])
      BY DEF IInv, CallsSafe
    <3>2. /\ d # c => call'[d] = call[d]
          /\ call'[d].known = call[d].known /\ call'[d].batch = call[d].batch
      BY <1>6 DEF Moves, SameBut
    <3>3. call'[c].at \in Before /\ call[c].at \in Before /\ call[c].at \notin After
          /\ call'[c].at \notin After
      BY <1>2, <1>6 DEF Before, After, Loading, Loaded
    <3>4. Behind(d, call[d])'
      BY <1>5, <3>1, <3>2, <3>3 DEF CallSafe, Behind
    <3>5. FramesSafe(call[d])'
      BY <1>2, <1>6, <3>1, <3>2, <3>3 DEF CallSafe, FramesSafe, Batches, After, Loading
    <3>6. SeenRow(d, call[d])' /\ First(call[d])'
      BY <1>2, <1>5, <1>6, <3>1, <3>2 DEF CallSafe, SeenRow, First
    <3> QED
      BY <3>4, <3>5, <3>6 DEF CallSafe
  <2> QED
    BY <2>1 DEF CallsSafe
<1>9. OneRowPerToken'
  BY <1>5 DEF IInv, OneRowPerToken
<1>10. SwapWinners'
  <2>1. \A x \in claims : x[2] # 0 => x[2] \in DOMAIN rows /\ rows[x[2]].superseded # None
    BY DEF IInv, SwapWinners
  <2>2. \A x \in claims : x[2] # p
    BY <1>3, <1>4, <2>1
  <2>3. \A x \in claims' : x \in claims \/ (x[1] = c /\ x[2] = p)
    BY <1>2
  <2>4. \A x \in claims' : x[2] # 0 => x[2] \in DOMAIN rows' /\ rows'[x[2]].superseded # None
    BY <1>3, <1>5, <2>1, <2>2, <2>3
  <2> QED
    BY <2>2, <2>3, <2>4 DEF IInv, SwapWinners
<1>11. FirstWinner'
  <2>1. \A x \in claims' : x[2] = 0 => x \in claims
    BY <1>2, <1>3
  <2>2. ASSUME NEW x \in claims, \E q \in DOMAIN rows : rows[q].index = 0 /\ rows[q].token = x[1]
        PROVE  \E q \in DOMAIN rows' : rows'[q].index = 0 /\ rows'[q].token = x[1]
    BY <1>5, <2>2
  <2> QED
    BY <1>2, <2>1, <2>2 DEF IInv, FirstWinner
<1>12. PublishedIsComplete'
  BY <1>2 DEF IInv, PublishedIsComplete, Batches
<1> QED
  BY <1>7, <1>8, <1>9, <1>10, <1>11, <1>12 DEF IInv

-----------------------------------------------------------------------------
\* The first claim of a job.

LEMMA BootMergeStep ==
    ASSUME IInv, NEW w \in Workers, BootMerge(w)
    PROVE  IInv'
<1> DEFINE m == \E q \in Live : rows[q].index = call[w].index
<1>1. w \in Calls /\ call \in [Calls -> Local] /\ call[w] \in Local /\ CallSafe(w, call[w])
  BY DEF IInv, TypeOK, CallsSafe, Calls
<1>2. /\ call[w].at = "boot" /\ call' = [call EXCEPT ![w] = SetAt(SetMatched(call[w], m), "bootCommit")]
      /\ UNCHANGED <<scenario, rows, obs, transform, claims, gone, pass, holds>>
  BY DEF BootMerge, SetAt, SetMatched, env
<1>3. m \in BOOLEAN /\ "bootCommit" \in Labels
  BY DEF Labels, Before
<1> HIDE DEF m
<1>4. SetMatched(call[w], m) \in Local /\ SameBut({}, SetMatched(call[w], m), call[w])
  BY <1>1, <1>3, Fields
<1>5. Moves(w) /\ call'[w].at = "bootCommit" /\ SameBut({"at"}, call'[w], call[w])
  BY <1>1, <1>2, <1>3, <1>4, SetAtMoves DEF SameBut
<1>6. CallSafe(w, call[w])'
  BY <1>1, <1>2, <1>5, CallAssumption
     DEF CallSafe, Behind, FramesSafe, SeenRow, First, SameBut, Batches, Before, After, Loading, Loaded
<1> QED
  BY <1>1, <1>2, <1>5, <1>6, QuietStep DEF Quiet

LEMMA BootCommitStep ==
    ASSUME IInv, NEW w \in Workers, BootCommit(w)
    PROVE  IInv'
<1> DEFINE r == Checkpoint(call[w].index, "running", w, Len(rows) + 1)
<1>1. /\ w \in Calls /\ w \notin Operators /\ call \in [Calls -> Local] /\ call[w] \in Local
      /\ CallSafe(w, call[w]) /\ rows \in Seq(Row)
  BY CallAssumption DEF IInv, TypeOK, CallsSafe, Calls
<1>2. /\ call[w].at = "bootCommit" /\ Goto(w, "bootCheck")
      /\ rows' = rows \/ rows' = Append(rows, r)
      /\ UNCHANGED <<scenario, obs, transform, claims, gone, pass, holds>>
  BY DEF BootCommit, Record, env
<1>3. call[w].index \in Nat /\ Len(rows) + 1 \in Nat /\ "running" \in Statuses /\ "bootCheck" \in Labels
  BY <1>1 DEF Local, Statuses, Labels
<1>4. r \in Row /\ r.index = call[w].index /\ r.token = w
  BY <1>1, <1>3, CheckpointRow
<1> HIDE DEF r
<1>5. Moves(w) /\ call'[w].at = "bootCheck" /\ SameBut({"at"}, call'[w], call[w])
  BY <1>1, <1>2, <1>3, GotoMoves
<1>6. \A q \in DOMAIN rows : rows[q].token # w
  BY <1>1, <1>2 DEF CallSafe, Behind, Before
<1>7. FramesSafe(call[w])' /\ SeenRow(w, call[w])' /\ First(call[w])'
  BY <1>1, <1>2, <1>5 DEF CallSafe, FramesSafe, SeenRow, First, SameBut, Batches, Loading, Loaded
<1>8. CASE rows' = rows
  <2>1. Behind(w, call[w])'
    BY <1>6, <1>8 DEF Behind
  <2> QED
    BY <1>1, <1>2, <1>5, <1>7, <1>8, <2>1, QuietStep DEF CallSafe, Quiet
<1>9. CASE rows' = Append(rows, r)
  <2>1. PICK n : rows'[n] = r /\ DOMAIN rows' = DOMAIN rows \cup {n}
    BY <1>1, <1>4, <1>9, NewRow
  <2>2. \A q \in DOMAIN rows : rows'[q] = rows[q]
    BY <1>1, <1>4, <1>9, NewRow
  <2>3. Behind(w, call[w])'
    BY <1>4, <1>5, <1>6, <2>1, <2>2 DEF Behind, SameBut, Before, After, Loading, Loaded
  <2> QED
    BY <1>1, <1>2, <1>4, <1>5, <1>6, <1>7, <1>9, <2>3, AppendStep DEF CallSafe
<1> QED
  BY <1>2, <1>8, <1>9

LEMMA BootCheckStep ==
    ASSUME IInv, NEW w \in Workers, BootCheck(w)
    PROVE  IInv'
<1> DEFINE winners == {q \in Live : rows[q].index = call[w].index}
<1>1. /\ w \in Calls /\ w \notin Operators /\ call \in [Calls -> Local] /\ call[w] \in Local
      /\ CallSafe(w, call[w]) /\ rows \in Seq(Row)
  BY CallAssumption DEF IInv, TypeOK, CallsSafe, Calls
<1>2. call[w].at = "bootCheck" /\ UNCHANGED <<scenario, rows, obs, transform, gone, pass, holds>>
  BY DEF BootCheck, env
<1>3. CASE End(w) /\ UNCHANGED claims
  BY <1>1, <1>2, <1>3, EndStep
<1>4. CASE /\ Cardinality(winners) = 1 /\ \A q \in winners : rows[q].token = w
           /\ claims' = claims \cup {<<w, 0>>}
           /\ call' = [call EXCEPT ![w].index = @ + 1, ![w].at = "media"]
  <2>1. \E q \in winners : rows[q].token = w
    <3> HIDE DEF winners
    <3>1. winners # {}
      BY <1>4, FS_EmptySet
    <3> QED
      BY <1>4, <3>1
  <2>2. /\ call[w].index + 1 \in Nat /\ call[w].index \in Nat /\ "media" \in Labels
        /\ call' = [call EXCEPT ![w] = SetAt(SetIndex(call[w], call[w].index + 1), "media")]
    <3>1. call[w].index + 1 \in Nat /\ call[w].index \in Nat /\ "media" \in Labels
      BY <1>1 DEF Local, Labels, After
    <3>2. call' = [call EXCEPT ![w] = SetAt(SetIndex(call[w], call[w].index + 1), "media")]
      BY <1>4 DEF SetAt, SetIndex
    <3> QED
      BY <3>1, <3>2
  <2>3. /\ SetIndex(call[w], call[w].index + 1) \in Local
        /\ SetIndex(call[w], call[w].index + 1).index = call[w].index + 1
        /\ SameBut({"index"}, SetIndex(call[w], call[w].index + 1), call[w])
    BY <1>1, <2>2, Fields
  <2>4. /\ Moves(w) /\ call'[w].at = "media" /\ call'[w].index = call[w].index + 1
        /\ SameBut({"at", "index"}, call'[w], call[w])
    BY <1>1, <2>2, <2>3, SetAtMoves DEF SameBut
  <2>5. CallSafe(w, call[w])'
    <3>1. \A q \in DOMAIN rows : rows[q] \in Row
      BY <1>1
    <3>2. \A q \in DOMAIN rows : rows[q].index \in Nat
      BY <3>1 DEF Row
    <3>3. Behind(w, call[w])'
      BY <1>1, <1>2, <2>2, <2>4, <3>2 DEF CallSafe, Behind, Before
    <3>4. FramesSafe(call[w])' /\ SeenRow(w, call[w])' /\ First(call[w])'
      BY <1>1, <1>2, <2>4 DEF CallSafe, FramesSafe, SeenRow, First, SameBut, Batches, Loading, Loaded
    <3> QED
      BY <3>3, <3>4 DEF CallSafe
  <2>6. TypeOK'
    BY <1>1, <1>2, <1>4, <2>4 DEF IInv, TypeOK, Moves, Batches
  <2>7. CallsSafe'
    <3>1. ASSUME NEW d \in Calls \ {w} PROVE CallSafe(d, call[d])'
      BY <1>2, <2>4 DEF IInv, CallsSafe, CallSafe, Behind, FramesSafe, SeenRow, First, Moves, Batches
    <3> QED
      BY <2>5, <3>1 DEF CallsSafe
  <2>8. SwapWinners'
    BY <1>2, <1>4 DEF IInv, SwapWinners
  <2>9. FirstWinner'
    <3>1. scenario.passes = 0 => call[w].index = 0 /\ Live = DOMAIN rows
      BY <1>1, <1>2 DEF IInv, CallSafe, First, FirstWinner, Live
    <3>2. ASSUME scenario.passes = 0, NEW x \in claims, x[2] = 0 PROVE x[1] = w
      <4>1. PICK q \in DOMAIN rows : rows[q].index = 0 /\ rows[q].token = x[1]
        BY <3>2 DEF IInv, FirstWinner
      <4> QED
        BY <1>4, <3>1, <3>2, <4>1
    <3>3. \A x \in claims' : x \in claims \/ (x[1] = w /\ x[2] = 0)
      BY <1>4
    <3>4. scenario.passes = 0 => \A x \in claims' : x[2] = 0 => x[1] = w
      BY <3>2, <3>3
    <3>5. scenario.passes = 0 => \E q \in DOMAIN rows : rows[q].index = 0 /\ rows[q].token = w
      BY <2>1, <3>1
    <3> QED
      BY <1>2, <3>4, <3>5 DEF IInv, FirstWinner
  <2> QED
    BY <1>2, <2>6, <2>7, <2>8, <2>9 DEF IInv, OneRowPerToken, PublishedIsComplete, Batches
<1> QED
  BY <1>3, <1>4 DEF BootCheck

-----------------------------------------------------------------------------
\* Observations are only added.
LEMMA FlushStep ==
    ASSUME IInv, NEW w \in Workers, FlushBatch(w)
    PROVE  IInv'
<1> DEFINE b == call[w].batch
           K == call[w].known \cup {b}
<1>1. /\ w \in Calls /\ w \notin Operators /\ call \in [Calls -> Local] /\ call[w] \in Local
      /\ CallSafe(w, call[w]) /\ obs \in [Batches -> Nat]
  BY CallAssumption DEF IInv, TypeOK, CallsSafe, Calls
<1>2. /\ call[w].at = "flush" /\ UNCHANGED <<scenario, rows, transform, claims, gone, pass, holds>>
      /\ obs' = IF b \in call[w].known THEN obs ELSE [obs EXCEPT ![b] = @ + 1]
      /\ call' = [call EXCEPT ![w] = SetAt(SetKnown(call[w], K), "beat")]
  BY DEF FlushBatch, SetAt, SetKnown, env
<1>3. b \in Batches /\ b \in Nat /\ K \in SUBSET Nat /\ "beat" \in Labels
  BY <1>1, <1>2 DEF CallSafe, FramesSafe, Loading, Labels, After, Local, Batch
<1> HIDE DEF K
<1>4. SetKnown(call[w], K) \in Local /\ SetKnown(call[w], K).known = K /\ SameBut({"known"}, SetKnown(call[w], K), call[w])
  BY <1>1, <1>3, Fields
<1>5. /\ Moves(w) /\ call'[w].at = "beat" /\ call'[w].known = K
      /\ SameBut({"at", "known"}, call'[w], call[w])
  BY <1>1, <1>2, <1>3, <1>4, SetAtMoves DEF SameBut
<1>6. /\ obs' \in [Batches -> Nat] /\ obs'[b] >= 1
      /\ \A a \in Batches : obs'[a] >= obs[a]
  <2>1. b \in call[w].known => obs[b] >= 1
    BY <1>1, <1>3 DEF CallSafe, FramesSafe
  <2> QED
    BY <1>1, <1>2, <1>3, <2>1
<1>7. \A a \in Batches : obs[a] \in Nat /\ obs'[a] \in Nat
  BY <1>1, <1>6
<1>8. FramesSafe(call[w])'
  <2>1. call'[w].batch = b
    BY <1>5 DEF SameBut
  <2>2. \A a \in Batches \cap K : obs'[a] >= 1
    BY <1>1, <1>6, <1>7 DEF CallSafe, FramesSafe, K
  <2>3. \A a \in Batches : a < b => obs'[a] >= 1
    BY <1>1, <1>2, <1>6, <1>7 DEF CallSafe, FramesSafe, Loading
  <2> QED
    BY <1>2, <1>3, <1>5, <1>6, <2>1, <2>2, <2>3 DEF FramesSafe, Batches, Loading, Loaded
<1>9. CallSafe(w, call[w])'
  BY <1>1, <1>2, <1>5, <1>8 DEF CallSafe, Behind, SeenRow, First, SameBut, Before, After, Loading, Loaded
<1>10. TypeOK'
  BY <1>2, <1>5, <1>6 DEF IInv, TypeOK, Moves, Batches
<1>11. CallsSafe'
  <2>1. ASSUME NEW d \in Calls \ {w} PROVE CallSafe(d, call[d])'
    <3>1. call'[d] = call[d] /\ CallSafe(d, call[d])
      BY <1>5 DEF IInv, CallsSafe, Moves
    <3>2. FramesSafe(call[d])'
      BY <1>2, <1>6, <1>7, <3>1 DEF CallSafe, FramesSafe, Batches, Loading, Loaded
    <3> QED
      BY <1>2, <3>1, <3>2 DEF CallSafe, Behind, SeenRow, First
  <2> QED
    BY <1>9, <2>1 DEF CallsSafe
<1>12. PublishedIsComplete'
  BY <1>2, <1>6, <1>7 DEF IInv, PublishedIsComplete, Batches
<1> QED
  BY <1>2, <1>10, <1>11, <1>12 DEF IInv, OneRowPerToken, SwapWinners, FirstWinner

LEMMA PublishStep ==
    ASSUME IInv, NEW w \in Workers, Publish(w)
    PROVE  IInv'
<1>1. w \in Calls /\ w \notin Operators /\ call \in [Calls -> Local] /\ CallSafe(w, call[w])
  BY CallAssumption DEF IInv, TypeOK, CallsSafe, Calls
<1>2. /\ call[w].at = "publish" /\ Goto(w, "finalize") /\ transform' = TRUE
      /\ UNCHANGED <<scenario, rows, obs, claims, gone, pass, holds>>
  BY DEF Publish, env
<1>3. Moves(w) /\ call'[w].at = "finalize" /\ SameBut({"at"}, call'[w], call[w])
  <2>1. "finalize" \in Labels
    BY DEF Labels, After, Loaded
  <2> QED
    BY <1>1, <1>2, <2>1, GotoMoves
<1>4. CallSafe(w, call[w])'
  BY <1>1, <1>2, <1>3
     DEF CallSafe, Behind, FramesSafe, SeenRow, First, SameBut, Batches, Before, After, Loading, Loaded
<1>5. TypeOK'
  BY <1>2, <1>3 DEF IInv, TypeOK, Moves, Batches
<1>6. CallsSafe'
  <2>1. ASSUME NEW d \in Calls \ {w} PROVE CallSafe(d, call[d])'
    BY <1>2, <1>3 DEF IInv, CallsSafe, CallSafe, Behind, FramesSafe, SeenRow, First, Moves, Batches
  <2> QED
    BY <1>4, <2>1 DEF CallsSafe
<1>7. PublishedIsComplete'
  BY <1>1, <1>2 DEF CallSafe, FramesSafe, Loaded, PublishedIsComplete, Batches
<1> QED
  BY <1>2, <1>5, <1>6, <1>7 DEF IInv, OneRowPerToken, SwapWinners, FirstWinner

-----------------------------------------------------------------------------
\* Recoveries.

LEMMA RecoverStep ==
    ASSUME IInv, NEW o \in Operators, Recover(o)
    PROVE  IInv'
<1>1. /\ o \in Calls /\ o \notin Workers /\ call \in [Calls -> Local] /\ call[o] \in Local
      /\ CallSafe(o, call[o]) /\ rows \in Seq(Row) /\ TypeOK
  BY CallAssumption DEF IInv, TypeOK, CallsSafe, Calls
<1>2. CASE RecoverRead(o)
  <2> DEFINE n == SetReference(call[o], Len(rows))
             k == SetSeen(n, Latest)
  <2>1. /\ call[o].at = "idle" /\ Latest # 0 /\ call' = [call EXCEPT ![o] = SetAt(k, "index")]
        /\ UNCHANGED <<scenario, rows, obs, transform, claims, gone, pass, holds>>
    BY <1>2 DEF RecoverRead, SetAt, SetSeen, SetReference, env
  <2>2. Latest \in DOMAIN rows /\ Latest \in Nat /\ Len(rows) \in Nat /\ "index" \in Labels
    BY <1>1, <2>1, LatestRow DEF Labels, Before
  <2>3. n \in Local /\ SameBut({}, n, call[o])
    BY <1>1, <2>2, Fields
  <2> HIDE DEF n
  <2>4. k \in Local /\ k.seen = Latest /\ SameBut({"seen"}, k, n)
    BY <2>2, <2>3, Fields
  <2> HIDE DEF k
  <2>5. Moves(o) /\ call'[o].at = "index" /\ call'[o].seen = Latest /\ SameBut({"at", "seen"}, call'[o], call[o])
    BY <1>1, <2>1, <2>2, <2>3, <2>4, SetAtMoves DEF SameBut
  <2>6. CallSafe(o, call[o])'
    BY <1>1, <2>1, <2>2, <2>5
       DEF CallSafe, Behind, FramesSafe, SeenRow, First, SameBut, Batches, Before, After, Loading, Loaded
  <2> QED
    BY <1>1, <2>1, <2>5, <2>6, QuietStep DEF Quiet
<1>3. CASE RecoverIndex(o)
  <2>1. /\ call[o].at = "index" /\ call' = [call EXCEPT ![o] = SetAt(SetIndex(call[o], NextIndex), "swap")]
        /\ UNCHANGED <<scenario, rows, obs, transform, claims, gone, pass, holds>>
    BY <1>3 DEF RecoverIndex, TakeIndex, SetAt, SetIndex, env
  <2>2. NextIndex \in Nat /\ "swap" \in Labels
    BY <1>1, LatestRow DEF Labels, Before
  <2>3. SetIndex(call[o], NextIndex) \in Local /\ SameBut({"index"}, SetIndex(call[o], NextIndex), call[o])
    BY <1>1, <2>2, Fields
  <2>4. Moves(o) /\ call'[o].at = "swap" /\ SameBut({"at", "index"}, call'[o], call[o])
    BY <1>1, <2>1, <2>2, <2>3, SetAtMoves DEF SameBut
  <2>5. CallSafe(o, call[o])'
    BY <1>1, <2>1, <2>4
       DEF CallSafe, Behind, FramesSafe, SeenRow, First, SameBut, Batches, Before, After, Loading, Loaded
  <2> QED
    BY <1>1, <2>1, <2>4, <2>5, QuietStep DEF Quiet
<1>4. CASE RecoverAppend(o)
  <2>1. /\ call[o].at = "append" /\ End(o)
        /\ rows' = Append(rows, Checkpoint(call[o].index, "abandoned", o, call[o].reference))
        /\ UNCHANGED <<scenario, obs, transform, claims, gone, pass, holds>>
    BY <1>4 DEF RecoverAppend, env
  <2>2. call[o].reference \in Nat /\ "abandoned" \in Statuses /\ call[o].at \in Before \cup After
    BY <1>1, <2>1 DEF Local, Statuses, Terminal, Before
  <2> QED
    BY <1>1, <2>1, <2>2, RecordLastStep
<1> QED
  BY <1>2, <1>3, <1>4 DEF Recover

-----------------------------------------------------------------------------
\* Ingests.

LEMMA IngestStep ==
    ASSUME IInv, NEW w \in Workers, Ingest(w)
    PROVE  IInv'
<1>1. /\ w \in Calls /\ w \notin Operators /\ call \in [Calls -> Local] /\ call[w] \in Local
      /\ CallSafe(w, call[w]) /\ rows \in Seq(Row) /\ TypeOK
  BY CallAssumption DEF IInv, TypeOK, CallsSafe, Calls
<1>2. CASE Start(w)
  <2> DEFINE e == IF scenario.expected /\ Latest # 0 THEN <<rows[Latest].index, rows[Latest].token>> ELSE None
  <2>1. /\ call[w].at = "idle" /\ call' = [call EXCEPT ![w] = SetAt(SetExpect(call[w], e), "precheck")]
        /\ UNCHANGED <<scenario, rows, obs, transform, claims, gone, pass, holds>>
    BY <1>2 DEF Start, SetAt, SetExpect, env
  <2>2. e \in Expectations /\ "precheck" \in Labels
    <3>1. Latest # 0 => rows[Latest] \in Row
      BY <1>1, LatestRow
    <3>2. Latest # 0 => rows[Latest].index \in Nat /\ rows[Latest].token \in Tokens
      BY <3>1 DEF Row
    <3> QED
      BY <3>2 DEF Expectations, Labels, Before
  <2> HIDE DEF e
  <2>3. SetExpect(call[w], e) \in Local /\ SameBut({}, SetExpect(call[w], e), call[w])
    BY <1>1, <2>2, Fields
  <2>4. Moves(w) /\ call'[w].at = "precheck" /\ SameBut({"at"}, call'[w], call[w])
    BY <1>1, <2>1, <2>2, <2>3, SetAtMoves DEF SameBut
  <2> QED
    BY <2>1, <2>4, EarlyStep DEF Quiet, Before, Early
<1>3. CASE Precheck(w) \/ CheckDone(w) \/ CheckClaimable(w)
  <2>1. /\ call[w].at \in {"precheck", "done?", "claimable?"}
        /\ End(w) \/ \E label \in {"done?", "reuse", "claimable?", "snapshot"} : Goto(w, label)
        /\ UNCHANGED <<scenario, rows, obs, transform, claims, gone, pass, holds>>
    BY <1>3 DEF Precheck, CheckDone, CheckClaimable, env
  <2>2. CASE End(w)
    BY <1>1, <2>1, <2>2, EndStep
  <2>3. ASSUME NEW label \in {"done?", "reuse", "claimable?", "snapshot"}, Goto(w, label) PROVE IInv'
    <3>1. label \in Labels /\ label \in Early /\ call[w].at \in Before
      BY <2>1 DEF Labels, Before, Early
    <3>2. Moves(w) /\ call'[w].at = label /\ SameBut({"at"}, call'[w], call[w])
      BY <1>1, <2>3, <3>1, GotoMoves
    <3> QED
      BY <2>1, <3>1, <3>2, EarlyStep DEF Quiet
  <2> QED
    BY <2>1, <2>2, <2>3
<1>4. CASE ReuseIndex(w)
  <2>1. /\ call[w].at = "reuse" /\ call' = [call EXCEPT ![w] = SetAt(SetIndex(call[w], NextIndex), "reuseAppend")]
        /\ UNCHANGED <<scenario, rows, obs, transform, claims, gone, pass, holds>>
    BY <1>4 DEF ReuseIndex, TakeIndex, SetAt, SetIndex, env
  <2>2. NextIndex \in Nat /\ "reuseAppend" \in Labels
    BY <1>1, LatestRow DEF Labels, Before
  <2>3. SetIndex(call[w], NextIndex) \in Local /\ SameBut({"index"}, SetIndex(call[w], NextIndex), call[w])
    BY <1>1, <2>2, Fields
  <2>4. Moves(w) /\ call'[w].at = "reuseAppend" /\ SameBut({"at", "index"}, call'[w], call[w])
    BY <1>1, <2>1, <2>2, <2>3, SetAtMoves DEF SameBut
  <2> QED
    BY <2>1, <2>4, EarlyStep DEF Quiet, Before, Early
<1>5. CASE Snapshot(w)
  <2> DEFINE K == {b \in Batches : obs[b] > 0}
  <2>1. /\ call[w].at = "snapshot" /\ call' = [call EXCEPT ![w] = SetAt(SetKnown(call[w], K), "index")]
        /\ UNCHANGED <<scenario, rows, obs, transform, claims, gone, pass, holds>>
    BY <1>5 DEF Snapshot, SetAt, SetKnown, env
  <2>2. K \in SUBSET Nat /\ "index" \in Labels
    BY DEF Labels, Before, Batches
  <2> HIDE DEF K
  <2>3. /\ SetKnown(call[w], K) \in Local /\ SetKnown(call[w], K).known = K
        /\ SameBut({"known"}, SetKnown(call[w], K), call[w])
    BY <1>1, <2>2, Fields
  <2>4. /\ Moves(w) /\ call'[w].at = "index" /\ call'[w].known = K
        /\ SameBut({"at", "known"}, call'[w], call[w])
    BY <1>1, <2>1, <2>2, <2>3, SetAtMoves DEF SameBut
  <2> QED
    BY <2>1, <2>4, EarlyStep DEF Quiet, Before, Early, K
<1>6. CASE ReadIndex(w)
  <2>1. /\ call[w].at = "index" /\ call' = [call EXCEPT ![w] = SetAt(SetIndex(call[w], NextIndex), "reread")]
        /\ UNCHANGED <<scenario, rows, obs, transform, claims, gone, pass, holds>>
    BY <1>6 DEF ReadIndex, TakeIndex, SetAt, SetIndex, env
  <2>2. NextIndex \in Nat /\ "reread" \in Labels
    BY <1>1, LatestRow DEF Labels, Before
  <2>3. /\ SetIndex(call[w], NextIndex) \in Local /\ SetIndex(call[w], NextIndex).index = NextIndex
        /\ SameBut({"index"}, SetIndex(call[w], NextIndex), call[w])
    BY <1>1, <2>2, Fields
  <2>4. /\ Moves(w) /\ call'[w].at = "reread" /\ call'[w].index = NextIndex
        /\ SameBut({"at", "index"}, call'[w], call[w])
    BY <1>1, <2>1, <2>2, <2>3, SetAtMoves DEF SameBut
  <2>5. DOMAIN rows = {} => NextIndex = 0
    BY <1>1, LatestRow DEF NextIndex
  <2>6. CallSafe(w, call[w])'
    BY <1>1, <2>1, <2>4, <2>5
       DEF CallSafe, Behind, FramesSafe, SeenRow, First, SameBut, Batches, Before, After, Loading, Loaded
  <2> QED
    BY <1>1, <2>1, <2>4, <2>6, QuietStep DEF Quiet
<1>7. CASE Reread(w)
  <2>1. call[w].at = "reread" /\ UNCHANGED <<scenario, rows, obs, transform, claims, gone, pass, holds>>
    BY <1>7 DEF Reread, env
  <2>2. CASE End(w)
    BY <1>1, <2>1, <2>2, EndStep
  <2>3. CASE ~End(w)
    <3>1. PICK label \in {"boot", "swap"} :
            /\ call' = [call EXCEPT ![w] = SetAt(SetSeen(call[w], Latest), label)]
            /\ label = "boot" <=> Latest = 0
      BY <1>7, <2>3 DEF Reread, SetAt, SetSeen
    <3>2. /\ Latest \in Nat /\ label \in Labels
          /\ Latest = 0 => Live = {}
          /\ Latest # 0 => Latest \in DOMAIN rows
      BY <1>1, LatestRow DEF Labels, Before
    <3>3. /\ SetSeen(call[w], Latest) \in Local /\ SetSeen(call[w], Latest).seen = Latest
          /\ SameBut({"seen"}, SetSeen(call[w], Latest), call[w])
      BY <1>1, <3>2, Fields
    <3>4. /\ Moves(w) /\ call'[w].at = label /\ call'[w].seen = Latest
          /\ SameBut({"at", "seen"}, call'[w], call[w])
      BY <1>1, <3>1, <3>2, <3>3, SetAtMoves DEF SameBut
    <3>5. First(call[w])'
      <4>1. scenario.passes = 0 /\ Live = {} => DOMAIN rows = {}
        BY DEF IInv, FirstWinner, Live
      <4> QED
        BY <1>1, <2>1, <3>1, <3>2, <3>4, <4>1 DEF CallSafe, First, SameBut
    <3>6. Behind(w, call[w])' /\ FramesSafe(call[w])'
      BY <1>1, <2>1, <3>4 DEF CallSafe, Behind, FramesSafe, SameBut, Batches, Before, After, Loading, Loaded
    <3>7. SeenRow(w, call[w])'
      BY <1>1, <2>1, <3>1, <3>2, <3>4 DEF SeenRow
    <3> QED
      BY <1>1, <2>1, <3>4, <3>5, <3>6, <3>7, QuietStep DEF CallSafe, Quiet
  <2> QED
    BY <2>2, <2>3
<1>8. CASE ReuseAppend(w) \/ Complete(w) \/ Fail(w)
  <2>1. PICK s \in {"completed", "failed"} :
            /\ rows' = Append(rows, Checkpoint(call[w].index, s, w, Len(rows) + 1)) /\ End(w)
            /\ UNCHANGED <<scenario, obs, transform, claims, gone, pass, holds>>
    BY <1>8 DEF ReuseAppend, Complete, Fail, RecordLast, Record, env
  <2>2. call[w].at \in Before \cup After
    BY <1>8 DEF ReuseAppend, Complete, Fail, Before, After, Loading, Loaded
  <2>3. s \in Statuses /\ Len(rows) + 1 \in Nat
    BY <1>1 DEF Statuses, Terminal
  <2> QED
    BY <1>1, <2>1, <2>2, <2>3, RecordLastStep
<1>9. CASE AppendClaim(w) \/ MediaCheckpoint(w) \/ BatchCheckpoint(w) \/ MetadataReady(w)
  <2>1. call[w].batch \in Batch /\ scenario.batches \in Nat \ {0}
    BY <1>1, ScenarioAssumption DEF Local, TypeOK
  <2>2. \A b \in Batches : b \in Nat \ {0} /\ b <= scenario.batches
    BY <2>1 DEF Batches
  <2>3. CASE AppendClaim(w)
    <3>1. RecordRunning(w, "append", "media", call[w].batch) /\ call[w].at = "append"
      BY <2>3 DEF AppendClaim, RecordRunning
    <3>2. call[w].batch = 1 /\ "media" \in After /\ "media" \notin Loading \cup Loaded
      BY <1>1, <3>1 DEF CallSafe, FramesSafe, After, Loading, Loaded
    <3> QED
      BY <2>1, <3>1, <3>2, RecordRunningStep DEF Loading, Loaded
  <2>4. CASE MediaCheckpoint(w)
    <3>1. RecordRunning(w, "media", "flush", call[w].batch) /\ call[w].at = "media"
      BY <2>4 DEF MediaCheckpoint, RecordRunning
    <3>2. call[w].batch = 1 /\ {"media", "flush"} \subseteq After /\ 1 \in Batches
      BY <1>1, <2>1, <3>1 DEF CallSafe, FramesSafe, After, Loading, Loaded, Batches
    <3>3. \A a \in Batches : ~(a < 1)
      BY <2>2
    <3> QED
      BY <2>1, <3>1, <3>2, <3>3, RecordRunningStep DEF Loading, Loaded
  <2>5. CASE BatchCheckpoint(w)
    <3> DEFINE b == call[w].batch
    <3>1. call[w].at = "beat"
      BY <2>5 DEF BatchCheckpoint, RecordRunning
    <3>2. b \in Batches /\ obs[b] >= 1 /\ \A a \in Batches : a < b => obs[a] >= 1
      BY <1>1, <3>1 DEF CallSafe, FramesSafe, Loading
    <3>3. b + 1 \in Batch /\ \A a \in Batches : a < b + 1 => a < b \/ a = b
      BY <2>1, <2>2 DEF Batch
    <3>4. \A a \in Batches : a < b + 1 => obs[a] >= 1
      BY <3>2, <3>3
    <3>5. "beat" \in After /\ {"flush", "ready"} \subseteq After
      BY DEF After, Loading, Loaded
    <3>6. CASE b < scenario.batches
      <4>1. RecordRunning(w, "beat", "flush", b + 1)
        BY <2>5, <3>6 DEF BatchCheckpoint
      <4>2. b + 1 \in Batches
        BY <2>1, <2>2, <3>2, <3>6 DEF Batches
      <4> QED
        BY <3>3, <3>4, <3>5, <4>1, <4>2, RecordRunningStep DEF Loading, Loaded
    <3>7. CASE ~(b < scenario.batches)
      <4>1. RecordRunning(w, "beat", "ready", b + 1)
        BY <2>5, <3>7 DEF BatchCheckpoint
      <4>2. \A a \in Batches : a < b + 1
        BY <2>1, <2>2, <3>2, <3>7
      <4> QED
        BY <3>3, <3>4, <3>5, <4>1, <4>2, RecordRunningStep DEF Loading, Loaded
    <3> QED
      BY <3>6, <3>7
  <2>6. CASE MetadataReady(w)
    <3>1. RecordRunning(w, "ready", "publish", call[w].batch) /\ call[w].at = "ready"
      BY <2>6 DEF MetadataReady, RecordRunning
    <3>2. {"ready", "publish"} \subseteq After /\ \A a \in Batches : obs[a] >= 1
      BY <1>1, <3>1 DEF CallSafe, FramesSafe, After, Loaded
    <3> QED
      BY <2>1, <3>1, <3>2, RecordRunningStep DEF Loading, Loaded
  <2> QED
    BY <1>9, <2>3, <2>4, <2>5, <2>6
<1> QED
  BY <1>2, <1>3, <1>4, <1>5, <1>6, <1>7, <1>8, <1>9, BootMergeStep, BootCommitStep, BootCheckStep, FlushStep, PublishStep
     DEF Ingest

-----------------------------------------------------------------------------
\* Retention and holds.

ReadAll(k, S, I) == [k EXCEPT !.at = "rows", !.read = S, !.ids = I]
ReadAgain(k, S) == [k EXCEPT !.at = "holds", !.resolved = S]
Decided(k) == [k EXCEPT !.at = "delete", !.read = {}, !.resolved = {}]
Remaining(k, I) == [k EXCEPT !.ids = I]

LEMMA PassFields ==
    ASSUME NEW k \in PassState
    PROVE  /\ \A S \in SUBSET Nat, I \in SUBSET Nat : ReadAll(k, S, I) \in PassState
           /\ \A S \in SUBSET Nat : ReadAgain(k, S) \in PassState
           /\ Decided(k) \in PassState
           /\ \A I \in SUBSET Nat : Remaining(k, I) \in PassState
           /\ NoPass("ended") \in PassState
<1>1. ASSUME NEW S \in SUBSET Nat, NEW I \in SUBSET Nat PROVE ReadAll(k, S, I) \in PassState
  <2> DEFINE l == [k EXCEPT !.at = "rows"]
             m == [l EXCEPT !.read = S]
  <2>1. l \in PassState
    BY DEF PassState
  <2> HIDE DEF l
  <2>2. m \in PassState
    BY <2>1 DEF PassState
  <2> HIDE DEF m
  <2>3. [m EXCEPT !.ids = I] \in PassState
    BY <2>2 DEF PassState
  <2> QED
    BY <2>3 DEF l, m, ReadAll
<1>2. ASSUME NEW S \in SUBSET Nat PROVE ReadAgain(k, S) \in PassState
  <2> DEFINE l == [k EXCEPT !.at = "holds"]
  <2>1. l \in PassState
    BY DEF PassState
  <2> HIDE DEF l
  <2>2. [l EXCEPT !.resolved = S] \in PassState
    BY <2>1 DEF PassState
  <2> QED
    BY <2>2 DEF l, ReadAgain
<1>3. Decided(k) \in PassState
  <2> DEFINE l == [k EXCEPT !.at = "delete"]
             m == [l EXCEPT !.read = {}]
  <2>1. l \in PassState
    BY DEF PassState
  <2> HIDE DEF l
  <2>2. m \in PassState
    BY <2>1 DEF PassState
  <2> HIDE DEF m
  <2>3. [m EXCEPT !.resolved = {}] \in PassState
    BY <2>2 DEF PassState
  <2> QED
    BY <2>3 DEF l, m, Decided
<1>4. ASSUME NEW I \in SUBSET Nat PROVE Remaining(k, I) \in PassState
  BY DEF PassState, Remaining
<1>5. NoPass("ended") \in PassState
  BY DEF NoPass, PassState
<1> QED
  BY <1>1, <1>2, <1>3, <1>4, <1>5

LEMMA PassUpdate ==
    ASSUME pass \in [Retainers -> PassState], NEW r \in Retainers, NEW k \in PassState,
           pass' = [pass EXCEPT ![r] = k]
    PROVE  pass' \in [Retainers -> PassState]
  OBVIOUS

\* Without passes nothing is deleted; deletions do not touch the rows a call relies on.
LEMMA RetainStep ==
    ASSUME IInv, NEW r \in Retainers, Retain(r)
    PROVE  IInv'
<1>1. /\ pass \in [Retainers -> PassState] /\ pass[r] \in PassState /\ gone \in SUBSET Nat
      /\ rows \in Seq(Row) /\ scenario.passes \in Nat
  BY ScenarioAssumption DEF IInv, TypeOK
<1>2. Live \in SUBSET Nat /\ \A S \in SUBSET Live : {rows[q].index : q \in S} \in SUBSET Nat
  <2>1. \A q \in DOMAIN rows : q \in Nat /\ rows[q] \in Row
    BY <1>1
  <2>2. \A q \in DOMAIN rows : rows[q].index \in Nat
    BY <2>1 DEF Row
  <2> QED
    BY <2>1, <2>2 DEF Live
<1>3. UNCHANGED <<scenario, rows, obs, transform, call, claims, holds>>
  BY DEF Retain, ReadHistory, ReadRowsAgain, ResolveHolds, DeleteChunk, RetentionDies, ingest
<1>4. scenario.passes # 0
  <2>1. ASSUME scenario.passes = 0 PROVE FALSE
    <3>1. \A q \in Retainers : pass[q].at = "idle"
      BY <2>1 DEF IInv, FirstWinner
    <3>2. ReadHistory(r)
      BY <3>1 DEF Retain, ReadRowsAgain, ResolveHolds, DeleteChunk, RetentionDies
    <3>3. {q \in Retainers : pass[q].at # "idle"} = {}
      BY <3>1
    <3>4. Cardinality({q \in Retainers : pass[q].at # "idle"}) < scenario.passes
      BY <3>2 DEF ReadHistory
    <3>5. Cardinality({q \in Retainers : pass[q].at # "idle"}) = 0
      BY <3>3, FS_EmptySet
    <3> QED
      BY <2>1, <3>4, <3>5
  <2> QED
    BY <2>1
<1>5. pass' \in [Retainers -> PassState] /\ gone' \in SUBSET Nat
  <2>1. CASE ReadHistory(r)
    <3>1. PICK S \in SUBSET Nat, I \in SUBSET Nat : pass' = [pass EXCEPT ![r] = ReadAll(pass[r], S, I)]
      <4>1. PICK s \in Selections :
              pass' = [pass EXCEPT ![r].at = "rows", ![r].read = Live,
                         ![r].ids = {rows[q].index : q \in Live} \
                              {rows[LastOf({q \in Live : rows[q].status \in Terminal \cap s})].index}]
        BY <2>1 DEF ReadHistory
      <4> DEFINE I == {rows[q].index : q \in Live} \
                        {rows[LastOf({q \in Live : rows[q].status \in Terminal \cap s})].index}
      <4>2. I \in SUBSET Nat
        BY <1>2
      <4>3. pass' = [pass EXCEPT ![r] = ReadAll(pass[r], Live, I)]
        BY <4>1 DEF ReadAll
      <4> QED
        BY <1>2, <4>2, <4>3
    <3>2. UNCHANGED gone
      BY <2>1 DEF ReadHistory
    <3> QED
      BY <1>1, <3>1, <3>2, PassFields, PassUpdate
  <2>2. CASE ReadRowsAgain(r)
    <3>1. pass' = [pass EXCEPT ![r] = ReadAgain(pass[r], Live)] /\ UNCHANGED gone
      BY <2>2 DEF ReadRowsAgain, ReadAgain
    <3> QED
      BY <1>1, <1>2, <3>1, PassFields, PassUpdate
  <2>3. CASE ResolveHolds(r)
    <3>1. PICK k \in {NoPass("ended"), Decided(pass[r])} : pass' = [pass EXCEPT ![r] = k] /\ UNCHANGED gone
      BY <2>3 DEF ResolveHolds, Decided
    <3> QED
      BY <1>1, <3>1, PassFields, PassUpdate
  <2>4. CASE DeleteChunk(r)
    <3> DEFINE id == CHOOSE i \in pass[r].ids : \A j \in pass[r].ids : i <= j
               rest == pass[r].ids \ {id}
    <3>1. rest \in SUBSET Nat
      BY <1>1 DEF PassState
    <3>2. gone' \in SUBSET Nat
      BY <1>1, <1>2, <2>4 DEF DeleteChunk
    <3>3. pass' = [pass EXCEPT ![r] = IF rest = {} THEN NoPass("ended") ELSE Remaining(pass[r], rest)]
      BY <2>4 DEF DeleteChunk, Remaining
    <3> HIDE DEF rest
    <3>4. PICK k \in {NoPass("ended"), Remaining(pass[r], rest)} : pass' = [pass EXCEPT ![r] = k]
      BY <3>3
    <3> QED
      BY <1>1, <3>1, <3>2, <3>4, PassFields, PassUpdate
  <2>5. CASE RetentionDies(r)
    <3>1. pass' = [pass EXCEPT ![r] = NoPass("ended")] /\ UNCHANGED gone
      BY <2>5 DEF RetentionDies
    <3> QED
      BY <1>1, <3>1, PassFields, PassUpdate
  <2> QED
    BY <2>1, <2>2, <2>3, <2>4, <2>5 DEF Retain
<1>6. TypeOK'
  BY <1>3, <1>5 DEF IInv, TypeOK, Batches
<1>7. CallsSafe' /\ OneRowPerToken' /\ SwapWinners' /\ PublishedIsComplete'
  BY <1>3 DEF IInv, CallsSafe, CallSafe, Behind, FramesSafe, SeenRow, First, Batches,
              OneRowPerToken, SwapWinners, PublishedIsComplete
<1>8. FirstWinner'
  BY <1>3, <1>4 DEF FirstWinner
<1> QED
  BY <1>6, <1>7, <1>8 DEF IInv

LEMMA AuditStep ==
    ASSUME IInv, NEW h \in Auditors, Audit(h)
    PROVE  IInv'
<1>1. UNCHANGED <<scenario, rows, obs, transform, call, claims, gone, pass>>
  BY DEF Audit, HoldSelect, HoldPut, HoldRelease, ingest
<1>2. holds \in [Auditors -> HoldState]
  BY DEF IInv, TypeOK
<1>3. holds' \in [Auditors -> HoldState]
  <2>1. CASE HoldSelect(h)
    <3>1. PICK s \in Selections : holds' = [holds EXCEPT ![h] = [at |-> "put", statuses |-> s]]
      BY <2>1 DEF HoldSelect
    <3>2. [at |-> "put", statuses |-> s] \in HoldState
      BY SelectionAssumption DEF HoldState
    <3> QED
      BY <1>2, <3>1, <3>2
  <2>2. CASE HoldPut(h) \/ HoldRelease(h)
    <3>1. PICK label \in {"active", "released"} : holds' = [holds EXCEPT ![h].at = label]
      BY <2>2 DEF HoldPut, HoldRelease
    <3>2. [holds[h] EXCEPT !.at = label] \in HoldState
      BY <1>2 DEF HoldState
    <3> QED
      BY <1>2, <3>1, <3>2
  <2> QED
    BY <2>1, <2>2 DEF Audit
<1> QED
  BY <1>1, <1>3 DEF IInv, TypeOK, CallsSafe, CallSafe, Behind, FramesSafe, SeenRow, First, Batches,
                    OneRowPerToken, SwapWinners, FirstWinner, PublishedIsComplete, Live

-----------------------------------------------------------------------------

LEMMA Inductive == IInv /\ [Next]_vars => IInv'
<1> SUFFICES ASSUME IInv, [Next]_vars PROVE IInv'
  OBVIOUS
<1>1. ASSUME NEW w \in Workers, Ingest(w) PROVE IInv'
  BY <1>1, IngestStep
<1>2. ASSUME NEW o \in Operators, Recover(o) PROVE IInv'
  BY <1>2, RecoverStep
<1>3. ASSUME NEW c \in Calls, WinSwap(c) PROVE IInv'
  BY <1>3, WinSwapStep
<1>4. ASSUME NEW c \in Calls, LoseSwap(c) \/ Crash(c) PROVE IInv'
  <2>1. End(c) /\ UNCHANGED <<scenario, rows, obs, transform, claims, gone, pass, holds>>
    BY <1>4 DEF LoseSwap, Crash, env
  <2> QED
    BY <2>1, EndStep
<1>5. ASSUME NEW r \in Retainers, Retain(r) PROVE IInv'
  BY <1>5, RetainStep
<1>6. ASSUME NEW h \in Auditors, Audit(h) PROVE IInv'
  BY <1>6, AuditStep
<1>7. CASE UNCHANGED vars
  BY <1>7 DEF vars, ingest, IInv, TypeOK, CallsSafe, CallSafe, Behind, FramesSafe, SeenRow, First, Batches,
              OneRowPerToken, SwapWinners, FirstWinner, PublishedIsComplete
<1> QED
  BY <1>1, <1>2, <1>3, <1>4, <1>5, <1>6, <1>7 DEF Next

LEMMA Initially == Init => IInv
<1> SUFFICES ASSUME Init PROVE IInv
  OBVIOUS
<1>1. scenario \in Scenarios /\ scenario.batches \in Nat \ {0}
  BY ScenarioAssumption DEF Init
<1>2. /\ rows \in Seq(Row) /\ OneRowPerToken
      /\ \A q \in DOMAIN rows : rows[q].token = Past
  <2> DEFINE a == Checkpoint(0, "running", Past, 1)
             b == Checkpoint(1, "failed", Past, 2)
  <2>1. /\ a \in Row /\ a.index = 0 /\ a.token = Past
        /\ b \in Row /\ b.index = 1 /\ b.token = Past
    BY DEF Checkpoint, Row, Tokens, Statuses, Terminal
  <2> HIDE DEF a, b
  <2>2. CASE rows = << >>
    BY <2>2 DEF OneRowPerToken
  <2>3. CASE rows = <<a, b>>
    <3>1. rows \in Seq(Row) /\ DOMAIN rows = {1, 2} /\ rows[1] = a /\ rows[2] = b
      BY <2>1, <2>3
    <3> QED
      BY <2>1, <3>1 DEF OneRowPerToken
  <2> QED
    BY <2>2, <2>3 DEF Init, a, b
<1>3. /\ NoCall("idle") \in Local /\ NoCall("idle").at = "idle" /\ NoCall("idle").known = {}
      /\ NoCall("idle").batch = 1
  BY DEF NoCall, Local, Labels, Before, Expectations, Batch
<1>4. call \in [Calls -> Local] /\ \A c \in Calls : call[c] = NoCall("idle")
  BY <1>3 DEF Init
<1>5. obs \in [Batches -> Nat]
  BY DEF Init
<1>6. TypeOK
  <2>1. pass \in [Retainers -> PassState]
    BY DEF Init, NoPass, PassState
  <2>2. holds \in [Auditors -> HoldState]
    BY DEF Init, HoldState
  <2> QED
    BY <1>1, <1>2, <1>4, <1>5, <2>1, <2>2 DEF Init, TypeOK
<1>7. CallsSafe
  <2>1. ASSUME NEW c \in Calls PROVE CallSafe(c, call[c])
    <3>1. Behind(c, call[c])
      BY <1>2, CallAssumption DEF Behind, Calls
    <3>2. FramesSafe(call[c]) /\ SeenRow(c, call[c]) /\ First(call[c])
      BY <1>3, <1>4 DEF FramesSafe, SeenRow, First, Loading, Loaded
    <3> QED
      BY <3>1, <3>2 DEF CallSafe
  <2> QED
    BY <2>1 DEF CallsSafe
<1>8. SwapWinners /\ FirstWinner /\ PublishedIsComplete
  BY DEF Init, SwapWinners, FirstWinner, PublishedIsComplete, NoPass
<1> QED
  BY <1>2, <1>6, <1>7, <1>8 DEF IInv

LEMMA Invariance == Spec => []IInv
  BY Initially, Inductive, PTL DEF Spec

-----------------------------------------------------------------------------

\* The variables of a job keep their types in every scenario.
THEOREM TypeCorrect == Spec => []TypeOK
<1>1. IInv => TypeOK
  BY DEF IInv
<1> QED
  BY <1>1, Invariance, PTL

\* ingest_lerobot: a job that is published has every frame batch in the lake, whatever
\* fails, dies, is recovered, resumed or compacted, in every scenario.
THEOREM NothingMissing == Spec => []PublishedIsComplete
<1>1. IInv => PublishedIsComplete
  BY DEF IInv
<1> QED
  BY <1>1, Invariance, PTL

\* _lerobot_claim_cas_supersede: of the claims and recoveries that start from one
\* checkpoint row at most one succeeds, in every scenario, retention included.
THEOREM OneSwapWinner == Spec => [](\A x, y \in claims : x[2] = y[2] /\ x[2] # 0 => x[1] = y[1])
<1>1. IInv => \A x, y \in claims : x[2] = y[2] /\ x[2] # 0 => x[1] = y[1]
  BY DEF IInv, SwapWinners
<1> QED
  BY <1>1, Invariance, PTL

\* Exactly one caller wins, first claims included, as long as retention does not delete
\* the row of a first claim before the next one reads back its own.
THEOREM OneCallerWins == Spec => [](scenario.passes = 0 => OneWinnerPerRow)
<1>1. IInv => (scenario.passes = 0 => OneWinnerPerRow)
  <2> SUFFICES ASSUME IInv, scenario.passes = 0, NEW x \in claims, NEW y \in claims, x[2] = y[2]
               PROVE  x[1] = y[1]
    BY DEF OneWinnerPerRow
  <2>1. CASE x[2] = 0
    BY <2>1 DEF IInv, FirstWinner
  <2>2. CASE x[2] # 0
    BY <2>2 DEF IInv, SwapWinners
  <2> QED
    BY <2>1, <2>2
<1> QED
  BY <1>1, Invariance, PTL

-----------------------------------------------------------------------------
(***************************************************************************)
(* What retention leaves, in every scenario, as long as a checkpoint_id    *)
(* tells the rows apart.                                                   *)
(***************************************************************************)

\* The rows that a pass would delete now.
Doomed(r) == {q \in Live : rows[q].index \in pass[r].ids}

\* A pass has no row in its ids that it has not read, ...
ReadsFirst(r) ==
    /\ \A i \in pass[r].ids : \E q \in DOMAIN rows : rows[q].index = i
    /\ pass[r].at \in {"rows", "holds"} =>
          \A i \in pass[r].ids : \E q \in pass[r].read \cap DOMAIN rows : rows[q].index = i

\* ... never the latest row, and no row that an active hold selects once it has resolved
\* the holds.
Spares(r) ==
    /\ Latest \notin Doomed(r)
    /\ pass[r].at = "holds" => Doomed(r) \subseteq pass[r].resolved
    /\ pass[r].at = "delete" => pass[r].ids # {}
    /\ pass[r].at = "delete" =>
          \A q \in Doomed(r), h \in Auditors :
              holds[h].at = "active" => rows[q].status \notin holds[h].statuses

RetentionSafe ==
    /\ gone \subseteq DOMAIN rows
    /\ UniqueIds =>
          /\ Latest = 0 => rows = << >>
          /\ \A r \in Retainers : ReadsFirst(r) /\ Spares(r)

\* What a step of a call does to the rows: it may append one, or mark some superseded.
Marks ==
    /\ DOMAIN rows' = DOMAIN rows
    /\ \A q \in DOMAIN rows : /\ rows'[q].index = rows[q].index
                              /\ rows'[q].token = rows[q].token
                              /\ rows'[q].status = rows[q].status
                              /\ rows'[q].updated_at = rows[q].updated_at

Adds == \E r \in Row : rows' = Append(rows, r)

LEMMA WinSwapMarks ==
    ASSUME IInv, NEW c \in Calls, WinSwap(c)
    PROVE  Marks
<1>1. rows \in Seq(Row) /\ call[c].index \in Nat
  BY DEF IInv, TypeOK, Local
<1>2. \A q \in DOMAIN rows : rows[q] \in Row
  BY <1>1
<1> DEFINE n(q) == [rows[q] EXCEPT !.superseded = call[c].index]
<1>3. \A q \in DOMAIN rows : /\ n(q).index = rows[q].index /\ n(q).token = rows[q].token
                             /\ n(q).status = rows[q].status /\ n(q).updated_at = rows[q].updated_at
  BY <1>2 DEF Row
<1>4. DOMAIN rows' = DOMAIN rows /\ \A q \in DOMAIN rows : rows'[q] = rows[q] \/ rows'[q] = n(q)
  BY DEF WinSwap
<1> HIDE DEF n
<1> QED
  BY <1>3, <1>4 DEF Marks

LEMMA CallRows ==
    ASSUME IInv, IInv',
           \/ \E w \in Workers : Ingest(w)
           \/ \E o \in Operators : Recover(o)
           \/ \E c \in Calls : WinSwap(c) \/ LoseSwap(c) \/ Crash(c)
    PROVE  /\ UNCHANGED <<scenario, gone, pass, holds>>
           /\ Marks \/ Adds
<1>1. rows' \in Seq(Row) /\ rows \in Seq(Row)
  BY DEF IInv, TypeOK
<1>2. ASSUME NEW r, rows' = Append(rows, r) PROVE Adds
  <2>1. rows'[Len(rows) + 1] = r /\ Len(rows) + 1 \in DOMAIN rows'
    BY <1>1, <1>2
  <2> QED
    BY <1>1, <1>2, <2>1 DEF Adds
<1>3. rows' = rows => Marks
  BY DEF Marks
<1>4. ASSUME NEW w \in Workers, Ingest(w)
      PROVE  UNCHANGED env /\ (rows' = rows \/ \E r : rows' = Append(rows, r))
  BY <1>4 DEF Ingest, Start, Precheck, CheckDone, ReuseIndex, ReuseAppend, CheckClaimable, Snapshot, ReadIndex,
              Reread, AppendClaim, BootMerge, BootCommit, BootCheck, MediaCheckpoint, FlushBatch, BatchCheckpoint,
              MetadataReady, Publish, Complete, Fail, TakeIndex, RecordLast, RecordRunning, Record
<1>5. ASSUME NEW o \in Operators, Recover(o)
      PROVE  UNCHANGED env /\ (rows' = rows \/ \E r : rows' = Append(rows, r))
  BY <1>5 DEF Recover, RecoverRead, RecoverIndex, RecoverAppend, TakeIndex
<1>6. ASSUME NEW c \in Calls, WinSwap(c) PROVE UNCHANGED env /\ Marks
  BY <1>6, WinSwapMarks DEF WinSwap
<1>7. ASSUME NEW c \in Calls, LoseSwap(c) \/ Crash(c) PROVE UNCHANGED env /\ rows' = rows
  BY <1>7 DEF LoseSwap, Crash
<1> QED
  BY <1>2, <1>3, <1>4, <1>5, <1>6, <1>7 DEF env

\* LatestRow, LatestSortsLast and LatestIs, as a formula that can be primed.
LatestFacts ==
    TypeOK =>
        /\ Latest = 0 <=> Live = {}
        /\ Latest # 0 => Latest \in Live /\ \A q \in Live : SortsBefore(rows[q], rows[Latest])
        /\ \A p \in Live : (\A q \in Live \ {p} : ~SortsBefore(rows[p], rows[q])) => Latest = p
        /\ \A q \in DOMAIN rows : q # 0 /\ rows[q].index \in Nat /\ rows[q].updated_at \in Nat

LEMMA LatestFactsHold == LatestFacts /\ LatestFacts'
<1>1. LatestFacts
  <2> SUFFICES ASSUME TypeOK
               PROVE  /\ Latest = 0 <=> Live = {}
                      /\ Latest # 0 => Latest \in Live /\ \A q \in Live : SortsBefore(rows[q], rows[Latest])
                      /\ \A p \in Live : (\A q \in Live \ {p} : ~SortsBefore(rows[p], rows[q])) => Latest = p
                      /\ \A q \in DOMAIN rows : q # 0 /\ rows[q].index \in Nat /\ rows[q].updated_at \in Nat
    BY DEF LatestFacts
  <2>1. \A q \in DOMAIN rows : q # 0 /\ rows[q] \in Row
    BY DEF TypeOK
  <2>2. Live = {} => Latest = 0
    BY DEF Latest
  <2> QED
    BY <2>1, <2>2, LatestRow, LatestSortsLast, LatestIs DEF Row
<1> QED
  BY <1>1, PTL

LEMMA SafeMarks ==
    ASSUME TypeOK, TypeOK', RetentionSafe, Marks, UNCHANGED <<gone, pass, holds>>
    PROVE  RetentionSafe'
<1>1. Live' = Live /\ Live \subseteq DOMAIN rows /\ (UniqueIds' => UniqueIds)
  BY DEF Marks, Live, UniqueIds
<1>2. ASSUME UniqueIds PROVE Latest' = Latest
  <2>1. CASE Live = {}
    BY <1>1, <2>1, LatestFactsHold DEF LatestFacts
  <2>2. CASE Live # {}
    <3>1. Latest \in Live /\ \A q \in Live : SortsBefore(rows[q], rows[Latest])
      BY <2>2, LatestFactsHold DEF LatestFacts
    <3>2. \A q \in DOMAIN rows : rows[q].index \in Nat /\ rows[q].updated_at \in Nat
      BY LatestFactsHold DEF LatestFacts
    <3>3. \A q \in Live \ {Latest} : ~SortsBefore(rows[Latest], rows[q])
      BY <1>1, <1>2, <3>1, <3>2 DEF SortsBefore, UniqueIds
    <3>4. \A q \in Live' \ {Latest} : ~SortsBefore(rows'[Latest], rows'[q])
      BY <1>1, <3>1, <3>3 DEF SortsBefore, Marks
    <3> QED
      BY <1>1, <3>1, <3>4, LatestFactsHold DEF LatestFacts
  <2> QED
    BY <2>1, <2>2
<1>3. \A r \in Retainers : Doomed(r)' = Doomed(r)
  BY <1>1 DEF Doomed, Marks
<1>4. rows = << >> => rows' = << >>
  BY DEF Marks, TypeOK
<1>5. ASSUME UniqueIds', NEW r \in Retainers PROVE ReadsFirst(r)' /\ Spares(r)'
  <2>1. ReadsFirst(r) /\ Spares(r) /\ UniqueIds
    BY <1>1, <1>5 DEF RetentionSafe
  <2>2. ReadsFirst(r)'
    BY <2>1 DEF ReadsFirst, Marks
  <2>3. \A q \in Doomed(r) : rows'[q].status = rows[q].status
    BY <1>1 DEF Marks, Doomed
  <2>4. Spares(r)'
    BY <1>2, <1>3, <2>1, <2>3 DEF Spares
  <2> QED
    BY <2>2, <2>4
<1> QED
  BY <1>1, <1>2, <1>4, <1>5 DEF RetentionSafe, Marks

\* A row whose id is new becomes the latest or leaves it as it is; no pass looks for it.
LEMMA SafeAdds ==
    ASSUME TypeOK, TypeOK', RetentionSafe, Adds, UNCHANGED <<gone, pass, holds>>
    PROVE  RetentionSafe'
<1>1. PICK a \in Row : rows' = Append(rows, a)
  BY DEF Adds
<1>2. rows \in Seq(Row)
  BY DEF TypeOK
<1>3. PICK n \in Nat \ {0} : n \notin DOMAIN rows /\ rows'[n] = a /\ DOMAIN rows' = DOMAIN rows \cup {n}
  BY <1>1, <1>2, NewRow
<1>4. \A q \in DOMAIN rows : rows'[q] = rows[q]
  BY <1>1, <1>2, NewRow
<1>5. gone' \subseteq DOMAIN rows' /\ Live \subseteq DOMAIN rows /\ Live' = Live \cup {n}
  BY <1>3 DEF Live, RetentionSafe
<1>6. ASSUME UniqueIds'
      PROVE  /\ Latest' # 0
             /\ \A r \in Retainers : ReadsFirst(r)' /\ Spares(r)'
  <2>1. UniqueIds /\ \A q \in DOMAIN rows : rows[q].index # a.index
    BY <1>3, <1>4, <1>6 DEF UniqueIds
  <2>2. \A r \in Retainers : ReadsFirst(r) /\ Spares(r)
    BY <2>1 DEF RetentionSafe
  <2>3. Latest' \in {Latest, n} /\ Latest' # 0
    <3>1. \A q \in DOMAIN rows : rows[q].index \in Nat /\ rows[q].updated_at \in Nat
      BY LatestFactsHold DEF LatestFacts
    <3>2. a.index \in Nat /\ a.updated_at \in Nat
      BY DEF Row
    <3>3. CASE Live = {}
      BY <1>3, <1>5, <3>3, LatestFactsHold DEF LatestFacts
    <3>4. CASE Live # {} /\ SortsBefore(rows[Latest], a)
      <4>1. Latest \in Live /\ \A q \in Live : SortsBefore(rows[q], rows[Latest])
        BY <3>4, LatestFactsHold DEF LatestFacts
      <4>2. \A q \in Live : ~SortsBefore(a, rows[q])
        BY <1>5, <2>1, <3>1, <3>2, <3>4, <4>1 DEF SortsBefore
      <4>3. \A q \in Live' \ {n} : ~SortsBefore(rows'[n], rows'[q])
        BY <1>3, <1>4, <1>5, <4>2
      <4> QED
        BY <1>3, <1>5, <4>3, LatestFactsHold DEF LatestFacts
    <3>5. CASE Live # {} /\ ~SortsBefore(rows[Latest], a)
      <4>1. Latest # 0 /\ Latest \in Live /\ \A q \in Live : SortsBefore(rows[q], rows[Latest])
        BY <3>5, LatestFactsHold DEF LatestFacts
      <4>2. \A q \in Live \ {Latest} : ~SortsBefore(rows[Latest], rows[q])
        BY <1>5, <2>1, <3>1, <4>1 DEF SortsBefore, UniqueIds
      <4>3. \A q \in Live' \ {Latest} : ~SortsBefore(rows'[Latest], rows'[q])
        BY <1>3, <1>4, <1>5, <3>5, <4>1, <4>2
      <4> QED
        BY <1>5, <4>1, <4>3, LatestFactsHold DEF LatestFacts
    <3> QED
      BY <3>3, <3>4, <3>5
  <2>4. ASSUME NEW r \in Retainers PROVE ReadsFirst(r)' /\ Spares(r)'
    <3>1. ReadsFirst(r) /\ Spares(r)
      BY <2>2
    <3>2. ReadsFirst(r)'
      BY <1>3, <1>4, <3>1 DEF ReadsFirst
    <3>3. a.index \notin pass[r].ids
      BY <2>1, <3>1 DEF ReadsFirst
    <3>4. Doomed(r)' = Doomed(r) /\ n \notin Doomed(r)
      BY <1>3, <1>4, <1>5, <3>3 DEF Doomed
    <3>5. \A q \in Doomed(r) : rows'[q].status = rows[q].status
      BY <1>4, <1>5 DEF Doomed
    <3>6. Spares(r)'
      BY <2>3, <3>1, <3>4, <3>5 DEF Spares
    <3> QED
      BY <3>2, <3>6
  <2> QED
    BY <2>3, <2>4
<1> QED
  BY <1>5, <1>6 DEF RetentionSafe

\* The id that DeleteChunk takes is one that the pass has still to delete.
LEMMA NextId ==
    ASSUME TypeOK, NEW r \in Retainers, ReadsFirst(r), pass[r].ids # {}
    PROVE  (CHOOSE i \in pass[r].ids : \A j \in pass[r].ids : i <= j) \in pass[r].ids
<1>1. DOMAIN rows = 1 .. Len(rows) /\ Len(rows) \in Nat /\ \A q \in DOMAIN rows : rows[q] \in Row
  BY DEF TypeOK
<1>2. IsFiniteSet({rows[q].index : q \in DOMAIN rows})
  <2>1. IsFiniteSet(DOMAIN rows)
    BY <1>1, FS_Interval
  <2> DEFINE T == {rows[q].index : q \in DOMAIN rows}
             f == [q \in DOMAIN rows |-> rows[q].index]
  <2>2. f \in Surjection(DOMAIN rows, T)
    BY DEF Surjection
  <2> QED
    BY <2>1, <2>2, FS_Surjection
<1>3. pass[r].ids \subseteq {rows[q].index : q \in DOMAIN rows}
  BY DEF ReadsFirst
<1>4. pass[r].ids \in SUBSET Int
  BY <1>1, <1>3 DEF Row
<1>5. \E i \in pass[r].ids : \A j \in pass[r].ids : i <= j
  BY <1>2, <1>3, <1>4, FS_Subset, LeastInteger
<1> QED
  BY <1>5

LEMMA SafeRetain ==
    ASSUME TypeOK, TypeOK', RetentionSafe, NEW r \in Retainers, Retain(r)
    PROVE  /\ RetentionSafe'
           /\ UniqueIds /\ gone' # gone => Latest # 0 /\ Latest' = Latest
           /\ \A q \in gone' \ gone, h \in Auditors :
                  UniqueIds /\ holds[h].at = "active" => rows[q].status \notin holds[h].statuses
<1>1. UNCHANGED <<scenario, rows, holds>> /\ (UniqueIds' <=> UniqueIds)
  BY DEF Retain, ReadHistory, ReadRowsAgain, ResolveHolds, DeleteChunk, RetentionDies, ingest, UniqueIds
<1>2. pass \in [Retainers -> PassState] /\ Live \subseteq DOMAIN rows
  BY DEF TypeOK, Live
<1>3. UniqueIds => \A d \in Retainers : ReadsFirst(d) /\ Spares(d)
  BY DEF RetentionSafe
<1>4. ASSUME UNCHANGED gone, \A d \in Retainers \ {r} : pass'[d] = pass[d],
             UniqueIds => ReadsFirst(r)' /\ Spares(r)'
      PROVE  RetentionSafe'
  <2>1. Live' = Live /\ Latest' = Latest
    BY <1>1, <1>4 DEF Live, Latest, LastOf
  <2>2. ASSUME UniqueIds, NEW d \in Retainers \ {r} PROVE ReadsFirst(d)' /\ Spares(d)'
    BY <1>1, <1>3, <1>4, <2>1, <2>2 DEF ReadsFirst, Spares, Doomed
  <2> QED
    BY <1>1, <1>4, <2>1, <2>2 DEF RetentionSafe
<1>5. ASSUME UNCHANGED gone PROVE Live' = Live /\ Latest' = Latest
  BY <1>1, <1>5 DEF Live, Latest, LastOf
<1>6. CASE ReadHistory(r)
  <2>1. PICK s \in Selections :
          /\ Latest # 0 /\ rows[Latest].status \in Terminal \cap s
          /\ pass' = [pass EXCEPT ![r].at = "rows", ![r].read = Live,
                       ![r].ids = {rows[q].index : q \in Live} \
                            {rows[LastOf({q \in Live : rows[q].status \in Terminal \cap s})].index}]
          /\ UNCHANGED gone
    BY <1>6 DEF ReadHistory
  <2> DEFINE S == {q \in Live : rows[q].status \in Terminal \cap s}
             I == {rows[q].index : q \in Live} \ {rows[LastOf(S)].index}
  <2>2. pass'[r].at = "rows" /\ pass'[r].read = Live /\ pass'[r].ids = I /\ \A d \in Retainers \ {r} : pass'[d] = pass[d]
    BY <1>2, <2>1 DEF PassState
  <2>3. ASSUME UniqueIds PROVE rows[Latest].index \notin I
    <3>1. Latest \in S /\ \A q \in Live : SortsBefore(rows[q], rows[Latest])
      BY <2>1, LatestFactsHold DEF LatestFacts
    <3>2. S \in SUBSET DOMAIN rows /\ S # {}
      BY <1>2, <3>1
    <3> HIDE DEF S
    <3>3. LastOf(S) \in S /\ SortsBefore(rows[Latest], rows[LastOf(S)])
      BY <3>1, <3>2, LastRow
    <3>4. \A q \in DOMAIN rows : rows[q].index \in Nat /\ rows[q].updated_at \in Nat
      BY LatestFactsHold DEF LatestFacts
    <3>5. LastOf(S) \in Live /\ Latest \in Live
      BY <3>1, <3>3 DEF S
    <3>6. rows[LastOf(S)].index = rows[Latest].index
      BY <1>2, <3>1, <3>3, <3>4, <3>5 DEF SortsBefore
    <3> QED
      BY <3>6
  <2>4. ASSUME UniqueIds PROVE ReadsFirst(r)' /\ Spares(r)'
    <3>1. ReadsFirst(r)'
      BY <1>1, <1>2, <2>2 DEF ReadsFirst
    <3>2. Latest' \notin Doomed(r)'
      <4> HIDE DEF I
      <4> QED
        BY <1>1, <1>5, <2>1, <2>2, <2>3, <2>4 DEF Doomed
    <3> QED
      BY <2>2, <3>1, <3>2 DEF Spares
  <2> QED
    BY <1>4, <2>1, <2>2, <2>4
<1>7. CASE ReadRowsAgain(r)
  <2>1. /\ pass[r].at = "rows" /\ UNCHANGED gone /\ pass'[r].at = "holds" /\ pass'[r].resolved = Live
        /\ pass'[r].ids = pass[r].ids /\ pass'[r].read = pass[r].read
        /\ \A d \in Retainers \ {r} : pass'[d] = pass[d]
    BY <1>2, <1>7 DEF ReadRowsAgain, PassState
  <2>2. ASSUME UniqueIds PROVE ReadsFirst(r)' /\ Spares(r)'
    BY <1>1, <1>3, <1>5, <2>1, <2>2 DEF ReadsFirst, Spares, Doomed
  <2> QED
    BY <1>4, <2>1, <2>2
<1>8. ASSUME UNCHANGED gone, pass' = [pass EXCEPT ![r] = NoPass("ended")] PROVE RetentionSafe'
  <2>1. pass'[r].at = "ended" /\ pass'[r].ids = {} /\ \A d \in Retainers \ {r} : pass'[d] = pass[d]
    BY <1>2, <1>8 DEF NoPass
  <2>2. ReadsFirst(r)' /\ Spares(r)'
    BY <2>1 DEF ReadsFirst, Spares, Doomed
  <2> QED
    BY <1>4, <1>8, <2>1, <2>2
<1>9. CASE ResolveHolds(r)
  <2> DEFINE job == {rows[q].index : q \in pass[r].read}
  <2>1. pass[r].at = "holds" /\ UNCHANGED gone
    BY <1>9 DEF ResolveHolds
  <2>2. CASE HeldIds(pass[r].resolved) \cap job # {} \/ pass[r].ids = {}
    BY <1>8, <1>9, <2>1, <2>2 DEF ResolveHolds
  <2>3. CASE HeldIds(pass[r].resolved) \cap job = {} /\ pass[r].ids # {}
    <3>1. pass' = [pass EXCEPT ![r] = [pass[r] EXCEPT !.at = "delete", !.read = {}, !.resolved = {}]]
      BY <1>9, <2>3 DEF ResolveHolds
    <3>2. pass'[r].at = "delete" /\ pass'[r].ids = pass[r].ids /\ \A d \in Retainers \ {r} : pass'[d] = pass[d]
      BY <1>2, <3>1 DEF PassState
    <3>3. ASSUME UniqueIds, NEW q \in Doomed(r), NEW h \in Auditors, holds[h].at = "active",
                 rows[q].status \in holds[h].statuses
          PROVE  FALSE
      <4>1. q \in pass[r].resolved /\ rows[q].index \in pass[r].ids
        BY <1>3, <2>1, <3>3 DEF Spares, Doomed
      <4>2. rows[q].index \in job
        BY <1>3, <2>1, <3>3, <4>1 DEF ReadsFirst
      <4>3. rows[q].index \in HeldIds(pass[r].resolved)
        BY <3>3, <4>1 DEF HeldIds
      <4> QED
        BY <2>3, <4>2, <4>3
    <3>4. Doomed(r)' = Doomed(r)
      BY <1>1, <1>5, <2>1, <3>2 DEF Doomed
    <3>5. ASSUME UniqueIds PROVE ReadsFirst(r)' /\ Spares(r)'
      <4>1. ReadsFirst(r)'
        BY <1>1, <1>3, <3>2, <3>5 DEF ReadsFirst
      <4>2. Spares(r)'
        BY <1>1, <1>3, <1>5, <2>1, <2>3, <3>2, <3>3, <3>4, <3>5 DEF Spares
      <4> QED
        BY <4>1, <4>2
    <3> QED
      BY <1>4, <2>1, <3>2, <3>5
  <2> QED
    BY <2>2, <2>3
<1>10. CASE DeleteChunk(r)
  <2> DEFINE id == CHOOSE i \in pass[r].ids : \A j \in pass[r].ids : i <= j
             rest == pass[r].ids \ {id}
             del == {q \in Live : rows[q].index = id}
  <2>1. /\ pass[r].at = "delete" /\ gone' = gone \cup del
        /\ pass' = [pass EXCEPT ![r] = IF rest = {} THEN NoPass("ended") ELSE [pass[r] EXCEPT !.ids = rest]]
    BY <1>10 DEF DeleteChunk
  <2>2. UniqueIds => id \in pass[r].ids
    BY <1>3, <2>1, NextId DEF Spares
  <2> HIDE DEF id
  <2>3. UniqueIds => del \subseteq Doomed(r)
    BY <2>2 DEF Doomed
  <2>4. /\ pass'[r].ids = rest /\ \A d \in Retainers \ {r} : pass'[d] = pass[d]
        /\ pass'[r].at = "ended" \/ (pass'[r].at = "delete" /\ rest # {})
    <3>1. [pass[r] EXCEPT !.ids = rest].ids = rest /\ [pass[r] EXCEPT !.ids = rest].at = "delete"
      BY <1>2, <2>1 DEF PassState
    <3>2. NoPass("ended").ids = {} /\ NoPass("ended").at = "ended"
      BY DEF NoPass
    <3>3. rest = {} => pass'[r] = NoPass("ended")
      BY <1>2, <2>1
    <3>4. rest # {} => pass'[r] = [pass[r] EXCEPT !.ids = rest]
      BY <1>2, <2>1
    <3> HIDE DEF rest
    <3>5. pass'[r].ids = rest /\ (pass'[r].at = "ended" \/ (pass'[r].at = "delete" /\ rest # {}))
      <4>1. CASE rest = {}
        BY <3>2, <3>3, <4>1
      <4>2. CASE rest # {}
        BY <3>1, <3>4, <4>2
      <4> QED
        BY <4>1, <4>2
    <3> QED
      BY <1>2, <2>1, <3>5
  <2>5. Live' = Live \ del /\ gone' \subseteq DOMAIN rows'
    BY <1>1, <1>2, <2>1 DEF Live, RetentionSafe
  <2>6. ASSUME UniqueIds PROVE Latest' = Latest /\ (Latest = 0 => del = {})
    <3>1. CASE Latest = 0
      BY <2>5, <3>1, LatestFactsHold DEF LatestFacts
    <3>2. CASE Latest # 0
      <4>1. Latest \in Live /\ \A q \in Live : SortsBefore(rows[q], rows[Latest])
        BY <3>2, LatestFactsHold DEF LatestFacts
      <4>2. \A q \in DOMAIN rows : rows[q].index \in Nat /\ rows[q].updated_at \in Nat
        BY LatestFactsHold DEF LatestFacts
      <4>3. \A q \in Live \ {Latest} : ~SortsBefore(rows[Latest], rows[q])
        BY <1>2, <2>6, <4>1, <4>2 DEF SortsBefore, UniqueIds
      <4>4. Latest \notin del
        BY <1>3, <2>3, <2>6 DEF Spares
      <4>5. Latest \in Live' /\ \A q \in Live' \ {Latest} : ~SortsBefore(rows'[Latest], rows'[q])
        BY <1>1, <2>5, <4>1, <4>3, <4>4
      <4> QED
        BY <3>2, <4>5, LatestFactsHold DEF LatestFacts
    <3> QED
      BY <3>1, <3>2
  <2>7. \A d \in Retainers : Doomed(d)' \subseteq Doomed(d)
    BY <1>1, <2>4, <2>5 DEF Doomed
  <2>8. ASSUME UniqueIds, NEW d \in Retainers PROVE ReadsFirst(d)' /\ Spares(d)'
    <3>1. ReadsFirst(d) /\ Spares(d)
      BY <1>3, <2>8
    <3>2. ReadsFirst(d)'
      BY <1>1, <2>4, <3>1 DEF ReadsFirst
    <3>3. Spares(d)'
      <4>1. CASE d = r
        BY <1>1, <2>1, <2>4, <2>6, <2>7, <2>8, <3>1, <4>1 DEF Spares
      <4>2. CASE d # r
        BY <1>1, <2>4, <2>6, <2>7, <2>8, <3>1, <4>2 DEF Spares
      <4> QED
        BY <4>1, <4>2
    <3> QED
      BY <3>2, <3>3
  <2>9. RetentionSafe'
    BY <1>1, <2>5, <2>6, <2>8 DEF RetentionSafe
  <2>10. ASSUME NEW q \in gone' \ gone, NEW h \in Auditors, UniqueIds, holds[h].at = "active"
         PROVE  rows[q].status \notin holds[h].statuses
    BY <1>3, <2>1, <2>3, <2>10 DEF Spares
  <2>11. UniqueIds /\ gone' # gone => Latest # 0 /\ Latest' = Latest
    BY <2>1, <2>6
  <2> QED
    BY <2>9, <2>10, <2>11
<1>11. CASE RetentionDies(r)
  BY <1>8, <1>11 DEF RetentionDies
<1>12. ReadHistory(r) \/ ReadRowsAgain(r) \/ ResolveHolds(r) \/ RetentionDies(r) => UNCHANGED gone
  BY DEF ReadHistory, ReadRowsAgain, ResolveHolds, RetentionDies
<1> QED
  BY <1>6, <1>7, <1>9, <1>10, <1>11, <1>12 DEF Retain

\* A hold is not written while a pass deletes.
LEMMA SafeAudit ==
    ASSUME TypeOK, RetentionSafe, NEW h \in Auditors, Audit(h)
    PROVE  RetentionSafe'
<1>1. UNCHANGED <<rows, gone, pass>> /\ Live' = Live /\ Latest' = Latest /\ holds \in [Auditors -> HoldState]
  <2>1. UNCHANGED <<rows, gone, pass>>
    BY DEF Audit, HoldSelect, HoldPut, HoldRelease, ingest
  <2>2. Live' = Live
    BY <2>1 DEF Live
  <2>3. Latest' = Latest
    BY <2>1, <2>2 DEF Latest, LastOf
  <2> QED
    BY <2>1, <2>2, <2>3 DEF TypeOK
<1>2. \/ \A r \in Retainers : pass[r].at # "delete"
      \/ \A g \in Auditors : holds'[g].at = "active" => holds'[g] = holds[g]
  <2>1. CASE HoldPut(h)
    BY <2>1 DEF HoldPut
  <2>2. CASE HoldSelect(h)
    BY <1>1, <2>2 DEF HoldSelect
  <2>3. CASE HoldRelease(h)
    BY <1>1, <2>3 DEF HoldRelease, HoldState
  <2> QED
    BY <2>1, <2>2, <2>3 DEF Audit
<1>3. ASSUME NEW r \in Retainers, ReadsFirst(r), Spares(r) PROVE ReadsFirst(r)' /\ Spares(r)'
  <2>1. ReadsFirst(r)' /\ Doomed(r)' = Doomed(r)
    BY <1>1, <1>3 DEF ReadsFirst, Doomed
  <2>2. Spares(r)'
    BY <1>1, <1>2, <1>3, <2>1 DEF Spares
  <2> QED
    BY <2>1, <2>2
<1> QED
  BY <1>1, <1>3 DEF RetentionSafe, UniqueIds

LEMMA RetentionInductive ==
    IInv /\ IInv' /\ RetentionSafe /\ [Next]_vars =>
        /\ RetentionSafe'
        /\ UniqueIds /\ gone' # gone => Latest # 0 /\ Latest' = Latest
        /\ \A q \in gone' \ gone, h \in Auditors :
               UniqueIds /\ holds[h].at = "active" => rows[q].status \notin holds[h].statuses
<1> SUFFICES ASSUME IInv, IInv', RetentionSafe, [Next]_vars
             PROVE  /\ RetentionSafe'
                    /\ UniqueIds /\ gone' # gone => Latest # 0 /\ Latest' = Latest
                    /\ \A q \in gone' \ gone, h \in Auditors :
                           UniqueIds /\ holds[h].at = "active" => rows[q].status \notin holds[h].statuses
  OBVIOUS
<1>1. TypeOK /\ TypeOK'
  BY DEF IInv
<1>2. CASE \/ \E w \in Workers : Ingest(w)
           \/ \E o \in Operators : Recover(o)
           \/ \E c \in Calls : WinSwap(c) \/ LoseSwap(c) \/ Crash(c)
  <2>1. UNCHANGED <<scenario, gone, pass, holds>> /\ (Marks \/ Adds)
    BY <1>2, CallRows
  <2> QED
    BY <1>1, <2>1, SafeMarks, SafeAdds
<1>3. ASSUME NEW r \in Retainers, Retain(r)
      PROVE  /\ RetentionSafe'
             /\ UniqueIds /\ gone' # gone => Latest # 0 /\ Latest' = Latest
             /\ \A q \in gone' \ gone, h \in Auditors :
                    UniqueIds /\ holds[h].at = "active" => rows[q].status \notin holds[h].statuses
  BY <1>1, <1>3, SafeRetain
<1>4. ASSUME NEW h \in Auditors, Audit(h) PROVE RetentionSafe' /\ gone' = gone
  BY <1>1, <1>4, SafeAudit DEF Audit, HoldSelect, HoldPut, HoldRelease
<1>5. CASE UNCHANGED vars
  <2>1. UNCHANGED <<rows, gone, pass, holds>>
    BY <1>5 DEF vars, ingest
  <2>2. Marks
    BY <2>1 DEF Marks
  <2> QED
    BY <1>1, <2>1, <2>2, SafeMarks
<1> QED
  BY <1>2, <1>3, <1>4, <1>5 DEF Next

LEMMA RetentionInvariance == Spec => []RetentionSafe
<1>1. Init => RetentionSafe
  <2> SUFFICES ASSUME Init PROVE RetentionSafe
    OBVIOUS
  <2>1. TypeOK
    BY Initially DEF IInv
  <2>2. gone = {} /\ \A r \in Retainers : pass[r].at = "idle" /\ pass[r].ids = {}
    BY DEF Init, NoPass
  <2>3. Latest = 0 => rows = << >>
    <3>1. Latest = 0 => DOMAIN rows = {}
      BY <2>1, <2>2, LatestRow DEF Live
    <3> QED
      BY <2>1, <3>1 DEF TypeOK
  <2> QED
    BY <2>2, <2>3 DEF RetentionSafe, ReadsFirst, Spares, Doomed
<1> QED
  BY <1>1, Invariance, RetentionInductive, PTL DEF Spec

\* apply_lerobot_checkpoint_retention, in every scenario and for any number of passes that
\* die or overlap: as long as a checkpoint_id tells the rows apart, the row that claims and
\* recoveries read as the latest is never deleted.
THEOREM LatestRowIsKept == Spec => LatestSurvivesRetention
<1>1. IInv /\ IInv' /\ RetentionSafe /\ [Next]_vars =>
          [UniqueIds /\ gone' # gone => Latest # 0 /\ Latest' = Latest]_vars
  BY RetentionInductive
<1> QED
  BY <1>1, Invariance, RetentionInvariance, PTL DEF Spec, LatestSurvivesRetention

\* _active_lerobot_checkpoint_hold_details, likewise: what an active hold selects stays.
THEOREM HeldRowsAreKept == Spec => HeldRowsSurvive
<1>1. IInv /\ IInv' /\ RetentionSafe /\ [Next]_vars =>
          [\A q \in gone' \ gone, h \in Auditors :
              UniqueIds /\ holds[h].at = "active" => rows[q].status \notin holds[h].statuses]_vars
  BY RetentionInductive
<1> QED
  BY <1>1, Invariance, RetentionInvariance, PTL DEF Spec, HeldRowsSurvive

-----------------------------------------------------------------------------
(***************************************************************************)
(* A job that is used as the manual prescribes.  Until it is published,    *)
(* its rows are numbered as they are appended, the newest one is the       *)
(* latest, and one call at most is past its swap.  The row that is the     *)
(* newest when the job is published tells what remains true afterwards.    *)
(***************************************************************************)

Newest == Len(rows)
Written == {b \in Batches : obs[b] > 0}
HasEnded(p) == rows[p].status \in Terminal
Names(k, p) == k.expect = <<rows[p].index, rows[p].token>>

Boot == {"boot", "bootCommit", "bootCheck"}
Checked == {"snapshot", "index", "reread"}
Trying == {"claimable?"} \cup Checked
Holding == {"append"} \cup After
Recovering == {"index", "swap", "append"}

\* At any time: what is expected was there; first claims do not happen; a worker swaps
\* a row of a job that has ended, an operator one of a job that runs.
SoundCall(c, k) ==
    /\ k.expect # None => \E p \in DOMAIN rows : Names(k, p)
    /\ c \in Workers => k.at \notin Boot /\ (k.at = "swap" => HasEnded(k.seen))
    /\ c \in Operators =>
          /\ k.at \in {"idle", "ended"} \cup Recovering
          /\ k.at \in Recovering =>
                k.seen \in DOMAIN rows /\ ~HasEnded(k.seen) /\ k.seen <= k.reference

Sound ==
    /\ FramesWrittenOnce
    /\ \A x \in claims : x[2] \in DOMAIN rows /\ (x[1] \in Workers => HasEnded(x[2]))
    /\ \A c \in Calls : SoundCall(c, call[c])

\* Until the job is published.
History ==
    /\ Newest >= 2 /\ Newest \notin gone
    /\ \A p \in DOMAIN rows :
          /\ rows[p].index + 1 = p
          /\ rows[p].updated_at <= p /\ p <= rows[p].updated_at + 1
          /\ p >= 2 /\ ~HasEnded(p) => rows[p].token \in Workers
          /\ HasEnded(p) /\ p # Newest => rows[p].superseded # None
    /\ \A r \in Retainers : \A i \in pass[r].ids : i + 1 < Newest

OneHolder ==
    /\ \A c, d \in Calls : call[c].at \in Holding /\ call[d].at \in Holding => c = d
    /\ rows[Newest].superseded # None => \E c \in Calls : call[c].at = "append"

OpenWorker(w, k) ==
    /\ k.at \notin {"reuse", "reuseAppend", "finalize"}
    /\ k.at \in {"precheck", "done?"} \cup Trying => k.expect # None
    /\ k.at \in Checked /\ Names(k, Newest) => HasEnded(Newest)
    /\ k.at \in {"index", "reread"} /\ Names(k, Newest) => k.known = Written
    /\ k.at = "reread" /\ Names(k, Newest) => k.index = Newest
    /\ k.at = "swap" /\ rows[k.seen].superseded = None =>
          k.seen = Newest /\ k.known = Written /\ k.index = Newest
    /\ k.at = "append" =>
          /\ k.seen = Newest /\ k.known = Written /\ k.index = Newest
          /\ HasEnded(Newest) /\ rows[Newest].superseded # None
    /\ k.at \in After =>
          /\ k.known = Written /\ k.index = Newest
          /\ ~HasEnded(Newest) /\ rows[Newest].superseded = None /\ rows[Newest].token = w

OpenOperator(k) ==
    /\ k.at \in {"index", "swap"} /\ rows[k.seen].superseded = None =>
          /\ k.seen = Newest /\ k.reference = Newest /\ call[rows[Newest].token].at = "ended"
          /\ k.at = "swap" => k.index = Newest
    /\ k.at = "append" =>
          /\ k.seen = Newest /\ k.reference = Newest /\ k.index = Newest
          /\ ~HasEnded(Newest) /\ rows[Newest].superseded # None

Open ==
    /\ History /\ OneHolder
    /\ \A w \in Workers : OpenWorker(w, call[w])
    /\ \A o \in Operators : OpenOperator(call[o])

\* Afterwards.  t is the row that was the newest when the job was published.
ClosedRows(t) ==
    /\ t \in DOMAIN rows /\ ~HasEnded(t) /\ t <= rows[t].updated_at + 1
    /\ \A p \in 1 .. t : rows[p].index + 1 = p /\ rows[p].updated_at <= p
    /\ \A p \in DOMAIN rows : p > t => HasEnded(p) /\ rows[p].superseded = None
    /\ t \in gone => 1 .. t \subseteq gone
    /\ t \notin gone =>
          /\ \A p \in gone : p < t
          /\ \A p \in DOMAIN rows : p > t => rows[p].updated_at >= t /\ rows[p].index >= t

\* A pass that could delete t has every older row in its ids, and deletes those first.
ClosedPass(t, r) ==
    /\ pass[r].at = "delete" => pass[r].ids # {}
    /\ t \notin gone =>
          \/ \A i \in pass[r].ids : i + 1 < t
          \/ \A p \in 1 .. t : p \notin gone => rows[p].index \in pass[r].ids

ClosedWorker(t, k) ==
    /\ k.at \notin Holding \ {"finalize"}
    /\ k.at = "swap" => rows[k.seen].superseded # None
    /\ k.at \in Trying =>
          \E p \in 1 .. t : Names(k, p) /\ (p = t /\ k.at \in Checked => Newest > t)
    /\ k.at \in {"reuseAppend", "finalize"} /\ t \notin gone => k.index >= t

ClosedOperator(t, k) ==
    /\ k.at \in {"index", "swap"} => k.seen = t \/ rows[k.seen].superseded # None
    /\ k.at = "append" => k.seen = t
    /\ k.at \in {"swap", "append"} /\ k.seen = t /\ t \notin gone => k.index >= t

ClosedAt(t) ==
    /\ ClosedRows(t)
    /\ rows[t].superseded # None => Newest > t \/ \E o \in Operators : call[o].at = "append"
    /\ \A r \in Retainers : ClosedPass(t, r)
    /\ \A w \in Workers : ClosedWorker(t, call[w])
    /\ \A o \in Operators : ClosedOperator(t, call[o])

Prescribed ==
    Disciplined => /\ Sound
                   /\ ~transform => Open
                   /\ transform => \E t \in DOMAIN rows : ClosedAt(t)

\* The rows, in numbers.
LEMMA RowFacts ==
    ASSUME TypeOK
    PROVE  /\ Newest \in Nat /\ DOMAIN rows = 1 .. Newest
           /\ \A p \in DOMAIN rows :
                 /\ p \in Nat \ {0} /\ rows[p].index \in Nat /\ rows[p].updated_at \in Nat
                 /\ rows[p].token \in Tokens /\ rows[p].status \in Statuses
                 /\ HasEnded(p) <=> rows[p].status # "running"
<1>1. rows \in Seq(Row)
  BY DEF TypeOK
<1>2. Newest \in Nat /\ DOMAIN rows = 1 .. Newest /\ \A p \in DOMAIN rows : rows[p] \in Row
  BY <1>1 DEF Newest
<1> QED
  BY <1>2 DEF Row, HasEnded, Statuses, Terminal

LEMMA OpenLatest ==
    ASSUME TypeOK, gone \subseteq DOMAIN rows, History
    PROVE  Latest = Newest /\ NextIndex = Newest /\ Newest \in DOMAIN rows
<1>1. Newest \in Nat /\ Newest >= 2 /\ Newest \in DOMAIN rows /\ Newest \in Live
  BY RowFacts DEF History, Live
<1>2. \A q \in Live \ {Newest} : ~SortsBefore(rows[Newest], rows[q])
  <2> SUFFICES ASSUME NEW q \in DOMAIN rows, q # Newest, SortsBefore(rows[Newest], rows[q]) PROVE FALSE
    BY DEF Live
  <2>1. q \in Nat /\ q < Newest
    BY <1>1, RowFacts
  <2>2. /\ rows[q].index \in Nat /\ rows[q].index + 1 = q /\ rows[q].updated_at \in Nat /\ rows[q].updated_at <= q
        /\ rows[Newest].index \in Nat /\ rows[Newest].index + 1 = Newest /\ rows[Newest].updated_at \in Nat
        /\ Newest <= rows[Newest].updated_at + 1
    BY <1>1, RowFacts DEF History
  <2> QED
    BY <1>1, <2>1, <2>2 DEF SortsBefore
<1>3. Latest = Newest
  BY <1>1, <1>2, LatestIs
<1>4. rows[Newest].index + 1 = Newest /\ Newest # 0
  BY <1>1 DEF History
<1> QED
  BY <1>1, <1>3, <1>4 DEF NextIndex

LEMMA ClosedLatest ==
    ASSUME TypeOK, gone \subseteq DOMAIN rows, NEW t, ClosedRows(t)
    PROVE  /\ t \in Nat /\ t >= 1 /\ t <= Newest /\ Latest \in Nat
           /\ t \notin gone => Latest >= t /\ Latest \in DOMAIN rows /\ NextIndex >= t
           /\ t \notin gone /\ Newest > t => Latest > t
           /\ t \in gone /\ Latest # 0 => Latest > t
           /\ Latest # 0 => Latest \in DOMAIN rows
<1>1. t \in Nat /\ t >= 1 /\ t <= Newest /\ Newest \in Nat /\ DOMAIN rows = 1 .. Newest /\ Latest \in Nat
  BY RowFacts, LatestRow DEF ClosedRows
<1>2. Latest # 0 => Latest \in Live /\ Latest \in DOMAIN rows /\ \A q \in Live : SortsBefore(rows[q], rows[Latest])
  BY LatestRow, LatestSortsLast
<1>3. ASSUME t \notin gone
      PROVE  /\ Latest >= t /\ Latest \in DOMAIN rows /\ NextIndex >= t
             /\ Newest > t => Latest > t
  <2>1. t \in Live /\ Latest # 0
    BY <1>1, <1>3, LatestRow DEF Live
  <2>2. /\ rows[t].index \in Nat /\ rows[t].index + 1 = t /\ rows[t].updated_at \in Nat /\ rows[t].updated_at <= t
        /\ rows[Latest].index \in Nat /\ rows[Latest].updated_at \in Nat /\ t <= rows[t].updated_at + 1
    BY <1>1, <1>2, <2>1, RowFacts DEF ClosedRows
  <2>3. SortsBefore(rows[t], rows[Latest])
    BY <1>2, <2>1
  <2>4. Latest >= t
    <3> SUFFICES ASSUME Latest < t PROVE FALSE
      BY <1>1
    <3>1. Latest \in 1 .. t
      BY <1>1, <1>2, <2>1
    <3>2. rows[Latest].index + 1 = Latest /\ rows[Latest].updated_at <= Latest
      BY <3>1 DEF ClosedRows
    <3> QED
      BY <1>1, <2>2, <2>3, <3>2 DEF SortsBefore
  <2>5. \A p \in DOMAIN rows : p > t => rows[p].updated_at >= t /\ rows[p].index >= t
    BY <1>3 DEF ClosedRows
  <2>6. ASSUME Newest > t PROVE Latest # t
    <3>1. Newest \in DOMAIN rows /\ Newest \in Live
      BY <1>1, <1>3, <2>6 DEF ClosedRows, Live
    <3>2. /\ rows[Newest].updated_at >= t /\ rows[Newest].index >= t
          /\ rows[Newest].updated_at \in Nat /\ rows[Newest].index \in Nat
      BY <2>5, <2>6, <3>1, RowFacts
    <3>3. SortsBefore(rows[Newest], rows[Latest])
      BY <1>2, <2>1, <3>1
    <3> QED
      BY <1>1, <2>2, <3>2, <3>3 DEF SortsBefore
  <2>7. NextIndex >= t
    <3>1. Latest = t \/ Latest > t
      BY <1>1, <2>4
    <3>2. rows[Latest].index + 1 >= t
      BY <1>1, <1>2, <2>1, <2>2, <2>5, <3>1
    <3> QED
      BY <2>1, <3>2 DEF NextIndex
  <2> QED
    BY <1>1, <1>2, <2>1, <2>4, <2>6, <2>7
<1>4. ASSUME t \in gone, Latest # 0 PROVE Latest > t
  <2>1. Latest \notin 1 .. t
    BY <1>2, <1>4 DEF ClosedRows, Live
  <2> QED
    BY <1>1, <1>2, <1>4, <2>1
<1> QED
  BY <1>1, <1>2, <1>3, <1>4

\* Quiet steps, by calls that neither are past their swap nor become so.
LEMMA SoundQuiet ==
    ASSUME Sound, NEW c \in Calls, Quiet(c), SoundCall(c, call[c])'
    PROVE  Sound'
<1>1. ASSUME NEW d \in Calls \ {c} PROVE SoundCall(d, call[d])'
  BY DEF Sound, SoundCall, Quiet, Moves, Names, HasEnded
<1>2. \A d \in Calls : SoundCall(d, call[d])'
  BY <1>1
<1>3. FramesWrittenOnce' /\ \A x \in claims' : x[2] \in DOMAIN rows' /\ (x[1] \in Workers => HasEnded(x[2])')
  BY DEF Sound, Quiet, FramesWrittenOnce, Batches, HasEnded
<1> QED
  BY <1>2, <1>3 DEF Sound

LEMMA OpenQuiet ==
    ASSUME TypeOK, Sound, Open, NEW c \in Calls, Quiet(c), call[c].at \notin {"append", "ended"},
           call'[c].at # "append", call'[c].at \in After => call[c].at \in After,
           c \in Workers => OpenWorker(c, call[c])', c \in Operators => OpenOperator(call[c])'
    PROVE  Open'
<1>1. UNCHANGED <<rows, obs, scenario, gone, pass>> /\ \A d \in Calls \ {c} : call'[d] = call[d]
  BY DEF Quiet, Moves
<1>2. Newest' = Newest /\ Written' = Written /\ Newest \in DOMAIN rows
  BY <1>1, RowFacts DEF Newest, Written, Batches, Open, History
<1>3. History'
  BY <1>1, <1>2 DEF Open, History, HasEnded
<1>4. OneHolder'
  <2>1. \A d \in Calls : call'[d].at \in Holding => call[d].at \in Holding
    BY <1>1 DEF Holding
  <2>2. \A d \in Calls : call[d].at = "append" => call'[d].at = "append"
    BY <1>1
  <2> QED
    BY <1>1, <1>2, <2>1, <2>2 DEF Open, OneHolder
<1>5. ASSUME NEW w \in Workers, w # c PROVE OpenWorker(w, call[w])'
  <2>1. w \in Calls /\ call'[w] = call[w]
    BY <1>1, <1>5 DEF Calls
  <2> QED
    BY <1>1, <1>2, <2>1 DEF Open, OpenWorker, Names, HasEnded
<1>6. ASSUME NEW o \in Operators, o # c PROVE OpenOperator(call[o])'
  <2>1. o \in Calls /\ call'[o] = call[o]
    BY <1>1, <1>6 DEF Calls
  <2>2. OpenOperator(call[o])
    BY DEF Open
  <2>3. ASSUME call[o].at \in {"index", "swap"}, rows[call[o].seen].superseded = None
        PROVE  rows[Newest].token \in Calls /\ call'[rows[Newest].token] = call[rows[Newest].token]
    <3>1. call[o].seen = Newest /\ ~HasEnded(Newest) /\ Newest >= 2 /\ call[rows[Newest].token].at = "ended"
      BY <2>1, <2>2, <2>3 DEF Sound, SoundCall, Recovering, Open, History, OpenOperator
    <3>2. rows[Newest].token \in Calls
      BY <1>2, <3>1 DEF Open, History, Calls
    <3> QED
      BY <1>1, <3>1, <3>2
  <2>4. rows' = rows /\ call'[o] = call[o] /\ Newest' = Newest
    BY <1>1, <1>2, <2>1
  <2>5. call[o].at \in {"index", "swap"} /\ rows[call[o].seen].superseded = None =>
            call'[rows[Newest].token].at = "ended"
    BY <2>2, <2>3 DEF OpenOperator
  <2> QED
    BY <2>2, <2>4, <2>5 DEF OpenOperator, HasEnded
<1> QED
  BY <1>3, <1>4, <1>5, <1>6 DEF Open

LEMMA ClosedQuiet ==
    ASSUME TypeOK, NEW t, ClosedAt(t), NEW c \in Calls, Quiet(c), call[c].at # "append",
           c \in Workers => ClosedWorker(t, call[c])', c \in Operators => ClosedOperator(t, call[c])'
    PROVE  ClosedAt(t)'
<1>1. UNCHANGED <<rows, obs, scenario, gone, pass>> /\ \A d \in Calls \ {c} : call'[d] = call[d]
  BY DEF Quiet, Moves
<1>2. Newest' = Newest
  BY <1>1 DEF Newest
<1>3. ClosedRows(t)' /\ \A r \in Retainers : ClosedPass(t, r)'
  BY <1>1 DEF ClosedAt, ClosedRows, ClosedPass, HasEnded
<1>4. ASSUME NEW w \in Workers, w # c PROVE ClosedWorker(t, call[w])'
  <2>1. w \in Calls /\ call'[w] = call[w]
    BY <1>1, <1>4 DEF Calls
  <2> QED
    BY <1>1, <1>2, <2>1 DEF ClosedAt, ClosedWorker, Names
<1>5. ASSUME NEW o \in Operators, o # c PROVE ClosedOperator(t, call[o])'
  <2>1. o \in Calls /\ call'[o] = call[o]
    BY <1>1, <1>5 DEF Calls
  <2> QED
    BY <1>1, <1>2, <2>1 DEF ClosedAt, ClosedOperator
<1>6. \A o \in Operators : call[o].at = "append" => call'[o].at = "append"
  BY <1>1 DEF Calls
<1> QED
  BY <1>1, <1>2, <1>3, <1>4, <1>5, <1>6 DEF ClosedAt

\* What the quiet steps of a call do to its local state.
LEMMA QuietForms ==
    ASSUME IInv, IInv', NEW c \in Calls
    PROVE  /\ End(c) /\ UNCHANGED <<env, rows, obs, transform, claims>> =>
                 Quiet(c) /\ call'[c].at = "ended" /\ call'[c].expect = None
           /\ Start(c) =>
                 /\ Quiet(c) /\ call[c].at = "idle" /\ call'[c].at = "precheck"
                 /\ call'[c].expect = IF scenario.expected /\ Latest # 0
                                        THEN <<rows[Latest].index, rows[Latest].token>> ELSE None
           /\ \A label : Goto(c, label) /\ UNCHANGED <<env, rows, obs, transform, claims>> =>
                 /\ Quiet(c) /\ call'[c].at = label
                 /\ call'[c].expect = call[c].expect /\ call'[c].index = call[c].index
           /\ Snapshot(c) =>
                 /\ Quiet(c) /\ call[c].at = "snapshot" /\ call'[c].at = "index"
                 /\ call'[c].expect = call[c].expect /\ call'[c].known = Written
           /\ \A from, to : TakeIndex(c, from, to) =>
                 /\ Quiet(c) /\ call[c].at = from /\ call'[c].at = to /\ call'[c].index = NextIndex
                 /\ call'[c].expect = call[c].expect /\ call'[c].known = call[c].known
                 /\ call'[c].seen = call[c].seen /\ call'[c].reference = call[c].reference
           /\ RecoverRead(c) =>
                 /\ Quiet(c) /\ call[c].at = "idle" /\ call'[c].at = "index" /\ call'[c].seen = Latest
                 /\ call'[c].reference = Newest /\ call'[c].expect = call[c].expect
           /\ Reread(c) =>
                 /\ Quiet(c) /\ call[c].at = "reread"
                 /\ \/ End(c) /\ call'[c].at = "ended" /\ call'[c].expect = None
                    \/ /\ AsExpected(c) /\ call'[c].at = (IF Latest = 0 THEN "boot" ELSE "swap")
                       /\ call'[c].seen = Latest /\ call'[c].expect = call[c].expect
                       /\ call'[c].known = call[c].known /\ call'[c].index = call[c].index
<1>1. call \in [Calls -> Local] /\ call' \in [Calls -> Local] /\ call[c] \in Local
  BY DEF IInv, TypeOK
<1>2. End(c) /\ UNCHANGED <<env, rows, obs, transform, claims>> =>
          Quiet(c) /\ call'[c].at = "ended" /\ call'[c].expect = None
  BY <1>1 DEF End, NoCall, Quiet, Moves, env
<1>3. Start(c) =>
        /\ Quiet(c) /\ call[c].at = "idle" /\ call'[c].at = "precheck"
        /\ call'[c].expect = IF scenario.expected /\ Latest # 0
                               THEN <<rows[Latest].index, rows[Latest].token>> ELSE None
  BY <1>1 DEF Start, Quiet, Moves, env, Local
<1>4. ASSUME NEW label, Goto(c, label), UNCHANGED <<env, rows, obs, transform, claims>>
      PROVE  /\ Quiet(c) /\ call'[c].at = label
             /\ call'[c].expect = call[c].expect /\ call'[c].index = call[c].index
  BY <1>1, <1>4 DEF Goto, Quiet, Moves, env, Local
<1>5. Snapshot(c) =>
        /\ Quiet(c) /\ call[c].at = "snapshot" /\ call'[c].at = "index"
        /\ call'[c].expect = call[c].expect /\ call'[c].known = Written
  <2>1. Snapshot(c) =>
          /\ call[c].at = "snapshot" /\ UNCHANGED <<env, rows, obs, transform, claims>>
          /\ call' = [call EXCEPT ![c].known = Written, ![c].at = "index"]
    BY DEF Snapshot, Written
  <2> QED
    BY <1>1, <2>1 DEF Quiet, Moves, env, Local
<1>6. ASSUME NEW from, NEW to, TakeIndex(c, from, to)
      PROVE  /\ Quiet(c) /\ call[c].at = from /\ call'[c].at = to /\ call'[c].index = NextIndex
             /\ call'[c].expect = call[c].expect /\ call'[c].known = call[c].known
             /\ call'[c].seen = call[c].seen /\ call'[c].reference = call[c].reference
  BY <1>1, <1>6 DEF TakeIndex, Quiet, Moves, env, Local
<1>7. RecoverRead(c) =>
        /\ Quiet(c) /\ call[c].at = "idle" /\ call'[c].at = "index" /\ call'[c].seen = Latest
        /\ call'[c].reference = Newest /\ call'[c].expect = call[c].expect
  BY <1>1 DEF RecoverRead, Quiet, Moves, env, Local, Newest
<1>8. ASSUME Reread(c)
      PROVE  /\ Quiet(c) /\ call[c].at = "reread"
             /\ \/ End(c) /\ call'[c].at = "ended" /\ call'[c].expect = None
                \/ /\ AsExpected(c) /\ call'[c].at = (IF Latest = 0 THEN "boot" ELSE "swap")
                   /\ call'[c].seen = Latest /\ call'[c].expect = call[c].expect
                   /\ call'[c].known = call[c].known /\ call'[c].index = call[c].index
  <2>1. call[c].at = "reread" /\ UNCHANGED <<env, rows, obs, transform, claims>>
    BY <1>8 DEF Reread
  <2>2. CASE AsExpected(c)
    <3>1. call' = [call EXCEPT ![c].seen = Latest, ![c].at = IF Latest = 0 THEN "boot" ELSE "swap"]
      BY <1>8, <2>2 DEF Reread
    <3> QED
      BY <1>1, <2>1, <2>2, <3>1 DEF Quiet, Moves, env, Local
  <2>3. CASE ~AsExpected(c)
    BY <1>2, <1>8, <2>1, <2>3 DEF Reread
  <2> QED
    BY <2>2, <2>3
<1> QED
  BY <1>2, <1>3, <1>4, <1>5, <1>6, <1>7, <1>8

\* A quiet step keeps the invariant when its call does.
LEMMA PrescribedQuiet ==
    ASSUME TypeOK, Disciplined, Prescribed, NEW c \in Calls, Quiet(c), SoundCall(c, call[c])',
           call[c].at \notin {"append", "ended"}, call'[c].at # "append",
           call'[c].at \in After => call[c].at \in After,
           ~transform /\ Open => /\ c \in Workers => OpenWorker(c, call[c])'
                                 /\ c \in Operators => OpenOperator(call[c])',
           \A t \in DOMAIN rows : transform /\ ClosedAt(t) =>
                                 /\ c \in Workers => ClosedWorker(t, call[c])'
                                 /\ c \in Operators => ClosedOperator(t, call[c])'
    PROVE  Prescribed'
<1>1. Sound' /\ UNCHANGED <<transform, rows>>
  BY SoundQuiet DEF Prescribed, Quiet
<1>2. ASSUME ~transform PROVE Open'
  BY <1>2, OpenQuiet DEF Prescribed
<1>3. ASSUME transform PROVE \E t \in DOMAIN rows : ClosedAt(t)'
  <2>1. PICK t \in DOMAIN rows : ClosedAt(t)
    BY <1>3 DEF Prescribed
  <2>2. ClosedAt(t)'
    BY <1>3, <2>1, ClosedQuiet
  <2> QED
    BY <2>2
<1> QED
  BY <1>1, <1>2, <1>3 DEF Prescribed

\* A call that ends, without a row of its own.
LEMMA PrescribedEnd ==
    ASSUME IInv, IInv', Disciplined, Prescribed, NEW c \in Calls, End(c),
           call[c].at \notin {"append", "ended"}, UNCHANGED <<env, rows, obs, transform, claims>>
    PROVE  Prescribed'
<1>1. Quiet(c) /\ call'[c].at = "ended" /\ call'[c].expect = None
  BY QuietForms
<1>2. SoundCall(c, call[c])'
  BY <1>1 DEF SoundCall, Boot, Recovering
<1>3. OpenWorker(c, call[c])' /\ OpenOperator(call[c])'
  BY <1>1 DEF OpenWorker, OpenOperator, Trying, Checked, After, Loading, Loaded
<1>4. \A t \in DOMAIN rows : ClosedWorker(t, call[c])' /\ ClosedOperator(t, call[c])'
  BY <1>1 DEF ClosedWorker, ClosedOperator, Trying, Checked, Holding, After, Loading, Loaded
<1>5. TypeOK
  BY DEF IInv
<1> QED
  BY <1>1, <1>2, <1>3, <1>4, <1>5, PrescribedQuiet DEF After, Loading, Loaded

\* Before it is published, what a caller expects of the latest row it expects of the newest.
LEMMA OpenExpects ==
    ASSUME IInv, RetentionSafe, Open, NEW c \in Calls, AsExpected(c), call[c].expect # None
    PROVE  Names(call[c], Newest)
<1>1. Latest = Newest /\ Newest # 0
  BY OpenLatest, RowFacts DEF IInv, RetentionSafe, Open
<1> QED
  BY <1>1 DEF AsExpected, Names

\* Afterwards, nobody has the latest row for the one he expects, unless it is the row t.
LEMMA ClosedExpects ==
    ASSUME IInv, RetentionSafe, NEW t \in DOMAIN rows, ClosedAt(t), NEW c \in Calls, AsExpected(c),
           NEW p \in 1 .. t, Names(call[c], p)
    PROVE  p = t /\ Latest = t /\ Newest = t
<1>1. /\ t \in Nat /\ t >= 1 /\ t <= Newest /\ Newest \in Nat /\ DOMAIN rows = 1 .. Newest
      /\ t \notin gone => Latest >= t
      /\ t \notin gone /\ Newest > t => Latest > t
      /\ t \in gone /\ Latest # 0 => Latest > t
      /\ Latest # 0 => Latest \in DOMAIN rows
  BY ClosedLatest, RowFacts DEF IInv, RetentionSafe, ClosedAt
<1>2. call[c].expect = <<rows[p].index, rows[p].token>> /\ p \in DOMAIN rows
  BY <1>1 DEF Names
<1>3. call[c].expect # None
  <2>1. <<rows[p].index, rows[p].token>> \in Nat \X Tokens
    BY <1>2, RowFacts DEF IInv
  <2> QED
    BY <1>2, <2>1, CallAssumption DEF Tokens, Calls
<1>4. Latest # 0 /\ call[c].expect = <<rows[Latest].index, rows[Latest].token>>
  BY <1>3 DEF AsExpected
<1>5. Latest = p
  BY <1>1, <1>2, <1>4 DEF IInv, OneRowPerToken
<1> QED
  BY <1>1, <1>4, <1>5

\* A job that was published and has no other row since has a running checkpoint.
LEMMA ClosedRuns ==
    ASSUME IInv, RetentionSafe, NEW t \in DOMAIN rows, ClosedAt(t), Newest = t
    PROVE  Latest = t
<1>1. TypeOK /\ ClosedRows(t) /\ gone \subseteq DOMAIN rows /\ t \in Nat /\ t >= 1 /\ DOMAIN rows = 1 .. t
  BY RowFacts DEF IInv, RetentionSafe, ClosedAt
<1>2. UniqueIds
  <2>1. \A p \in DOMAIN rows : p \in Nat /\ rows[p].index \in Nat /\ rows[p].index + 1 = p
    BY <1>1, RowFacts DEF ClosedRows
  <2> QED
    BY <2>1 DEF UniqueIds
<1>3. Latest # 0
  BY <1>1, <1>2 DEF RetentionSafe
<1>4. Latest >= t
  BY <1>1, <1>3, ClosedLatest
<1>5. Latest \in 1 .. t
  BY <1>1, <1>3, ClosedLatest
<1> QED
  BY <1>1, <1>4, <1>5

\* A worker before its swap.
LEMMA PrescribedAttempt ==
    ASSUME IInv, IInv', RetentionSafe, Disciplined, Prescribed, NEW w \in Workers,
           \/ Start(w) \/ Precheck(w) \/ CheckDone(w) \/ CheckClaimable(w)
           \/ Snapshot(w) \/ ReadIndex(w) \/ Reread(w) \/ ReuseIndex(w)
    PROVE  Prescribed'
<1> DEFINE k == call[w]
           Same == UNCHANGED <<env, rows, obs, transform, claims>>
<1>1. TypeOK /\ w \in Calls /\ w \notin Operators
  BY CallAssumption DEF IInv, Calls
<1>2. SoundCall(w, k) /\ Sound
  BY <1>1 DEF Prescribed, Sound
<1>3. ~transform /\ Open => OpenWorker(w, k)
  BY DEF Open
<1>4. \A t \in DOMAIN rows : ClosedAt(t) => ClosedWorker(t, k)
  BY DEF ClosedAt
<1>5. ASSUME UNCHANGED rows
      PROVE  Newest' = Newest /\ \A p : HasEnded(p)' = HasEnded(p)
  BY <1>5 DEF Newest, HasEnded
<1>6. ~transform /\ Open => Latest = Newest /\ NextIndex = Newest /\ Newest \in DOMAIN rows
  BY <1>1, OpenLatest DEF Open, RetentionSafe
<1>7. CASE Start(w)
  <2>1. /\ Quiet(w) /\ k.at = "idle" /\ k'.at = "precheck" /\ UNCHANGED rows
        /\ k'.expect = IF scenario.expected /\ Latest # 0
                         THEN <<rows[Latest].index, rows[Latest].token>> ELSE None
    BY <1>1, <1>7, QuietForms DEF Quiet
  <2>2. Latest # 0 => Latest \in DOMAIN rows
    BY <1>1, LatestRow
  <2>3. SoundCall(w, k)'
    BY <1>1, <2>1, <2>2 DEF SoundCall, Names, Boot
  <2>4. ASSUME ~transform, Open PROVE OpenWorker(w, k)'
    <3>1. k'.expect = <<rows[Newest].index, rows[Newest].token>> /\ Newest \in DOMAIN rows
      BY <1>1, <1>6, <2>1, <2>4, RowFacts DEF Disciplined
    <3>2. <<rows[Newest].index, rows[Newest].token>> \in Nat \X Tokens
      BY <1>1, <3>1, RowFacts
    <3>3. k'.expect # None
      BY <3>1, <3>2, CallAssumption DEF Tokens, Calls
    <3> QED
      BY <2>1, <3>3 DEF OpenWorker, Checked, After, Loading, Loaded
  <2>5. \A t \in DOMAIN rows : ClosedWorker(t, k)'
    BY <2>1 DEF ClosedWorker, Holding, Trying, Checked, After, Loading, Loaded
  <2> QED
    BY <1>1, <2>1, <2>3, <2>4, <2>5, PrescribedQuiet DEF After, Loading, Loaded
<1>8. ASSUME End(w), Same, k.at \notin {"append", "ended"} PROVE Prescribed'
  BY <1>1, <1>8, PrescribedEnd
<1>9. CASE Precheck(w)
  <2>1. k.at = "precheck" /\ ((End(w) /\ Same) \/ (Goto(w, "done?") /\ Same))
    BY <1>9 DEF Precheck
  <2>2. ASSUME Goto(w, "done?"), Same PROVE Prescribed'
    <3>1. Quiet(w) /\ k'.at = "done?" /\ k'.expect = k.expect /\ UNCHANGED rows
      BY <1>1, <2>2, QuietForms DEF Quiet
    <3>2. SoundCall(w, k)'
      BY <1>1, <1>2, <3>1 DEF SoundCall, Names, Boot
    <3>3. ~transform /\ Open => OpenWorker(w, k)'
      BY <1>3, <2>1, <3>1 DEF OpenWorker, Checked, After, Loading, Loaded
    <3>4. \A t \in DOMAIN rows : ClosedWorker(t, k)'
      BY <3>1 DEF ClosedWorker, Holding, Trying, Checked, After, Loading, Loaded
    <3> QED
      BY <1>1, <2>1, <3>1, <3>2, <3>3, <3>4, PrescribedQuiet DEF After, Loading, Loaded
  <2> QED
    BY <1>8, <2>1, <2>2
<1>10. CASE CheckDone(w)
  <2>1. k.at = "done?" /\ Goto(w, IF transform THEN "reuse" ELSE "claimable?") /\ Same
    BY <1>10 DEF CheckDone
  <2>2. /\ Quiet(w) /\ k'.at = (IF transform THEN "reuse" ELSE "claimable?") /\ k'.expect = k.expect
        /\ UNCHANGED rows
    BY <1>1, <2>1, QuietForms DEF Quiet
  <2>3. SoundCall(w, k)'
    BY <1>1, <1>2, <2>2 DEF SoundCall, Names, Boot
  <2>4. ~transform /\ Open => OpenWorker(w, k)'
    BY <1>3, <2>1, <2>2 DEF OpenWorker, Checked, After, Loading, Loaded
  <2>5. transform => \A t \in DOMAIN rows : ClosedWorker(t, k)'
    BY <2>2 DEF ClosedWorker, Holding, Trying, Checked, After, Loading, Loaded
  <2> QED
    BY <1>1, <2>1, <2>2, <2>3, <2>4, <2>5, PrescribedQuiet DEF After, Loading, Loaded
<1>11. CASE ReuseIndex(w)
  <2>1. /\ Quiet(w) /\ k.at = "reuse" /\ k'.at = "reuseAppend" /\ k'.expect = k.expect /\ k'.index = NextIndex
        /\ UNCHANGED <<rows, gone>>
    BY <1>1, <1>11, QuietForms DEF Quiet, ReuseIndex
  <2>2. SoundCall(w, k)'
    BY <1>1, <1>2, <2>1 DEF SoundCall, Names, Boot
  <2>3. ~transform => ~Open
    BY <1>3, <2>1 DEF OpenWorker
  <2>4. ASSUME NEW t \in DOMAIN rows, ClosedAt(t) PROVE ClosedWorker(t, k)'
    <3>1. t \notin gone => NextIndex >= t
      BY <1>1, <2>4, ClosedLatest DEF ClosedAt, RetentionSafe
    <3> QED
      BY <2>1, <3>1 DEF ClosedWorker, Holding, Trying, Checked, After, Loading, Loaded
  <2> QED
    BY <1>1, <2>1, <2>2, <2>3, <2>4, PrescribedQuiet DEF After, Loading, Loaded
<1>12. CASE CheckClaimable(w)
  <2>1. /\ k.at = "claimable?"
        /\ (End(w) /\ Same) \/ ((Latest = 0 \/ HasEnded(Latest)) /\ Goto(w, "snapshot") /\ Same)
    <3>1. Latest # 0 => (HasEnded(Latest) <=> rows[Latest].status # "running")
      BY <1>1, LatestRow, RowFacts
    <3>2. CASE Latest # 0 /\ rows[Latest].status = "running"
      BY <1>12, <3>2 DEF CheckClaimable
    <3>3. CASE ~(Latest # 0 /\ rows[Latest].status = "running")
      <4>1. k.at = "claimable?" /\ Goto(w, "snapshot") /\ Same
        BY <1>12, <3>3 DEF CheckClaimable
      <4>2. Latest = 0 \/ HasEnded(Latest)
        BY <3>1, <3>3
      <4> QED
        BY <4>1, <4>2
    <3> QED
      BY <3>2, <3>3
  <2>2. ASSUME Latest = 0 \/ HasEnded(Latest), Goto(w, "snapshot"), Same PROVE Prescribed'
    <3>1. Quiet(w) /\ k'.at = "snapshot" /\ k'.expect = k.expect /\ UNCHANGED rows
      BY <1>1, <2>2, QuietForms DEF Quiet
    <3>2. SoundCall(w, k)'
      BY <1>1, <1>2, <3>1 DEF SoundCall, Names, Boot
    <3>3. ASSUME ~transform, Open PROVE OpenWorker(w, k)'
      <4>1. HasEnded(Newest)' /\ k.expect # None
        BY <1>1, <1>3, <1>5, <1>6, <2>1, <2>2, <3>1, <3>3, RowFacts DEF OpenWorker, Trying
      <4> QED
        BY <3>1, <4>1 DEF OpenWorker, Trying, Checked, After, Loading, Loaded
    <3>4. ASSUME NEW t \in DOMAIN rows, ClosedAt(t) PROVE ClosedWorker(t, k)'
      <4>1. PICK p \in 1 .. t : Names(k, p)
        BY <1>4, <2>1, <3>4 DEF ClosedWorker, Trying
      <4>2. Newest > t
        <5>1. t \in Nat \ {0} /\ Newest \in Nat /\ t <= Newest /\ ~HasEnded(t)
          BY <1>1, <3>4, RowFacts DEF ClosedAt, ClosedRows
        <5>2. Newest # t
          BY <2>2, <3>4, <5>1, ClosedRuns
        <5> QED
          BY <5>1, <5>2
      <4>3. Names(k, p)' /\ (Newest > t)'
        BY <1>5, <3>1, <4>1, <4>2 DEF Names
      <4> QED
        BY <3>1, <4>3 DEF ClosedWorker, Holding, After, Loading, Loaded
    <3> QED
      BY <1>1, <2>1, <3>1, <3>2, <3>3, <3>4, PrescribedQuiet DEF After, Loading, Loaded
  <2> QED
    BY <1>8, <2>1, <2>2
<1>13. CASE Snapshot(w)
  <2>1. /\ Quiet(w) /\ k.at = "snapshot" /\ k'.at = "index" /\ k'.expect = k.expect /\ k'.known = Written
        /\ UNCHANGED <<rows, obs, scenario>>
    BY <1>1, <1>13, QuietForms DEF Quiet
  <2>2. SoundCall(w, k)'
    BY <1>1, <1>2, <2>1 DEF SoundCall, Names, Boot
  <2>3. Written' = Written
    BY <2>1 DEF Written, Batches
  <2>4. ~transform /\ Open => OpenWorker(w, k)'
    BY <1>3, <1>5, <2>1, <2>3 DEF OpenWorker, Names, Trying, Checked, After, Loading, Loaded
  <2>5. \A t \in DOMAIN rows : ClosedAt(t) => ClosedWorker(t, k)'
    BY <1>4, <1>5, <2>1 DEF ClosedWorker, Names, Holding, Trying, Checked, After, Loading, Loaded
  <2> QED
    BY <1>1, <2>1, <2>2, <2>4, <2>5, PrescribedQuiet DEF After, Loading, Loaded
<1>14. CASE ReadIndex(w)
  <2>1. /\ Quiet(w) /\ k.at = "index" /\ k'.at = "reread" /\ k'.expect = k.expect /\ k'.index = NextIndex
        /\ k'.known = k.known /\ UNCHANGED <<rows, obs, scenario>>
    BY <1>1, <1>14, QuietForms DEF Quiet, ReadIndex
  <2>2. SoundCall(w, k)'
    BY <1>1, <1>2, <2>1 DEF SoundCall, Names, Boot
  <2>3. Written' = Written
    BY <2>1 DEF Written, Batches
  <2>4. ~transform /\ Open => OpenWorker(w, k)'
    BY <1>3, <1>5, <1>6, <2>1, <2>3 DEF OpenWorker, Names, Trying, Checked, After, Loading, Loaded
  <2>5. \A t \in DOMAIN rows : ClosedAt(t) => ClosedWorker(t, k)'
    BY <1>4, <1>5, <2>1 DEF ClosedWorker, Names, Holding, Trying, Checked, After, Loading, Loaded
  <2> QED
    BY <1>1, <2>1, <2>2, <2>4, <2>5, PrescribedQuiet DEF After, Loading, Loaded
<1>15. CASE Reread(w)
  <2>1. /\ Quiet(w) /\ k.at = "reread" /\ Same /\ UNCHANGED <<rows, obs, scenario>>
        /\ \/ End(w)
           \/ /\ AsExpected(w) /\ k'.at = (IF Latest = 0 THEN "boot" ELSE "swap")
              /\ k'.seen = Latest /\ k'.expect = k.expect /\ k'.known = k.known /\ k'.index = k.index
    BY <1>1, <1>15, QuietForms DEF Quiet, Reread
  <2>2. ASSUME AsExpected(w), k'.at = (IF Latest = 0 THEN "boot" ELSE "swap"), k'.seen = Latest,
               k'.expect = k.expect, k'.known = k.known, k'.index = k.index
        PROVE  Prescribed'
    <3>1. ASSUME transform PROVE FALSE
      <4>1. PICK t \in DOMAIN rows : ClosedAt(t)
        BY <3>1 DEF Prescribed
      <4>2. PICK p \in 1 .. t : Names(k, p) /\ (p = t => Newest > t)
        BY <1>4, <2>1, <4>1 DEF ClosedWorker, Trying, Checked
      <4>3. p = t /\ Newest = t /\ t \in Nat
        BY <1>1, <2>2, <4>1, <4>2, ClosedExpects, RowFacts
      <4> QED
        BY <4>2, <4>3
    <3>2. Open /\ ~transform
      BY <3>1 DEF Prescribed
    <3>3. Names(k, Newest) /\ Latest = Newest /\ Newest # 0 /\ k.expect # None
      BY <1>1, <1>3, <1>6, <2>1, <2>2, <3>2, OpenExpects, RowFacts DEF OpenWorker, Trying, Checked
    <3>4. HasEnded(Newest) /\ k.known = Written /\ k.index = Newest
      BY <1>3, <2>1, <3>2, <3>3 DEF OpenWorker, Checked
    <3>5. k'.at = "swap" /\ k'.seen = Newest /\ k'.known = Written /\ k'.index = Newest
      BY <2>2, <3>3, <3>4
    <3>6. Newest' = Newest /\ Written' = Written /\ HasEnded(Newest)' = HasEnded(Newest)
      BY <1>5, <2>1 DEF Written, Batches, HasEnded
    <3>7. SoundCall(w, k)'
      <4>1. k'.expect # None => \E p \in DOMAIN rows' : Names(k, p)'
        BY <1>2, <2>1, <2>2 DEF SoundCall, Names
      <4>2. HasEnded(k.seen)'
        BY <2>1, <3>4, <3>5 DEF HasEnded
      <4> QED
        BY <1>1, <3>5, <4>1, <4>2 DEF SoundCall, Boot
    <3>8. OpenWorker(w, k)'
      BY <3>5, <3>6 DEF OpenWorker, Trying, Checked, After, Loading, Loaded
    <3> QED
      BY <1>1, <2>1, <3>2, <3>5, <3>7, <3>8, PrescribedQuiet DEF After, Loading, Loaded
  <2> QED
    BY <1>8, <2>1, <2>2
<1> QED
  BY <1>7, <1>9, <1>10, <1>11, <1>12, <1>13, <1>14, <1>15

\* An operator before his swap.
LEMMA PrescribedRecovery ==
    ASSUME IInv, IInv', RetentionSafe, Disciplined, Prescribed, NEW o \in Operators,
           RecoverRead(o) \/ RecoverIndex(o)
    PROVE  Prescribed'
<1> DEFINE k == call[o]
<1>1. TypeOK /\ o \in Calls /\ o \notin Workers
  BY CallAssumption DEF IInv, Calls
<1>2. SoundCall(o, k)
  BY <1>1 DEF Prescribed, Sound
<1>3. ~transform /\ Open => OpenOperator(k)
  BY DEF Open
<1>4. \A t \in DOMAIN rows : ClosedAt(t) => ClosedOperator(t, k)
  BY DEF ClosedAt
<1>5. ASSUME UNCHANGED rows
      PROVE  Newest' = Newest /\ \A p : HasEnded(p)' = HasEnded(p)
  BY <1>5 DEF Newest, HasEnded
<1>6. ~transform /\ Open => Latest = Newest /\ NextIndex = Newest /\ Newest \in DOMAIN rows
  BY <1>1, OpenLatest DEF Open, RetentionSafe
<1>7. CASE RecoverRead(o)
  <2>1. /\ Quiet(o) /\ k.at = "idle" /\ k'.at = "index" /\ k'.seen = Latest
        /\ k'.reference = Newest /\ k'.expect = k.expect /\ UNCHANGED <<rows, gone, scenario>>
        /\ \A d \in Calls \ {o} : call'[d] = call[d]
    BY <1>1, <1>7, QuietForms DEF Quiet, Moves
  <2>2. Latest # 0 /\ rows[Latest].status = "running" /\ call[rows[Latest].token].at = "ended"
    BY <1>7 DEF RecoverRead, Disciplined
  <2>3. Latest \in DOMAIN rows /\ Latest <= Newest /\ ~HasEnded(Latest) /\ Latest \in Nat
    BY <1>1, <2>2, LatestRow, RowFacts
  <2>4. SoundCall(o, k)'
    <3>1. k'.expect # None => \E p \in DOMAIN rows' : Names(k, p)'
      BY <1>2, <2>1 DEF SoundCall, Names
    <3>2. k'.seen \in DOMAIN rows' /\ k'.seen <= k'.reference /\ ~HasEnded(k.seen)'
      BY <2>1, <2>3 DEF HasEnded
    <3> QED
      BY <1>1, <2>1, <3>1, <3>2 DEF SoundCall, Recovering
  <2>5. ASSUME ~transform, Open PROVE OpenOperator(k)'
    <3>1. Latest = Newest /\ Newest' = Newest /\ rows[Newest].token # o
      BY <1>5, <1>6, <2>1, <2>2, <2>5
    <3>2. rows[Newest].token \in Calls
      <4>1. rows[Newest].token \in Workers
        BY <2>2, <2>3, <2>5, <3>1 DEF Open, History
      <4> QED
        BY <4>1 DEF Calls
    <3>3. call'[rows'[Newest'].token].at = "ended"
      BY <2>1, <2>2, <3>1, <3>2
    <3> QED
      BY <2>1, <3>1, <3>3 DEF OpenOperator
  <2>6. ASSUME NEW t \in DOMAIN rows, ClosedAt(t) PROVE ClosedOperator(t, k)'
    <3>1. t \in gone => Latest > t
      BY <1>1, <2>2, <2>6, ClosedLatest DEF ClosedAt, RetentionSafe
    <3>2. t \notin gone => Latest >= t
      BY <1>1, <2>2, <2>6, ClosedLatest DEF ClosedAt, RetentionSafe
    <3>3. Latest = t
      BY <1>1, <2>3, <2>6, <3>1, <3>2, RowFacts DEF ClosedAt, ClosedRows
    <3> QED
      BY <2>1, <3>3 DEF ClosedOperator
  <2> QED
    BY <1>1, <2>1, <2>4, <2>5, <2>6, PrescribedQuiet DEF After, Loading, Loaded
<1>8. CASE RecoverIndex(o)
  <2>1. /\ Quiet(o) /\ k.at = "index" /\ k'.at = "swap" /\ k'.seen = k.seen /\ k'.index = NextIndex
        /\ k'.reference = k.reference /\ k'.expect = k.expect /\ UNCHANGED <<rows, gone, scenario>>
        /\ \A d \in Calls \ {o} : call'[d] = call[d]
    BY <1>1, <1>8, QuietForms DEF Quiet, Moves, RecoverIndex
  <2>2. SoundCall(o, k)'
    <3>1. k'.expect # None => \E p \in DOMAIN rows' : Names(k, p)'
      BY <1>2, <2>1 DEF SoundCall, Names
    <3>2. k'.seen \in DOMAIN rows' /\ k'.seen <= k'.reference /\ ~HasEnded(k.seen)'
      BY <1>1, <1>2, <2>1 DEF HasEnded, SoundCall, Recovering
    <3> QED
      BY <1>1, <2>1, <3>1, <3>2 DEF SoundCall, Recovering
  <2>3. ASSUME ~transform, Open PROVE OpenOperator(k)'
    <3>1. NextIndex = Newest /\ Newest' = Newest
      BY <1>5, <1>6, <2>1, <2>3
    <3>2. ASSUME rows[k.seen].superseded = None
          PROVE  /\ k.seen = Newest /\ k.reference = Newest
                 /\ rows[Newest].token \in Calls \ {o} /\ call[rows[Newest].token].at = "ended"
      <4>1. k.seen = Newest /\ k.reference = Newest /\ call[rows[Newest].token].at = "ended"
        BY <1>3, <2>1, <2>3, <3>2 DEF OpenOperator
      <4>2. Newest >= 2 /\ ~HasEnded(Newest)
        BY <1>1, <1>2, <2>1, <2>3, <4>1 DEF Open, History, SoundCall, Recovering
      <4>3. rows[Newest].token \in Workers
        BY <1>6, <2>3, <4>2 DEF Open, History
      <4> QED
        BY <1>1, <4>1, <4>3 DEF Calls
    <3> QED
      BY <2>1, <3>1, <3>2 DEF OpenOperator
  <2>4. ASSUME NEW t \in DOMAIN rows, ClosedAt(t) PROVE ClosedOperator(t, k)'
    <3>1. t \notin gone => NextIndex >= t
      BY <1>1, <2>4, ClosedLatest DEF ClosedAt, RetentionSafe
    <3> QED
      BY <1>4, <2>1, <2>4, <3>1 DEF ClosedOperator
  <2> QED
    BY <1>1, <2>1, <2>2, <2>3, <2>4, PrescribedQuiet DEF After, Loading, Loaded
<1> QED
  BY <1>7, <1>8

\* An appended row is the newest, and no call has it for the one it expects or has seen.
LEMMA AppendedRow ==
    ASSUME TypeOK, NEW r \in Row, rows' = Append(rows, r)
    PROVE  /\ Newest \in Nat /\ Newest' = Newest + 1
           /\ DOMAIN rows = 1 .. Newest /\ DOMAIN rows' = 1 .. Newest + 1
           /\ rows'[Newest + 1] = r /\ \A q \in DOMAIN rows : rows'[q] = rows[q]
           /\ \A q \in DOMAIN rows : HasEnded(q)' <=> HasEnded(q)
           /\ HasEnded(Newest)' <=> r.status \in Terminal
<1>1. rows \in Seq(Row) /\ rows' \in Seq(Row)
  BY DEF TypeOK
<1>2. /\ Newest \in Nat /\ Newest' = Newest + 1
      /\ DOMAIN rows = 1 .. Newest /\ DOMAIN rows' = 1 .. Newest + 1
      /\ rows'[Newest + 1] = r /\ \A q \in DOMAIN rows : rows'[q] = rows[q]
  BY <1>1 DEF Newest
<1> QED
  BY <1>2 DEF HasEnded

\* A row of the call that is past its swap.
LEMMA OpenAppend ==
    ASSUME IInv, IInv', gone \subseteq DOMAIN rows, Sound, Open,
           NEW c \in Calls, Moves(c), call[c].at \in Holding,
           NEW r \in Row, rows' = Append(rows, r), r.index = Newest, r.superseded = None,
           r.updated_at \in {Newest, Newest + 1}, r.status \in Terminal \/ r.token \in Workers,
           UNCHANGED <<scenario, obs, transform, claims, gone, pass, holds>>,
           SoundCall(c, call[c])', call'[c].at # "append",
           c \in Workers => OpenWorker(c, call[c])', c \in Operators => OpenOperator(call[c])'
    PROVE  Sound' /\ Open'
<1>1. /\ Newest \in Nat /\ Newest' = Newest + 1 /\ Newest >= 2
      /\ DOMAIN rows = 1 .. Newest /\ DOMAIN rows' = 1 .. Newest + 1
      /\ rows'[Newest + 1] = r /\ \A q \in DOMAIN rows : rows'[q] = rows[q]
      /\ \A q \in DOMAIN rows : HasEnded(q)' <=> HasEnded(q)
      /\ HasEnded(Newest)' <=> r.status \in Terminal
  BY AppendedRow DEF IInv, Open, History
<1>2. \A d \in Calls \ {c} : call'[d] = call[d] /\ call[d] \in Local
  BY DEF Moves, IInv, TypeOK
<1>3. Workers \subseteq Calls /\ Operators \subseteq Calls /\ Workers \cap Operators = {}
  BY CallAssumption DEF Calls
<1>4. \A q \in DOMAIN rows : /\ q \in Nat /\ rows[q].index \in Nat /\ rows[q].index + 1 = q
                             /\ rows[q].updated_at \in Nat
  BY RowFacts DEF IInv, Open, History
<1>5. Written' = Written
  BY DEF Written, Batches
<1>6. ASSUME NEW d \in Calls \ {c} PROVE SoundCall(d, call[d])'
  <2>1. SoundCall(d, call[d]) /\ CallSafe(d, call[d])
    BY DEF Sound, IInv, CallsSafe
  <2>2. call[d].at = "swap" => call[d].seen \in DOMAIN rows
    BY <2>1 DEF CallSafe, SeenRow
  <2>3. call'[d].expect # None => \E p \in DOMAIN rows' : Names(call[d], p)'
    BY <1>1, <1>2, <2>1 DEF SoundCall, Names
  <2> QED
    BY <1>1, <1>2, <2>1, <2>2, <2>3 DEF SoundCall
<1>7. Sound'
  <2>1. FramesWrittenOnce' /\ \A x \in claims' : x[2] \in DOMAIN rows' /\ (x[1] \in Workers => HasEnded(x[2])')
    BY <1>1 DEF Sound, FramesWrittenOnce, Batches
  <2> QED
    BY <1>6, <2>1 DEF Sound
\* Whoever else wants to swap the row that was the newest so far comes too late.
<1>8. /\ \A w \in Workers \ {c} : call[w].at = "swap" => rows[call[w].seen].superseded # None
      /\ \A o \in Operators \ {c} : call[o].at \in {"index", "swap"} => rows[call[o].seen].superseded # None
  <2>1. CASE call[c].at = "append"
    <3>1. rows[Newest].superseded # None
      BY <1>3, <2>1 DEF Open, OpenWorker, OpenOperator, Calls
    <3>2. \A w \in Workers : call[w].at = "swap" => rows[call[w].seen].superseded # None
      BY <3>1 DEF Open, OpenWorker
    <3>3. \A o \in Operators : call[o].at \in {"index", "swap"} => rows[call[o].seen].superseded # None
      BY <3>1 DEF Open, OpenOperator
    <3> QED
      BY <3>2, <3>3
  <2>2. CASE call[c].at # "append"
    <3>1. call[c].at \in After /\ c \notin Operators
      BY <2>2 DEF Sound, SoundCall, Holding, Recovering, After, Loading, Loaded
    <3>2. ~HasEnded(Newest) /\ rows[Newest].token = c /\ call[c].at # "ended"
      BY <3>1 DEF Open, OpenWorker, Calls, After, Loading, Loaded
    <3>3. ASSUME NEW w \in Workers, call[w].at = "swap" PROVE rows[call[w].seen].superseded # None
      <4>1. HasEnded(call[w].seen)
        BY <1>3, <3>3 DEF Sound, SoundCall
      <4> QED
        BY <3>2, <3>3, <4>1 DEF Open, OpenWorker
    <3>4. ASSUME NEW o \in Operators, call[o].at \in {"index", "swap"}
          PROVE  rows[call[o].seen].superseded # None
      BY <3>2, <3>4 DEF Open, OpenOperator
    <3> QED
      BY <3>3, <3>4
  <2> QED
    BY <2>1, <2>2
<1>9. History'
  <2>1. Newest' >= 2 /\ Newest' \notin gone'
    BY <1>1
  <2>2. HasEnded(Newest) => rows[Newest].superseded # None
    <3>1. CASE call[c].at = "append"
      BY <1>3, <3>1 DEF Open, OpenWorker, OpenOperator, Calls
    <3>2. CASE call[c].at # "append"
      <4>1. call[c].at \in After /\ c \notin Operators
        BY <3>2 DEF Sound, SoundCall, Holding, Recovering, After, Loading, Loaded
      <4> QED
        BY <4>1 DEF Open, OpenWorker, Calls
    <3> QED
      BY <3>1, <3>2
  <2>3. ASSUME NEW p \in DOMAIN rows'
        PROVE  /\ rows'[p].index + 1 = p
               /\ rows'[p].updated_at <= p /\ p <= rows'[p].updated_at + 1
               /\ p >= 2 /\ ~HasEnded(p)' => rows'[p].token \in Workers
               /\ HasEnded(p)' /\ p # Newest' => rows'[p].superseded # None
    <3>1. CASE p \in DOMAIN rows
      BY <1>1, <2>2, <3>1 DEF Open, History
    <3>2. CASE p = Newest + 1
      BY <1>1, <3>2 DEF Row, HasEnded
    <3> QED
      BY <1>1, <3>1, <3>2
  <2>4. \A d \in Retainers : \A i \in pass'[d].ids : i + 1 < Newest'
    <3>1. \A d \in Retainers : pass'[d].ids \subseteq Nat
      BY DEF IInv, TypeOK, PassState
    <3> QED
      BY <1>1, <3>1 DEF Open, History
  <2> QED
    BY <2>1, <2>3, <2>4 DEF History
<1>10. \A d \in Calls \ {c} : call'[d].at \notin Holding
  BY <1>2 DEF Open, OneHolder
<1>11. OneHolder'
  BY <1>1, <1>10 DEF OneHolder
<1>12. ASSUME NEW w \in Workers \ {c} PROVE OpenWorker(w, call[w])'
  <2>1. OpenWorker(w, call[w]) /\ call'[w] = call[w] /\ call'[w].at \notin Holding
    BY <1>2, <1>3, <1>10 DEF Open
  <2>2. ~Names(call[w], Newest)'
    <3> SUFFICES ASSUME call[w].expect = <<rows'[Newest + 1].index, rows'[Newest + 1].token>> PROVE FALSE
      BY <1>1, <2>1 DEF Names
    <3>1. call[w].expect # None
      <4>1. <<r.index, r.token>> \in Nat \X Tokens
        BY DEF Row
      <4> QED
        BY <1>1, <4>1, CallAssumption DEF Tokens, Calls
    <3>2. PICK p \in DOMAIN rows : Names(call[w], p)
      BY <1>3, <3>1 DEF Sound, SoundCall
    <3>3. rows[p].index = Newest
      BY <1>1, <3>2 DEF Names
    <3> QED
      BY <1>1, <1>4, <3>3
  <2>3. call[w].at = "swap" => rows'[call[w].seen].superseded # None
    <3>1. call[w].at = "swap" => call[w].seen \in DOMAIN rows
      BY <1>3 DEF IInv, CallsSafe, CallSafe, SeenRow
    <3> QED
      BY <1>1, <1>8, <3>1
  <2> QED
    BY <2>1, <2>2, <2>3 DEF OpenWorker, Holding
<1>13. ASSUME NEW o \in Operators \ {c} PROVE OpenOperator(call[o])'
  <2>1. call'[o] = call[o] /\ call'[o].at \notin Holding
    BY <1>2, <1>3, <1>10
  <2>2. call[o].at \in {"index", "swap"} => call[o].seen \in DOMAIN rows
    BY <1>3 DEF Sound, SoundCall, Recovering
  <2> QED
    BY <1>1, <1>8, <2>1, <2>2 DEF OpenOperator, Holding
<1> QED
  BY <1>3, <1>7, <1>9, <1>11, <1>12, <1>13 DEF Open

\* What a running checkpoint does to the rows and to the local state of its call.
LEMMA RunningForm ==
    ASSUME IInv, IInv', NEW w \in Calls, NEW from, NEW to, NEW b, RecordRunning(w, from, to, b)
    PROVE  /\ Moves(w) /\ call[w].at = from /\ call'[w].at = to
           /\ call'[w].expect = call[w].expect /\ call'[w].known = call[w].known
           /\ call'[w].index = call[w].index + 1
           /\ \E r \in Row : /\ rows' = Append(rows, r) /\ r.index = call[w].index /\ r.status = "running"
                             /\ r.token = w /\ r.updated_at = Newest + 1 /\ r.superseded = None
           /\ UNCHANGED <<scenario, obs, transform, claims, gone, pass, holds>>
<1>1. call \in [Calls -> Local] /\ call' \in [Calls -> Local] /\ call[w] \in Local /\ Newest \in Nat
  BY RowFacts DEF IInv, TypeOK
<1>2. /\ call[w].at = from /\ UNCHANGED <<scenario, obs, transform, claims, gone, pass, holds>>
      /\ call' = [call EXCEPT ![w].index = call[w].index + 1, ![w].batch = b, ![w].at = to]
      /\ rows' = Append(rows, Checkpoint(call[w].index, "running", w, Newest + 1))
  BY DEF RecordRunning, Record, env, Newest
<1>3. /\ Moves(w) /\ call'[w].at = to /\ call'[w].expect = call[w].expect /\ call'[w].known = call[w].known
      /\ call'[w].index = call[w].index + 1
  BY <1>1, <1>2 DEF Moves, Local
<1> DEFINE r == Checkpoint(call[w].index, "running", w, Newest + 1)
<1>4. /\ r \in Row /\ r.index = call[w].index /\ r.status = "running"
      /\ r.token = w /\ r.updated_at = Newest + 1 /\ r.superseded = None
  BY <1>1 DEF Checkpoint, Row, Statuses, Tokens, Local
<1> QED
  BY <1>2, <1>3, <1>4

\* A running checkpoint of a worker that holds the job.
LEMMA PrescribedRunning ==
    ASSUME IInv, IInv', RetentionSafe, Disciplined, Prescribed, NEW w \in Workers,
           NEW from \in Holding \ {"finalize"}, NEW to \in After \ {"finalize"}, NEW b,
           RecordRunning(w, from, to, b)
    PROVE  Prescribed'
<1>1. w \in Calls /\ w \notin Operators
  BY CallAssumption DEF Calls
<1>2. PICK r \in Row : /\ rows' = Append(rows, r) /\ r.index = call[w].index /\ r.status = "running"
                       /\ r.token = w /\ r.updated_at = Newest + 1 /\ r.superseded = None
  BY <1>1, RunningForm
<1>3. /\ Moves(w) /\ call[w].at = from /\ call'[w].at = to
      /\ call'[w].expect = call[w].expect /\ call'[w].known = call[w].known
      /\ call'[w].index = call[w].index + 1
      /\ UNCHANGED <<scenario, obs, transform, claims, gone, pass, holds>>
  BY <1>1, RunningForm
<1>4. Sound /\ Open /\ ~transform
  <2>1. ~transform
    BY <1>3 DEF Prescribed, ClosedAt, ClosedWorker
  <2> QED
    BY <2>1 DEF Prescribed
<1>5. call[w].index = Newest /\ call[w].known = Written /\ Written' = Written
  BY <1>3, <1>4 DEF Open, OpenWorker, Holding, Written, Batches
<1>6. /\ Newest \in Nat /\ Newest' = Newest + 1 /\ DOMAIN rows' = 1 .. Newest + 1 /\ DOMAIN rows = 1 .. Newest
      /\ rows'[Newest + 1] = r /\ \A q \in DOMAIN rows : rows'[q] = rows[q]
      /\ ~HasEnded(Newest)'
  BY <1>2, AppendedRow DEF IInv, Terminal
<1>7. SoundCall(w, call[w])'
  <2>1. call[w].expect # None => \E p \in DOMAIN rows : Names(call[w], p)
    BY <1>1, <1>4 DEF Sound, SoundCall
  <2>2. call'[w].expect # None => \E p \in DOMAIN rows' : Names(call[w], p)'
    BY <1>3, <1>6, <2>1 DEF Names
  <2> QED
    BY <1>1, <1>3, <2>2 DEF SoundCall, Boot, After, Loading, Loaded
<1>8. OpenWorker(w, call[w])'
  BY <1>2, <1>3, <1>5, <1>6 DEF OpenWorker, Trying, Checked, After, Loading, Loaded
<1>9. Sound' /\ Open'
  <2>1. gone \subseteq DOMAIN rows /\ to # "append" /\ call[w].at \in Holding
    BY <1>3 DEF RetentionSafe, After, Loading, Loaded
  <2> QED
    BY <1>1, <1>2, <1>3, <1>4, <1>5, <1>7, <1>8, <2>1, OpenAppend
<1> QED
  BY <1>3, <1>4, <1>9 DEF Prescribed

\* A last checkpoint, and the row of a recovery: the job has ended, and so does the call.
Ends(c, t) ==
    \E s \in Terminal : /\ End(c) /\ rows' = Append(rows, Checkpoint(call[c].index, s, c, t))
                        /\ UNCHANGED <<scenario, obs, transform, claims, gone, pass, holds>>

LEMMA EndingForm ==
    ASSUME IInv, IInv', NEW c \in Calls, NEW t \in Nat, Ends(c, t)
    PROVE  /\ Moves(c) /\ call'[c].at = "ended" /\ call'[c].expect = None
           /\ \E r \in Row : /\ rows' = Append(rows, r) /\ r.index = call[c].index /\ r.status \in Terminal
                             /\ r.token = c /\ r.updated_at = t /\ r.superseded = None
           /\ UNCHANGED <<scenario, obs, transform, claims, gone, pass, holds>>
<1>1. call \in [Calls -> Local] /\ call[c] \in Local
  BY DEF IInv, TypeOK
<1>2. PICK s \in Terminal :
          /\ End(c) /\ rows' = Append(rows, Checkpoint(call[c].index, s, c, t))
          /\ UNCHANGED <<scenario, obs, transform, claims, gone, pass, holds>>
  BY DEF Ends
<1>3. Moves(c) /\ call'[c] = NoCall("ended")
  BY <1>1, <1>2, EndMoves
<1> DEFINE r == Checkpoint(call[c].index, s, c, t)
<1>4. /\ r \in Row /\ r.index = call[c].index /\ r.status \in Terminal
      /\ r.token = c /\ r.updated_at = t /\ r.superseded = None
  BY <1>1, <1>2 DEF Checkpoint, Row, Statuses, Tokens, Local
<1> QED
  BY <1>2, <1>3, <1>4 DEF NoCall

\* Before the job is published, the call is the one that is past its swap.
LEMMA OpenEnds ==
    ASSUME IInv, IInv', RetentionSafe, Disciplined, Prescribed, ~transform, NEW c \in Calls,
           call[c].at \in Holding, NEW t \in {Newest, Newest + 1}, Ends(c, t)
    PROVE  Prescribed'
<1>1. Sound /\ Open /\ Newest \in Nat /\ gone \subseteq DOMAIN rows /\ t \in Nat
  BY RowFacts DEF Prescribed, IInv, RetentionSafe
<1>2. /\ Moves(c) /\ call'[c].at = "ended" /\ call'[c].expect = None
      /\ UNCHANGED <<scenario, obs, transform, claims, gone, pass, holds>>
  BY <1>1, EndingForm
<1>3. PICK r \in Row : /\ rows' = Append(rows, r) /\ r.index = call[c].index /\ r.status \in Terminal
                       /\ r.token = c /\ r.updated_at = t /\ r.superseded = None
  BY <1>1, EndingForm
<1>4. call[c].index = Newest
  BY <1>1 DEF Open, OpenWorker, OpenOperator, Sound, SoundCall, Holding, Recovering, Calls, After, Loading, Loaded
<1>5. SoundCall(c, call[c])'
  BY <1>2 DEF SoundCall, Boot, Recovering
<1>6. OpenWorker(c, call[c])' /\ OpenOperator(call[c])'
  BY <1>2 DEF OpenWorker, OpenOperator, Trying, Checked, After, Loading, Loaded
<1>7. Sound' /\ Open'
  BY <1>1, <1>2, <1>3, <1>4, <1>5, <1>6, OpenAppend
<1> QED
  BY <1>2, <1>7 DEF Prescribed

\* Afterwards, the row comes after the row t in the history, or retention has deleted t.
LEMMA ClosedEnds ==
    ASSUME IInv, IInv', RetentionSafe, Disciplined, Prescribed, transform, NEW c \in Calls, NEW t \in Nat,
           Ends(c, t),
           \A p \in DOMAIN rows : ClosedAt(p) /\ p \notin gone => t >= p /\ call[c].index >= p
    PROVE  Prescribed'
<1>1. Sound /\ gone \subseteq DOMAIN rows
  BY DEF Prescribed, RetentionSafe
<1>2. PICK p \in DOMAIN rows : ClosedAt(p)
  BY DEF Prescribed
<1>3. /\ Moves(c) /\ call'[c].at = "ended" /\ call'[c].expect = None
      /\ UNCHANGED <<scenario, obs, transform, claims, gone, pass, holds>>
  BY EndingForm
<1>4. PICK r \in Row : /\ rows' = Append(rows, r) /\ r.index = call[c].index /\ r.status \in Terminal
                       /\ r.token = c /\ r.updated_at = t /\ r.superseded = None
  BY EndingForm
<1>5. /\ Newest \in Nat /\ Newest' = Newest + 1
      /\ DOMAIN rows = 1 .. Newest /\ DOMAIN rows' = 1 .. Newest + 1
      /\ rows'[Newest + 1] = r /\ \A q \in DOMAIN rows : rows'[q] = rows[q]
      /\ \A q \in DOMAIN rows : HasEnded(q)' <=> HasEnded(q)
      /\ HasEnded(Newest)' <=> r.status \in Terminal
  BY <1>4, AppendedRow DEF IInv
<1>6. p \in Nat /\ p >= 1 /\ p <= Newest
  BY <1>5
<1>7. \A d \in Calls \ {c} : call'[d] = call[d]
  BY <1>3 DEF Moves
<1>8. Workers \subseteq Calls /\ Operators \subseteq Calls
  BY DEF Calls
<1>9. Sound'
  <2>1. SoundCall(c, call[c])'
    BY <1>3 DEF SoundCall, Boot, Recovering
  <2>2. ASSUME NEW d \in Calls \ {c} PROVE SoundCall(d, call[d])'
    <3>1. SoundCall(d, call[d]) /\ CallSafe(d, call[d])
      BY <1>1 DEF Sound, IInv, CallsSafe
    <3>2. call[d].at = "swap" => call[d].seen \in DOMAIN rows
      BY <3>1 DEF CallSafe, SeenRow
    <3>3. call'[d].expect # None => \E q \in DOMAIN rows' : Names(call[d], q)'
      BY <1>5, <1>7, <3>1 DEF SoundCall, Names
    <3> QED
      BY <1>5, <1>7, <3>1, <3>2, <3>3 DEF SoundCall
  <2>3. FramesWrittenOnce' /\ \A x \in claims' : x[2] \in DOMAIN rows' /\ (x[1] \in Workers => HasEnded(x[2])')
    BY <1>1, <1>3, <1>5 DEF Sound, FramesWrittenOnce, Batches
  <2> QED
    BY <2>1, <2>2, <2>3 DEF Sound
<1>10. ClosedRows(p)'
  <2>1. /\ ~HasEnded(p) /\ p <= rows[p].updated_at + 1
        /\ \A q \in 1 .. p : rows[q].index + 1 = q /\ rows[q].updated_at <= q
        /\ \A q \in DOMAIN rows : q > p => HasEnded(q) /\ rows[q].superseded = None
        /\ p \in gone => 1 .. p \subseteq gone
        /\ p \notin gone => /\ \A q \in gone : q < p
                            /\ \A q \in DOMAIN rows : q > p => rows[q].updated_at >= p /\ rows[q].index >= p
    BY <1>2 DEF ClosedAt, ClosedRows
  <2>2. p \in DOMAIN rows' /\ ~HasEnded(p)' /\ p <= rows'[p].updated_at + 1
    BY <1>5, <2>1
  <2>3. \A q \in 1 .. p : rows'[q].index + 1 = q /\ rows'[q].updated_at <= q
    BY <1>5, <1>6, <2>1
  <2>4. ASSUME NEW q \in DOMAIN rows', q > p
        PROVE  /\ HasEnded(q)' /\ rows'[q].superseded = None
               /\ p \notin gone => rows'[q].updated_at >= p /\ rows'[q].index >= p
    <3>1. CASE q \in DOMAIN rows
      BY <1>5, <2>1, <2>4, <3>1
    <3>2. CASE q = Newest + 1
      BY <1>2, <1>4, <1>5, <3>2 DEF HasEnded
    <3> QED
      BY <1>5, <3>1, <3>2
  <2> QED
    BY <1>3, <2>1, <2>2, <2>3, <2>4 DEF ClosedRows
<1>11. ASSUME NEW d \in Retainers PROVE ClosedPass(p, d)'
  BY <1>2, <1>3, <1>5, <1>6 DEF ClosedAt, ClosedPass
<1>12. ASSUME NEW w \in Workers PROVE ClosedWorker(p, call[w])'
  <2>1. CASE w = c
    BY <1>3, <2>1 DEF ClosedWorker, Holding, Trying, Checked, After, Loading, Loaded
  <2>2. CASE w # c
    <3>1. call'[w] = call[w] /\ ClosedWorker(p, call[w])
      BY <1>2, <1>7, <1>8, <2>2 DEF ClosedAt
    <3>2. call[w].at = "swap" => call[w].seen \in DOMAIN rows
      BY <1>8 DEF IInv, CallsSafe, CallSafe, SeenRow
    <3>3. call[w].at \in Trying => \E q \in 1 .. p : Names(call[w], q)'
      BY <1>5, <1>6, <3>1 DEF ClosedWorker, Names
    <3>4. Newest' > p
      BY <1>5, <1>6
    <3> QED
      BY <1>3, <1>5, <3>1, <3>2, <3>3, <3>4 DEF ClosedWorker
  <2> QED
    BY <2>1, <2>2
<1>13. ASSUME NEW o \in Operators PROVE ClosedOperator(p, call[o])'
  <2>1. CASE o = c
    BY <1>3, <2>1 DEF ClosedOperator
  <2>2. CASE o # c
    <3>1. call'[o] = call[o] /\ ClosedOperator(p, call[o])
      BY <1>2, <1>7, <1>8, <2>2 DEF ClosedAt
    <3>2. call[o].at \in {"index", "swap"} => call[o].seen \in DOMAIN rows
      BY <1>1, <1>8 DEF Sound, SoundCall, Recovering
    <3> QED
      BY <1>3, <1>5, <3>1, <3>2 DEF ClosedOperator
  <2> QED
    BY <2>1, <2>2
<1>14. ClosedAt(p)'
  <2>1. Newest' > p
    BY <1>5, <1>6
  <2> QED
    BY <1>10, <1>11, <1>12, <1>13, <2>1 DEF ClosedAt
<1>15. p \in DOMAIN rows'
  BY <1>5
<1> QED
  BY <1>3, <1>9, <1>14, <1>15 DEF Prescribed

\* What a won swap does: the row that the call has seen was not superseded, and is now.
LEMMA WinSwapForm ==
    ASSUME IInv, NEW c \in Calls, WinSwap(c)
    PROVE  /\ Moves(c) /\ call[c].at = "swap" /\ call'[c].at = "append"
           /\ call'[c].expect = call[c].expect /\ call'[c].known = call[c].known
           /\ call'[c].index = call[c].index /\ call'[c].seen = call[c].seen
           /\ call'[c].reference = call[c].reference
           /\ call[c].seen \in DOMAIN rows /\ rows[call[c].seen].superseded = None
           /\ rows'[call[c].seen].superseded # None
           /\ \A q \in DOMAIN rows \ {call[c].seen} : rows'[q] = rows[q]
           /\ claims' = claims \cup {<<c, call[c].seen>>}
           /\ UNCHANGED <<scenario, obs, transform, gone, pass, holds>>
<1> DEFINE p == call[c].seen
           won == Swappable(p)
<1>1. call \in [Calls -> Local] /\ rows \in Seq(Row) /\ CallSafe(c, call[c]) /\ call[c].index \in Nat
  BY DEF IInv, TypeOK, CallsSafe, Local
<1>2. /\ call[c].at = "swap" /\ Goto(c, "append") /\ Cardinality(won) = 1
      /\ UNCHANGED <<scenario, obs, transform, gone, pass, holds>> /\ claims' = claims \cup {<<c, p>>}
      /\ rows' = [q \in DOMAIN rows |->
                    IF q \in won THEN [rows[q] EXCEPT !.superseded = call[c].index] ELSE rows[q]]
  BY DEF WinSwap, env
<1>3. p \in DOMAIN rows
  BY <1>1, <1>2 DEF CallSafe, SeenRow
<1>4. won = {p} /\ rows[p].superseded = None
  <2>1. won # {}
    BY <1>2, FS_EmptySet
  <2>2. \A q \in won : q = p /\ rows[q].superseded = None
    BY <1>3 DEF Swappable, Live, IInv, OneRowPerToken
  <2> QED
    BY <2>1, <2>2
<1> HIDE DEF won
<1>5. rows'[p] = [rows[p] EXCEPT !.superseded = call[c].index] /\ \A q \in DOMAIN rows \ {p} : rows'[q] = rows[q]
  BY <1>2, <1>3, <1>4
<1>6. rows'[p].superseded # None
  <2>1. rows[p] \in Row
    BY <1>1, <1>3
  <2>2. rows'[p].superseded = call[c].index
    BY <1>5, <2>1 DEF Row
  <2> QED
    BY <1>1, <2>2, CallAssumption
<1>7. /\ Moves(c) /\ call'[c].at = "append" /\ call'[c].expect = call[c].expect /\ call'[c].known = call[c].known
      /\ call'[c].index = call[c].index /\ call'[c].seen = call[c].seen /\ call'[c].reference = call[c].reference
  <2>1. call[c] \in Local /\ "append" \in Labels
    BY <1>1 DEF Labels, Before
  <2> QED
    BY <1>1, <1>2, <2>1 DEF Goto, Moves, Local
<1> QED
  BY <1>2, <1>3, <1>4, <1>5, <1>6, <1>7

\* A won swap: of the newest row, before the job is published; of the row t, by an
\* operator, afterwards.
LEMMA PrescribedSwap ==
    ASSUME IInv, IInv', RetentionSafe, Disciplined, Prescribed, NEW c \in Calls, WinSwap(c)
    PROVE  Prescribed'
<1> DEFINE p == call[c].seen
           k == call[c]
<1>1. /\ Moves(c) /\ k.at = "swap" /\ k'.at = "append" /\ k'.expect = k.expect /\ k'.known = k.known
      /\ k'.index = k.index /\ k'.seen = p /\ k'.reference = k.reference
      /\ p \in DOMAIN rows /\ rows[p].superseded = None /\ rows'[p].superseded # None
      /\ \A q \in DOMAIN rows \ {p} : rows'[q] = rows[q]
      /\ claims' = claims \cup {<<c, p>>}
      /\ UNCHANGED <<scenario, obs, transform, gone, pass, holds>>
  BY WinSwapForm
<1>2. /\ DOMAIN rows' = DOMAIN rows
      /\ \A q \in DOMAIN rows : /\ rows'[q].index = rows[q].index /\ rows'[q].token = rows[q].token
                                /\ rows'[q].status = rows[q].status /\ rows'[q].updated_at = rows[q].updated_at
  BY WinSwapMarks DEF Marks
<1>3. \A q \in DOMAIN rows : HasEnded(q)' <=> HasEnded(q)
  BY <1>2 DEF HasEnded
<1>4. Newest' = Newest /\ Newest \in Nat /\ DOMAIN rows = 1 .. Newest /\ Written' = Written
  <2>1. Newest \in Nat /\ DOMAIN rows = 1 .. Newest /\ Newest' \in Nat /\ DOMAIN rows' = 1 .. Newest'
    BY RowFacts DEF IInv, TypeOK, Newest
  <2> QED
    BY <1>1, <1>2, <2>1 DEF Written, Batches
<1>5. Workers \subseteq Calls /\ Operators \subseteq Calls /\ Workers \cap Operators = {}
  BY CallAssumption DEF Calls
<1>6. \A d \in Calls \ {c} : call'[d] = call[d]
  BY <1>1 DEF Moves
<1>7. Sound
  BY DEF Prescribed
<1>8. \A d \in Calls : d \in Workers /\ call[d].at = "swap" => call[d].seen \in DOMAIN rows
  BY DEF IInv, CallsSafe, CallSafe, SeenRow
<1>9. \A d \in Calls : d \in Operators /\ call[d].at \in Recovering => call[d].seen \in DOMAIN rows
  BY <1>7 DEF Sound, SoundCall
<1>10. Sound'
  <2>1. ASSUME NEW d \in Calls PROVE SoundCall(d, call[d])'
    <3>1. SoundCall(d, call[d]) /\ call'[d].expect = call[d].expect /\ call'[d].seen = call[d].seen
          /\ call'[d].reference = call[d].reference
      BY <1>1, <1>6, <1>7 DEF Sound
    <3>2. call'[d].at = call[d].at \/ (call[d].at = "swap" /\ call'[d].at = "append")
      BY <1>1, <1>6
    <3>3. call'[d].expect # None => \E q \in DOMAIN rows' : Names(call[d], q)'
      BY <1>2, <3>1 DEF SoundCall, Names
    <3>4. d \in Workers => call'[d].at \notin Boot /\ (call'[d].at = "swap" => HasEnded(call[d].seen)')
      BY <1>2, <1>8, <3>1, <3>2 DEF SoundCall, Boot, HasEnded
    <3>5. d \in Operators => /\ call'[d].at \in {"idle", "ended"} \cup Recovering
                             /\ call'[d].at \in Recovering =>
                                   /\ call'[d].seen \in DOMAIN rows' /\ ~HasEnded(call[d].seen)'
                                   /\ call'[d].seen <= call'[d].reference
      BY <1>2, <3>1, <3>2 DEF SoundCall, Recovering, HasEnded
    <3> QED
      BY <3>3, <3>4, <3>5 DEF SoundCall
  <2>2. \A x \in claims' : x[2] \in DOMAIN rows' /\ (x[1] \in Workers => HasEnded(x[2])')
    <3>1. c \in Workers => HasEnded(p)
      BY <1>1, <1>7 DEF Sound, SoundCall
    <3> QED
      BY <1>1, <1>2, <1>7, <3>1 DEF Sound, HasEnded
  <2>3. FramesWrittenOnce'
    BY <1>1, <1>7 DEF Sound, FramesWrittenOnce, Batches
  <2> QED
    BY <2>1, <2>2, <2>3 DEF Sound
<1>11. ASSUME ~transform PROVE Open'
  <2>1. Open
    BY <1>11 DEF Prescribed
  <2>2. /\ p = Newest
        /\ c \in Workers => k.known = Written /\ k.index = Newest /\ HasEnded(Newest)
        /\ c \in Operators => /\ k.reference = Newest /\ k.index = Newest /\ ~HasEnded(Newest)
                              /\ call[rows[Newest].token].at = "ended"
    BY <1>1, <1>5, <1>7, <2>1 DEF Open, OpenWorker, OpenOperator, Sound, SoundCall, Recovering, Calls
  <2>3. \A d \in Calls : call[d].at \notin Holding
    <3> SUFFICES ASSUME NEW d \in Calls, call[d].at \in Holding PROVE FALSE
      OBVIOUS
    <3>1. call[d].at # "append"
      BY <1>1, <2>1, <2>2 DEF Open, OpenWorker, OpenOperator, Calls
    <3>2. d \in Workers /\ call[d].at \in After
      BY <1>7, <3>1 DEF Sound, SoundCall, Recovering, Calls, Holding, After, Loading, Loaded
    <3>3. ~HasEnded(Newest) /\ rows[Newest].token = d /\ call[d].at # "ended"
      BY <2>1, <3>2 DEF Open, OpenWorker, After, Loading, Loaded
    <3> QED
      BY <2>2, <3>3 DEF Calls
  <2>4. History'
    BY <1>1, <1>2, <1>3, <1>4, <2>1, <2>2 DEF Open, History
  <2>5. OneHolder'
    BY <1>1, <1>6, <2>3 DEF OneHolder
  <2>6. ASSUME NEW w \in Workers PROVE OpenWorker(w, call[w])'
    <3>1. CASE w = c
      <4>1. HasEnded(Newest)' /\ rows'[Newest].superseded # None
        BY <1>1, <1>3, <1>4, <2>2, <3>1 DEF HasEnded
      <4> QED
        BY <1>1, <1>4, <2>2, <3>1, <4>1 DEF OpenWorker, Trying, Checked, After, Loading, Loaded
    <3>2. CASE w # c
      <4>1. call'[w] = call[w] /\ OpenWorker(w, call[w]) /\ call[w].at \notin Holding
        BY <1>5, <1>6, <2>1, <2>3, <3>2 DEF Open
      <4>2. call[w].at = "swap" => rows'[call[w].seen].superseded # None
        BY <1>1, <1>5, <1>8, <2>2, <4>1 DEF OpenWorker
      <4>3. (HasEnded(Newest)' <=> HasEnded(Newest)) /\ (Names(call[w], Newest)' <=> Names(call[w], Newest))
        <5>1. Newest \in DOMAIN rows
          BY <1>1, <2>2
        <5> QED
          BY <1>2, <1>4, <4>1, <5>1 DEF HasEnded, Names
      <4> QED
        BY <1>4, <4>1, <4>2, <4>3 DEF OpenWorker, Holding
    <3> QED
      BY <3>1, <3>2
  <2>7. ASSUME NEW o \in Operators PROVE OpenOperator(call[o])'
    <3>1. CASE o = c
      <4>1. ~HasEnded(Newest)' /\ rows'[Newest].superseded # None
        BY <1>1, <1>3, <1>4, <2>2, <3>1 DEF HasEnded
      <4> QED
        BY <1>1, <1>4, <2>2, <3>1, <4>1 DEF OpenOperator
    <3>2. CASE o # c
      <4>1. call'[o] = call[o] /\ OpenOperator(call[o]) /\ call[o].at \notin Holding
        BY <1>5, <1>6, <2>1, <2>3, <3>2 DEF Open
      <4>2. call[o].at \in {"index", "swap"} => rows'[call[o].seen].superseded # None
        BY <1>1, <1>5, <1>9, <2>2, <4>1 DEF OpenOperator, Recovering
      <4> QED
        BY <4>1, <4>2 DEF OpenOperator, Holding
    <3> QED
      BY <3>1, <3>2
  <2> QED
    BY <2>4, <2>5, <2>6, <2>7 DEF Open
<1>12. ASSUME transform PROVE \E t \in DOMAIN rows' : ClosedAt(t)'
  <2>1. PICK t \in DOMAIN rows : ClosedAt(t)
    BY <1>12 DEF Prescribed
  <2>2. c \in Operators /\ p = t /\ (t \notin gone => k.index >= t)
    <3>1. c \in Operators
      BY <1>1, <2>1 DEF ClosedAt, ClosedWorker, Calls
    <3>2. p = t
      BY <1>1, <2>1, <3>1 DEF ClosedAt, ClosedOperator
    <3> QED
      BY <1>1, <2>1, <3>1, <3>2 DEF ClosedAt, ClosedOperator
  <2>3. ClosedRows(t)'
    <3>1. t \in Nat /\ t <= Newest
      BY <1>4
    <3> QED
      BY <1>1, <1>2, <1>3, <1>4, <2>1, <2>2, <3>1 DEF ClosedAt, ClosedRows
  <2>4. \E o \in Operators : call'[o].at = "append"
    BY <1>1, <2>2
  <2>5. ASSUME NEW r \in Retainers PROVE ClosedPass(t, r)'
    <3>1. t \in Nat /\ t <= Newest
      BY <1>4
    <3> QED
      BY <1>1, <1>2, <1>4, <2>1, <3>1 DEF ClosedAt, ClosedPass
  <2>6. ASSUME NEW w \in Workers PROVE ClosedWorker(t, call[w])'
    <3>1. call'[w] = call[w] /\ ClosedWorker(t, call[w])
      BY <1>5, <1>6, <2>1, <2>2 DEF ClosedAt
    <3>2. call[w].at = "swap" => rows'[call[w].seen].superseded # None
      BY <1>1, <1>5, <1>8, <3>1 DEF ClosedWorker
    <3>3. \A q \in 1 .. t : Names(call[w], q) => Names(call[w], q)'
      BY <1>2, <1>4, <3>1 DEF Names
    <3> QED
      BY <1>1, <1>4, <3>1, <3>2, <3>3 DEF ClosedWorker
  <2>7. ASSUME NEW o \in Operators PROVE ClosedOperator(t, call[o])'
    <3>1. CASE o = c
      BY <1>1, <2>2, <3>1 DEF ClosedOperator
    <3>2. CASE o # c
      <4>1. call'[o] = call[o] /\ ClosedOperator(t, call[o])
        BY <1>5, <1>6, <2>1, <3>2 DEF ClosedAt
      <4>2. call[o].at \in {"index", "swap"} => call[o].seen = t \/ rows'[call[o].seen].superseded # None
        BY <1>1, <1>5, <1>9, <2>2, <4>1 DEF ClosedOperator, Recovering
      <4> QED
        BY <1>1, <4>1, <4>2 DEF ClosedOperator
    <3> QED
      BY <3>1, <3>2
  <2>8. ClosedAt(t)'
    BY <2>3, <2>4, <2>5, <2>6, <2>7 DEF ClosedAt
  <2> QED
    BY <1>2, <2>8
<1> QED
  BY <1>1, <1>10, <1>11, <1>12 DEF Prescribed

\* A frame batch: the worker that holds the job knows what is written.
LEMMA PrescribedFlush ==
    ASSUME IInv, IInv', Disciplined, Prescribed, NEW w \in Workers, FlushBatch(w)
    PROVE  Prescribed'
<1> DEFINE k == call[w]
           b == k.batch
<1>1. w \in Calls /\ w \notin Operators /\ call \in [Calls -> Local] /\ k \in Local /\ obs \in [Batches -> Nat]
  BY CallAssumption DEF IInv, TypeOK, Calls
<1>2. /\ k.at = "flush" /\ UNCHANGED <<scenario, rows, transform, claims, gone, pass, holds>>
      /\ obs' = IF b \in k.known THEN obs ELSE [obs EXCEPT ![b] = @ + 1]
      /\ call' = [call EXCEPT ![w].known = k.known \cup {b}, ![w].at = "beat"]
  BY DEF FlushBatch, env
<1>3. /\ Moves(w) /\ k'.at = "beat" /\ k'.known = k.known \cup {b} /\ k'.expect = k.expect /\ k'.index = k.index
  <2>1. call' \in [Calls -> Local]
    BY DEF IInv, TypeOK
  <2> QED
    BY <1>1, <1>2, <2>1 DEF Moves, Local
<1>4. Sound /\ Open /\ ~transform
  <2>1. ~transform
    BY <1>2 DEF Prescribed, ClosedAt, ClosedWorker, Holding, After, Loading, Loaded
  <2> QED
    BY <2>1 DEF Prescribed
<1>5. /\ k.known = Written /\ k.index = Newest /\ ~HasEnded(Newest)
      /\ rows[Newest].superseded = None /\ rows[Newest].token = w
  BY <1>2, <1>4 DEF Open, OpenWorker, After, Loading
<1>6. b \in Batches
  BY <1>1, <1>2 DEF IInv, CallsSafe, CallSafe, FramesSafe, Loading
<1>7. Written' = Written \cup {b} /\ FramesWrittenOnce' /\ Batches' = Batches
  <2>1. Batches' = Batches /\ \A a \in Batches : obs[a] \in Nat /\ obs[a] <= 1
    BY <1>1, <1>2, <1>4 DEF Batches, Sound, FramesWrittenOnce
  <2>2. CASE b \in k.known
    BY <1>2, <1>5, <2>1, <2>2 DEF Written, FramesWrittenOnce
  <2>3. CASE b \notin k.known
    <3>1. obs[b] = 0
      BY <1>5, <1>6, <2>1, <2>3 DEF Written
    <3>2. obs'[b] = 1 /\ \A a \in Batches \ {b} : obs'[a] = obs[a]
      BY <1>1, <1>2, <1>6, <2>3, <3>1
    <3> QED
      BY <1>6, <2>1, <3>2 DEF Written, FramesWrittenOnce
  <2> QED
    BY <2>2, <2>3
<1>8. Newest' = Newest /\ Newest \in DOMAIN rows /\ rows' = rows /\ \A d \in Calls \ {w} : call'[d] = call[d]
  BY <1>2, <1>3, <1>4, RowFacts DEF IInv, Newest, Open, History, Moves
<1>9. Sound'
  <2>1. ASSUME NEW d \in Calls PROVE SoundCall(d, call[d])'
    <3>1. CASE d = w
      <4>1. k'.expect # None => \E p \in DOMAIN rows' : Names(k, p)'
        BY <1>1, <1>3, <1>4, <1>8 DEF Sound, SoundCall, Names
      <4> QED
        BY <1>1, <1>3, <3>1, <4>1 DEF SoundCall, Boot
    <3>2. CASE d # w
      BY <1>4, <1>8, <3>2 DEF Sound, SoundCall, Names, HasEnded
    <3> QED
      BY <3>1, <3>2
  <2> QED
    BY <1>2, <1>4, <1>7, <2>1 DEF Sound, HasEnded
<1>10. Open'
  <2>1. \A d \in Calls \ {w} : call[d].at \notin Holding
    BY <1>1, <1>2, <1>4 DEF Open, OneHolder, Holding, After, Loading
  <2>2. History'
    BY <1>2, <1>4, <1>8 DEF Open, History, HasEnded
  <2>3. OneHolder'
    BY <1>5, <1>8, <2>1 DEF OneHolder
  <2>4. ASSUME NEW v \in Workers PROVE OpenWorker(v, call[v])'
    <3>1. CASE v = w
      BY <1>3, <1>5, <1>7, <1>8, <3>1 DEF OpenWorker, HasEnded, Trying, Checked, After, Loading, Loaded
    <3>2. CASE v # w
      <4>1. v \in Calls /\ call'[v] = call[v] /\ OpenWorker(v, call[v]) /\ call[v].at \notin Holding
        BY <1>4, <1>8, <2>1, <3>2 DEF Open, Calls
      <4>2. call[v].at \in Checked => ~Names(call[v], Newest)
        BY <1>5, <4>1 DEF OpenWorker
      <4>3. call[v].at = "swap" => rows[call[v].seen].superseded # None
        BY <1>4, <1>5, <4>1 DEF OpenWorker, Sound, SoundCall
      <4> QED
        BY <1>8, <4>1, <4>2, <4>3 DEF OpenWorker, Names, HasEnded, Checked, Holding
    <3> QED
      BY <3>1, <3>2
  <2>5. ASSUME NEW o \in Operators PROVE OpenOperator(call[o])'
    <3>1. o \in Calls /\ call'[o] = call[o] /\ OpenOperator(call[o])
      BY <1>1, <1>4, <1>8 DEF Open, Calls
    <3>2. call[o].at \in {"index", "swap"} => rows[call[o].seen].superseded # None
      BY <1>2, <1>5, <3>1 DEF OpenOperator
    <3> QED
      BY <1>8, <3>1, <3>2 DEF OpenOperator, HasEnded
  <2> QED
    BY <2>2, <2>3, <2>4, <2>5 DEF Open
<1> QED
  BY <1>2, <1>4, <1>9, <1>10 DEF Prescribed

\* A job is published under its newest row.
LEMMA PrescribedPublish ==
    ASSUME IInv, IInv', RetentionSafe, Disciplined, Prescribed, NEW w \in Workers, Publish(w)
    PROVE  Prescribed'
<1> DEFINE k == call[w]
           t == Newest
<1>1. w \in Calls /\ w \notin Operators /\ call \in [Calls -> Local] /\ k \in Local
  BY CallAssumption DEF IInv, TypeOK, Calls
<1>2. /\ k.at = "publish" /\ UNCHANGED <<scenario, rows, obs, claims, gone, pass, holds>>
      /\ transform' = TRUE /\ call' = [call EXCEPT ![w].at = "finalize"]
  BY DEF Publish, env, Goto
<1>3. Moves(w) /\ k'.at = "finalize" /\ k'.expect = k.expect /\ k'.index = k.index
  <2>1. call' \in [Calls -> Local]
    BY DEF IInv, TypeOK
  <2> QED
    BY <1>1, <1>2, <2>1 DEF Moves, Local
<1>4. Sound /\ Open /\ ~transform
  <2>1. ~transform
    BY <1>2 DEF Prescribed, ClosedAt, ClosedWorker, Holding, After, Loading, Loaded
  <2> QED
    BY <2>1 DEF Prescribed
<1>5. /\ k.index = Newest /\ ~HasEnded(Newest) /\ rows[Newest].superseded = None
  BY <1>2, <1>4 DEF Open, OpenWorker, After, Loaded
<1>6. /\ Newest' = Newest /\ Newest \in Nat /\ DOMAIN rows = 1 .. Newest /\ Newest \in DOMAIN rows
      /\ \A d \in Calls \ {w} : call'[d] = call[d]
      /\ \A p \in DOMAIN rows : rows[p].index \in Nat /\ rows[p].updated_at \in Nat
  BY <1>2, <1>3, <1>4, RowFacts DEF IInv, Newest, Open, History, Moves
<1>7. Sound'
  <2>1. ASSUME NEW d \in Calls PROVE SoundCall(d, call[d])'
    <3>1. CASE d = w
      <4>1. k'.expect # None => \E p \in DOMAIN rows' : Names(k, p)'
        BY <1>1, <1>2, <1>3, <1>4 DEF Sound, SoundCall, Names
      <4> QED
        BY <1>1, <1>3, <3>1, <4>1 DEF SoundCall, Boot
    <3>2. CASE d # w
      BY <1>2, <1>4, <1>6, <3>2 DEF Sound, SoundCall, Names, HasEnded
    <3> QED
      BY <3>1, <3>2
  <2> QED
    BY <1>2, <1>4, <2>1 DEF Sound, HasEnded, FramesWrittenOnce, Batches
<1>8. ClosedRows(t)' /\ \A r \in Retainers : ClosedPass(t, r)'
  <2>1. \A p \in DOMAIN rows : /\ rows[p].index + 1 = p
                               /\ rows[p].updated_at <= p /\ p <= rows[p].updated_at + 1
    BY <1>4 DEF Open, History
  <2>2. Newest \notin gone /\ gone \subseteq DOMAIN rows
    BY <1>4 DEF Open, History, RetentionSafe
  <2>3. ClosedRows(t)'
    BY <1>2, <1>5, <1>6, <2>1, <2>2 DEF ClosedRows, HasEnded
  <2>4. UniqueIds
    BY <1>6, <2>1 DEF UniqueIds
  <2>5. ASSUME NEW r \in Retainers PROVE ClosedPass(t, r)'
    <3>1. pass[r].at = "delete" => pass[r].ids # {}
      BY <2>4 DEF RetentionSafe, Spares
    <3>2. \A i \in pass[r].ids : i + 1 < Newest
      BY <1>4 DEF Open, History
    <3> QED
      BY <1>2, <1>6, <3>1, <3>2 DEF ClosedPass
  <2> QED
    BY <2>3, <2>5
<1>9. \A d \in Calls \ {w} : call[d].at \notin Holding
  BY <1>1, <1>2, <1>4 DEF Open, OneHolder, Holding, After, Loaded
<1>10. ASSUME NEW v \in Workers PROVE ClosedWorker(t, call[v])'
  <2>1. CASE v = w
    BY <1>3, <1>5, <1>6, <2>1 DEF ClosedWorker, Trying, Checked, Holding
  <2>2. CASE v # w
    <3>1. /\ v \in Calls /\ call'[v] = call[v] /\ OpenWorker(v, call[v]) /\ call[v].at \notin Holding
          /\ SoundCall(v, call[v])
      BY <1>4, <1>6, <1>9, <2>2 DEF Open, Sound, Calls
    <3>2. call[v].at = "swap" => rows[call[v].seen].superseded # None
      BY <1>5, <3>1 DEF OpenWorker, SoundCall
    <3>3. call[v].at \in Checked => ~Names(call[v], Newest)
      BY <1>5, <3>1 DEF OpenWorker
    <3>4. call[v].at \in Trying => \E p \in 1 .. t : Names(call[v], p)'
      BY <1>2, <1>6, <3>1 DEF OpenWorker, SoundCall, Names
    <3>5. call[v].at # "reuseAppend" /\ (Names(call[v], Newest)' <=> Names(call[v], Newest))
      BY <1>2, <1>6, <3>1 DEF OpenWorker, Names
    <3> QED
      BY <1>2, <1>6, <3>1, <3>2, <3>3, <3>4, <3>5 DEF ClosedWorker, Holding, After, Loaded
  <2> QED
    BY <2>1, <2>2
<1>11. ASSUME NEW o \in Operators PROVE ClosedOperator(t, call[o])'
  <2>1. o \in Calls /\ o # w /\ call'[o] = call[o] /\ OpenOperator(call[o]) /\ call[o].at # "append"
    BY <1>1, <1>4, <1>6, <1>9 DEF Open, Calls, Holding
  <2> QED
    BY <1>2, <1>5, <1>6, <2>1 DEF OpenOperator, ClosedOperator
<1>12. ClosedAt(t)'
  BY <1>2, <1>5, <1>6, <1>8, <1>10, <1>11 DEF ClosedAt
<1> QED
  BY <1>2, <1>6, <1>7, <1>12 DEF Prescribed

\* A worker that holds the job, and an operator after his swap.
LEMMA PrescribedHolder ==
    ASSUME IInv, IInv', RetentionSafe, Disciplined, Prescribed, NEW w \in Workers,
           \/ AppendClaim(w) \/ MediaCheckpoint(w) \/ BatchCheckpoint(w) \/ MetadataReady(w)
           \/ Complete(w) \/ Fail(w) \/ ReuseAppend(w)
    PROVE  Prescribed'
<1>1. w \in Calls /\ Newest \in Nat
  BY RowFacts DEF IInv, Calls
<1>2. CASE AppendClaim(w) \/ MediaCheckpoint(w) \/ BatchCheckpoint(w) \/ MetadataReady(w)
  <2>1. PICK from \in Holding \ {"finalize"}, to \in After \ {"finalize"} : \E b : RecordRunning(w, from, to, b)
    BY <1>2 DEF AppendClaim, MediaCheckpoint, BatchCheckpoint, MetadataReady, Holding, After, Loading, Loaded
  <2> QED
    BY <2>1, PrescribedRunning
<1>3. CASE Complete(w) \/ Fail(w) \/ ReuseAppend(w)
  <2>1. Ends(w, Newest + 1) /\ call[w].at \in After \cup {"reuseAppend"}
    BY <1>3 DEF Complete, Fail, ReuseAppend, RecordLast, Record, Ends, env, Newest, Terminal, After, Loading, Loaded
  <2>2. CASE transform
    <3>1. ASSUME NEW p \in DOMAIN rows, ClosedAt(p), p \notin gone PROVE Newest + 1 >= p /\ call[w].index >= p
      <4>1. p \in Nat /\ p <= Newest
        BY <1>1, RowFacts DEF IInv
      <4>2. call[w].index >= p
        BY <2>1, <3>1 DEF ClosedAt, ClosedWorker, Holding
      <4> QED
        BY <1>1, <4>1, <4>2
    <3> QED
      BY <1>1, <2>1, <2>2, <3>1, ClosedEnds
  <2>3. CASE ~transform
    <3>1. call[w].at \in Holding
      BY <2>1, <2>3 DEF Prescribed, Open, OpenWorker, Holding
    <3> QED
      BY <1>1, <2>1, <2>3, <3>1, OpenEnds
  <2> QED
    BY <2>2, <2>3
<1> QED
  BY <1>2, <1>3

LEMMA PrescribedRecovered ==
    ASSUME IInv, IInv', RetentionSafe, Disciplined, Prescribed, NEW o \in Operators, RecoverAppend(o)
    PROVE  Prescribed'
<1> DEFINE t == call[o].reference
<1>1. o \in Calls /\ Newest \in Nat /\ t \in Nat /\ call[o].at = "append"
  BY RowFacts DEF IInv, TypeOK, Local, Calls, RecoverAppend
<1>2. Ends(o, t)
  BY DEF RecoverAppend, Ends, env, Terminal
<1>3. call[o].seen \in Nat /\ call[o].seen <= t
  BY <1>1, RowFacts DEF IInv, Prescribed, Sound, SoundCall, Recovering
<1>4. CASE transform
  <2>1. ASSUME NEW p \in DOMAIN rows, ClosedAt(p), p \notin gone PROVE t >= p /\ call[o].index >= p
    BY <1>1, <1>3, <2>1 DEF ClosedAt, ClosedOperator
  <2> QED
    BY <1>1, <1>2, <1>4, <2>1, ClosedEnds
<1>5. CASE ~transform
  <2>1. t = Newest
    BY <1>1, <1>5 DEF Prescribed, Open, OpenOperator
  <2> QED
    BY <1>1, <1>2, <1>5, <2>1, OpenEnds DEF Holding
<1> QED
  BY <1>4, <1>5

\* What a step of a pass changes: its ids, and by those the rows.
LEMMA PassForm ==
    ASSUME IInv, NEW r \in Retainers, Retain(r)
    PROVE  /\ UNCHANGED <<scenario, rows, obs, transform, call, claims>>
           /\ \A d \in Retainers \ {r} : pass'[d] = pass[d]
           /\ \/ ReadHistory(r)
              \/ DeleteChunk(r)
              \/ /\ UNCHANGED gone /\ pass'[r].ids \in {pass[r].ids, {}}
                 /\ pass'[r].at = "delete" => pass'[r].ids # {}
<1>1. pass \in [Retainers -> PassState]
  BY DEF IInv, TypeOK
<1>2. UNCHANGED <<scenario, rows, obs, transform, call, claims>>
  BY DEF Retain, ReadHistory, ReadRowsAgain, ResolveHolds, DeleteChunk, RetentionDies, ingest
<1>3. \A d \in Retainers \ {r} : pass'[d] = pass[d]
  BY <1>1 DEF Retain, ReadHistory, ReadRowsAgain, ResolveHolds, DeleteChunk, RetentionDies
<1>4. ASSUME ReadRowsAgain(r) PROVE UNCHANGED gone /\ pass'[r].ids = pass[r].ids /\ pass'[r].at = "holds"
  BY <1>1, <1>4 DEF ReadRowsAgain, PassState
<1>5. ASSUME RetentionDies(r) PROVE UNCHANGED gone /\ pass'[r].ids = {} /\ pass'[r].at = "ended"
  BY <1>1, <1>5 DEF RetentionDies, NoPass
<1>6. ASSUME ResolveHolds(r)
      PROVE  /\ UNCHANGED gone /\ pass'[r].ids \in {pass[r].ids, {}}
             /\ pass'[r].at = "delete" => pass'[r].ids # {}
  <2>1. UNCHANGED gone /\ \/ pass' = [pass EXCEPT ![r] = NoPass("ended")]
                          \/ pass[r].ids # {} /\ pass' = [pass EXCEPT ![r] = Decided(pass[r])]
    BY <1>6 DEF ResolveHolds, Decided
  <2>2. Decided(pass[r]).ids = pass[r].ids /\ NoPass("ended").ids = {} /\ NoPass("ended").at = "ended"
    BY <1>1 DEF Decided, NoPass, PassState
  <2> QED
    BY <1>1, <2>1, <2>2
<1> QED
  BY <1>2, <1>3, <1>4, <1>5, <1>6 DEF Retain

\* What the history of a job that has ended leaves to delete: all but a row that sorts
\* as the latest one does.
LEMMA HistoryForm ==
    ASSUME IInv, NEW r \in Retainers, ReadHistory(r)
    PROVE  /\ Latest # 0 /\ Latest \in Live /\ HasEnded(Latest) /\ UNCHANGED gone
           /\ \E p \in Live :
                 /\ SortsBefore(rows[Latest], rows[p]) /\ SortsBefore(rows[p], rows[Latest])
                 /\ pass'[r].ids = {rows[q].index : q \in Live} \ {rows[p].index}
           /\ pass'[r].at = "rows"
<1>1. TypeOK /\ pass \in [Retainers -> PassState] /\ Live \subseteq DOMAIN rows
  BY DEF IInv, TypeOK, Live
<1>2. PICK s \in Selections :
        /\ Latest # 0 /\ rows[Latest].status \in Terminal \cap s
        /\ pass' = [pass EXCEPT ![r].at = "rows", ![r].read = Live,
                      ![r].ids = {rows[q].index : q \in Live} \
                           {rows[LastOf({q \in Live : rows[q].status \in Terminal \cap s})].index}]
  BY DEF ReadHistory
<1> DEFINE S == {q \in Live : rows[q].status \in Terminal \cap s}
           p == LastOf(S)
           I == {rows[q].index : q \in Live} \ {rows[p].index}
<1>3. Latest \in S /\ S \in SUBSET DOMAIN rows
  BY <1>1, <1>2, LatestRow
<1>4. p \in S /\ SortsBefore(rows[Latest], rows[p])
  <2> HIDE DEF S
  <2> QED
    BY <1>1, <1>3, LastRow
<1>5. SortsBefore(rows[p], rows[Latest])
  BY <1>1, <1>2, <1>4, LatestSortsLast
<1>6. pass' = [pass EXCEPT ![r] = ReadAll(pass[r], Live, I)]
  BY <1>2 DEF ReadAll
<1>7. pass'[r].ids = I /\ pass'[r].at = "rows"
  <2> HIDE DEF I
  <2>1. ReadAll(pass[r], Live, I).ids = I /\ ReadAll(pass[r], Live, I).at = "rows"
    BY <1>1 DEF ReadAll, PassState
  <2> QED
    BY <1>1, <1>6, <2>1
<1>8. p \in Live /\ Latest \in Live
  BY <1>3, <1>4
<1> HIDE DEF p
<1> QED
  BY <1>2, <1>4, <1>5, <1>7, <1>8 DEF HasEnded, ReadHistory

LEMMA ChunkForm ==
    ASSUME IInv, NEW r \in Retainers, DeleteChunk(r), pass[r].ids # {}
    PROVE  \E id \in pass[r].ids :
               /\ \A i \in pass[r].ids : id <= i
               /\ gone' = gone \cup {q \in Live : rows[q].index = id}
               /\ pass'[r].ids = pass[r].ids \ {id}
               /\ pass'[r].at = "delete" => pass'[r].ids # {}
<1> DEFINE id == CHOOSE i \in pass[r].ids : \A j \in pass[r].ids : i <= j
           rest == pass[r].ids \ {id}
<1>1. pass \in [Retainers -> PassState] /\ pass[r].ids \in SUBSET Nat
  BY DEF IInv, TypeOK, PassState
<1>2. id \in pass[r].ids /\ \A i \in pass[r].ids : id <= i
  BY <1>1, LeastNatural
<1>3. /\ gone' = gone \cup {q \in Live : rows[q].index = id}
      /\ pass' = [pass EXCEPT ![r] = IF rest = {} THEN NoPass("ended") ELSE Remaining(pass[r], rest)]
  BY DEF DeleteChunk, Remaining
<1> HIDE DEF id
<1>4. pass'[r].ids = rest /\ (pass'[r].at = "delete" => pass'[r].ids # {})
  <2> HIDE DEF rest
  <2>1. Remaining(pass[r], rest).ids = rest /\ NoPass("ended").ids = {} /\ NoPass("ended").at = "ended"
    BY <1>1 DEF Remaining, NoPass, PassState
  <2> QED
    BY <1>1, <1>3, <2>1
<1> QED
  BY <1>2, <1>3, <1>4

\* Before the job is published, retention never deletes the newest row.
LEMMA OpenRetain ==
    ASSUME IInv, RetentionSafe, Open, NEW r \in Retainers, Retain(r)
    PROVE  Open'
<1>1. /\ UNCHANGED <<scenario, rows, obs, transform, call, claims>>
      /\ \A d \in Retainers \ {r} : pass'[d] = pass[d]
  BY PassForm
<1>2. /\ Newest \in Nat /\ Newest >= 2 /\ DOMAIN rows = 1 .. Newest /\ Newest \notin gone
      /\ Live \subseteq DOMAIN rows
      /\ \A p \in DOMAIN rows : /\ rows[p].index \in Nat /\ rows[p].index + 1 = p
                                /\ rows[p].updated_at \in Nat /\ rows[p].updated_at <= p
                                /\ p <= rows[p].updated_at + 1
      /\ pass[r].ids \in SUBSET Nat
      /\ \A i \in pass[r].ids : i + 1 < Newest
  BY RowFacts DEF Open, History, IInv, TypeOK, PassState, Live
<1>3. Newest \notin gone' /\ \A i \in pass'[r].ids : i + 1 < Newest
  <2>1. CASE ReadHistory(r)
    <3>1. Latest = Newest
      BY OpenLatest DEF IInv, RetentionSafe, Open
    <3>2. PICK p \in Live : /\ SortsBefore(rows[Latest], rows[p]) /\ SortsBefore(rows[p], rows[Latest])
                            /\ pass'[r].ids = {rows[q].index : q \in Live} \ {rows[p].index}
      BY <2>1, HistoryForm
    <3>3. rows[p].index = rows[Newest].index
      <4>1. Newest \in DOMAIN rows /\ p \in DOMAIN rows
        BY <1>2
      <4>2. rows[p].index \in Nat /\ rows[Newest].index \in Nat
            /\ rows[p].updated_at \in Nat /\ rows[Newest].updated_at \in Nat
        BY <1>2, <4>1
      <4> QED
        BY <3>1, <3>2, <4>2 DEF SortsBefore
    <3>4. ASSUME NEW i \in pass'[r].ids PROVE i + 1 < Newest
      <4>1. PICK q \in DOMAIN rows : i = rows[q].index /\ i # rows[Newest].index
        BY <1>2, <3>2, <3>3
      <4> QED
        BY <1>2, <4>1
    <3> QED
      BY <1>2, <2>1, <3>4, HistoryForm
  <2>2. CASE DeleteChunk(r)
    <3>1. pass[r].ids # {}
      <4>1. UniqueIds
        BY <1>2 DEF UniqueIds
      <4> QED
        BY <2>2, <4>1 DEF RetentionSafe, Spares, DeleteChunk
    <3>2. PICK id \in pass[r].ids : /\ gone' = gone \cup {q \in Live : rows[q].index = id}
                                    /\ pass'[r].ids = pass[r].ids \ {id}
      BY <2>2, <3>1, ChunkForm
    <3>3. rows[Newest].index # id
      BY <1>2, <3>2
    <3> QED
      BY <1>2, <3>2, <3>3
  <2>3. CASE UNCHANGED gone /\ pass'[r].ids \in {pass[r].ids, {}}
    BY <1>2, <2>3
  <2> QED
    BY <2>1, <2>2, <2>3, PassForm
<1>4. Newest' = Newest /\ Written' = Written /\ \A q : HasEnded(q)' = HasEnded(q)
  BY <1>1 DEF Newest, Written, Batches, HasEnded
<1>5. History'
  BY <1>1, <1>3, <1>4 DEF Open, History
<1>6. OneHolder'
  BY <1>1, <1>4 DEF Open, OneHolder
<1>7. ASSUME NEW w \in Workers PROVE OpenWorker(w, call[w])'
  BY <1>1, <1>4 DEF Open, OpenWorker, Names, HasEnded
<1>8. ASSUME NEW o \in Operators PROVE OpenOperator(call[o])'
  BY <1>1, <1>4 DEF Open, OpenOperator, HasEnded
<1> QED
  BY <1>5, <1>6, <1>7, <1>8 DEF Open

\* Afterwards, retention deletes the row t only after all the older ones.
LEMMA ClosedRetain ==
    ASSUME IInv, RetentionSafe, NEW t \in DOMAIN rows, ClosedAt(t), NEW r \in Retainers, Retain(r)
    PROVE  ClosedAt(t)'
<1>1. /\ UNCHANGED <<scenario, rows, obs, transform, call, claims>>
      /\ \A d \in Retainers \ {r} : pass'[d] = pass[d]
  BY PassForm
<1>2. /\ Newest \in Nat /\ DOMAIN rows = 1 .. Newest /\ t \in Nat /\ t >= 1 /\ t <= Newest
      /\ Live = DOMAIN rows \ gone /\ gone \subseteq DOMAIN rows
      /\ \A p \in DOMAIN rows : p \in Nat /\ rows[p].index \in Nat /\ rows[p].updated_at \in Nat
      /\ \A p \in 1 .. t : p \in DOMAIN rows /\ rows[p].index + 1 = p
      /\ pass[r].ids \in SUBSET Nat
  BY RowFacts DEF ClosedAt, ClosedRows, RetentionSafe, IInv, TypeOK, PassState, Live
<1>3. /\ ~HasEnded(t) /\ t <= rows[t].updated_at + 1
      /\ \A p \in 1 .. t : rows[p].index + 1 = p /\ rows[p].updated_at <= p
      /\ \A p \in DOMAIN rows : p > t => HasEnded(p) /\ rows[p].superseded = None
      /\ t \in gone => 1 .. t \subseteq gone
      /\ t \notin gone => /\ \A p \in gone : p < t
                          /\ \A p \in DOMAIN rows : p > t => rows[p].updated_at >= t /\ rows[p].index >= t
  BY DEF ClosedAt, ClosedRows
<1>4. Newest' = Newest /\ \A q : HasEnded(q)' = HasEnded(q)
  BY <1>1 DEF Newest, HasEnded
<1>5. /\ gone \subseteq gone'
      /\ t \in gone' => 1 .. t \subseteq gone'
      /\ t \notin gone' => \A p \in gone' : p < t
      /\ pass'[r].at = "delete" => pass'[r].ids # {}
      /\ t \notin gone' => \/ \A i \in pass'[r].ids : i + 1 < t
                           \/ \A p \in 1 .. t : p \notin gone' => rows[p].index \in pass'[r].ids
  <2>1. CASE ReadHistory(r)
    <3>1. Latest # 0 /\ Latest \in Live /\ HasEnded(Latest) /\ UNCHANGED gone /\ pass'[r].at = "rows"
      BY <2>1, HistoryForm
    <3>2. PICK p \in Live : /\ SortsBefore(rows[Latest], rows[p]) /\ SortsBefore(rows[p], rows[Latest])
                            /\ pass'[r].ids = {rows[q].index : q \in Live} \ {rows[p].index}
      BY <2>1, HistoryForm
    <3>3. rows[p].index = rows[Latest].index
      <4>1. /\ rows[p].index \in Nat /\ rows[Latest].index \in Nat
            /\ rows[p].updated_at \in Nat /\ rows[Latest].updated_at \in Nat
        BY <1>2, <3>1
      <4> QED
        BY <3>2, <4>1 DEF SortsBefore
    <3>4. ASSUME t \notin gone, NEW q \in 1 .. t, q \notin gone PROVE rows[q].index \in pass'[r].ids
      <4>1. Latest >= t
        BY <3>4, ClosedLatest DEF IInv, RetentionSafe, ClosedAt
      <4>2. Latest > t
        BY <1>2, <1>3, <3>1, <4>1
      <4>3. rows[Latest].index >= t
        BY <1>2, <1>3, <3>1, <3>4, <4>2
      <4>4. rows[q].index < t /\ q \in Live
        BY <1>2, <3>4
      <4> QED
        BY <1>2, <3>1, <3>2, <3>3, <4>3, <4>4
    <3> QED
      BY <1>3, <3>1, <3>4
  <2>2. CASE DeleteChunk(r)
    <3>1. pass[r].ids # {} /\ (t \notin gone => \/ \A i \in pass[r].ids : i + 1 < t
                                                \/ \A p \in 1 .. t : p \notin gone => rows[p].index \in pass[r].ids)
      BY <2>2 DEF ClosedAt, ClosedPass, DeleteChunk
    <3>2. PICK id \in pass[r].ids :
              /\ \A i \in pass[r].ids : id <= i
              /\ gone' = gone \cup {q \in Live : rows[q].index = id}
              /\ pass'[r].ids = pass[r].ids \ {id}
              /\ pass'[r].at = "delete" => pass'[r].ids # {}
      BY <2>2, <3>1, ChunkForm
    <3>3. CASE t \in gone
      BY <1>3, <3>2, <3>3
    <3>4. CASE t \notin gone /\ id + 1 < t
      <4>1. \A q \in DOMAIN rows : rows[q].index = id => q < t
        <5> SUFFICES ASSUME NEW q \in DOMAIN rows, rows[q].index = id PROVE q < t
          OBVIOUS
        <5>1. CASE q > t
          BY <1>2, <1>3, <3>4, <5>1
        <5>2. CASE q \in 1 .. t
          BY <1>2, <3>4, <5>2
        <5> QED
          BY <1>2, <5>1, <5>2
      <4>2. \A q \in gone' : q < t
        BY <1>2, <1>3, <3>2, <3>4, <4>1
      <4>3. t \notin gone'
        BY <1>2, <4>2
      <4>4. \/ \A i \in pass'[r].ids : i + 1 < t
            \/ \A q \in 1 .. t : q \notin gone' => rows[q].index \in pass'[r].ids
        <5>1. CASE \A i \in pass[r].ids : i + 1 < t
          BY <3>2, <5>1
        <5>2. CASE \A q \in 1 .. t : q \notin gone => rows[q].index \in pass[r].ids
          BY <1>2, <3>2, <5>2
        <5> QED
          BY <3>1, <3>4, <5>1, <5>2
      <4> QED
        BY <3>2, <4>2, <4>3, <4>4
    <3>5. CASE t \notin gone /\ ~(id + 1 < t)
      <4>1. /\ id \in Nat /\ rows[t].index \in pass[r].ids /\ id = rows[t].index
            /\ \A q \in 1 .. t : q \notin gone => rows[q].index \in pass[r].ids
        <5>1. ~ \A i \in pass[r].ids : i + 1 < t
          BY <3>2, <3>5
        <5>2. \A q \in 1 .. t : q \notin gone => rows[q].index \in pass[r].ids
          BY <3>1, <3>5, <5>1
        <5>3. t \in 1 .. t /\ rows[t].index + 1 = t /\ rows[t].index \in pass[r].ids
          BY <1>2, <3>5, <5>2
        <5> QED
          BY <1>2, <3>2, <3>5, <5>2, <5>3
      <4>2. ASSUME NEW q \in 1 .. t PROVE q \in gone'
        <5>1. CASE q = t
          BY <1>2, <3>2, <3>5, <4>1, <5>1
        <5>2. CASE q < t
          <6>1. rows[q].index < id
            BY <1>2, <4>1, <5>2
          <6>2. rows[q].index \notin pass[r].ids
            BY <1>2, <3>2, <4>1, <6>1
          <6> QED
            BY <3>2, <4>1, <6>2
        <5> QED
          BY <1>2, <5>1, <5>2
      <4>3. t \in gone'
        BY <1>2, <4>2
      <4> QED
        BY <3>2, <4>2, <4>3
    <3> QED
      BY <3>3, <3>4, <3>5
  <2>3. CASE /\ UNCHANGED gone /\ pass'[r].ids \in {pass[r].ids, {}}
             /\ pass'[r].at = "delete" => pass'[r].ids # {}
    BY <1>3, <2>3 DEF ClosedAt, ClosedPass
  <2> QED
    BY <2>1, <2>2, <2>3, PassForm
<1>6. ClosedRows(t)'
  BY <1>1, <1>2, <1>3, <1>4, <1>5 DEF ClosedRows, HasEnded
<1>7. ASSUME NEW d \in Retainers PROVE ClosedPass(t, d)'
  <2>1. CASE d = r
    BY <1>1, <1>5, <2>1 DEF ClosedPass
  <2>2. CASE d # r
    BY <1>1, <1>5, <2>2 DEF ClosedAt, ClosedPass
  <2> QED
    BY <2>1, <2>2
<1>8. ASSUME NEW w \in Workers PROVE ClosedWorker(t, call[w])'
  <2>1. t \in gone => t \in gone'
    BY <1>5
  <2> QED
    BY <1>1, <1>4, <2>1 DEF ClosedAt, ClosedWorker, Names
<1>9. ASSUME NEW o \in Operators PROVE ClosedOperator(t, call[o])'
  <2>1. t \in gone => t \in gone'
    BY <1>5
  <2> QED
    BY <1>1, <1>4, <2>1 DEF ClosedAt, ClosedOperator
<1> QED
  BY <1>1, <1>4, <1>6, <1>7, <1>8, <1>9 DEF ClosedAt

LEMMA PrescribedInductive ==
    IInv /\ IInv' /\ RetentionSafe /\ Prescribed /\ [Next]_vars => Prescribed'
<1> SUFFICES ASSUME IInv, IInv', RetentionSafe, Prescribed, [Next]_vars PROVE Prescribed'
  OBVIOUS
<1>1. UNCHANGED scenario
  BY CallRows, PassForm DEF Next, Audit, HoldSelect, HoldPut, HoldRelease, ingest, vars
<1>2. CASE ~Disciplined
  BY <1>1, <1>2 DEF Prescribed, Disciplined
<1>3. ASSUME Disciplined, UNCHANGED <<scenario, rows, obs, transform, call, claims, gone, pass>> PROVE Prescribed'
  <2>1. Newest' = Newest /\ Written' = Written /\ (Sound' <=> Sound)
    BY <1>3 DEF Newest, Written, Batches, Sound, SoundCall, Names, HasEnded, FramesWrittenOnce
  <2>2. Open' <=> Open
    BY <1>3, <2>1 DEF Open, History, OneHolder, OpenWorker, OpenOperator, Names, HasEnded
  <2>3. \A t \in DOMAIN rows : ClosedAt(t) => ClosedAt(t)'
    BY <1>3, <2>1 DEF ClosedAt, ClosedRows, ClosedPass, ClosedWorker, ClosedOperator, Names, HasEnded
  <2> QED
    BY <1>3, <2>1, <2>2, <2>3 DEF Prescribed
<1>4. ASSUME Disciplined, NEW w \in Workers, Ingest(w) PROVE Prescribed'
  <2>1. CASE \/ Start(w) \/ Precheck(w) \/ CheckDone(w) \/ CheckClaimable(w)
             \/ Snapshot(w) \/ ReadIndex(w) \/ Reread(w) \/ ReuseIndex(w)
    BY <1>4, <2>1, PrescribedAttempt
  <2>2. CASE \/ AppendClaim(w) \/ MediaCheckpoint(w) \/ BatchCheckpoint(w) \/ MetadataReady(w)
             \/ Complete(w) \/ Fail(w) \/ ReuseAppend(w)
    BY <1>4, <2>2, PrescribedHolder
  <2>3. CASE FlushBatch(w)
    BY <1>4, <2>3, PrescribedFlush
  <2>4. CASE Publish(w)
    BY <1>4, <2>4, PrescribedPublish
  <2>5. CASE BootMerge(w) \/ BootCommit(w) \/ BootCheck(w)
    <3>1. call[w].at \in Boot
      BY <2>5 DEF BootMerge, BootCommit, BootCheck, Boot
    <3> QED
      BY <1>4, <3>1 DEF Prescribed, Sound, SoundCall, Calls
  <2> QED
    BY <1>4, <2>1, <2>2, <2>3, <2>4, <2>5 DEF Ingest
<1>5. ASSUME Disciplined, NEW o \in Operators, Recover(o) PROVE Prescribed'
  BY <1>5, PrescribedRecovery, PrescribedRecovered DEF Recover
<1>6. ASSUME Disciplined, NEW c \in Calls, WinSwap(c) PROVE Prescribed'
  BY <1>6, PrescribedSwap
<1>7. ASSUME Disciplined, NEW c \in Calls, LoseSwap(c) \/ Crash(c) PROVE Prescribed'
  <2>1. /\ End(c) /\ call[c].at \notin {"append", "ended"}
        /\ UNCHANGED <<env, rows, obs, transform, claims>>
    BY <1>7 DEF LoseSwap, Crash, Disciplined
  <2> QED
    BY <1>7, <2>1, PrescribedEnd
<1>8. ASSUME Disciplined, NEW r \in Retainers, Retain(r) PROVE Prescribed'
  <2>1. UNCHANGED <<scenario, rows, obs, transform, call, claims>>
    BY <1>8, PassForm
  <2>2. Sound'
    BY <1>8, <2>1 DEF Prescribed, Sound, SoundCall, Names, HasEnded, FramesWrittenOnce, Batches
  <2>3. ASSUME ~transform PROVE Open'
    BY <1>8, <2>3, OpenRetain DEF Prescribed
  <2>4. ASSUME transform PROVE \E t \in DOMAIN rows : ClosedAt(t)'
    <3>1. PICK t \in DOMAIN rows : ClosedAt(t)
      BY <1>8, <2>4 DEF Prescribed
    <3>2. ClosedAt(t)'
      BY <1>8, <3>1, ClosedRetain
    <3> QED
      BY <3>2
  <2> QED
    BY <2>1, <2>2, <2>3, <2>4 DEF Prescribed
<1>9. ASSUME Disciplined, NEW h \in Auditors, Audit(h) PROVE Prescribed'
  BY <1>3, <1>9 DEF Audit, HoldSelect, HoldPut, HoldRelease, ingest
<1>10. ASSUME Disciplined, UNCHANGED vars PROVE Prescribed'
  BY <1>3, <1>10 DEF vars, ingest
<1> QED
  BY <1>2, <1>4, <1>5, <1>6, <1>7, <1>8, <1>9, <1>10 DEF Next

LEMMA PrescribedInitially == Init => Prescribed
<1> SUFFICES ASSUME Init, Disciplined PROVE Sound /\ ~transform /\ Open
  BY DEF Prescribed
<1>1. /\ rows = <<Checkpoint(0, "running", Past, 1), Checkpoint(1, "failed", Past, 2)>>
      /\ \A b \in Batches : obs[b] \in {0, 1}
      /\ transform = FALSE /\ claims = {} /\ gone = {}
      /\ \A c \in Calls : call[c].at = "idle" /\ call[c].expect = None
      /\ \A r \in Retainers : pass[r].ids = {}
  BY DEF Init, Disciplined, NoCall, NoPass
<1>2. /\ Newest = 2 /\ DOMAIN rows = 1 .. 2
      /\ rows[1].index = 0 /\ rows[1].status = "running" /\ rows[1].updated_at = 1
      /\ rows[2].index = 1 /\ rows[2].status = "failed" /\ rows[2].updated_at = 2 /\ rows[2].superseded = None
  BY <1>1 DEF Newest, Checkpoint
<1>3. ~HasEnded(1) /\ HasEnded(2)
  BY <1>2 DEF HasEnded, Terminal
<1>4. Sound
  BY <1>1 DEF Sound, SoundCall, FramesWrittenOnce, Boot, Recovering
<1>5. History
  <2>1. \A p \in DOMAIN rows : p = 1 \/ p = 2
    BY <1>2
  <2> QED
    BY <1>1, <1>2, <1>3, <2>1 DEF History
<1>6. OneHolder
  BY <1>1, <1>2 DEF OneHolder, Holding, After, Loading, Loaded
<1>7. \A w \in Workers : OpenWorker(w, call[w])
  BY <1>1 DEF OpenWorker, Calls, Trying, Checked, After, Loading, Loaded
<1>8. \A o \in Operators : OpenOperator(call[o])
  BY <1>1 DEF OpenOperator, Calls
<1> QED
  BY <1>1, <1>4, <1>5, <1>6, <1>7, <1>8 DEF Open

LEMMA PrescribedInvariance == Spec => []Prescribed
<1>1. Init => Prescribed
  BY PrescribedInitially
<1>2. IInv /\ IInv' /\ RetentionSafe /\ Prescribed /\ [Next]_vars => Prescribed'
  BY PrescribedInductive
<1> QED
  BY <1>1, <1>2, Invariance, RetentionInvariance, PTL DEF Spec

\* _lerobot_existing_observation_ids, the claim and the recovery together: when the job is used
\* as the manual prescribes, no frame batch is written twice, however many retries and
\* recoveries take turns.
THEOREM FramesAreNotDuplicated == Spec => []NoDuplicateFrames
<1>1. Prescribed => NoDuplicateFrames
  BY DEF Prescribed, NoDuplicateFrames, Sound
<1> QED
  BY <1>1, PrescribedInvariance, PTL

\* _lerobot_claim_cas_supersede always has a row to win: when the job is used as the manual
\* prescribes, the latest row is superseded only while a call is about to append its own,
\* also after the job is published and while retention deletes its rows.
THEOREM JobIsNotStranded == Spec => []LatestIsClaimable
<1>1. IInv /\ RetentionSafe /\ Prescribed => LatestIsClaimable
  <2> SUFFICES ASSUME IInv, RetentionSafe, Prescribed, Disciplined, Latest # 0,
                      \A c \in Calls : call[c].at # "append"
               PROVE  rows[Latest].superseded = None
    BY DEF LatestIsClaimable, JobStaysClaimable
  <2>1. CASE ~transform
    <3>1. Open /\ Latest = Newest
      BY <2>1, OpenLatest DEF Prescribed, Open, IInv, RetentionSafe
    <3> QED
      BY <3>1 DEF Open, OneHolder
  <2>2. CASE transform
    <3>1. PICK t \in DOMAIN rows : ClosedAt(t)
      BY <2>2 DEF Prescribed
    <3>2. /\ t \in Nat /\ t <= Newest /\ Newest \in Nat /\ Latest \in Nat /\ Latest \in DOMAIN rows
          /\ Latest >= t /\ (Newest > t => Latest > t)
      <4>1. TypeOK /\ gone \subseteq DOMAIN rows /\ ClosedRows(t)
        BY <3>1 DEF IInv, RetentionSafe, ClosedAt
      <4>2. t \in gone => Latest > t
        BY <4>1, ClosedLatest
      <4>3. t \notin gone => Latest >= t /\ (Newest > t => Latest > t)
        BY <4>1, ClosedLatest
      <4> QED
        BY <4>1, <4>2, <4>3, ClosedLatest, RowFacts
    <3>3. CASE Latest > t
      BY <3>1, <3>2, <3>3 DEF ClosedAt, ClosedRows
    <3>4. CASE Latest = t
      BY <3>1, <3>2, <3>4 DEF ClosedAt, Calls
    <3> QED
      BY <3>2, <3>3, <3>4
  <2> QED
    BY <2>1, <2>2
<1> QED
  BY <1>1, Invariance, RetentionInvariance, PrescribedInvariance, PTL

\* Where checkpoint_ids tell rows apart: until the job is published, when it is used as the
\* manual prescribes.  There retention keeps the latest row (LatestRowIsKept) and held rows.
THEOREM IdsAreUnique == Spec => [](Disciplined /\ ~transform => UniqueIds)
<1>1. IInv /\ Prescribed => (Disciplined /\ ~transform => UniqueIds)
  <2> SUFFICES ASSUME IInv, Prescribed, Disciplined, ~transform PROVE UniqueIds
    OBVIOUS
  <2>1. \A p \in DOMAIN rows : p \in Nat /\ rows[p].index \in Nat /\ rows[p].index + 1 = p
    BY RowFacts DEF Prescribed, Open, History, IInv
  <2> QED
    BY <2>1 DEF UniqueIds
<1> QED
  BY <1>1, Invariance, PrescribedInvariance, PTL

\* Exactly one caller wins, also while retention runs: a retry as the manual prescribes it
\* never claims a job that has no row.
THEOREM OneRetryWins == Spec => [](Disciplined => OneWinnerPerRow)
<1>1. IInv /\ Prescribed => (Disciplined => OneWinnerPerRow)
  <2> SUFFICES ASSUME IInv, Prescribed, Disciplined, NEW x \in claims, NEW y \in claims, x[2] = y[2]
               PROVE  x[1] = y[1]
    BY DEF OneWinnerPerRow
  <2>1. x[2] # 0
    BY RowFacts DEF Prescribed, Sound, IInv
  <2> QED
    BY <2>1 DEF IInv, SwapWinners
<1> QED
  BY <1>1, Invariance, PrescribedInvariance, PTL

-----------------------------------------------------------------------------
(***************************************************************************)
(* Retries that pass --expected-*, without retention, but with recoveries  *)
(* of workers that still run and deaths anywhere.  The latest row only     *)
(* moves on; a worker that has seen a job that has ended has seen the row  *)
(* it expects pass, if that row is a running one.                          *)
(***************************************************************************)

Expecting == scenario.resumed /\ scenario.expected /\ scenario.passes = 0

\* A row that sorts after row n is there, so n is not the latest.
Later(q, n) == rows[q].updated_at > rows[n].updated_at
                   \/ (rows[q].updated_at = rows[n].updated_at /\ rows[q].index > rows[n].index)
Passed(n) == \E q \in DOMAIN rows : Later(q, n)
Alike(n, q) == rows[n].updated_at = rows[q].updated_at /\ rows[n].index = rows[q].index

\* A running row is stamped with its own position, any other with an earlier one at most.
\* Of two rows that sort alike a running one has passed.
Stamps ==
    /\ DOMAIN rows # {}
    /\ \A n \in DOMAIN rows : /\ rows[n].updated_at <= n
                              /\ ~HasEnded(n) => rows[n].updated_at = n
    /\ \A n, q \in DOMAIN rows :
          n # q /\ ~HasEnded(n) /\ Alike(n, q) => Passed(n)

\* A worker that expects a running row, and has seen that the job has ended, has seen it pass.
WatchfulWorker(k) ==
    /\ k.at \in {"precheck", "done?"} \cup Trying =>
          k.expect # None /\ \E n \in DOMAIN rows : Names(k, n)
    /\ k.at \in Checked => \A n \in DOMAIN rows : Names(k, n) /\ ~HasEnded(n) => Passed(n)
    /\ k.at = "swap" => k.seen \in DOMAIN rows /\ HasEnded(k.seen)

\* The row of a recovery, stamped with its reference time, does not sort like a running row
\* that is still the latest.
WatchfulOperator(k) ==
    /\ k.at \in Recovering => k.reference <= Newest
    /\ k.at \in {"swap", "append"} =>
          \A n \in DOMAIN rows : n = k.reference /\ ~HasEnded(n) =>
              k.index > rows[n].index \/ \E q \in DOMAIN rows : rows[q].updated_at > n

Watchful ==
    /\ Stamps
    /\ \A w \in Workers : WatchfulWorker(call[w])
    /\ \A o \in Operators : WatchfulOperator(call[o])
    /\ \A x \in claims : x[1] \in Workers /\ x[2] # 0 => x[2] \in DOMAIN rows /\ HasEnded(x[2])

Watched == Expecting => Watchful

\* Without retention every row is live.
LEMMA WatchedLatest ==
    ASSUME IInv, Expecting, Stamps
    PROVE  /\ Live = DOMAIN rows /\ Latest # 0 /\ Latest \in DOMAIN rows
           /\ \A n \in DOMAIN rows : ~Later(n, Latest)
           /\ \A n \in DOMAIN rows : n # Latest /\ ~HasEnded(n) /\ ~Passed(n) => Later(Latest, n)
<1>1. TypeOK /\ gone = {}
  BY DEF IInv, FirstWinner, Expecting
<1>2. Live = DOMAIN rows /\ Latest # 0 /\ Latest \in DOMAIN rows
  BY <1>1, LatestRow DEF Live, Stamps
<1>3. \A n \in DOMAIN rows : /\ SortsBefore(rows[n], rows[Latest])
                             /\ rows[n].updated_at \in Nat /\ rows[n].index \in Nat
  BY <1>1, <1>2, LatestSortsLast, RowFacts
<1>4. \A n \in DOMAIN rows : ~Later(n, Latest)
  BY <1>2, <1>3 DEF SortsBefore, Later
<1>5. ASSUME NEW n \in DOMAIN rows, n # Latest, ~HasEnded(n), ~Passed(n) PROVE Later(Latest, n)
  BY <1>2, <1>3, <1>5 DEF SortsBefore, Later, Stamps, Alike
<1> QED
  BY <1>2, <1>4, <1>5

\* Steps that change nothing but the local state of their call.
LEMMA WatchedQuiet ==
    ASSUME Watchful, NEW c \in Calls, Quiet(c),
           c \in Workers => WatchfulWorker(call[c])', c \in Operators => WatchfulOperator(call[c])'
    PROVE  Watchful'
<1>1. UNCHANGED <<rows, claims>>
  BY DEF Quiet
<1>2. Stamps'
  BY <1>1 DEF Watchful, Stamps, Alike, Passed, Later, HasEnded
<1>3. ASSUME NEW w \in Workers PROVE WatchfulWorker(call[w])'
  <2>1. CASE w # c
    BY <1>1, <2>1 DEF Watchful, WatchfulWorker, Quiet, Moves, Calls, Names, Passed, Later, HasEnded
  <2> QED
    BY <2>1
<1>4. ASSUME NEW o \in Operators PROVE WatchfulOperator(call[o])'
  <2>1. CASE o # c
    BY <1>1, <2>1 DEF Watchful, WatchfulOperator, Quiet, Moves, Calls, HasEnded, Newest
  <2> QED
    BY <2>1
<1> QED
  BY <1>1, <1>2, <1>3, <1>4 DEF Watchful, HasEnded

LEMMA WatchedEnd ==
    ASSUME IInv, IInv', Watchful, NEW c \in Calls, End(c), UNCHANGED <<env, rows, obs, transform, claims>>
    PROVE  Watchful'
<1>1. Quiet(c) /\ call'[c].at = "ended"
  BY QuietForms
<1> QED
  BY <1>1, WatchedQuiet DEF WatchfulWorker, WatchfulOperator, Trying, Checked, Recovering

\* A call appends a row: with a stamp of its own, or the row of a recovery.
LEMMA WatchedAppend ==
    ASSUME IInv, IInv', Watchful, NEW c \in Calls, Moves(c), UNCHANGED claims,
           call'[c].at \notin Trying \cup {"precheck", "done?", "swap", "append"},
           NEW r \in Row, rows' = Append(rows, r),
           \/ r.updated_at = Newest + 1
           \/ /\ r.status \in Terminal /\ c \in Operators /\ call[c].at = "append"
              /\ r.updated_at = call[c].reference /\ r.index = call[c].index
    PROVE  Watchful'
<1>1. /\ Newest \in Nat /\ Newest' = Newest + 1
      /\ DOMAIN rows = 1 .. Newest /\ DOMAIN rows' = 1 .. Newest + 1
      /\ rows'[Newest + 1] = r /\ \A q \in DOMAIN rows : rows'[q] = rows[q]
      /\ \A q \in DOMAIN rows : HasEnded(q)' <=> HasEnded(q)
      /\ HasEnded(Newest)' <=> r.status \in Terminal
  BY AppendedRow DEF IInv
<1>2. \A n \in DOMAIN rows : /\ n \in DOMAIN rows' /\ n <= Newest /\ n \in Nat
                             /\ rows[n].updated_at \in Nat /\ rows[n].index \in Nat
                             /\ rows[n].updated_at <= n
                             /\ Passed(n) => Passed(n)'
  <2>1. \A n \in DOMAIN rows : n \in Nat /\ rows[n].updated_at \in Nat /\ rows[n].index \in Nat
    BY RowFacts DEF IInv
  <2>2. \A n \in DOMAIN rows : Passed(n) => Passed(n)'
    BY <1>1 DEF Passed, Later
  <2> QED
    BY <1>1, <2>1, <2>2 DEF Watchful, Stamps
<1>3. r.updated_at \in Nat /\ r.index \in Nat /\ r.updated_at <= Newest + 1
  <2>1. call[c].at = "append" /\ c \in Operators => call[c].reference <= Newest
    BY DEF Watchful, WatchfulOperator, Recovering
  <2> QED
    BY <1>1, <2>1 DEF Row
<1>4. r.status \notin Terminal => r.updated_at = Newest + 1
  OBVIOUS
<1>5. Stamps'
  <2>1. ASSUME NEW n \in DOMAIN rows'
        PROVE  rows'[n].updated_at <= n /\ (~HasEnded(n)' => rows'[n].updated_at = n)
    <3>1. CASE n \in DOMAIN rows
      BY <1>1, <3>1 DEF Watchful, Stamps
    <3>2. CASE n = Newest + 1
      BY <1>1, <1>3, <1>4, <3>2 DEF HasEnded
    <3> QED
      BY <1>1, <2>1, <3>1, <3>2
  <2>2. ASSUME NEW n \in DOMAIN rows', NEW q \in DOMAIN rows', n # q, ~HasEnded(n)',
               rows'[n].updated_at = rows'[q].updated_at, rows'[n].index = rows'[q].index
        PROVE  Passed(n)'
    <3>1. CASE n \in DOMAIN rows /\ q \in DOMAIN rows
      BY <1>1, <1>2, <2>2, <3>1 DEF Watchful, Stamps, Alike
    <3>2. CASE n \in DOMAIN rows /\ q = Newest + 1
      <4>1. /\ rows[n].updated_at = n /\ ~HasEnded(n) /\ r.updated_at = n /\ r.index = rows[n].index
            /\ rows'[n] = rows[n]
        BY <1>1, <2>2, <3>2 DEF Watchful, Stamps
      <4>2. n = call[c].reference /\ call[c].index = rows[n].index /\ call[c].at = "append" /\ c \in Operators
        BY <1>1, <1>2, <3>2, <4>1
      <4>3. PICK p \in DOMAIN rows : rows[p].updated_at > n
        BY <1>2, <3>2, <4>1, <4>2 DEF Watchful, WatchfulOperator
      <4> QED
        BY <1>1, <1>2, <4>1, <4>3 DEF Passed, Later
    <3>3. CASE n = Newest + 1 /\ q \in DOMAIN rows
      <4>1. rows'[n].updated_at = Newest + 1 /\ rows'[q].updated_at <= Newest /\ rows'[q].updated_at \in Nat
        BY <1>1, <1>2, <1>4, <2>2, <3>3 DEF HasEnded
      <4> QED
        BY <1>1, <2>2, <4>1
    <3> QED
      BY <1>1, <2>2, <3>1, <3>2, <3>3
  <2>3. DOMAIN rows' # {}
    BY <1>1
  <2>4. \A n \in DOMAIN rows' : rows'[n].updated_at <= n /\ (~HasEnded(n)' => rows'[n].updated_at = n)
    BY <2>1
  <2>5. \A n, q \in DOMAIN rows' :
            n # q /\ ~HasEnded(n)' /\ rows'[n].updated_at = rows'[q].updated_at
                /\ rows'[n].index = rows'[q].index => Passed(n)'
    BY <2>2
  <2> QED
    BY <2>3, <2>4, <2>5 DEF Stamps, Alike, Passed, Later, HasEnded
<1>6. ASSUME NEW w \in Workers PROVE WatchfulWorker(call[w])'
  <2>1. CASE w = c
    BY <2>1 DEF WatchfulWorker, Trying, Checked
  <2>2. CASE w # c
    <3>1. call'[w] = call[w] /\ WatchfulWorker(call[w])
      BY <2>2 DEF Watchful, Moves, Calls
    <3>2. \A n \in DOMAIN rows : Names(call[w], n)' <=> Names(call[w], n)
      BY <1>1, <3>1 DEF Names
    <3>3. ASSUME call[w].at \in Checked, NEW n \in DOMAIN rows', Names(call[w], n)', ~HasEnded(n)'
          PROVE  Passed(n)'
      <4>1. PICK p \in DOMAIN rows : Names(call[w], p)
        BY <3>1, <3>3 DEF WatchfulWorker, Trying
      <4>2. Names(call[w], p)' /\ p \in DOMAIN rows'
        BY <1>2, <3>2, <4>1
      <4>3. rows'[n].index = rows'[p].index /\ rows'[n].token = rows'[p].token
        BY <3>1, <3>3, <4>2 DEF Names
      <4>4. n = p
        BY <3>3, <4>2, <4>3 DEF IInv, OneRowPerToken
      <4> QED
        BY <1>1, <1>2, <3>1, <3>3, <4>1, <4>4 DEF WatchfulWorker
    <3> QED
      BY <1>1, <1>2, <3>1, <3>2, <3>3 DEF WatchfulWorker
  <2> QED
    BY <2>1, <2>2
<1>7. ASSUME NEW o \in Operators PROVE WatchfulOperator(call[o])'
  <2>1. CASE o = c
    BY <2>1 DEF WatchfulOperator, Recovering, Trying, Checked
  <2>2. CASE o # c
    <3>1. call'[o] = call[o] /\ WatchfulOperator(call[o]) /\ call[o].reference \in Nat
      BY <2>2 DEF Watchful, Moves, Calls, IInv, TypeOK, Local
    <3>2. call[o].at \in Recovering => call[o].reference <= Newest
      BY <3>1 DEF WatchfulOperator
    <3>3. ASSUME call[o].at \in {"swap", "append"}, NEW n \in DOMAIN rows', n = call[o].reference, ~HasEnded(n)'
          PROVE  call[o].index > rows'[n].index \/ \E q \in DOMAIN rows' : rows'[q].updated_at > n
      <4>1. n \in DOMAIN rows /\ rows'[n] = rows[n] /\ ~HasEnded(n)
        BY <1>1, <3>1, <3>2, <3>3 DEF Recovering
      <4>2. call[o].index > rows[n].index \/ \E q \in DOMAIN rows : rows[q].updated_at > n
        BY <3>1, <3>3, <4>1 DEF WatchfulOperator
      <4> QED
        BY <1>1, <1>2, <4>1, <4>2
    <3> QED
      BY <1>1, <3>1, <3>2, <3>3 DEF WatchfulOperator
  <2> QED
    BY <2>1, <2>2
<1>8. \A x \in claims' : x[1] \in Workers /\ x[2] # 0 => x[2] \in DOMAIN rows' /\ HasEnded(x[2])'
  BY <1>1, <1>2 DEF Watchful
<1> QED
  BY <1>5, <1>6, <1>7, <1>8 DEF Watchful

\* A claim or a recovery wins the row that its call has seen.
LEMMA WatchedSwap ==
    ASSUME IInv, Watchful, NEW c \in Calls, WinSwap(c)
    PROVE  Watchful'
<1>1. Marks
  BY WinSwapMarks
<1>2. /\ Moves(c) /\ call[c].at = "swap" /\ call'[c].at = "append"
      /\ call'[c].index = call[c].index /\ call'[c].reference = call[c].reference
      /\ claims' = claims \cup {<<c, call[c].seen>>}
  BY WinSwapForm
<1>3. /\ \A n \in DOMAIN rows : (HasEnded(n)' <=> HasEnded(n)) /\ (Passed(n)' <=> Passed(n))
      /\ DOMAIN rows' = DOMAIN rows
  BY <1>1 DEF Marks, HasEnded, Passed, Later
<1>4. Newest' = Newest
  <2>1. rows \in Seq(Row)
    BY DEF IInv, TypeOK
  <2>2. rows' = [q \in DOMAIN rows |-> rows'[q]]
    BY DEF WinSwap
  <2> QED
    BY <1>3, <2>1, <2>2 DEF Newest
<1>5. Stamps'
  BY <1>1, <1>3 DEF Watchful, Stamps, Alike, Marks
<1>6. ASSUME NEW w \in Workers PROVE WatchfulWorker(call[w])'
  <2>1. CASE w = c
    BY <1>2, <2>1 DEF WatchfulWorker, Trying, Checked
  <2>2. CASE w # c
    <3>1. call'[w] = call[w] /\ WatchfulWorker(call[w])
      BY <1>2, <2>2 DEF Watchful, Moves, Calls
    <3>2. \A n \in DOMAIN rows : Names(call[w], n)' <=> Names(call[w], n)
      BY <1>1, <3>1 DEF Names, Marks
    <3> QED
      BY <1>3, <3>1, <3>2 DEF WatchfulWorker
  <2> QED
    BY <2>1, <2>2
<1>7. ASSUME NEW o \in Operators PROVE WatchfulOperator(call[o])'
  <2>1. /\ WatchfulOperator(call[o]) /\ call'[o].index = call[o].index /\ call'[o].reference = call[o].reference
        /\ call'[o].at \in Recovering => call[o].at \in Recovering
        /\ call'[o].at \in {"swap", "append"} => call[o].at \in {"swap", "append"}
    BY <1>2 DEF Watchful, Moves, Calls, Recovering
  <2> QED
    BY <1>1, <1>3, <1>4, <2>1 DEF WatchfulOperator, Marks
<1>8. \A x \in claims' : x[1] \in Workers /\ x[2] # 0 => x[2] \in DOMAIN rows' /\ HasEnded(x[2])'
  BY <1>2, <1>3 DEF Watchful, WatchfulWorker
<1> QED
  BY <1>5, <1>6, <1>7, <1>8 DEF Watchful

\* A worker on its way to the swap.
LEMMA WatchedAttempt ==
    ASSUME IInv, IInv', Expecting, Watchful, NEW w \in Workers,
           \/ Start(w) \/ Precheck(w) \/ CheckDone(w) \/ CheckClaimable(w)
           \/ Snapshot(w) \/ ReadIndex(w) \/ Reread(w) \/ ReuseIndex(w)
    PROVE  Watchful'
<1>1. w \in Calls /\ w \notin Operators /\ WatchfulWorker(call[w]) /\ Stamps
  BY CallAssumption DEF Calls, Watchful
<1>2. /\ Latest # 0 /\ Latest \in DOMAIN rows /\ \A n \in DOMAIN rows : ~Later(n, Latest)
      /\ \A n \in DOMAIN rows : n # Latest /\ ~HasEnded(n) /\ ~Passed(n) => Later(Latest, n)
  BY <1>1, WatchedLatest
<1>3. ASSUME Quiet(w), WatchfulWorker(call[w])' PROVE Watchful'
  BY <1>1, <1>3, WatchedQuiet
<1>4. ASSUME Quiet(w), call'[w].expect = call[w].expect
      PROVE  \A n \in DOMAIN rows : /\ n \in DOMAIN rows'
                                    /\ Names(call[w], n)' <=> Names(call[w], n)
                                    /\ HasEnded(n)' <=> HasEnded(n)
                                    /\ Passed(n)' <=> Passed(n)
  BY <1>4 DEF Quiet, Names, HasEnded, Passed, Later
<1>5. CASE Start(w)
  <2>1. /\ Quiet(w) /\ call'[w].at = "precheck"
        /\ call'[w].expect = <<rows[Latest].index, rows[Latest].token>>
    BY <1>1, <1>2, <1>5, QuietForms DEF Expecting
  <2>2. call'[w].expect # None
    <3>1. call'[w].expect \in Nat \X Tokens
      BY <1>2, <2>1, RowFacts DEF IInv
    <3> QED
      BY <3>1, CallAssumption DEF Tokens, Calls
  <2>3. WatchfulWorker(call[w])'
    BY <1>2, <2>1, <2>2 DEF WatchfulWorker, Quiet, Names, Trying, Checked
  <2> QED
    BY <1>3, <2>1, <2>3
<1>6. CASE Precheck(w) \/ CheckDone(w)
  <2>1. CASE End(w)
    BY <1>1, <1>6, <2>1, WatchedEnd DEF Precheck, CheckDone
  <2>2. CASE ~End(w)
    <3>1. PICK label \in {"done?", "reuse", "claimable?"} :
              Goto(w, label) /\ UNCHANGED <<env, rows, obs, transform, claims>>
      BY <1>6, <2>2 DEF Precheck, CheckDone
    <3>2. Quiet(w) /\ call'[w].at = label /\ call'[w].expect = call[w].expect
      BY <1>1, <3>1, QuietForms
    <3>3. call[w].at \in {"precheck", "done?"}
      BY <1>6 DEF Precheck, CheckDone
    <3>4. WatchfulWorker(call[w])'
      BY <1>1, <1>4, <3>2, <3>3 DEF WatchfulWorker, Trying, Checked
    <3> QED
      BY <1>3, <3>2, <3>4
  <2> QED
    BY <2>1, <2>2
<1>7. CASE CheckClaimable(w)
  <2>1. CASE rows[Latest].status = "running"
    BY <1>1, <1>2, <1>7, <2>1, WatchedEnd DEF CheckClaimable
  <2>2. CASE rows[Latest].status # "running"
    <3>1. /\ Goto(w, "snapshot") /\ call[w].at = "claimable?"
          /\ UNCHANGED <<env, rows, obs, transform, claims>>
      BY <1>7, <2>2 DEF CheckClaimable
    <3>2. Quiet(w) /\ call'[w].at = "snapshot" /\ call'[w].expect = call[w].expect
      BY <1>1, <3>1, QuietForms
    <3>3. HasEnded(Latest)
      BY <1>2, <2>2, RowFacts DEF IInv
    <3>4. \A n \in DOMAIN rows : ~HasEnded(n) => Passed(n)
      BY <1>2, <3>3 DEF Passed
    <3>5. WatchfulWorker(call[w])'
      BY <1>1, <1>4, <3>1, <3>2, <3>4 DEF WatchfulWorker, Trying, Checked, Quiet
    <3> QED
      BY <1>3, <3>2, <3>5
  <2> QED
    BY <2>1, <2>2
<1>8. CASE Snapshot(w) \/ ReadIndex(w)
  <2>1. /\ Quiet(w) /\ call'[w].expect = call[w].expect
        /\ call[w].at \in {"snapshot", "index"} /\ call'[w].at \in {"index", "reread"}
    BY <1>1, <1>8, QuietForms DEF ReadIndex
  <2>2. WatchfulWorker(call[w])'
    BY <1>1, <1>4, <2>1 DEF WatchfulWorker, Trying, Checked, Quiet
  <2> QED
    BY <1>3, <2>1, <2>2
<1>9. CASE Reread(w)
  <2>1. CASE End(w)
    BY <1>1, <1>9, <2>1, WatchedEnd DEF Reread
  <2>2. CASE ~End(w)
    <3>1. /\ Quiet(w) /\ call[w].at = "reread" /\ AsExpected(w) /\ call'[w].at = "swap"
          /\ call'[w].seen = Latest
      BY <1>1, <1>2, <1>9, <2>2, QuietForms
    <3>2. Names(call[w], Latest)
      BY <1>1, <3>1 DEF WatchfulWorker, AsExpected, Names, Trying, Checked
    <3>3. HasEnded(Latest)
      BY <1>1, <1>2, <3>1, <3>2 DEF WatchfulWorker, Passed, Checked
    <3>4. WatchfulWorker(call[w])'
      BY <1>2, <3>1, <3>3 DEF WatchfulWorker, Trying, Checked, Quiet, HasEnded
    <3> QED
      BY <1>3, <3>1, <3>4
  <2> QED
    BY <2>1, <2>2
<1>10. CASE ReuseIndex(w)
  <2>1. Quiet(w) /\ call'[w].at = "reuseAppend"
    BY <1>1, <1>10, QuietForms DEF ReuseIndex
  <2>2. WatchfulWorker(call[w])'
    BY <2>1 DEF WatchfulWorker, Trying, Checked
  <2> QED
    BY <1>3, <2>1, <2>2
<1> QED
  BY <1>5, <1>6, <1>7, <1>8, <1>9, <1>10

\* A worker after its swap, or at a first claim.
LEMMA WatchedHolder ==
    ASSUME IInv, IInv', Watchful, NEW w \in Workers,
           \/ AppendClaim(w) \/ MediaCheckpoint(w) \/ BatchCheckpoint(w) \/ MetadataReady(w)
           \/ Complete(w) \/ Fail(w) \/ ReuseAppend(w) \/ FlushBatch(w) \/ Publish(w)
           \/ BootMerge(w) \/ BootCommit(w) \/ BootCheck(w)
    PROVE  Watchful'
<1>1. w \in Calls /\ w \notin Operators /\ call \in [Calls -> Local] /\ call[w] \in Local
  BY CallAssumption DEF Calls, IInv, TypeOK
<1>2. ASSUME NEW from, NEW to \in {"media", "flush", "ready", "publish"}, NEW b, RecordRunning(w, from, to, b)
      PROVE  Watchful'
  <2>1. PICK r \in Row : rows' = Append(rows, r) /\ r.updated_at = Newest + 1
    BY <1>1, <1>2, RunningForm
  <2>2. Moves(w) /\ call'[w].at = to /\ UNCHANGED claims
    BY <1>1, <1>2, RunningForm
  <2> QED
    BY <1>1, <2>1, <2>2, WatchedAppend DEF Trying, Checked
<1>3. CASE AppendClaim(w) \/ MediaCheckpoint(w) \/ BatchCheckpoint(w) \/ MetadataReady(w)
  BY <1>2, <1>3 DEF AppendClaim, MediaCheckpoint, BatchCheckpoint, MetadataReady
<1>4. CASE Complete(w) \/ Fail(w) \/ ReuseAppend(w)
  <2>1. Newest + 1 \in Nat
    BY RowFacts DEF IInv
  <2>2. Ends(w, Newest + 1)
    BY <1>4 DEF Complete, Fail, ReuseAppend, RecordLast, Record, Ends, Terminal, Newest, env
  <2>3. PICK r \in Row : rows' = Append(rows, r) /\ r.updated_at = Newest + 1
    BY <1>1, <2>1, <2>2, EndingForm
  <2>4. Moves(w) /\ call'[w].at = "ended" /\ UNCHANGED claims
    BY <1>1, <2>1, <2>2, EndingForm
  <2> QED
    BY <1>1, <2>3, <2>4, WatchedAppend DEF Trying, Checked
<1>5. ASSUME Moves(w), call'[w].at \in {"beat", "finalize", "bootCommit", "bootCheck", "media", "ended"},
             UNCHANGED rows, claims' = claims \/ claims' = claims \cup {<<w, 0>>}
      PROVE  Watchful'
  <2>1. Stamps'
    BY <1>5 DEF Watchful, Stamps, Alike, Passed, Later, HasEnded
  <2>2. ASSUME NEW v \in Workers PROVE WatchfulWorker(call[v])'
    <3>1. CASE v = w
      BY <1>5, <3>1 DEF WatchfulWorker, Trying, Checked
    <3>2. CASE v # w
      BY <1>5, <3>2 DEF Watchful, WatchfulWorker, Moves, Calls, Names, Passed, Later, HasEnded
    <3> QED
      BY <3>1, <3>2
  <2>3. ASSUME NEW o \in Operators PROVE WatchfulOperator(call[o])'
    BY <1>1, <1>5 DEF Watchful, WatchfulOperator, Moves, Calls, HasEnded, Newest
  <2>4. \A x \in claims' : x[1] \in Workers /\ x[2] # 0 => x[2] \in DOMAIN rows' /\ HasEnded(x[2])'
    BY <1>5 DEF Watchful, HasEnded
  <2> QED
    BY <2>1, <2>2, <2>3, <2>4 DEF Watchful
<1>6. CASE FlushBatch(w)
  <2>1. call'[w].at = "beat" /\ Moves(w) /\ UNCHANGED <<rows, claims>>
    BY <1>1, <1>6 DEF FlushBatch, Moves, Local, IInv, TypeOK
  <2> QED
    BY <1>5, <2>1
<1>7. CASE Publish(w)
  <2>1. call'[w].at = "finalize" /\ Moves(w) /\ UNCHANGED <<rows, claims>>
    BY <1>1, <1>7 DEF Publish, Goto, Moves, Local, IInv, TypeOK
  <2> QED
    BY <1>5, <2>1
<1>8. CASE BootMerge(w)
  <2>1. call'[w].at = "bootCommit" /\ Moves(w) /\ UNCHANGED <<rows, claims>>
    BY <1>1, <1>8 DEF BootMerge, Moves, Local, IInv, TypeOK
  <2> QED
    BY <1>5, <2>1
<1>9. CASE BootCommit(w)
  <2>1. call'[w].at = "bootCheck" /\ Moves(w) /\ UNCHANGED claims
    BY <1>1, <1>9 DEF BootCommit, Goto, Moves, Local, IInv, TypeOK
  <2>2. CASE call[w].matched
    BY <1>5, <1>9, <2>1, <2>2 DEF BootCommit
  <2>3. CASE ~call[w].matched
    <3> DEFINE r == Checkpoint(call[w].index, "running", w, Newest + 1)
    <3>1. rows' = Append(rows, r)
      BY <1>9, <2>3 DEF BootCommit, Record, Newest
    <3>2. r \in Row /\ r.updated_at = Newest + 1
      BY <1>1, RowFacts DEF IInv, Checkpoint, Row, Statuses, Tokens, Local
    <3> HIDE DEF r
    <3> QED
      BY <1>1, <2>1, <3>1, <3>2, WatchedAppend DEF Trying, Checked
  <2> QED
    BY <2>2, <2>3
<1>10. CASE BootCheck(w)
  <2>1. UNCHANGED rows /\ (claims' = claims \/ claims' = claims \cup {<<w, 0>>})
    BY <1>10 DEF BootCheck
  <2>2. CASE End(w)
    BY <1>1, <1>5, <2>1, <2>2, EndMoves DEF NoCall, IInv, TypeOK
  <2>3. CASE ~End(w)
    <3>1. call' = [call EXCEPT ![w].index = call[w].index + 1, ![w].at = "media"]
      BY <1>10, <2>3 DEF BootCheck
    <3>2. call'[w].at = "media" /\ Moves(w)
      BY <1>1, <3>1 DEF Moves, Local, IInv, TypeOK
    <3> QED
      BY <1>5, <2>1, <3>2
  <2> QED
    BY <2>2, <2>3
<1> QED
  BY <1>3, <1>4, <1>6, <1>7, <1>8, <1>9, <1>10

\* A recovery.
LEMMA WatchedRecovery ==
    ASSUME IInv, IInv', Expecting, Watchful, NEW o \in Operators, Recover(o)
    PROVE  Watchful'
<1>1. o \in Calls /\ o \notin Workers /\ WatchfulOperator(call[o]) /\ Stamps /\ Newest \in Nat
  BY CallAssumption, RowFacts DEF Calls, Watchful, IInv
<1>2. CASE RecoverRead(o)
  <2>1. Quiet(o) /\ call'[o].at = "index" /\ call'[o].reference = Newest
    BY <1>1, <1>2, QuietForms
  <2>2. WatchfulOperator(call[o])'
    BY <1>1, <2>1 DEF WatchfulOperator, Quiet, Newest
  <2> QED
    BY <1>1, <2>1, <2>2, WatchedQuiet
<1>3. CASE RecoverIndex(o)
  <2>1. /\ Quiet(o) /\ call[o].at = "index" /\ call'[o].at = "swap"
        /\ call'[o].index = NextIndex /\ call'[o].reference = call[o].reference
    BY <1>1, <1>3, QuietForms DEF RecoverIndex
  <2>2. ASSUME NEW n \in DOMAIN rows, ~HasEnded(n)
        PROVE  NextIndex > rows[n].index \/ \E q \in DOMAIN rows : rows[q].updated_at > n
    <3>1. /\ Latest # 0 /\ Latest \in DOMAIN rows /\ ~Later(n, Latest)
      BY <1>1, WatchedLatest
    <3>2. /\ rows[n].updated_at = n /\ n \in Nat /\ rows[n].index \in Nat
          /\ rows[Latest].index \in Nat /\ rows[Latest].updated_at \in Nat
      BY <1>1, <2>2, <3>1, RowFacts DEF Stamps, IInv
    <3>3. rows[Latest].updated_at > n \/ rows[Latest].index >= rows[n].index
      BY <3>1, <3>2 DEF Later
    <3> QED
      BY <3>1, <3>2, <3>3 DEF NextIndex
  <2>3. WatchfulOperator(call[o])'
    BY <1>1, <2>1, <2>2 DEF WatchfulOperator, Quiet, Newest, HasEnded, Recovering
  <2> QED
    BY <1>1, <2>1, <2>3, WatchedQuiet
<1>4. CASE RecoverAppend(o)
  <2>1. call[o].reference \in Nat /\ call[o].at = "append"
    BY <1>1, <1>4 DEF RecoverAppend, IInv, TypeOK, Local
  <2>2. Ends(o, call[o].reference)
    BY <1>4 DEF RecoverAppend, Ends, Terminal, env
  <2>3. PICK r \in Row : /\ rows' = Append(rows, r) /\ r.index = call[o].index /\ r.status \in Terminal
                         /\ r.updated_at = call[o].reference
    BY <1>1, <2>1, <2>2, EndingForm
  <2>4. Moves(o) /\ call'[o].at = "ended" /\ UNCHANGED claims
    BY <1>1, <2>1, <2>2, EndingForm
  <2> QED
    BY <1>1, <2>1, <2>3, <2>4, WatchedAppend DEF Trying, Checked
<1> QED
  BY <1>2, <1>3, <1>4 DEF Recover

LEMMA WatchedInductive == IInv /\ IInv' /\ Watched /\ [Next]_vars => Watched'
<1> SUFFICES ASSUME IInv, IInv', Watched, [Next]_vars, Expecting' PROVE Watchful'
  BY DEF Watched
<1>1. UNCHANGED scenario
  BY CallRows, PassForm DEF Next, Audit, HoldSelect, HoldPut, HoldRelease, ingest, vars
<1>2. Expecting /\ Watchful
  BY <1>1 DEF Expecting, Watched
<1>3. ASSUME UNCHANGED <<rows, call, claims>> PROVE Watchful'
  BY <1>2, <1>3 DEF Watchful, Stamps, Alike, WatchfulWorker, WatchfulOperator, Names, Passed, Later, HasEnded, Newest
<1>4. ASSUME NEW w \in Workers, Ingest(w) PROVE Watchful'
  BY <1>2, <1>4, WatchedAttempt, WatchedHolder DEF Ingest
<1>5. ASSUME NEW o \in Operators, Recover(o) PROVE Watchful'
  BY <1>2, <1>5, WatchedRecovery
<1>6. ASSUME NEW c \in Calls, WinSwap(c) \/ LoseSwap(c) \/ Crash(c) PROVE Watchful'
  BY <1>2, <1>6, WatchedSwap, WatchedEnd DEF LoseSwap, Crash
<1>7. ASSUME NEW r \in Retainers, Retain(r) PROVE Watchful'
  BY <1>3, <1>7, PassForm
<1>8. ASSUME NEW h \in Auditors, Audit(h) PROVE Watchful'
  BY <1>3, <1>8 DEF Audit, HoldSelect, HoldPut, HoldRelease, ingest
<1>9. CASE UNCHANGED vars
  BY <1>3, <1>9 DEF vars, ingest
<1> QED
  BY <1>4, <1>5, <1>6, <1>7, <1>8, <1>9 DEF Next

LEMMA WatchedInitially == Init => Watched
<1> SUFFICES ASSUME Init, Expecting PROVE Watchful
  BY DEF Watched
<1>1. /\ rows = <<Checkpoint(0, "running", Past, 1), Checkpoint(1, "failed", Past, 2)>>
      /\ claims = {} /\ \A c \in Calls : call[c].at = "idle"
  BY DEF Init, Expecting, NoCall
<1>2. /\ DOMAIN rows = {1, 2}
      /\ rows[1].updated_at = 1 /\ rows[2].status = "failed" /\ rows[2].updated_at = 2
  BY <1>1 DEF Checkpoint
<1>3. Stamps
  <2>1. HasEnded(2)
    BY <1>2 DEF HasEnded, Terminal
  <2>2. Later(2, 1)
    BY <1>2 DEF Later
  <2>3. \A n \in DOMAIN rows : ~HasEnded(n) => n = 1 /\ Passed(n)
    BY <1>2, <2>1, <2>2 DEF Passed
  <2>4. \A n \in DOMAIN rows : rows[n].updated_at <= n /\ rows[n].updated_at = n
    BY <1>2
  <2> QED
    BY <1>2, <2>3, <2>4 DEF Stamps, Alike
<1> QED
  BY <1>1, <1>3 DEF Watchful, WatchfulWorker, WatchfulOperator, Trying, Checked, Recovering, Calls

LEMMA WatchedInvariance == Spec => []Watched
  BY WatchedInitially, WatchedInductive, Invariance, PTL DEF Spec

\* "Normal ingest never steals a running claim" (ingest.py:468), of retries that pass
\* --expected-*: the row that a worker's claim supersedes is a row of a job that has ended,
\* however many workers and operators there are, also when operators recover workers that
\* still run and calls die between their swap and their row.  While retention deletes rows of
\* the job it is proved when neither happens.  Nothing is claimed of a plain ingest: it does
\* supersede a running row (ingest.py:3899 reads the latest row again and looks at its status
\* no more).
THEOREM RunningIsNotStolen == Spec => []NeverStealsRunning
<1>1. IInv /\ Prescribed /\ Watched => NeverStealsRunning
  <2> SUFFICES ASSUME IInv, Prescribed, Watched, Guarded, NEW x \in claims, x[1] \in Workers, x[2] # 0
               PROVE  rows[x[2]].status # "running"
    BY DEF NeverStealsRunning
  <2>1. CASE Disciplined
    BY <2>1 DEF Prescribed, Sound, HasEnded, Terminal
  <2>2. CASE ~Disciplined
    BY <2>2 DEF Watched, Expecting, Guarded, Watchful, HasEnded, Terminal
  <2> QED
    BY <2>1, <2>2
<1> QED
  BY <1>1, Invariance, PrescribedInvariance, WatchedInvariance, PTL

=============================================================================

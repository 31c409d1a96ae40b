------------------------- MODULE PrewarmJobsProofs --------------------------
(***************************************************************************)
(* Proofs about PrewarmJobs, for any number of workers and overlapping     *)
(* calls, with a client attached or without.                               *)
(***************************************************************************)
EXTENDS PrewarmJobs, FiniteSetTheorems, TLAPS

Rows == Record \cup {None}
Holding == {"got", "expire", "lost", "run", "answer"}
Labels == Holding \cup {"idle", "done", "get", "claim", "upsert", "readback", "poll"}
Local == [at : Labels, op : Ops \cup {None}, now : SUBSET Workers, rec : Rows]

\* A call holds the record that its next step puts back, changes or submits; a claim
\* that is read back was written; no clock runs ahead of time.
TypeOK ==
    /\ run \in Rows
    /\ warmed \in BOOLEAN /\ elapsed \subseteq Workers /\ overlap \in Nat
    /\ call \in [Workers -> Local]
    /\ \A c \in Workers : /\ call[c].at \in Holding => call[c].rec # None
                          /\ call[c].at = "readback" => run # None
                          /\ call[c].rec # None => run # None
                          /\ call[c].now \subseteq elapsed

\* No record, in the table or in hand, says `complete` before a warm-up has finished.
CompleteTold ==
    /\ run # None /\ run.status = "complete" => warmed
    /\ \A c \in Workers : call[c].rec # None /\ call[c].rec.status = "complete" => warmed

Active(c) == call[c].at \notin {"idle", "done"}

\* What a call that is alone knows of the row.
InStep(c) ==
    /\ call[c].at \in {"got", "lost", "run"} => call[c].rec = run
    /\ call[c].at \in {"expire", "answer"} => call[c].rec.retries = run.retries /\ call[c].rec.nonce = run.nonce
    /\ call[c].at \in {"claim", "upsert"} => run = None

Alone == \A c, d \in Workers : Active(c) /\ Active(d) => c = d

TakingTurns == overlap <= 1 => Alone /\ \A c \in Workers : InStep(c)

\* An inductive invariant of the specification.
IInv == TypeOK /\ CompleteTold /\ TakingTurns

\* What AttemptsTakeTurns asks of a step.
Replaces == /\ \/ run.status \in Resubmittable
               \/ run.status = "complete" /\ ~Warm(run, elapsed)
               \/ run.status = "skipped" /\ call[run'.nonce].op = "retry"
            /\ run'.retries = run.retries + 1

-----------------------------------------------------------------------------
\* How a step changes the local state of its call.

LEMMA Updates ==
    ASSUME call \in [Workers -> Local], NEW c \in Workers, NEW k \in Local, call' = [call EXCEPT ![c] = k]
    PROVE  call' \in [Workers -> Local] /\ call'[c] = k /\ \A d \in Workers \ {c} : call'[d] = call[d]
  OBVIOUS

LEMMA GoWithStep ==
    ASSUME call \in [Workers -> Local], NEW c \in Workers, NEW label \in Labels, NEW r \in Rows,
           GoWith(c, label, r)
    PROVE  /\ call' \in [Workers -> Local]
           /\ call'[c].at = label /\ call'[c].rec = r
           /\ call'[c].op = call[c].op /\ call'[c].now = call[c].now
           /\ \A d \in Workers \ {c} : call'[d] = call[d]
<1> DEFINE n == [call[c] EXCEPT !.at = label]
           k == [n EXCEPT !.rec = r]
<1>1. call' = [call EXCEPT ![c] = k]
  BY DEF GoWith
<1>2. n \in Local /\ n.at = label /\ n.op = call[c].op /\ n.now = call[c].now
  BY DEF Local
<1> HIDE DEF n
<1>3. k \in Local /\ k.at = label /\ k.rec = r /\ k.op = n.op /\ k.now = n.now
  BY <1>2 DEF Local
<1> HIDE DEF k
<1> QED
  BY <1>1, <1>2, <1>3, Updates

LEMMA GotoStep ==
    ASSUME call \in [Workers -> Local], NEW c \in Workers, NEW label \in Labels, Goto(c, label)
    PROVE  /\ call' \in [Workers -> Local]
           /\ call'[c].at = label /\ call'[c].rec = call[c].rec /\ call'[c].now = call[c].now
           /\ \A d \in Workers \ {c} : call'[d] = call[d]
<1> DEFINE k == [call[c] EXCEPT !.at = label]
<1>1. call' = [call EXCEPT ![c] = k]
  BY DEF Goto
<1>2. k \in Local /\ k.at = label /\ k.rec = call[c].rec /\ k.now = call[c].now
  BY DEF Local
<1> HIDE DEF k
<1> QED
  BY <1>1, <1>2, Updates

\* A call that returns ends, or polls.
LEMMA ReturnStep ==
    ASSUME call \in [Workers -> Local], NEW c \in Workers, NEW r, Return(c) \/ ReturnOrPoll(c, r)
    PROVE  /\ call' \in [Workers -> Local]
           /\ call'[c].at \in {"done", "poll"} /\ call'[c].rec = None
           /\ call'[c].now = call[c].now \/ call'[c].now = {}
           /\ \A d \in Workers \ {c} : call'[d] = call[d]
<1>1. CASE Return(c)
  <2>1. /\ NoCall("done") \in Local
        /\ NoCall("done").at = "done" /\ NoCall("done").rec = None /\ NoCall("done").now = {}
    BY DEF NoCall, Local, Labels, Rows
  <2> QED
    BY <1>1, <2>1, Updates DEF Return
<1>2. CASE GoWith(c, "poll", None)
  BY <1>2, GoWithStep DEF Labels, Rows
<1> QED
  BY <1>1, <1>2 DEF ReturnOrPoll

\* A new call, or a waiting one that goes on to poll.
StartWith(c, o) == call' = [call EXCEPT ![c].at = "get", ![c].op = o, ![c].now = elapsed]

LEMMA StartStep ==
    ASSUME call \in [Workers -> Local], NEW c \in Workers, NEW o \in Ops, elapsed \in SUBSET Workers,
           StartWith(c, o)
    PROVE  /\ call' \in [Workers -> Local]
           /\ call'[c].at = "get" /\ call'[c].now = elapsed /\ call'[c].rec = call[c].rec
           /\ \A d \in Workers \ {c} : call'[d] = call[d]
<1> DEFINE k == [call[c] EXCEPT !.at = "get"]
           n == [k EXCEPT !.op = o]
           x == [n EXCEPT !.now = elapsed]
<1>1. k \in Local /\ k.at = "get" /\ k.rec = call[c].rec
  BY DEF Local, Labels
<1>2. call' = [call EXCEPT ![c] = x]
  BY DEF StartWith
<1> HIDE DEF k
<1>3. n \in Local /\ n.at = "get" /\ n.rec = k.rec
  BY <1>1 DEF Local
<1> HIDE DEF n
<1>4. x \in Local /\ x.at = "get" /\ x.now = elapsed /\ x.rec = k.rec
  BY <1>3 DEF Local
<1> HIDE DEF x
<1> QED
  BY <1>1, <1>2, <1>4, Updates

\* A record keeps its attempt when its status changes.
LEMMA StatusChange ==
    ASSUME NEW r \in Record, NEW s \in InFlight \cup Terminal
    PROVE  /\ WithStatus(r, s) \in Record /\ WithStatus(r, s).status = s
           /\ WithStatus(r, s).nonce = r.nonce /\ WithStatus(r, s).retries = r.retries
  BY DEF WithStatus, Record

LEMMA NewAttempt ==
    ASSUME NEW r \in Record, NEW c \in Workers
    PROVE  /\ Retrying(r, c) \in Record /\ Retrying(r, c).status = "submitted"
           /\ Retrying(r, c).nonce = c /\ Retrying(r, c).retries = r.retries + 1
  BY DEF Retrying, Record, InFlight

LEMMA FirstAttempt ==
    ASSUME NEW c \in Workers
    PROVE  NewRun(c) \in Record /\ NewRun(c).status = "submitted"
  BY DEF NewRun, Record, InFlight
-----------------------------------------------------------------------------
\* What one step of a call does to the row and to what it has in hand: `Kept` for any
\* call, and `Followed` for one that was in step with the row.
Kept(c) ==
    /\ TypeOK' /\ CompleteTold'
    /\ \A d \in Workers \ {c} : call'[d] = call[d]
    /\ UNCHANGED <<elapsed, overlap>>
Followed(c) ==
    /\ InStep(c)'
    /\ run # None /\ run'.nonce # run.nonce => Replaces

LEMMA StepKeeps ==
    ASSUME TypeOK, CompleteTold, NEW c \in Workers, Step(c) \/ Die(c) \/ \E o \in Ops : Call(c, o)
    PROVE  Kept(c) /\ (InStep(c) => Followed(c))
<1>t. /\ call \in [Workers -> Local] /\ run \in Rows /\ call[c].rec \in Rows
      /\ call[c].at \in Holding => call[c].rec \in Record /\ call[c].rec # None
      /\ elapsed \in SUBSET Workers
  BY DEF TypeOK, Local, Rows
<1>r. \A r \in Record : r # None
  BY WorkerAssumption
<1>s. InFlight \cup Terminal = {"submitted", "active", "failed", "canceled", "expired", "complete", "skipped"}
  BY DEF InFlight, Terminal, Resubmittable
<1>1. CASE Get(c)
  <2>1. CASE Return(c)
    <3>1. UNCHANGED <<run, warmed, overlap, elapsed>>
      BY <1>1 DEF Get
    <3> QED
      BY <1>t, <2>1, <3>1, ReturnStep DEF Kept, Followed, TypeOK, CompleteTold, InStep, Holding
  <2>2. CASE ~Return(c)
    <3>1. PICK label \in {"claim", "got"} :
              /\ GoWith(c, label, run) /\ UNCHANGED <<run, warmed, overlap, elapsed>>
              /\ label = "claim" <=> run = None
      BY <1>1, <2>2 DEF Get
    <3>2. /\ call' \in [Workers -> Local] /\ call'[c].at = label /\ call'[c].rec = run
          /\ call'[c].now = call[c].now /\ \A d \in Workers \ {c} : call'[d] = call[d]
      BY <1>t, <3>1, GoWithStep DEF Labels, Holding
    <3> QED
      BY <3>1, <3>2 DEF Kept, Followed, TypeOK, CompleteTold, InStep, Holding
  <2> QED
    BY <2>1, <2>2
<1>2. CASE Expire(c)
  <2>1. call[c].rec \in Record /\ call[c].at \in {"got", "expire"}
    BY <1>2, <1>t DEF Expire, Holding
  <2>2. /\ run' \in Record /\ run' # None /\ run'.status = "expired"
        /\ run'.nonce = call[c].rec.nonce /\ run'.retries = call[c].rec.retries
        /\ UNCHANGED <<warmed, overlap, elapsed>>
    BY <1>2, <1>r, <1>s, <2>1, StatusChange DEF Expire
  <2>3. PICK label \in {"expire", "got"}, r \in {run', call[c].rec} :
            GoWith(c, label, r) /\ (label = "got" => r = run')
    BY <1>2 DEF Expire
  <2>4. /\ call' \in [Workers -> Local] /\ call'[c].at = label /\ call'[c].rec = r
        /\ call'[c].now = call[c].now /\ \A d \in Workers \ {c} : call'[d] = call[d]
    <3>1. label \in Labels /\ r \in Rows
      BY <2>1, <2>2 DEF Labels, Holding, Rows
    <3> QED
      BY <1>t, <2>3, <3>1, GoWithStep
  <2>5. Kept(c)
    BY <1>r, <2>1, <2>2, <2>3, <2>4 DEF Kept, TypeOK, CompleteTold, Rows
  <2>6. InStep(c) => Followed(c)
    BY <2>1, <2>2, <2>3, <2>4 DEF Followed, InStep
  <2> QED
    BY <2>5, <2>6
<1>3. CASE Attach(c) \/ AttachLost(c) \/ PutAnswer(c)
  <2>1. /\ call[c].rec \in Record /\ call[c].rec # None /\ call[c].at \in {"got", "lost", "answer"}
        /\ run' = call[c].rec /\ ReturnOrPoll(c, call[c].rec)
        /\ UNCHANGED <<warmed, overlap, elapsed>>
    BY <1>3, <1>t DEF Attach, AttachLost, PutAnswer, Holding
  <2>2. /\ call' \in [Workers -> Local] /\ call'[c].at \in {"done", "poll"} /\ call'[c].rec = None
        /\ call'[c].now = call[c].now \/ call'[c].now = {}
        /\ \A d \in Workers \ {c} : call'[d] = call[d]
    BY <1>t, <2>1, ReturnStep
  <2> QED
    BY <2>1, <2>2 DEF Kept, Followed, TypeOK, CompleteTold, InStep, Holding, Rows
<1>4. CASE Resubmit(c)
  <2>1. /\ call[c].rec \in Record /\ call[c].rec # None /\ call[c].at = "got"
        /\ \/ call[c].rec.status \in Resubmittable
           \/ call[c].rec.status = "complete" /\ ~Warm(call[c].rec, call[c].now)
           \/ call[c].rec.status = "skipped" /\ call[c].op = "retry"
        /\ run' = Retrying(call[c].rec, c) /\ GoWith(c, "run", run')
        /\ UNCHANGED <<warmed, overlap, elapsed>>
    BY <1>4, <1>t DEF Resubmit, Holding, Warm, Terminal, Resubmittable
  <2>2. run' \in Record /\ run' # None /\ run'.status = "submitted" /\ run'.retries = call[c].rec.retries + 1
    BY <1>r, <2>1, NewAttempt
  <2>3. /\ call' \in [Workers -> Local] /\ call'[c].at = "run" /\ call'[c].rec = run'
        /\ call'[c].now = call[c].now /\ \A d \in Workers \ {c} : call'[d] = call[d]
    BY <1>t, <2>1, <2>2, GoWithStep DEF Labels, Holding, Rows
  <2>4. Kept(c)
    BY <2>1, <2>2, <2>3 DEF Kept, TypeOK, CompleteTold, Rows
  <2>5. InStep(c) => Followed(c)
    <3>1. call[c].now \subseteq elapsed
      BY DEF TypeOK
    <3>2. run'.nonce = c
      BY <2>1, NewAttempt
    <3>3. InStep(c) => call[c].rec = run
      BY <2>1 DEF InStep
    <3>4. InStep(c) => Replaces
      BY <2>1, <2>2, <3>1, <3>2, <3>3 DEF Replaces, Warm
    <3>5. InStep(c)'
      BY <2>3 DEF InStep
    <3> QED
      BY <3>4, <3>5 DEF Followed
  <2> QED
    BY <2>4, <2>5
<1>5. CASE ClaimRead(c)
  <2>1. PICK label \in {"upsert", "lost"} :
            /\ GoWith(c, label, run) /\ UNCHANGED <<run, warmed, overlap, elapsed>>
            /\ label = "upsert" <=> run = None
    BY <1>5 DEF ClaimRead
  <2>2. /\ call' \in [Workers -> Local] /\ call'[c].at = label /\ call'[c].rec = run
        /\ call'[c].now = call[c].now /\ \A d \in Workers \ {c} : call'[d] = call[d]
    BY <1>t, <2>1, GoWithStep DEF Labels, Holding
  <2> QED
    BY <2>1, <2>2 DEF Kept, Followed, TypeOK, CompleteTold, InStep, Holding
<1>6. CASE ClaimUpsert(c)
  <2>1. /\ run' \in Record /\ run' # None /\ run'.status = "submitted"
        /\ call[c].at = "upsert" /\ Goto(c, "readback") /\ UNCHANGED <<warmed, overlap, elapsed>>
    BY <1>6, <1>r, FirstAttempt DEF ClaimUpsert
  <2>2. /\ call' \in [Workers -> Local] /\ call'[c].at = "readback" /\ call'[c].rec = call[c].rec
        /\ call'[c].now = call[c].now /\ \A d \in Workers \ {c} : call'[d] = call[d]
    BY <1>t, <2>1, GotoStep DEF Labels
  <2> QED
    BY <2>1, <2>2 DEF Kept, Followed, TypeOK, CompleteTold, InStep, Holding, Rows
<1>7. CASE ClaimReadBack(c)
  <2>1. PICK label \in {"run", "lost"} :
            GoWith(c, label, run) /\ run # None /\ UNCHANGED <<run, warmed, overlap, elapsed>>
    BY <1>7 DEF ClaimReadBack, TypeOK
  <2>2. /\ call' \in [Workers -> Local] /\ call'[c].at = label /\ call'[c].rec = run
        /\ call'[c].now = call[c].now /\ \A d \in Workers \ {c} : call'[d] = call[d]
    BY <1>t, <2>1, GoWithStep DEF Labels, Holding
  <2> QED
    BY <2>1, <2>2 DEF Kept, Followed, TypeOK, CompleteTold, InStep, Holding
<1>8. CASE Submit(c) \/ (Status(c) /\ ~Return(c))
  <2>1. \E s \in InFlight \cup Terminal :
            /\ Answer(c, s) /\ (s = "complete" => warmed') /\ (warmed => warmed') /\ warmed' \in BOOLEAN
            /\ call[c].at \in {"run", "got"} /\ UNCHANGED <<run, overlap, elapsed>>
    <3>1. warmed \in BOOLEAN
      BY DEF TypeOK
    <3>2. CASE Submit(c)
      <4>1. call[c].at = "run" /\ UNCHANGED <<run, overlap, elapsed>>
        BY <3>2 DEF Submit
      <4>2. CASE \E s \in InFlight : Answer(c, s) /\ UNCHANGED warmed
        BY <3>1, <4>1, <4>2 DEF InFlight
      <4>3. CASE Answer(c, "skipped") /\ UNCHANGED warmed
        BY <1>s, <3>1, <4>1, <4>3 DEF Terminal
      <4>4. CASE Answer(c, "complete") /\ warmed' = TRUE
        BY <1>s, <3>1, <4>1, <4>4 DEF Terminal
      <4>5. CASE Answer(c, "failed") /\ UNCHANGED warmed
        BY <1>s, <3>1, <4>1, <4>5 DEF Terminal, Resubmittable
      <4> QED
        BY <3>2, <4>2, <4>3, <4>4, <4>5 DEF Submit
    <3>3. CASE Status(c) /\ ~Return(c)
      <4>1. call[c].at = "got" /\ UNCHANGED <<run, warmed, overlap, elapsed>>
        BY <3>3 DEF Status
      <4>2. \/ Answer(c, "active")
            \/ warmed /\ Answer(c, "complete")
            \/ Answer(c, "failed")
        BY <3>3 DEF Status
      <4>3. {"active", "complete", "failed"} \subseteq InFlight \cup Terminal
        BY DEF InFlight, Terminal, Resubmittable
      <4> QED
        BY <3>1, <4>1, <4>2, <4>3
    <3> QED
      BY <1>8, <3>2, <3>3
  <2> PICK s \in InFlight \cup Terminal :
          /\ Answer(c, s) /\ (s = "complete" => warmed') /\ (warmed => warmed') /\ warmed' \in BOOLEAN
          /\ call[c].at \in {"run", "got"} /\ UNCHANGED <<run, overlap, elapsed>>
    BY <2>1
  <2>p. /\ Answer(c, s) /\ (s = "complete" => warmed') /\ (warmed => warmed') /\ warmed' \in BOOLEAN
        /\ call[c].at \in {"run", "got"} /\ UNCHANGED <<run, overlap, elapsed>>
    OBVIOUS
  <2> DEFINE r == WithStatus(call[c].rec, s)
  <2>2. /\ call[c].rec \in Record /\ run # None /\ r \in Record /\ r # None /\ r.status = s
        /\ r.nonce = call[c].rec.nonce /\ r.retries = call[c].rec.retries
    BY <1>t, <1>r, <2>p, StatusChange DEF Holding, TypeOK
  <2>3. GoWith(c, "answer", r)
    BY <2>p DEF Answer
  <2> HIDE DEF r
  <2>4. /\ call' \in [Workers -> Local] /\ call'[c].at = "answer" /\ call'[c].rec = r
        /\ call'[c].now = call[c].now /\ \A d \in Workers \ {c} : call'[d] = call[d]
    BY <1>t, <2>2, <2>3, GoWithStep DEF Labels, Holding, Rows
  <2> QED
    BY <2>p, <2>2, <2>4 DEF Kept, Followed, TypeOK, CompleteTold, InStep, Holding
<1>9. CASE Plan(c) \/ Cancel(c)
  <2>1. PICK s \in {"submitted", "canceled"} :
            /\ run' = WithStatus(call[c].rec, s) /\ Return(c) /\ call[c].at \in {"run", "got"}
            /\ UNCHANGED <<warmed, overlap, elapsed>>
    BY <1>9 DEF Plan, Cancel
  <2>2. /\ run' \in Record /\ run' # None /\ run'.status = s /\ run'.nonce = call[c].rec.nonce
    BY <1>t, <1>r, <1>s, <2>1, StatusChange DEF Holding
  <2>3. /\ call' \in [Workers -> Local] /\ call'[c].at \in {"done", "poll"} /\ call'[c].rec = None
        /\ call'[c].now = call[c].now \/ call'[c].now = {}
        /\ \A d \in Workers \ {c} : call'[d] = call[d]
    BY <1>t, <2>1, ReturnStep
  <2> QED
    BY <2>1, <2>2, <2>3 DEF Kept, Followed, TypeOK, CompleteTold, InStep, Holding, Rows
<1>10. CASE (Settled(c) \/ Status(c) \/ Die(c)) /\ Return(c)
  <2>1. UNCHANGED <<run, warmed, overlap, elapsed>>
    BY <1>10 DEF Settled, Status, Die
  <2>2. /\ call' \in [Workers -> Local] /\ call'[c].at \in {"done", "poll"} /\ call'[c].rec = None
        /\ call'[c].now = call[c].now \/ call'[c].now = {}
        /\ \A d \in Workers \ {c} : call'[d] = call[d]
    BY <1>t, <1>10, ReturnStep
  <2> QED
    BY <2>1, <2>2 DEF Kept, Followed, TypeOK, CompleteTold, InStep, Holding
<1>11. CASE Poll(c) \/ \E o \in Ops : Call(c, o)
  <2>1. PICK o \in Ops : StartWith(c, o) /\ UNCHANGED <<run, warmed, overlap, elapsed>>
    BY <1>11 DEF Poll, Call, Ops, StartWith
  <2>2. /\ call' \in [Workers -> Local] /\ call'[c].at = "get" /\ call'[c].rec = call[c].rec
        /\ call'[c].now = elapsed /\ \A d \in Workers \ {c} : call'[d] = call[d]
    BY <1>t, <2>1, StartStep
  <2> QED
    BY <2>1, <2>2 DEF Kept, Followed, TypeOK, CompleteTold, InStep, Holding
<1>12. (Settled(c) \/ Die(c)) => Return(c)
  BY DEF Settled, Die
<1> QED
  BY <1>1, <1>2, <1>3, <1>4, <1>5, <1>6, <1>7, <1>8, <1>9, <1>10, <1>11, <1>12 DEF Step

\* A call is taken up only when no other is under way.
LEMMA AloneStep ==
    ASSUME TypeOK, overlap <= 1, Alone, NEW c \in Workers, Step(c) \/ Die(c) \/ \E o \in Ops : Call(c, o)
    PROVE  \A d \in Workers \ {c} : ~Active(d)
<1>1. CASE Step(c) \/ Die(c)
  <2>1. Active(c)
    BY <1>1 DEF Active, Step, Get, Expire, Attach, Resubmit, ClaimRead, ClaimUpsert, ClaimReadBack, AttachLost,
         Submit, Plan, PutAnswer, Poll, Status, Settled, Cancel, Die
  <2> QED
    BY <2>1 DEF Alone
<1>2. ASSUME NEW o \in Ops, Call(c, o), NEW d \in Workers, Active(d) PROVE FALSE
  <2>1. {e \in Workers : call[e].at \notin {"idle", "done"}} = {d}
    BY <1>2 DEF Alone, Active
  <2>2. Cardinality({d}) = 1
    BY FS_Singleton
  <2>3. Cardinality({e \in Workers : call[e].at \notin {"idle", "done"}}) < overlap
    BY <1>2 DEF Call
  <2>4. 1 < overlap
    BY <2>1, <2>2, <2>3
  <2> QED
    BY <2>4 DEF TypeOK
<1> QED
  BY <1>1, <1>2

LEMMA Inductive ==
    ASSUME IInv, [Next]_vars
    PROVE  /\ IInv'
           /\ overlap = 1 /\ run # None /\ run'.nonce # run.nonce => Replaces
<1> USE DEF IInv
<1>1. ASSUME NEW c \in Workers, Step(c) \/ Die(c) \/ \E o \in Ops : Call(c, o)
      PROVE  IInv' /\ (overlap = 1 /\ run # None /\ run'.nonce # run.nonce => Replaces)
  <2>1. Kept(c) /\ (InStep(c) => Followed(c))
    BY <1>1, StepKeeps
  <2>2. CASE overlap <= 1
    <3>1. \A d \in Workers \ {c} : ~Active(d) /\ call'[d] = call[d]
      BY <1>1, <2>1, <2>2, AloneStep DEF TakingTurns, Kept
    <3>2. Followed(c)
      BY <2>1, <2>2 DEF TakingTurns
    <3>3. Alone' /\ \A d \in Workers : InStep(d)'
      BY <3>1, <3>2 DEF Alone, Active, InStep, Followed
    <3> QED
      BY <2>1, <3>2, <3>3 DEF Kept, Followed, TakingTurns
  <2>3. CASE ~(overlap <= 1)
    BY <2>1, <2>3 DEF Kept, TakingTurns, TypeOK
  <2> QED
    BY <2>2, <2>3
<1>2. CASE (\E n \in Workers : Elapse(n)) \/ RemoteEnds \/ UNCHANGED vars
  <2>1. /\ UNCHANGED <<run, overlap, call>> /\ (warmed => warmed') /\ warmed' \in BOOLEAN
        /\ elapsed \subseteq elapsed' /\ elapsed' \subseteq Workers
    BY <1>2 DEF Elapse, RemoteEnds, vars, TypeOK
  <2> QED
    BY <2>1 DEF TypeOK, CompleteTold, TakingTurns, Alone, Active, InStep
<1> QED
  BY <1>1, <1>2 DEF Next

LEMMA Initially == Init => IInv
<1> SUFFICES ASSUME Init PROVE IInv
  OBVIOUS
<1>1. /\ NoCall("idle") \in Local /\ NoCall("idle").at = "idle"
      /\ NoCall("idle").rec = None /\ NoCall("idle").now = {}
  BY DEF NoCall, Local, Labels, Rows
<1>2. \A c \in Workers : call[c] = NoCall("idle")
  BY DEF Init
<1>3. TypeOK
  BY <1>1, WorkerAssumption DEF Init, TypeOK, Rows, Holding
<1>4. CompleteTold /\ TakingTurns
  BY <1>1, <1>2 DEF Init, CompleteTold, TakingTurns, Alone, Active, InStep
<1> QED
  BY <1>3, <1>4 DEF IInv

THEOREM TypeCorrect == Spec => []TypeOK
<1>1. IInv => TypeOK
  BY DEF IInv
<1>2. IInv /\ [Next]_vars => IInv'
  BY Inductive
<1> QED
  BY <1>1, <1>2, Initially, PTL DEF Spec

\* A JobRun recorded as complete was warmed, whatever stale record a call puts back.
THEOREM CompleteIsWarm == Spec => []CompleteWasWarmed
<1>1. IInv => CompleteWasWarmed
  BY DEF IInv, CompleteTold, CompleteWasWarmed
<1>2. IInv /\ [Next]_vars => IInv'
  BY Inductive
<1> QED
  BY <1>1, <1>2, Initially, PTL DEF Spec

\* When calls take turns, and die anywhere, a new attempt replaces only a failed, canceled or
\* expired run, a complete one that has gone cold or, in an explicit retry, a skipped one; and
\* it is counted.
THEOREM ReplacedInTurn == Spec => AttemptsTakeTurns
<1>1. IInv /\ [Next]_vars => IInv'
  BY Inductive
<1>2. IInv /\ [Next]_vars =>
          [overlap = 1 /\ run # None /\ run'.nonce # run.nonce =>
              /\ \/ run.status \in Resubmittable
                 \/ run.status = "complete" /\ ~Warm(run, elapsed)
                 \/ run.status = "skipped" /\ call[run'.nonce].op = "retry"
              /\ run'.retries = run.retries + 1]_vars
  BY Inductive DEF Replaces
<1> QED
  BY <1>1, <1>2, Initially, PTL DEF Spec, AttemptsTakeTurns
=============================================================================

---------------------------- MODULE PrewarmJobs -----------------------------
(***************************************************************************)
(* The prewarm JobRun of one prewarm_id (training_prewarm_jobs.py): the    *)
(* training workers that would warm the same cache share one row of a      *)
(* table and one remote warm-up.                                           *)
(*                                                                         *)
(* As in ScalarIndexJobs a record is read once and put back whole, so get, *)
(* put and the three steps of a claim are separate steps; attach counts    *)
(* and timestamps are left out, which makes an attach a put of the record  *)
(* just read.  expires_at is fixed per attempt: a record is past its ttl   *)
(* when its owner_nonce is among the elapsed attempts.  Unlike an index, a *)
(* complete warm-up goes cold when its ttl elapses.                        *)
(***************************************************************************)
EXTENDS Naturals, FiniteSets

CONSTANTS
    Workers,        \* calls of the coordinator; a call is its own owner_nonce
    Offered,        \* the operations they use
    Overlaps,       \* the numbers of calls under way at once to consider
    None

Submits == {"submit", "submit_wait"}
Ops == Submits \cup {"poll", "retry", "cancel", "expire_due"}

InFlight == {"submitted", "active"}
Resubmittable == {"failed", "canceled", "expired"}
Terminal == Resubmittable \cup {"complete", "skipped"}

\* A JobRun: the row of one prewarm_id
Record == [status : InFlight \cup Terminal, nonce : Workers, retries : Nat]

ASSUME WorkerAssumption == None \notin Record /\ Offered \subseteq Ops /\ Overlaps \subseteq Nat

VARIABLES
    run,        \* the JobRun row, or None
    warmed,     \* the plan executors finished a warm-up
    remote,     \* what they do: "idle", "running" or "failed"
    hooks,      \* submit_fn and status_fn are attached
    overlap,    \* at most so many calls are under way at once
    elapsed,    \* attempts (by owner_nonce) whose expires_at has passed
    call        \* the local state of each call

vars == <<run, warmed, remote, hooks, overlap, elapsed, call>>

-----------------------------------------------------------------------------
\* Records

\* build_prewarm_job_run
NewRun(c) == [status |-> "submitted", nonce |-> c, retries |-> 0]

WithStatus(r, s) == [r EXCEPT !.status = s]

Retrying(r, c) == [status |-> "submitted", nonce |-> c, retries |-> r.retries + 1]

Warm(r, t) == r.status = "complete" /\ r.nonce \notin t

\* The condition of _maybe_expire: complete runs expire too.
Due(r, t) == r.status \in InFlight \cup {"complete"} /\ r.nonce \in t

-----------------------------------------------------------------------------
\* A call's next step, operation, time (the attempts past their ttl when it read
\* the clock) and the record in hand
NoCall(label) == [at |-> label, op |-> None, now |-> {}, rec |-> None]

Init ==
    /\ run = None
    /\ warmed = FALSE
    /\ remote = "idle"
    /\ hooks \in BOOLEAN
    /\ overlap \in Overlaps
    /\ elapsed = {}
    /\ call = [c \in Workers |-> NoCall("idle")]

Goto(c, label) == call' = [call EXCEPT ![c].at = label]
GoWith(c, label, r) == call' = [call EXCEPT ![c].at = label, ![c].rec = r]
Return(c) == call' = [call EXCEPT ![c] = NoCall("done")]

ReturnOrPoll(c, r) ==
    IF call[c].op = "submit_wait" /\ hooks /\ r.status \in InFlight
      THEN GoWith(c, "poll", None) ELSE Return(c)

Call(c, o) ==
    /\ call[c].at = "idle" /\ o \in Offered
    /\ Cardinality({d \in Workers : call[d].at \notin {"idle", "done"}}) < overlap
    /\ call' = [call EXCEPT ![c].at = "get", ![c].op = o, ![c].now = elapsed]
    /\ UNCHANGED <<run, warmed, remote, hooks, overlap, elapsed>>

\* store.get, and store.list in expire_due
Get(c) ==
    /\ call[c].at = "get"
    /\ IF run = None /\ call[c].op \notin Submits
         THEN Return(c)
         ELSE GoWith(c, IF run = None THEN "claim" ELSE "got", run)
    /\ UNCHANGED <<run, warmed, remote, hooks, overlap, elapsed>>

\* _maybe_expire.  submit_or_attach calls it twice on the record it read and
\* goes on with what the second call returns: two puts of the same row.
Expire(c) ==
    /\ call[c].at \in {"got", "expire"} /\ call[c].op \notin {"retry", "cancel"}
    /\ Due(call[c].rec, call[c].now)
    /\ LET again == call[c].op \in Submits /\ call[c].at = "got"
       IN  /\ run' = WithStatus(call[c].rec, "expired")
           /\ GoWith(c, IF again THEN "expire" ELSE "got", IF again THEN call[c].rec ELSE run')
    /\ UNCHANGED <<warmed, remote, hooks, overlap, elapsed>>

-----------------------------------------------------------------------------
\* submit_or_attach

Attach(c) ==
    /\ call[c].at = "got" /\ call[c].op \in Submits
    /\ ~Due(call[c].rec, call[c].now)
    /\ call[c].rec.status \in InFlight \cup {"complete"}
    /\ run' = call[c].rec
    /\ ReturnOrPoll(c, call[c].rec)
    /\ UNCHANGED <<warmed, remote, hooks, overlap, elapsed>>

\* Mutant: a request resubmits every ended run that is not warm, as retry does.
ResubmitAny(c) ==
    /\ call[c].at = "got"
    /\ \/ call[c].op \in Submits /\ call[c].rec.status \in Resubmittable \cup {"skipped"}
       \/ call[c].op = "retry" /\ call[c].rec.status \in Terminal /\ ~Warm(call[c].rec, call[c].now)
    /\ run' = Retrying(call[c].rec, c)
    /\ GoWith(c, "run", run')
    /\ UNCHANGED <<warmed, remote, hooks, overlap, elapsed>>

\* A new attempt.  retry takes every ended run that is not warm.
Resubmit(c) ==
    /\ call[c].at = "got"
    /\ \/ call[c].op \in Submits /\ call[c].rec.status \in Resubmittable
       \/ call[c].op = "retry" /\ call[c].rec.status \in Terminal /\ ~Warm(call[c].rec, call[c].now)
    /\ run' = Retrying(call[c].rec, c)
    /\ GoWith(c, "run", run')
    /\ UNCHANGED <<warmed, remote, hooks, overlap, elapsed>>

\* store.claim: read the row, upsert ours if there is none, read it back.
ClaimRead(c) ==
    /\ \/ call[c].at = "claim"
       \/ call[c].at = "got" /\ call[c].op \in Submits /\ call[c].rec.status = "skipped"
    /\ GoWith(c, IF run = None THEN "upsert" ELSE "lost", run)
    /\ UNCHANGED <<run, warmed, remote, hooks, overlap, elapsed>>

ClaimUpsert(c) ==
    /\ call[c].at = "upsert"
    /\ run' = NewRun(c)
    /\ Goto(c, "readback")
    /\ UNCHANGED <<warmed, remote, hooks, overlap, elapsed>>

ClaimReadBack(c) ==
    /\ call[c].at = "readback"
    /\ GoWith(c, IF run.nonce = c THEN "run" ELSE "lost", run)
    /\ UNCHANGED <<run, warmed, remote, hooks, overlap, elapsed>>

AttachLost(c) ==
    /\ call[c].at = "lost"
    /\ run' = call[c].rec
    /\ ReturnOrPoll(c, call[c].rec)
    /\ UNCHANGED <<warmed, remote, hooks, overlap, elapsed>>

-----------------------------------------------------------------------------
\* _run_submit

Answer(c, s) == GoWith(c, "answer", WithStatus(call[c].rec, s))

\* Mutant: an accepted submit counts as a finished one.
SubmitOptimistic(c) ==
    /\ call[c].at = "run" /\ hooks
    /\ remote' = "running"
    /\ \E s \in {"active", "complete"} : Answer(c, s)
    /\ UNCHANGED <<run, warmed, hooks, overlap, elapsed>>

\* submit_fn: accepted, declined or warm already; or it raises, heard or not.
Submit(c) ==
    /\ call[c].at = "run" /\ hooks
    /\ \/ \E s \in InFlight : Answer(c, s) /\ remote' = "running" /\ UNCHANGED warmed
       \/ Answer(c, "skipped") /\ UNCHANGED <<remote, warmed>>
       \/ Answer(c, "complete") /\ warmed' = TRUE /\ UNCHANGED remote
       \/ Answer(c, "failed") /\ remote' \in {remote, "running"} /\ UNCHANGED warmed
    /\ UNCHANGED <<run, hooks, overlap, elapsed>>

\* No client attached: the run is planned, and nothing warms anything.
Plan(c) ==
    /\ call[c].at = "run" /\ ~hooks
    /\ run' = WithStatus(call[c].rec, "submitted")
    /\ Return(c)
    /\ UNCHANGED <<warmed, remote, hooks, overlap, elapsed>>

\* The put of what submit_fn or status_fn answered
PutAnswer(c) ==
    /\ call[c].at = "answer"
    /\ run' = call[c].rec
    /\ ReturnOrPoll(c, call[c].rec)
    /\ UNCHANGED <<warmed, remote, hooks, overlap, elapsed>>

-----------------------------------------------------------------------------
\* poll, retry, cancel, expire_due

\* A waiting call polls once.
Poll(c) ==
    /\ call[c].at = "poll"
    /\ call' = [call EXCEPT ![c].at = "get", ![c].op = "poll", ![c].now = elapsed]
    /\ UNCHANGED <<run, warmed, remote, hooks, overlap, elapsed>>

\* status_fn answers; it raises and the run fails; or it raises in the fallback
\* for another signature, which poll does not catch.
Status(c) ==
    /\ call[c].at = "got" /\ call[c].op = "poll" /\ ~Due(call[c].rec, call[c].now)
    /\ call[c].rec.status \in InFlight /\ hooks
    /\ \/ remote = "running" /\ Answer(c, "active")
       \/ remote = "idle" /\ warmed /\ Answer(c, "complete")
       \/ Answer(c, "failed")
       \/ Return(c)
    /\ UNCHANGED <<run, warmed, remote, hooks, overlap, elapsed>>

\* What the call returns, or raises on, as it read it
Settled(c) ==
    /\ call[c].at = "got"
    /\ \/ call[c].op = "poll" /\ (call[c].rec.status \in Terminal \/ ~hooks)
       \/ call[c].op = "expire_due"
       \/ call[c].op = "retry" /\ (call[c].rec.status \in InFlight \/ Warm(call[c].rec, call[c].now))
       \/ call[c].op = "cancel" /\ call[c].rec.status \in {"complete", "canceled"}
    /\ call[c].op \in {"poll", "expire_due"} => ~Due(call[c].rec, call[c].now)
    /\ Return(c)
    /\ UNCHANGED <<run, warmed, remote, hooks, overlap, elapsed>>

Cancel(c) ==
    /\ call[c].at = "got" /\ call[c].op = "cancel"
    /\ call[c].rec.status \notin {"complete", "canceled"}
    /\ run' = WithStatus(call[c].rec, "canceled")
    /\ Return(c)
    /\ UNCHANGED <<warmed, remote, hooks, overlap, elapsed>>

-----------------------------------------------------------------------------
\* The environment

\* A call dies between two steps.
Die(c) ==
    /\ call[c].at \notin {"idle", "done"}
    /\ Return(c)
    /\ UNCHANGED <<run, warmed, remote, hooks, overlap, elapsed>>

\* ttl_s passes for an attempt.
Elapse(n) ==
    /\ n \in Workers \ elapsed /\ run # None /\ run.nonce = n
    /\ elapsed' = elapsed \cup {n}
    /\ UNCHANGED <<run, warmed, remote, hooks, overlap, call>>

RemoteEnds ==
    /\ remote = "running"
    /\ \/ warmed' = TRUE /\ remote' = "idle"
       \/ remote' = "failed" /\ UNCHANGED warmed
    /\ UNCHANGED <<run, hooks, overlap, elapsed, call>>

Step(c) ==
    \/ Get(c) \/ Expire(c) \/ Attach(c) \/ Resubmit(c)
    \/ ClaimRead(c) \/ ClaimUpsert(c) \/ ClaimReadBack(c) \/ AttachLost(c)
    \/ Submit(c) \/ Plan(c) \/ PutAnswer(c)
    \/ Poll(c) \/ Status(c) \/ Settled(c) \/ Cancel(c)

Next ==
    \/ \E c \in Workers : Step(c) \/ Die(c) \/ \E o \in Ops : Call(c, o)
    \/ \E n \in Workers : Elapse(n)
    \/ RemoteEnds

Spec == Init /\ [][Next]_vars

-----------------------------------------------------------------------------

\* A JobRun recorded as complete was warmed: no stale put, late answer or lost
\* claim writes `complete` for a warm-up that never finished.
CompleteWasWarmed == run # None /\ run.status = "complete" => warmed

\* Design decision "Only failed/canceled/expired JobRuns are re-submitted, incrementing
\* retry_count" (training_prewarm_jobs.py:37-38): with calls that take turns, and may die
\* anywhere, a new attempt replaces a failed, canceled or expired run, or a complete one that
\* has gone cold, and is counted.  The code goes beyond the text in one case, which is granted
\* here and reported in the README: an explicit retry (line 963) also takes a skipped run.
AttemptsTakeTurns ==
    [][overlap = 1 /\ run # None /\ run'.nonce # run.nonce =>
          /\ \/ run.status \in Resubmittable
             \/ run.status = "complete" /\ ~Warm(run, elapsed)
             \/ run.status = "skipped" /\ call[run'.nonce].op = "retry"
          /\ run'.retries = run.retries + 1]_vars
=============================================================================

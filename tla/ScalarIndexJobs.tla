-------------------------- MODULE ScalarIndexJobs ---------------------------
(***************************************************************************)
(* The scalar-index job of one (table, version, column, index type), as    *)
(* scalar_index_jobs.py keeps it: a row of a shared table that any number  *)
(* of processes read, advance and write back.                              *)
(*                                                                         *)
(* A record is read once and put back as a whole, so every put may carry   *)
(* an old status: `get` and `put` are separate steps here, and so are the  *)
(* three steps of a claim.  request_count and the timestamps that nothing  *)
(* decides on are left out, which makes touch_request a put of the record  *)
(* just read.  expires_at is fixed when an attempt is minted, so a record  *)
(* is due when its owner_nonce is among the attempts whose ttl elapsed.    *)
(***************************************************************************)
EXTENDS Naturals, Sequences, FiniteSets

CONSTANTS
    Callers,        \* calls of the coordinator; a call is its own owner_nonce
    Maintainers,    \* processes that call reconcile again and again
    Modes,          \* the build modes to consider: "sync", "async", "planned"
    Offered,        \* the operations that callers use
    Overlaps,       \* the numbers of calls under way at once to consider
    None

Procs == Callers \cup Maintainers

Requests == {"request", "request_wait"}
Ops == Requests \cup {"poll", "retry", "cancel", "expire_due", "reconcile"}

InFlight == {"submitted", "active"}
Resubmittable == {"failed", "canceled", "expired"}
Terminal == Resubmittable \cup {"complete", "skipped"}

\* A job: the row of one (table, version, column, index type)
Record == [status : InFlight \cup Terminal, nonce : Procs, retries : Nat]

ASSUME CallerAssumption == /\ Callers \cap Maintainers = {}
                           /\ None \notin Record
                           /\ Offered \subseteq Ops
                           /\ Overlaps \subseteq Nat
                           /\ Modes \subseteq {"sync", "async", "planned"}

VARIABLES
    job,        \* the row of the job table, or None
    built,      \* the index exists
    remote,     \* the remote build service: "idle", "running" or "failed"
    mode,       \* what _coordinator_for attaches: build_fn, the hooks, or nothing
    overlap,    \* at most so many calls are under way at once
    elapsed,    \* attempts (by owner_nonce) whose expires_at has passed
    call,       \* the local state of each call
    attempts    \* history: <<retry_count, call>> of each build or submit

vars == <<job, built, remote, mode, overlap, elapsed, call, attempts>>

-----------------------------------------------------------------------------
\* Records

\* build_scalar_index_job
NewJob(c) == [status |-> "submitted", nonce |-> c, retries |-> 0]

WithStatus(r, s) == [r EXCEPT !.status = s]

Retrying(r, c) == [status |-> "submitted", nonce |-> c, retries |-> r.retries + 1]

\* Mutant: a job never expires.
DueNever(r, t) == FALSE

\* The condition of _maybe_expire, for a reader whose `now` is t
Due(r, t) == r.status \notin Terminal /\ r.nonce \in t

-----------------------------------------------------------------------------
\* A call's next step, operation, time, record in hand and records listed.  Its
\* time is the set of attempts that were due when it read the clock.
NoCall(label) == [at |-> label, op |-> None, now |-> {}, rec |-> None, todo |-> <<>>]

Init ==
    /\ job = None
    /\ built = FALSE
    /\ remote = "idle"
    /\ mode \in Modes
    /\ overlap \in Overlaps
    /\ elapsed = {}
    /\ call = [c \in Procs |-> NoCall("idle")]
    /\ attempts = {}

Goto(c, label) == call' = [call EXCEPT ![c].at = label]
GoWith(c, label, r) == call' = [call EXCEPT ![c].at = label, ![c].rec = r]

\* A call that ends drops what it holds; a maintainer may call again.
End(c) == call' = [call EXCEPT ![c] = NoCall(IF c \in Maintainers THEN "idle" ELSE "done")]

\* reconcile goes on with its list, every other call returns.
Return(c) == IF call[c].op = "reconcile" THEN GoWith(c, "scan", None) ELSE End(c)

\* A call that ends in a poll reads the time again.
EndInPoll(c, r) == call[c].op = "request_wait" /\ mode = "async" /\ r.status \in InFlight
ReturnOrPoll(c, r) == IF EndInPoll(c, r) THEN GoWith(c, "poll", None) ELSE Return(c)

\* Without status_fn, waiting and reconciling do what request and expire_due do.
Call(c, o) ==
    /\ call[c].at = "idle"
    /\ IF c \in Maintainers THEN o = "reconcile" ELSE o \in Offered
    /\ o \in {"request_wait", "reconcile"} => mode = "async" \/ c \in Maintainers
    /\ Cardinality({d \in Procs : call[d].at \notin {"idle", "done"}}) < overlap
    /\ call' = [call EXCEPT ![c].at = IF o \in {"expire_due", "reconcile"} THEN "list" ELSE "get",
                             ![c].op = o, ![c].now = elapsed]
    /\ UNCHANGED <<job, built, remote, mode, overlap, elapsed, attempts>>

\* store.get
Get(c) ==
    /\ call[c].at = "get"
    /\ IF job = None /\ call[c].op \notin Requests
         THEN End(c)
         ELSE GoWith(c, IF job = None THEN "claim" ELSE "got", job)
    /\ UNCHANGED <<job, built, remote, mode, overlap, elapsed, attempts>>

\* _maybe_expire, where the caller goes on with what it returns
Expire(c) ==
    /\ \/ call[c].at = "got" /\ call[c].op \notin {"retry", "cancel"}
       \/ call[c].at = "lost"
    /\ Due(call[c].rec, call[c].now)
    /\ job' = WithStatus(call[c].rec, "expired")
    /\ call' = [call EXCEPT ![c].rec = job']
    /\ UNCHANGED <<built, remote, mode, overlap, elapsed, attempts>>

-----------------------------------------------------------------------------
\* request

\* Mutant: a caller that finds a retried job in flight runs it too.
AttachRunsRetry(c) ==
    /\ call[c].at = "got" /\ call[c].op \in Requests /\ ~Due(call[c].rec, call[c].now)
    /\ call[c].rec.status \in InFlight \cup {"complete"}
    /\ job' = call[c].rec
    /\ IF call[c].rec.status \in InFlight /\ call[c].rec.retries > 0
         THEN Goto(c, "run") ELSE ReturnOrPoll(c, call[c].rec)
    /\ UNCHANGED <<built, remote, mode, overlap, elapsed, attempts>>

\* A complete job is reused and an in-flight one attached to.
Attach(c) ==
    /\ call[c].at = "got" /\ call[c].op \in Requests /\ ~Due(call[c].rec, call[c].now)
    /\ call[c].rec.status \in InFlight \cup {"complete"}
    /\ job' = call[c].rec
    /\ ReturnOrPoll(c, call[c].rec)
    /\ UNCHANGED <<built, remote, mode, overlap, elapsed, attempts>>

\* request and retry start a new attempt of a job that ended without an index.
Resubmit(c) ==
    /\ call[c].at = "got" /\ call[c].op \in Requests \cup {"retry"}
    /\ call[c].rec.status \in Resubmittable
    /\ job' = Retrying(call[c].rec, c)
    /\ GoWith(c, "run", job')
    /\ UNCHANGED <<built, remote, mode, overlap, elapsed, attempts>>

\* store.claim: read the row, insert one if there is none, read it back.
ClaimRead(c) ==
    /\ \/ call[c].at = "claim"
       \/ call[c].at = "got" /\ call[c].op \in Requests /\ call[c].rec.status = "skipped"
    /\ GoWith(c, IF job = None THEN "insert" ELSE "lost", job)
    /\ UNCHANGED <<job, built, remote, mode, overlap, elapsed, attempts>>

\* Mutant: the claim upserts, so the last writer's nonce survives.
ClaimUpsert(c) ==
    /\ call[c].at = "insert"
    /\ job' = NewJob(c)
    /\ Goto(c, "readback")
    /\ UNCHANGED <<built, remote, mode, overlap, elapsed, attempts>>

ClaimInsert(c) ==
    /\ call[c].at = "insert"
    /\ job' = IF job = None THEN NewJob(c) ELSE job
    /\ Goto(c, "readback")
    /\ UNCHANGED <<built, remote, mode, overlap, elapsed, attempts>>

ClaimReadBack(c) ==
    /\ call[c].at = "readback"
    /\ GoWith(c, IF job.nonce = c THEN "run" ELSE "lost", job)
    /\ UNCHANGED <<job, built, remote, mode, overlap, elapsed, attempts>>

\* A caller that lost the claim attaches to the winner's job, whatever its state.
AttachLost(c) ==
    /\ call[c].at = "lost" /\ ~Due(call[c].rec, call[c].now)
    /\ job' = call[c].rec
    /\ Return(c)
    /\ UNCHANGED <<built, remote, mode, overlap, elapsed, attempts>>

-----------------------------------------------------------------------------
\* _run

Answer(c, s) == GoWith(c, "answer", WithStatus(call[c].rec, s))

\* build_fn attached: the job is active before the build starts.
StartBuild(c) ==
    /\ call[c].at = "run" /\ mode = "sync"
    /\ job' = WithStatus(call[c].rec, "active")
    /\ GoWith(c, "build", job')
    /\ UNCHANGED <<built, remote, mode, overlap, elapsed, attempts>>

\* Mutant: a build that raised is recorded as complete.
BuildUnchecked(c) ==
    /\ call[c].at = "build"
    /\ built' \in {built, TRUE}
    /\ Answer(c, "complete")
    /\ attempts' = attempts \cup {<<call[c].rec.retries, c>>}
    /\ UNCHANGED <<job, remote, mode, overlap, elapsed>>

\* build_scalar_index builds or finds the index, skips it, or fails.
Build(c) ==
    /\ call[c].at = "build"
    /\ \/ built' = TRUE /\ Answer(c, "complete")
       \/ /\ \E s \in {"skipped", "failed"} : Answer(c, s)
          /\ UNCHANGED built
    /\ attempts' = attempts \cup {<<call[c].rec.retries, c>>}
    /\ UNCHANGED <<job, remote, mode, overlap, elapsed>>

\* submit_fn attached: the service accepts, declines or has the index at once,
\* or the call raises, whether the service heard it or not.
Submit(c) ==
    /\ call[c].at = "run" /\ mode = "async"
    /\ \/ \E s \in InFlight : Answer(c, s) /\ remote' = "running" /\ UNCHANGED built
       \/ Answer(c, "skipped") /\ UNCHANGED <<remote, built>>
       \/ Answer(c, "complete") /\ built' = TRUE /\ UNCHANGED remote
       \/ Answer(c, "failed") /\ remote' \in {remote, "running"} /\ UNCHANGED built
    /\ attempts' = attempts \cup {<<call[c].rec.retries, c>>}
    /\ UNCHANGED <<job, mode, overlap, elapsed>>

\* No client attached: the job is planned, and nothing runs it.
Plan(c) ==
    /\ call[c].at = "run" /\ mode = "planned"
    /\ job' = WithStatus(call[c].rec, "submitted")
    /\ Return(c)
    /\ UNCHANGED <<built, remote, mode, overlap, elapsed, attempts>>

\* The put of what build_fn, submit_fn or status_fn answered
PutAnswer(c) ==
    /\ call[c].at = "answer"
    /\ job' = call[c].rec
    /\ ReturnOrPoll(c, call[c].rec)
    /\ UNCHANGED <<built, remote, mode, overlap, elapsed, attempts>>

-----------------------------------------------------------------------------
\* poll, retry, cancel, expire_due, reconcile

Poll(c) ==
    /\ call[c].at = "poll"
    /\ call' = [call EXCEPT ![c].at = "get", ![c].op = IF @ = "reconcile" THEN @ ELSE "poll",
                             ![c].now = elapsed]
    /\ UNCHANGED <<job, built, remote, mode, overlap, elapsed, attempts>>

\* status_fn: what the service says, or the call raises.
Status(c) ==
    /\ call[c].at = "got" /\ call[c].op \in {"poll", "reconcile"} /\ ~Due(call[c].rec, call[c].now)
    /\ call[c].rec.status \in InFlight /\ mode = "async"
    /\ \/ remote = "running" /\ Answer(c, "active")
       \/ remote = "idle" /\ built /\ Answer(c, "complete")
       \/ Answer(c, "failed")
    /\ UNCHANGED <<job, built, remote, mode, overlap, elapsed, attempts>>

\* What poll, retry and cancel return as they read it; retry raises.
Settled(c) ==
    /\ call[c].at = "got"
    /\ \/ call[c].op \in {"poll", "reconcile"} /\ call[c].rec.status \in Terminal
       \/ call[c].op \in {"poll", "reconcile"} /\ mode # "async" /\ ~Due(call[c].rec, call[c].now)
       \/ call[c].op = "retry" /\ call[c].rec.status \notin Resubmittable
       \/ call[c].op = "cancel" /\ call[c].rec.status \in {"complete", "canceled"}
    /\ Return(c)
    /\ UNCHANGED <<job, built, remote, mode, overlap, elapsed, attempts>>

\* Mutant: cancel does not look at the status.
CancelAnything(c) ==
    /\ call[c].at = "got" /\ call[c].op = "cancel"
    /\ job' = WithStatus(call[c].rec, "canceled")
    /\ Return(c)
    /\ UNCHANGED <<built, remote, mode, overlap, elapsed, attempts>>

Cancel(c) ==
    /\ call[c].at = "got" /\ call[c].op = "cancel"
    /\ call[c].rec.status \notin {"complete", "canceled"}
    /\ job' = WithStatus(call[c].rec, "canceled")
    /\ Return(c)
    /\ UNCHANGED <<built, remote, mode, overlap, elapsed, attempts>>

\* _in_flight_jobs: one query for the submitted jobs, then one for the active.
List(c) ==
    /\ \E s \in InFlight :
          /\ call[c].at = IF s = "submitted" THEN "list" ELSE "list_active"
          /\ call' = [call EXCEPT
                ![c].at = IF s = "submitted" THEN "list_active" ELSE "scan",
                ![c].todo = IF job # None /\ job.status = s THEN Append(@, job) ELSE @]
    /\ UNCHANGED <<job, built, remote, mode, overlap, elapsed, attempts>>

\* The loop of reconcile and expire_due over what was listed
Scan(c) ==
    /\ call[c].at = "scan" /\ call[c].todo # <<>>
    /\ LET r == Head(call[c].todo)
           polls == call[c].op = "reconcile" /\ mode = "async" /\ ~Due(r, call[c].now)
       IN  /\ job' = IF Due(r, call[c].now) THEN WithStatus(r, "expired") ELSE job
           /\ call' = [call EXCEPT ![c].at = IF polls THEN "poll" ELSE @, ![c].todo = Tail(@)]
    /\ UNCHANGED <<built, remote, mode, overlap, elapsed, attempts>>

ScanEnds(c) ==
    /\ call[c].at = "scan" /\ call[c].todo = <<>>
    /\ End(c)
    /\ UNCHANGED <<job, built, remote, mode, overlap, elapsed, attempts>>

-----------------------------------------------------------------------------
\* The environment

\* The process of a call dies between two steps.
Die(c) ==
    /\ c \in Callers /\ call[c].at \notin {"idle", "done"}
    /\ End(c)
    /\ UNCHANGED <<job, built, remote, mode, overlap, elapsed, attempts>>

\* ttl_s passes for an attempt.
Elapse(n) ==
    /\ n \in Callers \ elapsed /\ job # None /\ job.nonce = n
    /\ elapsed' = elapsed \cup {n}
    /\ UNCHANGED <<job, built, remote, mode, overlap, call, attempts>>

\* The service finishes a build, well or not; it may also never do so.
RemoteEnds ==
    /\ remote = "running"
    /\ \/ built' = TRUE /\ remote' = "idle"
       \/ remote' = "failed" /\ UNCHANGED built
    /\ UNCHANGED <<job, mode, overlap, elapsed, call, attempts>>

Step(c) ==
    \/ Get(c) \/ Expire(c) \/ Attach(c) \/ Resubmit(c)
    \/ ClaimRead(c) \/ ClaimInsert(c) \/ ClaimReadBack(c) \/ AttachLost(c)
    \/ StartBuild(c) \/ Build(c) \/ Submit(c) \/ Plan(c) \/ PutAnswer(c)
    \/ Poll(c) \/ Status(c) \/ Settled(c) \/ Cancel(c)
    \/ List(c) \/ Scan(c) \/ ScanEnds(c)

Next ==
    \/ \E c \in Procs : Step(c) \/ Die(c)
    \/ \E c \in Procs, o \in Ops : Call(c, o)
    \/ \E n \in Callers : Elapse(n)
    \/ RemoteEnds

Spec == Init /\ [][Next]_vars

\* A maintainer is scheduled again and again, and time passes.  Nothing is
\* assumed of the service, of the callers, or of the order of their steps.
FairSpec ==
    /\ Spec
    /\ \A m \in Maintainers :
          WF_vars(Step(m) \/ \E o \in Ops : Call(m, o))
    /\ \A n \in Callers : WF_vars(Elapse(n))

-----------------------------------------------------------------------------

\* store.claim: of all the calls that find no job, at most one builds or submits
\* the first attempt, however the claims, retries and cancels interleave.
FirstClaimWins == \A a, b \in attempts : a[1] = 0 /\ b[1] = 0 => a = b

\* A job recorded as complete has an index: no stale put, late answer or lost
\* claim ever writes `complete` for a build that did not succeed.
CompleteIsBuilt == job # None /\ job.status = "complete" => built

\* Module docstring: repeated requests of one job are idempotent.  With calls that
\* take turns, each attempt is built or submitted by one call, a death included.
OneBuildPerAttempt == overlap = 1 => \A a, b \in attempts : a[1] = b[1] => a = b

\* expire_due, reconcile: a job whose build was lost is always taken out of the
\* in-flight states in the end, by the ttl if by nothing else.
StuckJobsEnd == []<>(job = None \/ job.status \in Terminal)

\* The lifecycle of the row, seen without the calls that write it; where calls
\* overlap nothing of the row is shown
Lifecycle == INSTANCE JobLifecycle WITH
    status <- IF job = None \/ overlap > 1 THEN None ELSE job.status,
    retries <- IF job = None \/ overlap > 1 THEN 0 ELSE job.retries

\* One call at a time, dying anywhere, the row goes through the documented
\* lifecycle: complete is kept, a new attempt is counted.
FollowsLifecycle == Lifecycle!Spec
=============================================================================

----------------------- MODULE ScalarIndexJobsProofs ------------------------
(***************************************************************************)
(* Proofs about ScalarIndexJobs, for any number of callers, maintainers    *)
(* and overlapping calls, in every mode.                                   *)
(***************************************************************************)
EXTENDS ScalarIndexJobs, FiniteSetTheorems, SequenceTheorems, TLAPS

Rows == Record \cup {None}
Lists == Seq(Record)
Holding == {"got", "lost", "run", "build", "answer"}
Labels == Holding \cup {"idle", "done", "get", "claim", "insert", "readback", "poll",
                        "list", "list_active", "scan"}
Local == [at : Labels, op : Ops \cup {None}, now : SUBSET Procs, rec : Rows, todo : Lists]

\* A call holds the record that its next step puts back, changes or builds; the
\* record of a build names its own call; a claim that is read back was written.
TypeOK ==
    /\ job \in Rows
    /\ built \in BOOLEAN /\ elapsed \subseteq Procs /\ overlap \in Nat
    /\ call \in [Procs -> Local]
    /\ attempts \subseteq Nat \X Procs
    /\ \A c \in Procs : /\ call[c].at \in Holding => call[c].rec # None
                        /\ call[c].at \in {"run", "build"} => call[c].rec.nonce = c
                        /\ call[c].at = "readback" => job # None

-----------------------------------------------------------------------------
\* How a step changes the local state of its call.

LEMMA Updates ==
    ASSUME call \in [Procs -> Local], NEW c \in Procs, NEW k \in Local, call' = [call EXCEPT ![c] = k]
    PROVE  call' \in [Procs -> Local] /\ call'[c] = k /\ \A d \in Procs \ {c} : call'[d] = call[d]
  OBVIOUS

LEMMA GoWithStep ==
    ASSUME call \in [Procs -> Local], NEW c \in Procs, NEW label \in Labels, NEW r \in Rows,
           GoWith(c, label, r)
    PROVE  /\ call' \in [Procs -> Local]
           /\ call'[c].at = label /\ call'[c].rec = r
           /\ call'[c].op = call[c].op /\ call'[c].now = call[c].now /\ call'[c].todo = call[c].todo
           /\ \A d \in Procs \ {c} : call'[d] = call[d]
<1> DEFINE n == [call[c] EXCEPT !.at = label]
           k == [n EXCEPT !.rec = r]
<1>1. call' = [call EXCEPT ![c] = k]
  BY DEF GoWith
<1>2. /\ n \in Local /\ n.at = label
      /\ n.op = call[c].op /\ n.now = call[c].now /\ n.todo = call[c].todo
  BY DEF Local
<1> HIDE DEF n
<1>3. /\ k \in Local /\ k.at = label /\ k.rec = r
      /\ k.op = n.op /\ k.now = n.now /\ k.todo = n.todo
  BY <1>2 DEF Local
<1> HIDE DEF k
<1> QED
  BY <1>1, <1>2, <1>3, Updates

LEMMA GotoStep ==
    ASSUME call \in [Procs -> Local], NEW c \in Procs, NEW label \in Labels, Goto(c, label)
    PROVE  /\ call' \in [Procs -> Local]
           /\ call'[c].at = label /\ call'[c].rec = call[c].rec
           /\ call'[c].op = call[c].op /\ call'[c].now = call[c].now /\ call'[c].todo = call[c].todo
           /\ \A d \in Procs \ {c} : call'[d] = call[d]
<1> DEFINE k == [call[c] EXCEPT !.at = label]
<1>1. call' = [call EXCEPT ![c] = k]
  BY DEF Goto
<1>2. /\ k \in Local /\ k.at = label /\ k.rec = call[c].rec
      /\ k.op = call[c].op /\ k.now = call[c].now /\ k.todo = call[c].todo
  BY DEF Local
<1> HIDE DEF k
<1> QED
  BY <1>1, <1>2, Updates

LEMMA EndStep ==
    ASSUME call \in [Procs -> Local], NEW c \in Procs, End(c)
    PROVE  /\ call' \in [Procs -> Local]
           /\ call'[c].at \in {"idle", "done"} /\ call'[c].rec = None /\ call'[c].todo = << >>
           /\ \A d \in Procs \ {c} : call'[d] = call[d]
<1>1. \A label \in {"idle", "done"} :
          /\ NoCall(label) \in Local
          /\ NoCall(label).at = label /\ NoCall(label).rec = None /\ NoCall(label).todo = << >>
  <2>1. << >> \in Lists
    BY DEF Lists
  <2> QED
    BY <2>1 DEF NoCall, Local, Labels, Rows
<1> QED
  BY <1>1 DEF End

\* A call that returns ends, scans on, or polls.
LEMMA ReturnStep ==
    ASSUME call \in [Procs -> Local], NEW c \in Procs, NEW r, Return(c) \/ ReturnOrPoll(c, r)
    PROVE  /\ call' \in [Procs -> Local]
           /\ call'[c].at \in {"idle", "done", "scan", "poll"} /\ call'[c].rec = None
           /\ call'[c].todo = call[c].todo \/ call'[c].todo = << >>
           /\ \A d \in Procs \ {c} : call'[d] = call[d]
<1>1. CASE End(c)
  BY <1>1, EndStep
<1>2. CASE GoWith(c, "scan", None) \/ GoWith(c, "poll", None)
  BY <1>2, GoWithStep DEF Labels, Rows
<1> QED
  BY <1>1, <1>2 DEF Return, ReturnOrPoll

\* A record keeps its attempt when its status changes.
LEMMA StatusChange ==
    ASSUME NEW r \in Record, NEW s \in InFlight \cup Terminal
    PROVE  /\ WithStatus(r, s) \in Record /\ WithStatus(r, s).status = s
           /\ WithStatus(r, s).nonce = r.nonce /\ WithStatus(r, s).retries = r.retries
  BY DEF WithStatus, Record

LEMMA NewAttempt ==
    ASSUME NEW r \in Record, NEW c \in Procs
    PROVE  /\ Retrying(r, c) \in Record /\ Retrying(r, c).status = "submitted"
           /\ Retrying(r, c).nonce = c /\ Retrying(r, c).retries = r.retries + 1
  BY DEF Retrying, Record, InFlight

LEMMA FirstAttempt ==
    ASSUME NEW c \in Procs
    PROVE  /\ NewJob(c) \in Record /\ NewJob(c).status = "submitted"
           /\ NewJob(c).nonce = c /\ NewJob(c).retries = 0
  BY DEF NewJob, Record, InFlight

LEMMA AnswerStep ==
    ASSUME call \in [Procs -> Local], NEW c \in Procs, NEW s \in InFlight \cup Terminal,
           call[c].rec \in Record, Answer(c, s)
    PROVE  /\ call' \in [Procs -> Local]
           /\ call'[c].at = "answer" /\ call'[c].rec \in Record /\ call'[c].rec.status = s
           /\ call'[c].rec.nonce = call[c].rec.nonce /\ call'[c].rec.retries = call[c].rec.retries
           /\ call'[c].op = call[c].op /\ call'[c].now = call[c].now /\ call'[c].todo = call[c].todo
           /\ \A d \in Procs \ {c} : call'[d] = call[d]
  BY StatusChange, GoWithStep DEF Answer, Labels, Holding, Rows

\* A new call, or a waiting one that goes on to poll.
LEMMA StartStep ==
    ASSUME call \in [Procs -> Local], NEW c \in Procs, NEW label \in Labels, NEW o \in Ops \cup {None},
           NEW t \in SUBSET Procs,
           call' = [call EXCEPT ![c].at = label, ![c].op = o, ![c].now = t]
    PROVE  /\ call' \in [Procs -> Local]
           /\ call'[c].at = label /\ call'[c].op = o
           /\ call'[c].rec = call[c].rec /\ call'[c].todo = call[c].todo
           /\ \A d \in Procs \ {c} : call'[d] = call[d]
<1> DEFINE k == [call[c] EXCEPT !.at = label]
           n == [k EXCEPT !.op = o]
           x == [n EXCEPT !.now = t]
<1>1. k \in Local /\ k.at = label /\ k.rec = call[c].rec /\ k.todo = call[c].todo
  BY DEF Local
<1>2. call' = [call EXCEPT ![c] = x]
  OBVIOUS
<1> HIDE DEF k
<1>3. n \in Local /\ n.at = label /\ n.op = o /\ n.rec = k.rec /\ n.todo = k.todo
  BY <1>1 DEF Local
<1> HIDE DEF n
<1>4. x \in Local /\ x.at = label /\ x.op = o /\ x.rec = k.rec /\ x.todo = k.todo
  BY <1>3 DEF Local
<1> HIDE DEF x
<1> QED
  BY <1>1, <1>2, <1>4, Updates

\* reconcile and expire_due list records, and then go through the list.
ListWith(c, label, l) == call' = [call EXCEPT ![c].at = label, ![c].todo = l]

LEMMA ListedStep ==
    ASSUME call \in [Procs -> Local], NEW c \in Procs, NEW label \in Labels, NEW l \in Lists,
           ListWith(c, label, l)
    PROVE  /\ call' \in [Procs -> Local]
           /\ call'[c].at = label /\ call'[c].todo = l
           /\ call'[c].rec = call[c].rec /\ call'[c].op = call[c].op
           /\ \A d \in Procs \ {c} : call'[d] = call[d]
<1> DEFINE k == [call[c] EXCEPT !.at = label]
           n == [k EXCEPT !.todo = l]
<1>1. k \in Local /\ k.at = label /\ k.rec = call[c].rec /\ k.op = call[c].op
  BY DEF Local
<1>2. call' = [call EXCEPT ![c] = n]
  BY DEF ListWith
<1> HIDE DEF k
<1>3. n \in Local /\ n.at = label /\ n.todo = l /\ n.rec = k.rec /\ n.op = k.op
  BY <1>1 DEF Local
<1> HIDE DEF n
<1> QED
  BY <1>1, <1>2, <1>3, Updates

LEMMA TypeStep == ASSUME TypeOK, [Next]_vars PROVE TypeOK'
<1> USE CallerAssumption DEF TypeOK
<1>1. ASSUME NEW c \in Procs, Get(c) PROVE TypeOK'
  BY <1>1, EndStep, GoWithStep DEF Get, Labels, Holding, Rows
<1>2. ASSUME NEW c \in Procs, Expire(c) PROVE TypeOK'
  <2>1. call[c].rec \in Record
    BY <1>2 DEF Expire, Holding, Rows, Local
  <2>2. job' \in Record /\ GoWith(c, call[c].at, job')
    BY <1>2, <2>1, StatusChange DEF Expire, Terminal, Resubmittable, GoWith
  <2> QED
    BY <1>2, <2>2, GoWithStep DEF Expire, Labels, Holding, Rows
<1>3. ASSUME NEW c \in Procs, Attach(c) PROVE TypeOK'
  BY <1>3, ReturnStep DEF Attach, Holding, Rows, Local
<1>4. ASSUME NEW c \in Procs, Resubmit(c) PROVE TypeOK'
  <2>1. call[c].rec \in Record
    BY <1>4 DEF Resubmit, Holding, Rows, Local
  <2>2. job' \in Record /\ job'.nonce = c /\ GoWith(c, "run", job') /\ UNCHANGED <<built, overlap, elapsed, attempts>>
    BY <1>4, <2>1, NewAttempt DEF Resubmit
  <2> QED
    BY <2>2, GoWithStep DEF Labels, Holding, Rows
<1>5. ASSUME NEW c \in Procs, ClaimRead(c) PROVE TypeOK'
  BY <1>5, GoWithStep DEF ClaimRead, Labels, Holding, Rows
<1>6. ASSUME NEW c \in Procs, ClaimInsert(c) PROVE TypeOK'
  BY <1>6, FirstAttempt, GotoStep DEF ClaimInsert, Labels, Holding, Rows
<1>7. ASSUME NEW c \in Procs, ClaimReadBack(c) PROVE TypeOK'
  BY <1>7, GoWithStep DEF ClaimReadBack, Labels, Holding, Rows
<1>8. ASSUME NEW c \in Procs, AttachLost(c) PROVE TypeOK'
  BY <1>8, ReturnStep DEF AttachLost, Holding, Rows, Local
<1>9. ASSUME NEW c \in Procs, StartBuild(c) PROVE TypeOK'
  <2>1. call[c].rec \in Record
    BY <1>9 DEF StartBuild, Holding, Rows, Local
  <2> QED
    BY <1>9, <2>1, StatusChange, GoWithStep DEF StartBuild, Labels, Holding, Rows, InFlight
<1>10. ASSUME NEW c \in Procs, Build(c) \/ Submit(c) PROVE TypeOK'
  <2>1. call[c].rec \in Record
    BY <1>10 DEF Build, Submit, Holding, Rows, Local
  <2>2. PICK s \in InFlight \cup Terminal : Answer(c, s)
    BY <1>10 DEF Build, Submit, InFlight, Terminal, Resubmittable
  <2>3. attempts' \subseteq Nat \X Procs
    BY <1>10, <2>1 DEF Build, Submit, Record
  <2>4. /\ call' \in [Procs -> Local] /\ call'[c].at = "answer" /\ call'[c].rec \in Record
        /\ \A d \in Procs \ {c} : call'[d] = call[d]
    BY <2>1, <2>2, AnswerStep
  <2>5. UNCHANGED <<job, overlap, elapsed>> /\ built' \in BOOLEAN
    BY <1>10 DEF Build, Submit
  <2> QED
    BY <2>3, <2>4, <2>5 DEF Rows
<1>11. ASSUME NEW c \in Procs, Plan(c) PROVE TypeOK'
  <2>1. call[c].rec \in Record
    BY <1>11 DEF Plan, Holding, Rows, Local
  <2>2. job' \in Record
    BY <1>11, <2>1, StatusChange DEF Plan, InFlight
  <2> QED
    BY <1>11, <2>2, ReturnStep DEF Plan, Holding, Rows
<1>12. ASSUME NEW c \in Procs, PutAnswer(c) PROVE TypeOK'
  BY <1>12, ReturnStep DEF PutAnswer, Holding, Rows, Local
<1>13. ASSUME NEW c \in Procs, Poll(c) PROVE TypeOK'
  <2>1. PICK o \in Ops \cup {None} : call' = [call EXCEPT ![c].at = "get", ![c].op = o, ![c].now = elapsed]
    BY <1>13 DEF Poll, Ops
  <2>2. "get" \in Labels \ (Holding \cup {"readback"}) /\ elapsed \in SUBSET Procs
    BY DEF Labels, Holding
  <2>3. /\ call' \in [Procs -> Local] /\ call'[c].at = "get"
        /\ \A d \in Procs \ {c} : call'[d] = call[d]
    BY <2>1, <2>2, StartStep
  <2> QED
    BY <1>13, <2>2, <2>3 DEF Poll, Holding
<1>14. ASSUME NEW c \in Procs, Status(c) PROVE TypeOK'
  <2>1. call[c].rec \in Record
    BY <1>14 DEF Status, Holding, Rows, Local
  <2>2. PICK s \in InFlight \cup Terminal : Answer(c, s)
    BY <1>14 DEF Status, InFlight, Terminal, Resubmittable
  <2> QED
    BY <1>14, <2>1, <2>2, AnswerStep DEF Status, Holding, Rows
<1>15. ASSUME NEW c \in Procs, Settled(c) PROVE TypeOK'
  BY <1>15, ReturnStep DEF Settled, Holding
<1>16. ASSUME NEW c \in Procs, Cancel(c) PROVE TypeOK'
  <2>1. call[c].rec \in Record
    BY <1>16 DEF Cancel, Holding, Rows, Local
  <2>2. job' \in Record
    BY <1>16, <2>1, StatusChange DEF Cancel, Terminal, Resubmittable
  <2> QED
    BY <1>16, <2>2, ReturnStep DEF Cancel, Holding, Rows
<1>17. ASSUME NEW c \in Procs, List(c) PROVE TypeOK'
  <2>1. PICK s \in InFlight :
            call' = [call EXCEPT
                ![c].at = IF s = "submitted" THEN "list_active" ELSE "scan",
                ![c].todo = IF job # None /\ job.status = s THEN Append(@, job) ELSE @]
    BY <1>17 DEF List
  <2> DEFINE label == IF s = "submitted" THEN "list_active" ELSE "scan"
             l == IF job # None /\ job.status = s THEN Append(call[c].todo, job) ELSE call[c].todo
  <2>2. l \in Lists
    BY DEF Lists, Rows, Local
  <2>3. label \in Labels \ (Holding \cup {"readback"})
    BY DEF Labels, Holding
  <2>4. ListWith(c, label, l)
    BY <2>1 DEF ListWith
  <2> HIDE DEF label, l
  <2>5. /\ call' \in [Procs -> Local] /\ call'[c].at = label
        /\ \A d \in Procs \ {c} : call'[d] = call[d]
    BY <2>2, <2>3, <2>4, ListedStep
  <2> QED
    BY <1>17, <2>3, <2>5 DEF List, Holding
<1>18. ASSUME NEW c \in Procs, Scan(c) PROVE TypeOK'
  <2>1. Head(call[c].todo) \in Record /\ Tail(call[c].todo) \in Lists
    BY <1>18 DEF Scan, Local, Lists
  <2>2. job' \in Rows
    BY <1>18, <2>1, StatusChange DEF Scan, Terminal, Resubmittable, Rows
  <2>3. PICK label \in {"scan", "poll"} : ListWith(c, label, Tail(call[c].todo))
    BY <1>18 DEF Scan, ListWith
  <2>4. job' = job \/ job' \in Record
    BY <1>18, <2>1, StatusChange DEF Scan, Terminal, Resubmittable
  <2>5. label \in Labels \ (Holding \cup {"readback"})
    BY DEF Labels, Holding
  <2>6. /\ call' \in [Procs -> Local] /\ call'[c].at = label
        /\ \A d \in Procs \ {c} : call'[d] = call[d]
    BY <2>1, <2>3, <2>5, ListedStep
  <2> QED
    BY <1>18, <2>2, <2>4, <2>5, <2>6 DEF Scan, Holding
<1>19. ASSUME NEW c \in Procs, ScanEnds(c) \/ Die(c) PROVE TypeOK'
  BY <1>19, EndStep DEF ScanEnds, Die, Holding
<1>20. ASSUME NEW c \in Procs, NEW o \in Ops, Call(c, o) PROVE TypeOK'
  <2>1. PICK label \in {"list", "get"} : call' = [call EXCEPT ![c].at = label, ![c].op = o, ![c].now = elapsed]
    BY <1>20 DEF Call
  <2>2. label \in Labels \ (Holding \cup {"readback"}) /\ elapsed \in SUBSET Procs
    BY DEF Labels, Holding
  <2>3. /\ call' \in [Procs -> Local] /\ call'[c].at = label
        /\ \A d \in Procs \ {c} : call'[d] = call[d]
    BY <2>1, <2>2, StartStep
  <2> QED
    BY <1>20, <2>2, <2>3 DEF Call, Holding
<1>21. CASE (\E n \in Callers : Elapse(n)) \/ RemoteEnds \/ UNCHANGED vars
  BY <1>21 DEF Elapse, RemoteEnds, vars, Procs
<1> QED
  BY <1>1, <1>2, <1>3, <1>4, <1>5, <1>6, <1>7, <1>8, <1>9, <1>10, <1>11, <1>12, <1>13, <1>14, <1>15,
     <1>16, <1>17, <1>18, <1>19, <1>20, <1>21 DEF Next, Step

-----------------------------------------------------------------------------
\* The records that some call has in hand, or the table holds: what may still be put.
Listed(c) == {call[c].todo[i] : i \in DOMAIN call[c].todo}
Circulating == ({job} \cup UNION {{call[c].rec} \cup Listed(c) : c \in Procs}) \ {None}

\* Before the first claim nothing circulates, and nothing was built.
NothingYet == job = None => Circulating = {} /\ attempts = {}

\* The first attempt has one owner; whoever built or submitted it was the owner.
OneFirstOwner ==
    /\ \A r, s \in Circulating : r.retries = 0 /\ s.retries = 0 => r.nonce = s.nonce
    /\ \A a \in attempts, r \in Circulating : a[1] = 0 /\ r.retries = 0 => r.nonce = a[2]

\* No record says `complete` before the index is there.
CompleteTold == \A r \in Circulating : r.status = "complete" => built

\* A record that a step puts or takes in hand comes from one that circulated, or
\* starts a new attempt of it.
Derived(r) ==
    \/ \E s \in Circulating : /\ r.nonce = s.nonce /\ r.retries = s.retries
                              /\ r.status = "complete" => s.status = "complete" \/ built'
    \/ \E s \in Circulating : r.retries = s.retries + 1 /\ r.status = "submitted"

LEMMA StatusDerived ==
    ASSUME NEW r \in Circulating, r \in Record, NEW s \in InFlight \cup Terminal, s = "complete" => built'
    PROVE  Derived(WithStatus(r, s))
  BY StatusChange DEF Derived

LEMMA CirculatingDerived == \A r \in Circulating : Derived(r)
  BY DEF Derived

LEMMA CirculatingRecords ==
    ASSUME TypeOK
    PROVE  /\ Circulating \subseteq Record
           /\ job # None => job \in Circulating
           /\ \A c \in Procs : /\ call[c].rec # None => call[c].rec \in Circulating
                               /\ Listed(c) \subseteq Circulating
<1>1. \A c \in Procs : call[c].rec \in Rows /\ call[c].todo \in Seq(Record)
  BY DEF TypeOK, Local, Lists
<1>2. \A c \in Procs : Listed(c) \subseteq Record
  BY <1>1 DEF Listed
<1>3. Circulating \subseteq Record
  BY <1>1, <1>2 DEF Circulating, TypeOK, Rows
<1>4. \A c \in Procs : Listed(c) \subseteq Circulating
  BY <1>2, CallerAssumption DEF Circulating
<1> QED
  BY <1>3, <1>4 DEF Circulating

\* What one step leaves in the table and in the hands of its call, the first claim aside.
LEMMA StepDerives ==
    ASSUME TypeOK, NEW c \in Procs, Step(c) \/ Die(c) \/ \E o \in Ops : Call(c, o),
           ~(ClaimInsert(c) /\ job = None)
    PROVE  /\ job' = None \/ Derived(job')
           /\ call'[c].rec = None \/ Derived(call'[c].rec)
           /\ Listed(c)' \subseteq Circulating
           /\ \A d \in Procs \ {c} : call'[d] = call[d]
<1>t. call \in [Procs -> Local]
  BY DEF TypeOK
<1>a. /\ call \in [Procs -> Local] /\ job \in Rows /\ call[c].rec \in Rows
      /\ call[c].at \in Holding => call[c].rec \in Record
  BY DEF TypeOK, Local, Rows
<1>b. /\ job = None \/ Derived(job)
      /\ call[c].rec = None \/ (call[c].rec \in Circulating /\ Derived(call[c].rec))
      /\ Listed(c) \subseteq Circulating /\ Circulating \subseteq Record
  BY CirculatingRecords, CirculatingDerived
<1>c. call'[c].todo = call[c].todo \/ call'[c].todo = << >> => Listed(c)' \subseteq Circulating
  BY <1>b DEF Listed
<1>1. CASE Get(c) \/ ClaimRead(c) \/ ClaimReadBack(c)
  <2>1. \/ End(c) /\ UNCHANGED job
        \/ \E label \in Labels : GoWith(c, label, job) /\ UNCHANGED job
    BY <1>1 DEF Get, ClaimRead, ClaimReadBack, Labels, Holding
  <2> QED
    BY <1>a, <1>b, <1>c, <2>1, EndStep, GoWithStep
<1>2. CASE Expire(c)
  <2>1. Derived(job') /\ job' \in Record /\ GoWith(c, call[c].at, job')
    <3>1. call[c].rec \in Record /\ call[c].rec \in Circulating /\ job' = WithStatus(call[c].rec, "expired")
      BY <1>2, <1>a, <1>b, CallerAssumption DEF Expire, Holding
    <3> QED
      BY <1>2, <3>1, StatusChange, StatusDerived DEF Expire, Terminal, Resubmittable, GoWith
  <2> QED
    BY <1>2, <1>a, <1>c, <2>1, GoWithStep DEF Expire, Labels, Holding, Rows
<1>3. CASE Attach(c) \/ AttachLost(c) \/ PutAnswer(c)
  BY <1>3, <1>a, <1>b, <1>c, ReturnStep DEF Attach, AttachLost, PutAnswer
<1>4. CASE Resubmit(c)
  <2>1. call[c].rec \in Record /\ call[c].rec \in Circulating
    BY <1>4, <1>a, <1>b, CallerAssumption DEF Resubmit, Holding
  <2>2. Derived(job') /\ job' \in Record /\ GoWith(c, "run", job')
    BY <1>4, <2>1, NewAttempt DEF Resubmit, Derived, Record
  <2> QED
    BY <1>a, <1>c, <2>2, GoWithStep DEF Labels, Holding, Rows
<1>5. CASE ClaimInsert(c) /\ job # None
  <2>1. Goto(c, "readback") /\ UNCHANGED job
    BY <1>5 DEF ClaimInsert
  <2> QED
    BY <1>a, <1>b, <1>c, <2>1, GotoStep DEF Labels
<1>6. CASE StartBuild(c)
  <2>1. call[c].rec \in Record /\ call[c].rec \in Circulating
    BY <1>6, <1>a, <1>b, CallerAssumption DEF StartBuild, Holding
  <2>2. Derived(job') /\ job' \in Record /\ GoWith(c, "build", job')
    BY <1>6, <2>1, StatusChange, StatusDerived DEF StartBuild, InFlight
  <2> QED
    BY <1>a, <1>c, <2>2, GoWithStep DEF Labels, Holding, Rows
<1>7. CASE Build(c) \/ Submit(c) \/ Status(c)
  <2>1. call[c].rec \in Record /\ call[c].rec \in Circulating /\ UNCHANGED job
    BY <1>7, <1>a, <1>b, CallerAssumption DEF Build, Submit, Status, Holding
  <2>2. PICK s \in InFlight \cup Terminal : Answer(c, s) /\ (s = "complete" => built')
    BY <1>7 DEF Build, Submit, Status, InFlight, Terminal, Resubmittable
  <2>3. WithStatus(call[c].rec, s) \in Rows /\ Derived(WithStatus(call[c].rec, s))
    BY <2>1, <2>2, StatusChange, StatusDerived DEF Rows
  <2>4. GoWith(c, "answer", WithStatus(call[c].rec, s)) /\ "answer" \in Labels
    BY <2>2 DEF Answer, Labels, Holding
  <2> QED
    BY <1>a, <1>b, <1>c, <2>1, <2>3, <2>4, GoWithStep
<1>8. CASE Plan(c) \/ Cancel(c)
  <2>1. call[c].rec \in Record /\ call[c].rec \in Circulating
    BY <1>8, <1>a, <1>b, CallerAssumption DEF Plan, Cancel, Holding
  <2>2. Derived(job') /\ Return(c)
    BY <1>8, <2>1, StatusDerived DEF Plan, Cancel, InFlight, Terminal, Resubmittable
  <2> QED
    BY <1>a, <1>c, <2>2, ReturnStep
<1>9. CASE Settled(c)
  BY <1>9, <1>a, <1>b, <1>c, ReturnStep DEF Settled
<1>10. CASE Poll(c) \/ \E o \in Ops : Call(c, o)
  <2>1. PICK label \in {"get", "list"}, o \in Ops \cup {None} :
            call' = [call EXCEPT ![c].at = label, ![c].op = o, ![c].now = elapsed]
    BY <1>10 DEF Poll, Call, Ops
  <2>2. label \in Labels /\ elapsed \in SUBSET Procs
    BY DEF Labels, TypeOK
  <2>3. /\ call'[c].rec = call[c].rec /\ call'[c].todo = call[c].todo
        /\ \A d \in Procs \ {c} : call'[d] = call[d]
    BY <1>a, <2>1, <2>2, StartStep
  <2> QED
    BY <1>10, <1>b, <1>c, <2>3 DEF Poll, Call
<1>11. CASE List(c)
  <2>1. PICK s \in InFlight :
            call' = [call EXCEPT
                ![c].at = IF s = "submitted" THEN "list_active" ELSE "scan",
                ![c].todo = IF job # None /\ job.status = s THEN Append(@, job) ELSE @]
    BY <1>11 DEF List
  <2> DEFINE label == IF s = "submitted" THEN "list_active" ELSE "scan"
             l == IF job # None /\ job.status = s THEN Append(call[c].todo, job) ELSE call[c].todo
  <2>2. call[c].todo \in Seq(Record)
    BY <1>a DEF Local, Lists
  <2>3. label \in Labels /\ l \in Lists
    BY <1>a, <2>2 DEF Labels, Lists, Rows
  <2>4. \A i \in DOMAIN l : l[i] \in Circulating
    <3>1. \A i \in DOMAIN call[c].todo : call[c].todo[i] \in Circulating
      BY <1>b DEF Listed
    <3>2. job # None => job \in Circulating
      BY CirculatingRecords
    <3> QED
      BY <1>a, <2>2, <3>1, <3>2 DEF Rows
  <2>5. ListWith(c, label, l)
    BY <2>1 DEF ListWith
  <2> HIDE DEF label, l
  <2>6. /\ call'[c].rec = call[c].rec /\ call'[c].todo = l
        /\ \A d \in Procs \ {c} : call'[d] = call[d]
    BY <1>t, <2>3, <2>5, ListedStep
  <2> QED
    BY <1>11, <1>b, <2>4, <2>6 DEF List, Listed
<1>12. CASE Scan(c)
  <2>1. call[c].todo \in Seq(Record) /\ call[c].todo # << >>
    BY <1>12, <1>a DEF Scan, Local, Lists
  <2>2. /\ Head(call[c].todo) \in Circulating /\ Tail(call[c].todo) \in Lists
        /\ \A i \in DOMAIN Tail(call[c].todo) : Tail(call[c].todo)[i] \in Circulating
    <3>1. \A i \in DOMAIN call[c].todo : call[c].todo[i] \in Circulating
      BY <1>b DEF Listed
    <3> QED
      BY <2>1, <3>1 DEF Lists
  <2>3. job' = None \/ Derived(job')
    BY <1>12, <1>b, <2>2, StatusDerived DEF Scan, Terminal, Resubmittable
  <2>4. PICK label \in {"scan", "poll"} : ListWith(c, label, Tail(call[c].todo))
    BY <1>12 DEF Scan, ListWith
  <2>5. label \in Labels
    BY DEF Labels
  <2>6. /\ call'[c].rec = call[c].rec /\ call'[c].todo = Tail(call[c].todo)
        /\ \A d \in Procs \ {c} : call'[d] = call[d]
    BY <1>t, <2>2, <2>4, <2>5, ListedStep
  <2> QED
    BY <1>b, <2>2, <2>3, <2>6 DEF Listed
<1>13. CASE ScanEnds(c) \/ Die(c)
  BY <1>13, <1>a, <1>b, <1>c, EndStep DEF ScanEnds, Die
<1> QED
  BY <1>1, <1>2, <1>3, <1>4, <1>5, <1>6, <1>7, <1>8, <1>9, <1>10, <1>11, <1>12, <1>13 DEF Step

\* Only a call that holds the record of its own attempt builds or submits it.
LEMMA AttemptsStep ==
    ASSUME TypeOK, [Next]_vars
    PROVE  \/ attempts' = attempts
           \/ \E c \in Procs : /\ call[c].rec \in Circulating /\ call[c].rec \in Record
                               /\ call[c].rec.nonce = c /\ call[c].at \in {"run", "build"}
                               /\ attempts' = attempts \cup {<<call[c].rec.retries, c>>}
<1>1. ASSUME NEW c \in Procs, Build(c) \/ Submit(c)
      PROVE  /\ call[c].rec \in Circulating /\ call[c].rec \in Record
             /\ call[c].rec.nonce = c /\ call[c].at \in {"run", "build"}
             /\ attempts' = attempts \cup {<<call[c].rec.retries, c>>}
  <2>1. call[c].at \in {"run", "build"} /\ attempts' = attempts \cup {<<call[c].rec.retries, c>>}
    BY <1>1 DEF Build, Submit
  <2>2. call[c].rec # None /\ call[c].rec.nonce = c
    BY <2>1 DEF TypeOK, Holding
  <2> QED
    BY <2>1, <2>2, CirculatingRecords
<1> QED
  BY <1>1 DEF Next, Step, Get, Expire, Attach, Resubmit, ClaimRead, ClaimInsert, ClaimReadBack, AttachLost,
     StartBuild, Plan, PutAnswer, Poll, Status, Settled, Cancel, List, Scan, ScanEnds, Die, Call, Elapse,
     RemoteEnds, vars

LEMMA BuiltStays == ASSUME TypeOK, [Next]_vars, built PROVE built'
  BY DEF TypeOK, Next, Step, Get, Expire, Attach, Resubmit, ClaimRead, ClaimInsert, ClaimReadBack, AttachLost,
     StartBuild, Build, Submit, Plan, PutAnswer, Poll, Status, Settled, Cancel, List, Scan, ScanEnds, Die,
     Call, Elapse, RemoteEnds, vars

\* The row is never taken away.
LEMMA JobStays == ASSUME TypeOK, [Next]_vars, job # None PROVE job' # None
<1>1. \A c \in Procs : /\ call[c].at \in Holding => call[c].rec # None /\ call[c].rec \in Record
                       /\ call[c].at = "scan" /\ call[c].todo # << >> => Head(call[c].todo) \in Record
  BY DEF TypeOK, Local, Rows, Lists
<1>2. \A r \in Record, s \in InFlight \cup Terminal, c \in Procs :
          WithStatus(r, s) # None /\ Retrying(r, c) # None /\ NewJob(c) # None
  BY StatusChange, NewAttempt, FirstAttempt, CallerAssumption
<1>3. {"submitted", "active", "canceled", "expired"} \subseteq InFlight \cup Terminal
  BY DEF InFlight, Terminal, Resubmittable
<1> QED
  BY <1>1, <1>2, <1>3
     DEF Holding, Next, Step, Get, Expire, Attach, Resubmit, ClaimRead, ClaimInsert, ClaimReadBack, AttachLost,
     StartBuild, Build, Submit, Plan, PutAnswer, Poll, Status, Settled, Cancel, List, Scan, ScanEnds, Die,
     Call, Elapse, RemoteEnds, vars

\* The first claim puts the only record there is.
LEMMA FirstClaim ==
    ASSUME TypeOK, NothingYet, NEW c \in Procs, ClaimInsert(c), job = None
    PROVE  Circulating' = {NewJob(c)} /\ attempts' = {}
<1>1. job' = NewJob(c) /\ attempts' = {} /\ Goto(c, "readback") /\ Circulating = {}
  BY DEF ClaimInsert, NothingYet
<1>2. \A d \in Procs : call[d].rec = None /\ Listed(d) = {}
  <2>1. \A d \in Procs : None \notin Listed(d)
    BY CallerAssumption DEF TypeOK, Local, Lists, Listed
  <2> QED
    BY <1>1, <2>1 DEF Circulating
<1>3. \A d \in Procs : call'[d].rec = call[d].rec /\ call'[d].todo = call[d].todo
  <2>1. call \in [Procs -> Local] /\ "readback" \in Labels
    BY DEF TypeOK, Labels
  <2> QED
    BY <1>1, <2>1, GotoStep
<1>4. \A d \in Procs : Listed(d)' = {}
  BY <1>2, <1>3 DEF Listed
<1>5. NewJob(c) # None
  BY FirstAttempt, CallerAssumption
<1> QED
  BY <1>1, <1>2, <1>3, <1>4, <1>5 DEF Circulating

\* After any other step, what circulates derives from what circulated.
LEMMA CirculationStep ==
    ASSUME TypeOK, [Next]_vars, \A c \in Procs : ~(ClaimInsert(c) /\ job = None)
    PROVE  \A r \in Circulating' : Derived(r)
<1>1. ASSUME NEW c \in Procs, Step(c) \/ Die(c) \/ \E o \in Ops : Call(c, o)
      PROVE  \A r \in Circulating' : Derived(r)
  <2>1. /\ job' = None \/ Derived(job')
        /\ call'[c].rec = None \/ Derived(call'[c].rec)
        /\ Listed(c)' \subseteq Circulating
        /\ \A d \in Procs \ {c} : call'[d] = call[d]
    BY <1>1, StepDerives
  <2>2. \A d \in Procs \ {c} : call'[d].rec = call[d].rec /\ Listed(d)' = Listed(d)
    BY <2>1 DEF Listed
  <2> QED
    BY <2>1, <2>2, CirculatingRecords, CirculatingDerived DEF Circulating
<1>2. CASE UNCHANGED <<job, call>>
  <2>1. Circulating' = Circulating
    BY <1>2 DEF Circulating, Listed
  <2> QED
    BY <2>1, CirculatingDerived
<1> QED
  BY <1>1, <1>2 DEF Next, Elapse, RemoteEnds, vars

Owned == TypeOK /\ NothingYet /\ OneFirstOwner /\ FirstClaimWins /\ CompleteTold

LEMMA OwnedStep == ASSUME Owned, [Next]_vars PROVE Owned'
<1> USE DEF Owned
<1>1. TypeOK'
  BY TypeStep
<1>2. ASSUME NEW c \in Procs, ClaimInsert(c), job = None PROVE Owned'
  <2>1. Circulating' = {NewJob(c)} /\ attempts' = {}
    BY <1>2, FirstClaim
  <2>2. NewJob(c).status = "submitted" /\ job' # None
    BY <1>2, FirstAttempt, CallerAssumption DEF ClaimInsert
  <2> QED
    BY <1>1, <2>1, <2>2 DEF NothingYet, OneFirstOwner, FirstClaimWins, CompleteTold
<1>3. ASSUME \A c \in Procs : ~(ClaimInsert(c) /\ job = None) PROVE Owned'
  <2>1. \A r \in Circulating' : Derived(r)
    BY <1>3, CirculationStep
  <2>2. Circulating \subseteq Record
    BY CirculatingRecords
  <2>3. NothingYet'
    BY <2>1, JobStays, AttemptsStep DEF NothingYet, Derived
  <2>4. \A r \in Circulating' : r.retries = 0 => \E s \in Circulating : s.retries = 0 /\ r.nonce = s.nonce
    BY <2>1, <2>2 DEF Derived, Record
  <2>5. OneFirstOwner' /\ FirstClaimWins'
    <3>1. CASE attempts' = attempts
      BY <2>4, <3>1 DEF OneFirstOwner, FirstClaimWins
    <3>2. ASSUME NEW c \in Procs, call[c].rec \in Circulating, call[c].rec.nonce = c,
                 attempts' = attempts \cup {<<call[c].rec.retries, c>>}
          PROVE  OneFirstOwner' /\ FirstClaimWins'
      <4>1. \A a \in attempts : a = <<a[1], a[2]>>
        BY DEF TypeOK
      <4>2. \A a \in attempts' : a[1] = 0 => \/ a \in attempts
                                             \/ a = <<0, c>> /\ call[c].rec.retries = 0
        BY <3>2
      <4>3. OneFirstOwner'
        BY <2>4, <3>2, <4>2 DEF OneFirstOwner
      <4>4. FirstClaimWins'
        BY <3>2, <4>1, <4>2 DEF OneFirstOwner, FirstClaimWins
      <4> QED
        BY <4>3, <4>4
    <3> QED
      BY <3>1, <3>2, AttemptsStep
  <2>6. CompleteTold'
    BY <2>1, BuiltStays DEF CompleteTold, Derived
  <2> QED
    BY <1>1, <2>3, <2>5, <2>6
<1> QED
  BY <1>2, <1>3

LEMMA OwnedInit == ASSUME Init PROVE Owned
<1>1. NoCall("idle") \in Local /\ NoCall("idle").at = "idle"
      /\ NoCall("idle").rec = None /\ NoCall("idle").todo = << >>
  BY DEF NoCall, Local, Labels, Rows, Lists
<1>2. TypeOK
  BY <1>1, CallerAssumption DEF Init, TypeOK, Rows, Holding
<1>3. Circulating = {} /\ attempts = {}
  BY <1>1 DEF Init, Circulating, Listed
<1> QED
  BY <1>2, <1>3 DEF Owned, NothingYet, OneFirstOwner, FirstClaimWins, CompleteTold

THEOREM TypeCorrect == Spec => []TypeOK
<1>1. Init => Owned
  BY OwnedInit
<1>2. Owned /\ [Next]_vars => Owned'
  BY OwnedStep
<1>3. Owned => TypeOK
  BY DEF Owned
<1> QED
  BY <1>1, <1>2, <1>3, PTL DEF Spec

\* Of all the calls that find no job, at most one builds or submits the first attempt,
\* whatever the number of calls and however they interleave or die.
THEOREM OneFirstAttempt == Spec => []FirstClaimWins
<1>1. Init => Owned
  BY OwnedInit
<1>2. Owned /\ [Next]_vars => Owned'
  BY OwnedStep
<1>3. Owned => FirstClaimWins
  BY DEF Owned
<1> QED
  BY <1>1, <1>2, <1>3, PTL DEF Spec

\* A job recorded as complete has an index, whatever stale record a call puts back.
THEOREM CompleteHasIndex == Spec => []CompleteIsBuilt
<1>1. Init => Owned
  BY OwnedInit
<1>2. Owned /\ [Next]_vars => Owned'
  BY OwnedStep
<1>3. Owned => CompleteIsBuilt
  BY CirculatingRecords DEF Owned, CompleteTold, CompleteIsBuilt
<1> QED
  BY <1>1, <1>2, <1>3, PTL DEF Spec

-----------------------------------------------------------------------------
\* Calls that take turns.

Active(c) == call[c].at \notin {"idle", "done"}

\* What a call that is alone knows of the row.
InStep(c) ==
    /\ call[c].at \in {"got", "lost", "run", "build"} => call[c].rec = job
    /\ call[c].at = "run" => job.status = "submitted"
    /\ call[c].at = "build" => job.status = "active"
    /\ call[c].at \in {"claim", "insert"} => job = None
    /\ call[c].at = "readback" => job = NewJob(c) /\ attempts = {}
    /\ call[c].at = "answer" => /\ job.status \in InFlight
                                /\ call[c].rec.retries = job.retries /\ call[c].rec.nonce = job.nonce
    /\ call[c].at = "list_active" => \/ call[c].todo = << >>
                                     \/ call[c].todo = <<job>> /\ job # None /\ job.status = "submitted"
    /\ call[c].at = "scan" => call[c].todo = << >> \/ (call[c].todo = <<job>> /\ job # None)
    /\ call[c].at \notin {"list_active", "scan"} => call[c].todo = << >>

\* The attempts so far; the one under way is not among them before it is built.
Counted ==
    /\ \A a \in attempts : job # None /\ a[1] <= job.retries
    /\ \A a \in attempts, c \in Procs : call[c].at \in {"run", "build"} => a[1] # job.retries
    /\ \A a, b \in attempts : a[1] = b[1] => a = b

Alone == \A c, d \in Procs : Active(c) /\ Active(d) => c = d

TakingTurns == overlap <= 1 => Alone /\ Counted /\ \A c \in Procs : InStep(c)

\* How the row changes from one put to the next.
RowStep ==
    \/ UNCHANGED job
    \/ job = None /\ \E c \in Procs : job' = NewJob(c)
    \/ /\ job # None /\ job' \in Record /\ job'.retries = job.retries
       /\ job.status \in InFlight \/ (job.status # "complete" /\ job'.status = "canceled")
    \/ job # None /\ job.status \in Resubmittable /\ \E c \in Procs : job' = Retrying(job, c)

\* Outside of a list, nothing is on it when a call returns.
LEMMA ReturnInStep ==
    ASSUME TypeOK, NEW c \in Procs, NEW r, Return(c) \/ ReturnOrPoll(c, r), call[c].todo = << >>
    PROVE  InStep(c)' /\ call'[c].at \in {"idle", "done", "scan", "poll"}
<1>1. /\ call'[c].at \in {"idle", "done", "scan", "poll"}
      /\ call'[c].todo = << >>
  BY ReturnStep DEF TypeOK
<1> QED
  BY <1>1 DEF InStep

\* A lone call stays in step with the row, and every put of it moves the row on.
LEMMA InStepStep ==
    ASSUME TypeOK, NothingYet, NEW c \in Procs, InStep(c),
           Step(c) \/ Die(c) \/ \E o \in Ops : Call(c, o)
    PROVE  InStep(c)' /\ RowStep
<1>t. /\ call \in [Procs -> Local] /\ job \in Rows
      /\ call[c].at \in Holding => call[c].rec \in Record /\ call[c].rec # None
      /\ call[c].todo \in Seq(Record)
  BY DEF TypeOK, Local, Rows, Lists
<1>r. \A r \in Record : r # None
  BY CallerAssumption
<1>1. CASE Get(c)
  <2>1. CASE End(c)
    BY <1>1, <1>t, <2>1, EndStep DEF Get, RowStep, InStep
  <2>2. CASE ~End(c)
    <3>1. PICK label \in {"claim", "got"} :
              /\ GoWith(c, label, job) /\ UNCHANGED job /\ call[c].todo = << >>
              /\ label = "claim" => job = None
      BY <1>1, <2>2 DEF Get, InStep
    <3>2. call'[c].at = label /\ call'[c].rec = job /\ call'[c].todo = << >>
      BY <1>t, <3>1, GoWithStep DEF Labels, Holding
    <3> QED
      BY <3>1, <3>2 DEF InStep, RowStep
  <2> QED
    BY <2>1, <2>2
<1>2. CASE Expire(c)
  <2>1. /\ call[c].rec = job /\ job \in Record /\ call[c].at \in {"got", "lost"} /\ call[c].todo = << >>
        /\ job.status \in InFlight
    BY <1>2, <1>t DEF Expire, InStep, Holding, Due, Record
  <2>2. job' \in Record /\ job'.retries = job.retries
    BY <1>2, <2>1, StatusChange DEF Expire, Terminal, Resubmittable
  <2>3. call'[c].at = call[c].at /\ call'[c].rec = job' /\ call'[c].todo = << >>
    <3>1. GoWith(c, call[c].at, job')
      BY <1>2, <1>t DEF Expire, GoWith
    <3> QED
      BY <1>t, <2>1, <2>2, <3>1, GoWithStep DEF Labels, Holding, Rows
  <2> QED
    BY <1>r, <2>1, <2>2, <2>3 DEF InStep, RowStep
<1>3. CASE Attach(c) \/ AttachLost(c)
  <2>1. UNCHANGED job /\ call[c].todo = << >> /\ (Return(c) \/ ReturnOrPoll(c, call[c].rec))
    BY <1>3 DEF Attach, AttachLost, InStep
  <2> QED
    BY <2>1, ReturnInStep DEF RowStep
<1>4. CASE Resubmit(c)
  <2>1. /\ call[c].rec = job /\ job \in Record /\ call[c].todo = << >> /\ job.status \in Resubmittable
        /\ job' = Retrying(job, c) /\ GoWith(c, "run", job')
    BY <1>4, <1>t DEF Resubmit, InStep, Holding
  <2>2. job' \in Record /\ job'.status = "submitted"
    BY <2>1, NewAttempt
  <2>3. call'[c].at = "run" /\ call'[c].rec = job' /\ call'[c].todo = << >>
    BY <1>t, <2>1, <2>2, GoWithStep DEF Labels, Holding, Rows
  <2> QED
    BY <1>r, <2>1, <2>2, <2>3 DEF InStep, RowStep
<1>5. CASE ClaimRead(c)
  <2>1. PICK label \in {"insert", "lost"} :
            /\ GoWith(c, label, job) /\ UNCHANGED job /\ call[c].todo = << >>
            /\ label = "insert" => job = None
    BY <1>5 DEF ClaimRead, InStep
  <2>2. call'[c].at = label /\ call'[c].rec = job /\ call'[c].todo = << >>
    BY <1>t, <2>1, GoWithStep DEF Labels, Holding
  <2> QED
    BY <2>1, <2>2 DEF InStep, RowStep
<1>6. CASE ClaimInsert(c)
  <2>1. job = None /\ call[c].todo = << >> /\ job' = NewJob(c) /\ Goto(c, "readback") /\ attempts' = {}
    BY <1>6 DEF ClaimInsert, InStep, NothingYet
  <2>2. call'[c].at = "readback" /\ call'[c].todo = << >>
    BY <1>t, <2>1, GotoStep DEF Labels
  <2> QED
    BY <2>1, <2>2 DEF InStep, RowStep
<1>7. CASE ClaimReadBack(c)
  <2>1. job = NewJob(c) /\ call[c].todo = << >> /\ UNCHANGED job
    BY <1>7 DEF ClaimReadBack, InStep
  <2>2. job.nonce = c /\ job.status = "submitted"
    BY <2>1, FirstAttempt
  <2>3. GoWith(c, "run", job)
    BY <1>7, <2>2 DEF ClaimReadBack
  <2>4. call'[c].at = "run" /\ call'[c].rec = job /\ call'[c].todo = << >>
    BY <1>t, <2>1, <2>3, GoWithStep DEF Labels, Holding
  <2> QED
    BY <2>1, <2>2, <2>4 DEF InStep, RowStep
<1>8. CASE StartBuild(c)
  <2>1. /\ call[c].rec = job /\ job \in Record /\ call[c].todo = << >> /\ job.status = "submitted"
        /\ job' = WithStatus(job, "active") /\ GoWith(c, "build", job')
    BY <1>8, <1>t DEF StartBuild, InStep, Holding
  <2>2. job' \in Record /\ job'.status = "active" /\ job'.retries = job.retries
    BY <2>1, StatusChange DEF InFlight
  <2>3. call'[c].at = "build" /\ call'[c].rec = job' /\ call'[c].todo = << >>
    BY <1>t, <2>1, <2>2, GoWithStep DEF Labels, Holding, Rows
  <2> QED
    BY <1>r, <2>1, <2>2, <2>3 DEF InStep, RowStep, InFlight
<1>9. CASE Build(c) \/ Submit(c) \/ Status(c)
  <2>1. /\ call[c].rec = job /\ job \in Record /\ call[c].todo = << >> /\ job.status \in InFlight
        /\ UNCHANGED job
    BY <1>9, <1>t DEF Build, Submit, Status, InStep, Holding, InFlight
  <2>2. PICK s \in InFlight \cup Terminal : Answer(c, s)
    BY <1>9 DEF Build, Submit, Status, InFlight, Terminal, Resubmittable
  <2>3. /\ call'[c].at = "answer" /\ call'[c].todo = << >>
        /\ call'[c].rec.retries = job.retries /\ call'[c].rec.nonce = job.nonce
    BY <1>t, <2>1, <2>2, AnswerStep
  <2> QED
    BY <2>1, <2>3 DEF InStep, RowStep
<1>10. CASE Plan(c) \/ Cancel(c)
  <2>1. /\ call[c].rec = job /\ job \in Record /\ call[c].todo = << >> /\ Return(c)
        /\ \/ job.status \in InFlight /\ job' = WithStatus(job, "submitted")
           \/ job.status # "complete" /\ job' = WithStatus(job, "canceled")
    BY <1>10, <1>t DEF Plan, Cancel, InStep, Holding, InFlight
  <2>2. job' \in Record /\ job'.retries = job.retries /\ (job.status \in InFlight \/ job'.status = "canceled")
    BY <2>1, StatusChange DEF InFlight, Terminal, Resubmittable
  <2> QED
    BY <1>r, <2>1, <2>2, ReturnInStep DEF RowStep
<1>11. CASE PutAnswer(c)
  <2>1. /\ call[c].todo = << >> /\ ReturnOrPoll(c, call[c].rec)
        /\ job' \in Record /\ job'.retries = job.retries /\ job.status \in InFlight
    BY <1>11, <1>t DEF PutAnswer, InStep, Holding
  <2>2. job # None
    <3>1. call[c].rec # None
      BY <1>11 DEF PutAnswer, TypeOK, Holding
    <3>2. call[c].rec \in Circulating
      BY <3>1, CirculatingRecords
    <3> QED
      BY <3>2 DEF NothingYet
  <2> QED
    BY <2>1, <2>2, ReturnInStep DEF RowStep
<1>12. CASE Settled(c)
  <2>1. call[c].todo = << >> /\ Return(c) /\ UNCHANGED job
    BY <1>12 DEF Settled, InStep
  <2> QED
    BY <2>1, ReturnInStep DEF RowStep
<1>13. CASE Poll(c) \/ \E o \in Ops : Call(c, o)
  <2>1. PICK label \in {"get", "list"}, o \in Ops \cup {None} :
            call' = [call EXCEPT ![c].at = label, ![c].op = o, ![c].now = elapsed]
    BY <1>13 DEF Poll, Call, Ops
  <2>2. label \in Labels /\ elapsed \in SUBSET Procs
    BY DEF Labels, TypeOK
  <2>3. call'[c].at = label /\ call'[c].todo = call[c].todo
    BY <1>t, <2>1, <2>2, StartStep
  <2>4. call[c].todo = << >> /\ UNCHANGED job
    BY <1>13 DEF Poll, Call, InStep
  <2> QED
    BY <2>3, <2>4 DEF InStep, RowStep
<1>14. CASE List(c)
  <2>1. PICK s \in InFlight :
            /\ call[c].at = IF s = "submitted" THEN "list" ELSE "list_active"
            /\ call' = [call EXCEPT
                ![c].at = IF s = "submitted" THEN "list_active" ELSE "scan",
                ![c].todo = IF job # None /\ job.status = s THEN Append(@, job) ELSE @]
            /\ UNCHANGED job
    BY <1>14 DEF List
  <2> DEFINE label == IF s = "submitted" THEN "list_active" ELSE "scan"
             l == IF job # None /\ job.status = s THEN Append(call[c].todo, job) ELSE call[c].todo
  <2>2. label \in Labels /\ l \in Lists
    BY <1>t DEF Labels, Lists, Rows
  <2>3. ListWith(c, label, l)
    BY <2>1 DEF ListWith
  <2>4. Append(<< >>, job) = <<job>>
    OBVIOUS
  <2>5. \/ l = << >>
        \/ l = <<job>> /\ job # None /\ (s = "submitted" => job.status = "submitted")
    <3>1. CASE s = "submitted"
      <4>1. call[c].todo = << >>
        BY <2>1, <3>1 DEF InStep
      <4> QED
        BY <2>4, <3>1, <4>1
    <3>2. CASE s = "active"
      <4>1. \/ call[c].todo = << >>
            \/ call[c].todo = <<job>> /\ job # None /\ job.status = "submitted"
        BY <2>1, <3>2 DEF InStep
      <4> QED
        BY <2>4, <3>2, <4>1
    <3> QED
      BY <3>1, <3>2 DEF InFlight
  <2> HIDE DEF l
  <2>6. call'[c].at = label /\ call'[c].todo = l
    <3> HIDE DEF label
    <3> QED
      BY <1>t, <2>2, <2>3, ListedStep
  <2>7. InStep(c)'
    <3>1. CASE s = "submitted"
      <4>1. call'[c].at = "list_active"
        BY <2>6, <3>1
      <4> QED
        BY <2>1, <2>5, <2>6, <3>1, <4>1 DEF InStep
    <3>2. CASE s = "active"
      <4>1. call'[c].at = "scan"
        BY <2>6, <3>2
      <4> QED
        BY <2>1, <2>5, <2>6, <4>1 DEF InStep
    <3> QED
      BY <3>1, <3>2 DEF InFlight
  <2> QED
    BY <2>1, <2>7 DEF RowStep
<1>15. CASE Scan(c)
  <2>1. call[c].todo = <<job>> /\ job # None /\ job \in Record
    BY <1>15, <1>t DEF Scan, InStep, Rows
  <2>2. PICK label \in {"scan", "poll"} : ListWith(c, label, Tail(call[c].todo))
    BY <1>15 DEF Scan, ListWith
  <2>3. label \in Labels /\ Tail(call[c].todo) = << >> /\ << >> \in Lists
    BY <2>1 DEF Labels, Lists
  <2>4. call'[c].at = label /\ call'[c].todo = << >>
    BY <1>t, <2>2, <2>3, ListedStep
  <2>5. RowStep
    <3>1. Head(call[c].todo) = job
      BY <2>1
    <3>2. CASE Due(job, call[c].now)
      <4>1. job' = WithStatus(job, "expired") /\ job.status \in InFlight
        BY <1>15, <2>1, <3>1, <3>2 DEF Scan, Due, Record
      <4> QED
        BY <2>1, <4>1, StatusChange DEF RowStep, Terminal, Resubmittable
    <3>3. CASE ~Due(job, call[c].now)
      BY <1>15, <3>1, <3>3 DEF Scan, RowStep
    <3> QED
      BY <3>2, <3>3
  <2> QED
    BY <2>4, <2>5 DEF InStep
<1>16. CASE ScanEnds(c) \/ Die(c)
  BY <1>16, <1>t, EndStep DEF ScanEnds, Die, InStep, RowStep
<1> QED
  BY <1>1, <1>2, <1>3, <1>4, <1>5, <1>6, <1>7, <1>8, <1>9, <1>10, <1>11, <1>12, <1>13, <1>14, <1>15, <1>16
     DEF Step

\* A call is taken up only when no other is under way.
LEMMA AloneStep ==
    ASSUME TypeOK, overlap <= 1, Alone, NEW c \in Procs, Step(c) \/ Die(c) \/ \E o \in Ops : Call(c, o)
    PROVE  /\ \A d \in Procs \ {c} : ~Active(d) /\ call'[d] = call[d]
           /\ Alone'
<1>1. \A d \in Procs \ {c} : ~Active(d)
  <2>1. CASE Step(c) \/ Die(c)
    <3>1. Active(c)
      BY <2>1 DEF Active, Step, Get, Expire, Attach, Resubmit, ClaimRead, ClaimInsert, ClaimReadBack, AttachLost,
         StartBuild, Build, Submit, Plan, PutAnswer, Poll, Status, Settled, Cancel, List, Scan, ScanEnds, Die
    <3> QED
      BY <3>1 DEF Alone
  <2>2. ASSUME NEW o \in Ops, Call(c, o), NEW d \in Procs, Active(d) PROVE FALSE
    <3>1. {e \in Procs : call[e].at \notin {"idle", "done"}} = {d}
      BY <2>2 DEF Alone, Active
    <3>2. Cardinality({d}) = 1
      BY FS_Singleton
    <3>3. Cardinality({e \in Procs : call[e].at \notin {"idle", "done"}}) < overlap
      BY <2>2 DEF Call
    <3>4. 1 < overlap
      BY <3>1, <3>2, <3>3
    <3> QED
      BY <3>4 DEF TypeOK
  <2> QED
    BY <2>1, <2>2
<1>2. \A d \in Procs \ {c} : call'[d] = call[d]
  <2>1. CASE ClaimInsert(c)
    <3>1. Goto(c, "readback") /\ call \in [Procs -> Local] /\ "readback" \in Labels
      BY <2>1 DEF ClaimInsert, Labels, TypeOK
    <3> QED
      BY <3>1, GotoStep
  <2>2. CASE ~ClaimInsert(c)
    BY <2>2, StepDerives
  <2> QED
    BY <2>1, <2>2
<1> QED
  BY <1>1, <1>2 DEF Alone, Active

\* Only these steps lead to a build.
LEMMA RunStep ==
    ASSUME TypeOK, NEW c \in Procs, Step(c) \/ Die(c) \/ \E o \in Ops : Call(c, o),
           call'[c].at \in {"run", "build"}
    PROVE  Resubmit(c) \/ ClaimReadBack(c) \/ StartBuild(c)
<1>t. call \in [Procs -> Local] /\ (call[c].at \in Holding => call[c].rec \in Record)
  BY DEF TypeOK, Local, Rows
<1>1. ASSUME NEW label \in Labels \ {"run", "build"}, NEW r \in Rows, GoWith(c, label, r) PROVE FALSE
  BY <1>1, <1>t, GoWithStep
<1>2. ASSUME NEW label \in Labels \ {"run", "build"}, NEW l \in Lists, ListWith(c, label, l) PROVE FALSE
  BY <1>2, <1>t, ListedStep
<1>3. ASSUME NEW r, Return(c) \/ ReturnOrPoll(c, r) \/ End(c) PROVE FALSE
  BY <1>3, <1>t, ReturnStep, EndStep
<1>4. CASE Get(c) \/ ClaimRead(c)
  BY <1>1, <1>3, <1>4 DEF Get, ClaimRead, Labels, Holding, TypeOK
<1>5. CASE Expire(c)
  <2>1. call[c].rec \in Record /\ call[c].at \in {"got", "lost"}
    BY <1>5, <1>t DEF Expire, Holding
  <2>2. job' \in Rows /\ GoWith(c, call[c].at, job')
    BY <1>5, <2>1, StatusChange DEF Expire, GoWith, Terminal, Resubmittable, Rows
  <2> QED
    BY <1>1, <2>1, <2>2 DEF Labels, Holding
<1>6. CASE Attach(c) \/ AttachLost(c) \/ Plan(c) \/ PutAnswer(c) \/ Settled(c) \/ Cancel(c) \/ ScanEnds(c) \/ Die(c)
  BY <1>3, <1>6 DEF Attach, AttachLost, Plan, PutAnswer, Settled, Cancel, ScanEnds, Die
<1>7. CASE ClaimInsert(c)
  <2>1. Goto(c, "readback") /\ "readback" \in Labels
    BY <1>7 DEF ClaimInsert, Labels
  <2> QED
    BY <1>t, <2>1, GotoStep
<1>8. CASE Build(c) \/ Submit(c) \/ Status(c)
  <2>1. call[c].rec \in Record
    BY <1>8, <1>t DEF Build, Submit, Status, Holding
  <2>2. PICK s \in InFlight \cup Terminal : Answer(c, s)
    BY <1>8 DEF Build, Submit, Status, InFlight, Terminal, Resubmittable
  <2> QED
    BY <1>t, <2>1, <2>2, AnswerStep
<1>9. CASE Poll(c) \/ \E o \in Ops : Call(c, o)
  <2>1. PICK label \in {"get", "list"}, o \in Ops \cup {None} :
            call' = [call EXCEPT ![c].at = label, ![c].op = o, ![c].now = elapsed]
    BY <1>9 DEF Poll, Call, Ops
  <2>2. label \in Labels /\ elapsed \in SUBSET Procs
    BY DEF Labels, TypeOK
  <2>3. call'[c].at = label
    BY <1>t, <2>1, <2>2, StartStep
  <2> QED
    BY <2>3
<1>10. CASE List(c)
  <2>1. PICK s \in InFlight :
            call' = [call EXCEPT
                ![c].at = IF s = "submitted" THEN "list_active" ELSE "scan",
                ![c].todo = IF job # None /\ job.status = s THEN Append(@, job) ELSE @]
    BY <1>10 DEF List
  <2> DEFINE label == IF s = "submitted" THEN "list_active" ELSE "scan"
             l == IF job # None /\ job.status = s THEN Append(call[c].todo, job) ELSE call[c].todo
  <2>2. label \in Labels \ {"run", "build"} /\ l \in Lists
    BY DEF Labels, Lists, Rows, TypeOK, Local
  <2>3. ListWith(c, label, l)
    BY <2>1 DEF ListWith
  <2> HIDE DEF label, l
  <2> QED
    BY <1>2, <2>2, <2>3
<1>11. CASE Scan(c)
  <2>1. Tail(call[c].todo) \in Lists
    BY <1>11 DEF Scan, TypeOK, Local, Lists
  <2>2. PICK label \in {"scan", "poll"} : ListWith(c, label, Tail(call[c].todo))
    BY <1>11 DEF Scan, ListWith
  <2>3. label \in Labels \ {"run", "build"}
    BY DEF Labels
  <2> QED
    BY <1>2, <2>1, <2>2, <2>3
<1> QED
  BY <1>4, <1>5, <1>6, <1>7, <1>8, <1>9, <1>10, <1>11 DEF Step

LEMMA CountedStep ==
    ASSUME Owned, [Next]_vars, Counted, NEW c \in Procs, InStep(c), RowStep,
           Step(c) \/ Die(c) \/ \E o \in Ops : Call(c, o),
           \A d \in Procs \ {c} : ~Active(d) /\ call'[d] = call[d]
    PROVE  Counted'
<1>t. /\ job \in Rows /\ attempts \subseteq Nat \X Procs
      /\ \A a \in attempts : a[1] \in Nat
  BY DEF Owned, TypeOK
<1>n. job = None => attempts = {} /\ attempts' = {}
  BY AttemptsStep DEF Owned, NothingYet
<1>j. job # None => /\ job' # None /\ job \in Record /\ job.retries \in Nat
                    /\ \/ job'.retries = job.retries
                       \/ \E d \in Procs : job' = Retrying(job, d) /\ job'.retries = job.retries + 1
  BY <1>t, JobStays, NewAttempt DEF RowStep, Owned, Rows, Record
<1>a. \/ attempts' = attempts
      \/ attempts' = attempts \cup {<<job.retries, c>>} /\ call[c].at \in {"run", "build"} /\ UNCHANGED job
  <2>1. ASSUME attempts' # attempts PROVE Build(c) \/ Submit(c)
    BY <2>1 DEF Step, Get, Expire, Attach, Resubmit, ClaimRead, ClaimInsert, ClaimReadBack, AttachLost,
         StartBuild, Plan, PutAnswer, Poll, Status, Settled, Cancel, List, Scan, ScanEnds, Die, Call
  <2> QED
    BY <2>1 DEF Build, Submit, InStep
<1>1. \A a \in attempts' : job' # None /\ a[1] <= job'.retries
  <2>1. CASE job = None
    BY <1>n, <2>1
  <2>2. CASE job # None
    <3>1. \A a \in attempts : a[1] <= job'.retries
      BY <1>t, <1>j, <2>2 DEF Counted
    <3> QED
      BY <1>a, <1>j, <2>2, <3>1
  <2> QED
    BY <2>1, <2>2
<1>2. ASSUME NEW a \in attempts', NEW d \in Procs, call'[d].at \in {"run", "build"}
      PROVE  a[1] # job'.retries
  <2>1. d = c
    BY <1>2 DEF Active
  <2>2. job # None
    BY <1>2, <1>n
  <2>3. CASE Resubmit(c)
    <3>1. job' = Retrying(job, c) /\ attempts' = attempts
      BY <2>3 DEF Resubmit, InStep
    <3>2. job'.retries = job.retries + 1
      BY <1>j, <2>2, <3>1, NewAttempt
    <3> QED
      BY <1>2, <1>t, <1>j, <2>2, <3>1, <3>2 DEF Counted
  <2>4. CASE ClaimReadBack(c)
    BY <1>2, <2>4 DEF ClaimReadBack, InStep
  <2>5. CASE StartBuild(c)
    <3>1. job' = WithStatus(job, "active") /\ attempts' = attempts /\ call[c].at = "run"
      BY <2>5 DEF StartBuild, InStep
    <3>2. job'.retries = job.retries
      BY <1>j, <2>2, <3>1, StatusChange DEF InFlight
    <3> QED
      BY <1>2, <3>1, <3>2 DEF Counted
  <2> QED
    BY <1>2, <2>1, <2>3, <2>4, <2>5, RunStep DEF Owned
<1>3. \A a, b \in attempts' : a[1] = b[1] => a = b
  BY <1>a DEF Counted
<1> QED
  BY <1>1, <1>2, <1>3 DEF Counted

LEMMA TurnsStep ==
    ASSUME Owned, TakingTurns, [Next]_vars
    PROVE  TakingTurns' /\ (overlap <= 1 => RowStep) /\ overlap' = overlap
<1>1. overlap' = overlap
  BY DEF Next, Step, Get, Expire, Attach, Resubmit, ClaimRead, ClaimInsert, ClaimReadBack, AttachLost,
     StartBuild, Build, Submit, Plan, PutAnswer, Poll, Status, Settled, Cancel, List, Scan, ScanEnds, Die,
     Call, Elapse, RemoteEnds, vars
<1>2. ASSUME overlap <= 1, NEW c \in Procs, Step(c) \/ Die(c) \/ \E o \in Ops : Call(c, o)
      PROVE  RowStep /\ Alone' /\ Counted' /\ \A d \in Procs : InStep(d)'
  <2>1. Alone /\ Counted /\ \A d \in Procs : InStep(d)
    BY <1>2 DEF TakingTurns
  <2>2. Alone' /\ \A d \in Procs \ {c} : ~Active(d) /\ call'[d] = call[d]
    BY <1>2, <2>1, AloneStep DEF Owned
  <2>3. InStep(c)' /\ RowStep
    BY <1>2, <2>1, InStepStep DEF Owned
  <2>4. Counted'
    BY <1>2, <2>1, <2>2, <2>3, CountedStep
  <2>5. \A d \in Procs \ {c} : InStep(d)'
    BY <2>1, <2>2 DEF InStep, Active
  <2> QED
    BY <2>2, <2>3, <2>4, <2>5
<1>3. CASE UNCHANGED <<job, call, attempts>>
  BY <1>1, <1>3 DEF TakingTurns, Alone, Counted, InStep, Active, RowStep
<1> QED
  BY <1>1, <1>2, <1>3 DEF TakingTurns, Next, Elapse, RemoteEnds, vars

\* An inductive invariant of the specification.
IInv == Owned /\ TakingTurns

LEMMA Initially == Init => IInv
<1> SUFFICES ASSUME Init PROVE IInv
  OBVIOUS
<1>1. \A c \in Procs : call[c].at = "idle" /\ call[c].todo = << >>
  BY DEF Init, NoCall
<1>2. attempts = {}
  BY DEF Init
<1>3. TakingTurns
  BY <1>1, <1>2 DEF TakingTurns, Alone, Active, Counted, InStep
<1> QED
  BY <1>3, OwnedInit DEF IInv

LEMMA Inductive == IInv /\ [Next]_vars => IInv'
  BY OwnedStep, TurnsStep DEF IInv

\* When calls take turns, and die anywhere, each attempt is built or submitted once.
THEOREM EachAttemptOnce == Spec => []OneBuildPerAttempt
<1>1. IInv => OneBuildPerAttempt
  BY DEF IInv, TakingTurns, Counted, OneBuildPerAttempt
<1> QED
  BY <1>1, Initially, Inductive, PTL DEF Spec

\* When calls take turns the row goes through the documented lifecycle: every put is a
\* step of JobLifecycle, or leaves the row as it is.
THEOREM LifecycleFollowed == Spec => FollowsLifecycle
<1>1. Init => Lifecycle!Init
  BY DEF Init, Lifecycle!Init
<1>2. IInv /\ [Next]_vars => [Lifecycle!Next]_<<IF job = None \/ overlap > 1 THEN None ELSE job.status,
                                                IF job = None \/ overlap > 1 THEN 0 ELSE job.retries>>
  <2> SUFFICES ASSUME IInv, [Next]_vars
               PROVE  [Lifecycle!Next]_<<IF job = None \/ overlap > 1 THEN None ELSE job.status,
                                         IF job = None \/ overlap > 1 THEN 0 ELSE job.retries>>
    OBVIOUS
  <2>1. overlap' = overlap /\ overlap \in Nat /\ (overlap <= 1 => RowStep)
    BY TurnsStep DEF IInv, Owned, TypeOK
  <2>2. CASE overlap > 1
    BY <2>1, <2>2
  <2>3. CASE ~(overlap > 1)
    <3>1. overlap <= 1 /\ ~(overlap' > 1) /\ RowStep
      BY <2>1, <2>3
    <3>2. job \in Rows /\ job' \in Rows /\ (job # None => job' # None)
      BY JobStays, TypeStep DEF IInv, Owned, TypeOK
    <3>3. CASE UNCHANGED job
      BY <2>1, <3>3
    <3>4. ASSUME job = None, NEW c \in Procs, job' = NewJob(c) PROVE Lifecycle!Create
      BY <2>3, <3>1, <3>4, FirstAttempt, CallerAssumption DEF Lifecycle!Create
    <3>5. ASSUME job # None, job' \in Record, job'.retries = job.retries,
                 job.status \in InFlight \/ (job.status # "complete" /\ job'.status = "canceled")
          PROVE  Lifecycle!Advance \/ Lifecycle!Cancel
      <4>1. job' # None /\ job'.status \in Lifecycle!Statuses /\ job.status \in Lifecycle!Statuses
        BY <3>2, <3>5, CallerAssumption
           DEF Rows, Record, InFlight, Terminal, Resubmittable,
               Lifecycle!Statuses, Lifecycle!InFlight, Lifecycle!Resubmittable
      <4> QED
        BY <2>3, <3>1, <3>5, <4>1 DEF Lifecycle!Advance, Lifecycle!Cancel, Lifecycle!InFlight, InFlight
    <3>6. ASSUME job # None, job.status \in Resubmittable, NEW c \in Procs, job' = Retrying(job, c)
          PROVE  Lifecycle!Resubmit
      <4>1. job \in Record
        BY <3>2, <3>6 DEF Rows
      <4> QED
        BY <2>3, <3>1, <3>2, <3>6, <4>1, NewAttempt DEF Lifecycle!Resubmit, Lifecycle!Resubmittable, Resubmittable
    <3> QED
      BY <3>1, <3>3, <3>4, <3>5, <3>6 DEF RowStep, Lifecycle!Next
  <2> QED
    BY <2>2, <2>3
<1> QED
  BY <1>1, <1>2, Initially, Inductive, PTL DEF Spec, FollowsLifecycle, Lifecycle!Spec
=============================================================================

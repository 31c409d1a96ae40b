---------------------------- MODULE AtomicIngest ----------------------------
(***************************************************************************)
(* What an ingest promises, seen from outside: a run enters the lake in    *)
(* one indivisible step, completely, and never leaves it again.            *)
(***************************************************************************)
CONSTANT Runs
VARIABLE ingested    \* the runs a reader may rely on

Init == ingested = {}

\* One ingest takes effect.
Commit(r) ==
    /\ r \notin ingested
    /\ ingested' = ingested \cup {r}

Next == \E r \in Runs : Commit(r)

Spec == Init /\ [][Next]_ingested
=============================================================================

-------------------------- MODULE MCLeRobotClaims --------------------------
(***************************************************************************)
(* LeRobotClaims on small instances.                                       *)
(***************************************************************************)
EXTENDS LeRobotClaims, TLC

\* Three retries of a failed job and a recovery, as the manual prescribes.
Retries == [batches |-> 2, ingests |-> 3, resumed |-> TRUE, expected |-> TRUE,
            zombies |-> FALSE, crash |-> FALSE, passes |-> 0]

\* Two such retries and a recovery, of a worker that still runs or has died anywhere.
Overtaken == [Retries EXCEPT !.batches = 1, !.ingests = 2, !.zombies = TRUE, !.crash = TRUE]

\* Two first ingests and a recovery with nothing ruled out.
Races == [batches |-> 1, ingests |-> 2, resumed |-> FALSE, expected |-> FALSE,
          zombies |-> TRUE, crash |-> TRUE, passes |-> 0]

\* A retention pass and a hold beside two retries and a recovery; two passes and a
\* hold beside one retry and a recovery.
Compaction == [Retries EXCEPT !.batches = 1, !.ingests = 2, !.passes = 1]
Compactions == [Compaction EXCEPT !.ingests = 1, !.passes = 2]

\* A retention pass and a hold beside a worker that is recovered while it runs.
Lapse == [Races EXCEPT !.ingests = 1, !.passes = 1]

MCScenarios == {Retries, Overtaken, Races, Compaction, Compactions, Lapse}

\* What has ended in any way; what has failed.
MCSelections == {Terminal, {"failed"}}

\* Calls of the same kind are interchangeable.
MCSymmetry == Permutations(Workers) \cup Permutations(Operators) \cup Permutations(Retainers)
=============================================================================

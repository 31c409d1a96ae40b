---------------------------- MODULE JobLifecycle ----------------------------
(***************************************************************************)
(* What a durable scalar-index job promises, whoever asks and in whatever  *)
(* order: it is created once, moves forward while it is in flight, keeps a *)
(* complete or skipped result, and starts again only as a new, counted     *)
(* attempt (scalar_index_jobs.py, module docstring and status tables).     *)
(***************************************************************************)
EXTENDS Naturals

CONSTANT None       \* no job row

VARIABLES status, retries

InFlight == {"submitted", "active"}
Resubmittable == {"failed", "canceled", "expired"}
Statuses == InFlight \cup Resubmittable \cup {"complete", "skipped"}

Init == status = None /\ retries = 0

Create == status = None /\ status' = "submitted" /\ UNCHANGED retries

Advance == status \in InFlight /\ status' \in Statuses /\ UNCHANGED retries

Resubmit == status \in Resubmittable /\ status' = "submitted" /\ retries' = retries + 1

\* An operator may cancel a job in any state but complete.
Cancel == status \in Statuses \ {"complete"} /\ status' = "canceled" /\ UNCHANGED retries

Next == Create \/ Advance \/ Resubmit \/ Cancel

Spec == Init /\ [][Next]_<<status, retries>>
=============================================================================

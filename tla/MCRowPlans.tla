----------------------------- MODULE MCRowPlans -----------------------------
(***************************************************************************)
(* Instances of RowPlans for TLC.                                          *)
(***************************************************************************)
EXTENDS RowPlans, TLC

\* Plans of two chunk commits and one
MCChunkCount == [p \in Plans |-> IF p = 1 THEN 2 ELSE 1]

\* Training runs
MCTableOf == [t \in Records |-> "training_runs"]

=============================================================================

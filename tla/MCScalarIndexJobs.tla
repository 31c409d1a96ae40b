------------------------- MODULE MCScalarIndexJobs --------------------------
(***************************************************************************)
(* Instances of ScalarIndexJobs for TLC.                                   *)
(***************************************************************************)
EXTENDS ScalarIndexJobs, TLC

\* Calls are interchangeable.
CallSymmetry == Permutations(Callers)
=============================================================================

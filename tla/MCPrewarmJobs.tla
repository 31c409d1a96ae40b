--------------------------- MODULE MCPrewarmJobs ----------------------------
(***************************************************************************)
(* Instances of PrewarmJobs for TLC.                                       *)
(***************************************************************************)
EXTENDS PrewarmJobs, TLC

\* Calls are interchangeable.
WorkerSymmetry == Permutations(Workers)
=============================================================================

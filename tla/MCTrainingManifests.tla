------------------------ MODULE MCTrainingManifests ------------------------
(***************************************************************************)
(* The instance of TrainingManifests for TLC: one run that three parties   *)
(* may touch, since the calls of different runs only meet in one delete    *)
(* and one add of several rows.                                            *)
(***************************************************************************)
EXTENDS TrainingManifests

=============================================================================

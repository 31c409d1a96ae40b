------------------------- MODULE MCLakeMaintenance --------------------------
(***************************************************************************)
(* Instances of LakeMaintenance for TLC: two maintenances that overlap and *)
(* one creation over a table of three versions (MCLakeMaintenance.cfg),    *)
(* and one of each that may overlap (MCLakeMaintenanceRace.cfg).  No       *)
(* symmetry, which liveness does not admit.                                *)
(***************************************************************************)
EXTENDS LakeMaintenance
=============================================================================

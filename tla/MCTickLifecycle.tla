-------------------------- MODULE MCTickLifecycle --------------------------
(***************************************************************************)
(* The instance of TickLifecycle for TLC.                                  *)
(***************************************************************************)
EXTENDS TickLifecycle

=============================================================================

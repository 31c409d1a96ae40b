--------------------------- MODULE MCViewCatalog ---------------------------
(***************************************************************************)
(* Instances of ViewCatalog for TLC.                                       *)
(***************************************************************************)
EXTENDS ViewCatalog, TLC

\* Views of two file commits and one
MCFileCount == [v \in Views |-> IF v = 1 THEN 2 ELSE 1]

=============================================================================

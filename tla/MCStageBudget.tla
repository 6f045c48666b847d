--------------------------- MODULE MCStageBudget ---------------------------
(* Small instances of StageBudget for TLC. *)
EXTENDS StageBudget

=============================================================================

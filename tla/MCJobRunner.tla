---------------------------- MODULE MCJobRunner ----------------------------
(* Small instances of JobRunner for TLC: what each row of the job table is. *)
EXTENDS JobRunner, TLC

CONSTANTS j1, j2

\* Two checks; a check and a pool recheck.
Checks2 == [j \in Jobs |-> "check"]
CheckAndRecheck == [j \in Jobs |-> IF j = j1 THEN "check" ELSE "pool_recheck"]

=============================================================================

------------------------------ MODULE MCImport ------------------------------
(* A small instance of Import for TLC. *)
EXTENDS Import, TLC

CONSTANTS e1, e2

SmallFiles == {{e1}, {e1, e2}}

CallSymmetry == Permutations(Calls)

=============================================================================

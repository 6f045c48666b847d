------------------------------ MODULE MCPools ------------------------------
(* Small instances of Pools for TLC. *)
EXTENDS Pools

Target(n) == [desired |-> n, minimum |-> n, reserve |-> n]
OneServedOneReserve == {Target(1)}

=============================================================================

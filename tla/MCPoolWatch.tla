---------------------------- MODULE MCPoolWatch ----------------------------
(* A small instance of PoolWatch for TLC. *)
EXTENDS PoolWatch

OneServed == {[desired |-> 1, minimum |-> 0, reserve |-> 0]}

=============================================================================

----------------------------- MODULE MCPipeline -----------------------------
(* Small instances of Pipeline for TLC: ports of one host. *)
EXTENDS Pipeline

CONSTANT host

OneHost == [i \in Items |-> host]

=============================================================================

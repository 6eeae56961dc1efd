----------------------------- MODULE MCPipeline -----------------------------
(* Instances of PayoutPipeline for TLC. *)
EXTENDS PayoutPipeline

OneAmount == [b \in Blocks |-> [a \in Addrs |-> 2]]
=============================================================================

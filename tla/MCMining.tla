------------------------------ MODULE MCMining ------------------------------
(* Instances of MergedMining for TLC. *)
EXTENDS MergedMining, TLC

\* A share that meets the low difficulty only, and one that is also a block.
TwoNonces == {1, 2}
TwoWorks == [n \in TwoNonces |-> IF n = 1 THEN 1 ELSE 3]

SlotSymmetry == Permutations(Slots)
=============================================================================

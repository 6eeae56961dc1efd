------------------------------ MODULE MCVarDiff ------------------------------
(***************************************************************************)
(* A machine with a floor below, one with its floor above the maximum, and *)
(* an unknown one; speeds below the minimum, at the tie between two powers *)
(* of two, in between and above the maximum.  The bounds in vardiff.cfg    *)
(* are no powers of two: the minimum snaps down, the maximum up.           *)
(***************************************************************************)
EXTENDS VarDiff

MCAgents == {"antminer-l3plus", "elphapex-dg1", "antminer-l11-hydro", "cpuminer"}
MCSpeeds == {20, 96, 3000, 49151, 700000}
=============================================================================

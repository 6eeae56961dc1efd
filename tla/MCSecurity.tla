----------------------------- MODULE MCSecurity -----------------------------
(***************************************************************************)
(* One address behind one IP; penalties and thresholds in units of about  *)
(* 100 points.                                                             *)
(***************************************************************************)
EXTENDS SecurityEngine

MCPenaltyOf == [s \in Severities |-> IF s = "high" THEN 2 ELSE 1]
=============================================================================

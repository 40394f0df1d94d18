---------------------------- MODULE MCPlanLimits ----------------------------
(* Small instances of PlanLimits for TLC. *)
EXTENDS PlanLimits, TLC

CONSTANTS v1, v2, c1, c2, s1, s2
=============================================================================

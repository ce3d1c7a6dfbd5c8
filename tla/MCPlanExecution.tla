--------------------------- MODULE MCPlanExecution ---------------------------
(* PlanExecution for TLC: one plan whose every step is the same action.      *)
EXTENDS PlanExecution

CONSTANT restart

MCStepAction == [s \in Steps |-> restart]
=============================================================================

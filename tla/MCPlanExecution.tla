-------------------------- MODULE MCPlanExecution --------------------------
(* PlanExecution with one trajectory that the conversion accepts.            *)
EXTENDS PlanExecution

MCTrajectory ==
  {<<[t |-> 1, width |-> Joints], [t |-> 2, width |-> Joints]>>}
=============================================================================

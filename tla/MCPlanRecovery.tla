-------------------------- MODULE MCPlanRecovery ---------------------------
(* Model-checking instance of PlanRecovery. *)
EXTENDS PlanRecovery

AnyFault == FaultKinds
AllSupported == {[m \in Machine |-> "supported"]}
============================================================================

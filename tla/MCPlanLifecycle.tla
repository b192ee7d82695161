-------------------------- MODULE MCPlanLifecycle ---------------------------
(* A small instance of PlanLifecycle for TLC. *)
EXTENDS PlanLifecycle

TwoSteps == <<Publish, Publish>>
Short == <<Rollback, Pause, Rollback, RollbackNotice>>

=============================================================================

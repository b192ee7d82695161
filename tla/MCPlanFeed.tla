----------------------------- MODULE MCPlanFeed -----------------------------
(* An instance of PlanFeed for TLC. *)
EXTENDS PlanFeed

TwoSteps == <<StopFlow, Publish>>
WithPause == <<Rollback, Pause, Rollback, Rollback, RollbackNotice>>

=============================================================================

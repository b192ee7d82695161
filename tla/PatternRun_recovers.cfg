CONSTANTS
  NHosts = 1
  NTasks = 2
  Exec = {e1, e2, e3}
  None = None
  Web = Web
  LastStep = TRUE
  PlanAtStart <- PublishOrRollback
  Budget <- EveryFault
SPECIFICATION FairSpec
PROPERTY ComesToRest
CHECK_DEADLOCK FALSE

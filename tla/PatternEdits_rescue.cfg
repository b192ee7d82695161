CONSTANTS
  NHosts = 2
  NTasks = 2
  Exec = {e1, e2, e3}
  None = None
  Web = Web
  LastStep = FALSE
  PlanAtStart <- Publishing
  Budget <- OneCrash
  HandTasks = {1}
  EditHosts = {1,2}
  HostSet = {0,1,2,3}
  PatternSet = {0}
  Patient = TRUE
  Alone = TRUE
SPECIFICATION FairEditsSpec
INVARIANT DoneIsDone
PROPERTY IsRescued
CHECK_DEADLOCK FALSE

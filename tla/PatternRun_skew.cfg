CONSTANTS
  NHosts = 2
  NTasks = 1
  Exec = {e1, e2, e3}
  None = None
  Web = Web
  LastStep = TRUE
  PlanAtStart <- Publishing
  Budget <- NoFaults
SPECIFICATION Spec
INVARIANT AllDoneIsDone
SYMMETRY ExecSymmetry
CHECK_DEADLOCK FALSE

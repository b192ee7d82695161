CONSTANTS
  NHosts = 2
  NTasks = 2
  Exec = {e1, e2, e3}
  None = None
  Web = Web
  LastStep = TRUE
  PlanAtStart <- Publishing
  Budget <- CrashAndAbort
SPECIFICATION Spec
INVARIANT DoneIsDone
INVARIANT BusyShowsRunning
INVARIANT OneScriptPerHost
INVARIANT StoppedIsShown
INVARIANT PublishedIsBegun
PROPERTY TasksInOrder
SYMMETRY ExecSymmetry
CHECK_DEADLOCK FALSE

CONSTANTS
  PublishSteps <- TwoSteps
  MaxDownloads = 2
  RollbackSteps <- Short
  MaxRollbacks = 1
  EditSet = {8}
  Patient = FALSE
  Orderly = TRUE
SPECIFICATION Spec
INVARIANT RolledBackIsComplete
CHECK_DEADLOCK FALSE

CONSTANTS
  PublishSteps <- TwoSteps
  MaxDownloads = 2
  RollbackSteps <- WithPause
  MaxRollbacks = 1
  OtherStatus = 4
  EditSet = {5, 8, 22}
  Patient = TRUE
  Orderly = TRUE
SPECIFICATION FeedFairSpec
INVARIANT SameListIsRight
INVARIANT PublishedIsComplete
PROPERTY PlanIsShown
PROPERTY StatusForward
PROPERTY KeepsOrder
PROPERTY RollbackCompletes
CHECK_DEADLOCK FALSE

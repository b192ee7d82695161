CONSTANTS
  Host = {h1}
  None = None
  NTasks = 2
  Limit = 2
  MaxRows = 4
  OneHost = TRUE
  InOrder = TRUE
  OtherTasks <- AllDone
  GoesBack = FALSE
SPECIFICATION FeedsSpec
INVARIANT SentOnce
INVARIANT NothingSkipped
INVARIANT SilenceIsRight
PROPERTY FeedIsComplete
PROPERTY PatternIsShown
PROPERTY DoneIsTold
CHECK_DEADLOCK FALSE

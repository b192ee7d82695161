CONSTANTS
  Limit = 2
  MaxRows = 3
  MaxTime = 7
  Second = 2
  Apart = TRUE
SPECIFICATION FairSpec
PROPERTY LogIsComplete
PROPERTY FallsSilent
CHECK_DEADLOCK FALSE

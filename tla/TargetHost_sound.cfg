CONSTANTS
  None = None
  DubboIsPrompt = TRUE
  Patient = TRUE
  PackageIsSound = TRUE
  EarlyRestore = FALSE
SPECIFICATION FairSpec
INVARIANT NoTrafficToNothing
INVARIANT EndsAsAsked
PROPERTY ActionEnds
CHECK_DEADLOCK FALSE

CONSTANTS
  a = a
  b = b
  a1 = a1
  a2 = a2
  aBad = aBad
  aGone = aGone
  b1 = b1
  aInfo = aInfo
  App = {a, b}
  Package = {a1, aBad, aGone, aInfo, b1}
  AppOf <- AppOfAll
  FileOf <- FileOfAll
  VersionOf <- VersionOfAll
  KindOf <- KindOfAll
  Download = {d1, d2}
  None = None
  Budget <- EachOnce
  MaxEvents = 3
SPECIFICATION FairSpec
INVARIANT OneDownload
INVARIANT CreatedIsComplete
INVARIANT CreatingIsWorking
PROPERTY CreationEnds
CHECK_DEADLOCK FALSE

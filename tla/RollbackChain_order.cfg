CONSTANTS
  h1 = h1
  h2 = h2
  h3 = h3
  h4 = h4
  web = web
  mod = mod
  Host = {h1, h2, h3, h4}
  Plan <- OnePause
  Exec = {e1, e2, e3, e4}
  Patient = TRUE
  MaxFailures = 2
SPECIFICATION Spec
INVARIANT OneScriptPerHost
INVARIANT RetryIsTaken
INVARIANT RetryFindsUnfinished
PROPERTY KeepsOrder
CHECK_DEADLOCK FALSE

CONSTANTS
  web = web
  mod = mod
  Host = {h1, h2, h3, h4}
  App = {web, mod}
  TypeOf <- OneOfEach
SPECIFICATION Spec
INVARIANT NeverDark
INVARIANT PauseIsClean
INVARIANT EndsRolledBack
SYMMETRY HostSymmetry
CHECK_DEADLOCK FALSE

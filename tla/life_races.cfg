CONSTANTS
  h1 = h1  h2 = h2
  Handlers = {h1, h2}
  MaxFires = 2
  MaxResolves = 1
  MaxRetries = 1
  MaxAttempts = 2
  MaxCrashes = 0
  MaxTransient = 0
  MaySkip = TRUE
  MayLose = TRUE
  LockOutcomes = {TRUE}
SPECIFICATION Spec
SYMMETRY Symmetry
INVARIANTS ClaimsAlternate
CHECK_DEADLOCK FALSE

CONSTANTS
  h1 = h1  h2 = h2
  Handlers = {h1}
  MaxFires = 1
  MaxResolves = 1
  MaxRetries = 1
  MaxAttempts = 2
  MaxCrashes = 0
  MaxTransient = 0
  MaySkip = FALSE
  MayLose = FALSE
  LockOutcomes = {TRUE}
SPECIFICATION Spec
PROPERTY StatusFollowsMachine
CHECK_DEADLOCK FALSE

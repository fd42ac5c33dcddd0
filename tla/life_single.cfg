CONSTANTS
  h1 = h1  h2 = h2
  Handlers = {h1}
  MaxFires = 1
  MaxResolves = 0
  MaxRetries = 2
  MaxAttempts = 3
  MaxCrashes = 2
  MaxTransient = 3
  MaySkip = FALSE
  MayLose = FALSE
  LockOutcomes = {TRUE, FALSE}
SPECIFICATION FairSpec
INVARIANTS NoReburn FailedNotRetried PendingIsServed
PROPERTIES StatusFollowsMachine Settles
CHECK_DEADLOCK FALSE

CONSTANTS
  Runs = {r1, r2}  NoToken = NoToken  Lease = 3  MaxHold = 4
  Callers = {c1, c2}  FailThreshold = 2  MaxTrials = 2  Attempts = 2
  Alerts = {a1, a2}  Sessions = {s1}  ReopenWindow = 0  FallbackAge = 0  AgeOut = 1
  MaxTime = 2  MaxFires = 2  MaxExtras = 0
  KEdges = {k1, k2}  XEdges = {x1, x2}  OrphanEdges = {}  EdgeProcs = {w1, w2}
  InactiveAge = 1  DeleteAge = 2  MaxDeletePct = 25  MaxEdgeFaults = 1  MaxEdgeChanges = 1
SPECIFICATION LiveSpec
PROPERTIES LockFrees BreakerServes RacesHeal QuietCloses LiveEdgesReturn DeadEdgesLeave
CHECK_DEADLOCK FALSE

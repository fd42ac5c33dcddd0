CONSTANTS
  Alerts = {a1, a2}  Sessions = {s1, s2}  ReopenWindow = 0  FallbackAge = 0  AgeOut = 1
  MaxTime = 2  MaxFires = 2  MaxExtras = 1
  KEdges = {k1}  XEdges = {x1, x2}  OrphanEdges = {o1}  EdgeProcs = {w1}
  InactiveAge = 1  DeleteAge = 2  MaxDeletePct = 25  MaxEdgeFaults = 2  MaxEdgeChanges = 2
SPECIFICATION GraphSpec
SYMMETRY Symmetry
INVARIANTS FiringIsOpen NoiseUnanimous
PROPERTIES LiveEdgesKept
CHECK_DEADLOCK FALSE

CONSTANTS
  r1 = r1  r2 = r2  r3 = r3
  Replicas = {r1, r2}
  Channels = {"enriched", "incident"}
  MinCount = 3
  LinkedMin = 3
  NoKey = NoKey
  MaxFires = 3
  MaxFaults = 1
SPECIFICATION Spec
SYMMETRY Symmetry
INVARIANTS DuplicatesExplained CountExplained
CHECK_DEADLOCK FALSE

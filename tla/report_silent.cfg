CONSTANTS
  Components = {"reports"}
  Runs = {r1, r2, r3}  NoToken = NoToken  Lease = 3  MaxHold = 4
  Callers = {c1, c2, c3, c4}  FailThreshold = 2  MaxTrials = 2  Attempts = 1
  Procs = {w1, w2}  Slots = {s1, s2}  Batches = {b1}  RateLimit = 1  MaxSends = 4  MaxLapses = 1
  Tasks = {t1, t2, t3}  MaxProposals = 2  MaxFaults = 1  MaxWindows = 1
  Targets = {"app", "app-db"}  DataTargets = {"app-db"}  Tiers = {"squad", "preprod"}
  MaxReplicas = 2  MaxEdition = 2  MaxGateFaults = 1  MaxScales = 1  MaxAnalyses = 1
  Calls = {c1, c2}  Worst = {3}  Sub = 2  Limit = 4  MaxDay = 2  MaxEnded = 2
  Reporters = {r1, r2}  Problems = {f1, f2}  MaxReports = 5  MaxFireFaults = 2
  Readers = {k1, k2}  Writers = {k3}  FailuresToOpen = 2  MaxKubeFaults = 1
SPECIFICATION SharedSpec
INVARIANT SilencedWasShown
CHECK_DEADLOCK FALSE

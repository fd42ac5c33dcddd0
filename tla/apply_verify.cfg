CONSTANTS
  s1 = s1  s2 = s2  p1 = p1  p2 = p2  w1 = w1  w2 = w2  v1 = v1
  Sigs = {s1}
  Plans = {p1}
  SigOf <- MCSigOf
  Eligible = {p1}
  Workers = {w1, w2}
  Verifiers = {v1}
  MaxVerify = 2
  MaxUid = 2
  RowLock = TRUE
  WriterMayStall = FALSE
  Rows = {"bridge"}
  Windows = {"claim", "approval", "plan"}
  NoClaim = NoClaim  NoPlan = NoPlan  NoCopy = NoCopy  NoUid = NoUid
  NoWorker = NoWorker  LegacyClaim = LegacyClaim
SPECIFICATION LiveSpec
INVARIANTS TypeOK VerifiedMeansExpectedTarget
PROPERTIES InvocationEnds ExpiredApprovalNeverWrites
CHECK_DEADLOCK FALSE

CONSTANTS
  s1 = s1  s2 = s2  p1 = p1  p2 = p2  w1 = w1  w2 = w2  v1 = v1
  Sigs = {s1, s2}
  Plans = {p1, p2}
  SigOf <- MCSigOf
  Eligible = {p1, p2}
  Workers = {w1, w2}
  Verifiers = {v1}
  MaxVerify = 1
  MaxUid = 1
  RowLock = TRUE
  WriterMayStall = TRUE
  Rows = {"pipeline", "bridge", "legacy"}
  Windows = {"claim"}
  NoClaim = NoClaim  NoPlan = NoPlan  NoCopy = NoCopy  NoUid = NoUid
  NoWorker = NoWorker  LegacyClaim = LegacyClaim
SPECIFICATION Spec
SYMMETRY Symmetry
INVARIANTS AtMostOneWrite WriteAuthorised LegacyNeverWritten
PROPERTY ImplementsOneShot
CHECK_DEADLOCK FALSE

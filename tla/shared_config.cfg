SPECIFICATION Spec
CONSTANTS
  w1 = w1
  w2 = w2
  u1 = u1
  u2 = u2
  u3 = u3
  Absent = Absent
  NoOwner = NoOwner
  Names = {w1, w2}
  Busy = {w1}
  Uids = {u1, u2, u3}
  SpecsOf <- MCBothLog
  IsOpenShift = TRUE
  HasServiceMonitor = FALSE
  FailingCalls = {}
  Adopts = FALSE
  MaxDisturbances = 1
INVARIANTS
  QuietMeansProvisioned
CHECK_DEADLOCK FALSE

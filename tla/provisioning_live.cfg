SPECIFICATION FairSpec
CONSTANTS
  w1 = w1
  w2 = w2
  u1 = u1
  u2 = u2
  u3 = u3
  Absent = Absent
  NoOwner = NoOwner
  Names = {w1}
  Busy = {w1}
  Uids = {u1, u2}
  SpecsOf <- MCRich
  IsOpenShift = FALSE
  HasServiceMonitor = TRUE
  FailingCalls = {"admin", "clustering", "annotate", "lb"}
  Adopts = FALSE
  MaxDisturbances = 1
PROPERTIES
  EventuallyProvisioned
  EventuallyCollected
CHECK_DEADLOCK FALSE

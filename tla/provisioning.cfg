SPECIFICATION Spec
CONSTANTS
  w1 = w1
  w2 = w2
  u1 = u1
  u2 = u2
  u3 = u3
  Absent = Absent
  NoOwner = NoOwner
  Names = {w1, w2}
  Busy = {w1}
  Uids = {u1, u2, u3}
  SpecsOf <- MCSpecs
  IsOpenShift = TRUE
  HasServiceMonitor = FALSE
  FailingCalls = {"clustering", "annotate", "serverxml"}
  Adopts = FALSE
  MaxDisturbances = 2
INVARIANTS
  TypeOK
  QuietMeansProvisioned
  KubepingBacked
  QuietMeansClustered
PROPERTIES
  NeverTakenAway
  KeepsContract
CHECK_DEADLOCK FALSE

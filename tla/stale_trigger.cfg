SPECIFICATION Spec
CONSTANTS
  s1 = s1
  s2 = s2
  i1 = i1
  None = None
  Cfgs = {s1, s2, i1}
  Sourced = {s1, s2}
  FailingCalls = {}
  MaxDisturbances = 1
INVARIANTS
  QuietMeansOwnStream
CHECK_DEADLOCK FALSE

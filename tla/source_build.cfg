SPECIFICATION FairSpec
CONSTANTS
  s1 = s1
  s2 = s2
  i1 = i1
  None = None
  Cfgs = {s1, s2, i1}
  Sourced = {s1, s2}
  FailingCalls = {"stream", "config", "update", "delete", "deploy", "image", "replace"}
  MaxDisturbances = 5
INVARIANTS
  TypeOK
  HashNamesBuild
  QuietMeansBuilt
PROPERTIES
  EventuallyBuilt
CHECK_DEADLOCK FALSE

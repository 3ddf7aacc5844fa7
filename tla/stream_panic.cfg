SPECIFICATION FairSpec
CONSTANTS
  c1 = c1
  c2 = c2
  s1 = s1
  s2 = s2
  i1 = i1
  none = none
  small = small
  large = large
  Absent = Absent
  NoHash = NoHash
  Foreign = Foreign
  a1 = a1
  a2 = a2
  u1 = u1
  u2 = u2
  Apps = {a1, a2}
  Cfgs = {i1}
  Claims <- MCClaims
  NoClaims = none
  PlainImage = {}
  ImageStreams = {i1}
  Replicas = {0, 1}
  Uids = {u1}
  Watched = {"Deployment"}
  FailingCalls = {"workload", "create", "update", "delete", "status"}
  Drifts = {}
  MaxDisturbances = 0
PROPERTIES
  EventuallyReported
CHECK_DEADLOCK FALSE

SPECIFICATION FairSpec
CONSTANTS
  c1 = c1
  c2 = c2
  s1 = s1
  s2 = s2
  i1 = i1
  none = none
  small = small
  large = large
  Absent = Absent
  NoHash = NoHash
  Foreign = Foreign
  a1 = a1
  a2 = a2
  u1 = u1
  u2 = u2
  Apps = {a1, a2}
  Cfgs = {c1}
  Claims <- MCClaims
  NoClaims = none
  PlainImage = {c1}
  ImageStreams = {}
  Replicas = {0, 1}
  Uids = {u1}
  Watched = {"Deployment"}
  FailingCalls = {"workload", "create", "update", "delete", "status"}
  Drifts = {"scale", "image", "delete"}
  MaxDisturbances = 2
PROPERTIES
  EventuallyConverged
  EventuallyReported

CHECK_DEADLOCK FALSE

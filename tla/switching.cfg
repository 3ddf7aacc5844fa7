SPECIFICATION Spec
CONSTANTS
  c1 = c1
  c2 = c2
  s1 = s1
  s2 = s2
  i1 = i1
  none = none
  small = small
  large = large
  Absent = Absent
  NoHash = NoHash
  Foreign = Foreign
  a1 = a1
  a2 = a2
  u1 = u1
  u2 = u2
  Apps = {a1, a2}
  Cfgs = {c1, s1, s2, i1}
  Claims <- MCClaims
  NoClaims = none
  PlainImage = {c1, s1, s2}
  ImageStreams = {i1}
  Replicas = {1}
  Uids = {u1}
  Watched = {"Deployment"}
  FailingCalls = {"image", "create", "replace", "delete"}
  Drifts = {}
  MaxDisturbances = 2
PROPERTIES
  NeverTheLast
INVARIANTS
  QuietMeansConverged
  HashNamesTemplate
CHECK_DEADLOCK FALSE
SYMMETRY Interchangeable

SPECIFICATION FairSpec
CONSTANTS
  b1 = b1
  b2 = b2
  d1 = d1
  p1 = p1
  sh1 = sh1
  sh2 = sh2
  none = none
  None = None
  NoScript = none
  ScriptOf <- MCScripts
  Apps = {a1, a2}
  Cfgs = {b1, b2, d1, p1}
  FirstApps = {a1}
  FirstCfgs = {b1, p1}
  Built = {b1, b2, d1}
  Faults = {"call", "replace", "crash", "evict", "delete"}
  MaxEdits = 2
  MaxFaults = 1
INVARIANTS
  TypeOK
  QuietMeansDeployed
  QuietMeansOwnImage
PROPERTIES
  DeployedWasBuilt
  EventuallyDeployed
CHECK_DEADLOCK FALSE

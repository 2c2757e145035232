\* One instance, one request at a time, two failures and a crash.
CONSTANTS
  n1 = n1  n2 = n2  w1 = w1  w2 = w2
  good = good  bad = bad  gone = gone  c1 = c1  c2 = c2  c3 = c3
  None = None  Torn = Torn
  Names <- OneName
  Workers = {w1}
  Images = {good, gone}
  Cfgs = {c1, c2, c3}
  DefaultImage = gone
  LocalImages = {good}
  GoodImages = {good}
  BadSecretCfgs = {c3}
  Requests <- AllRequests
  Exclusive = TRUE
  FaultKinds = {"git", "engine", "leave", "stop", "watch", "disk"}
  MaxFaults = 2
  MaxCrashes = 1
SPECIFICATION Spec
INVARIANTS TypeOK ArtefactsHaveRecord FailClosed 
PROPERTIES
  NoTeardownBeforeValidation FailedUpdateRestoresRecord SuccessMeansDeployed
  GatedUpdates
SYMMETRY CfgSymmetry

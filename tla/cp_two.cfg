CONSTANTS
  n1 = n1  n2 = n2  w1 = w1  w2 = w2
  good = good  bad = bad  gone = gone  c1 = c1  c2 = c2  c3 = c3
  None = None  Torn = Torn
  Names <- TwoNames
  Workers = {w1, w2}
  Images <- TwoImages
  Cfgs = {c1}
  DefaultImage = good
  LocalImages <- TwoImages
  GoodImages = {good}
  BadSecretCfgs = {}
  Requests = {"create", "delete", "updateAll", "reconcile", "lifecycle"}
  Exclusive = TRUE
  FaultKinds = {}
  MaxFaults = 0
  MaxCrashes = 0
SYMMETRY PairSymmetry
SPECIFICATION Spec
PROPERTIES SuccessMeansDeployed

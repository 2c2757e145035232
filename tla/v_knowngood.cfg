CONSTANTS
  n1 = n1  n2 = n2  w1 = w1  w2 = w2
  good = good  bad = bad  gone = gone  c1 = c1  c2 = c2  c3 = c3
  None = None  Torn = Torn
  Names <- OneName
  Workers = {w1}
  Images <- ThreeImages
  Cfgs = {c1}
  DefaultImage = bad
  LocalImages <- TwoImages
  GoodImages = {good}
  BadSecretCfgs = {}
  Requests = {"create", "update"}
  Exclusive = TRUE
  FaultKinds = {}
  MaxFaults = 0
  MaxCrashes = 1
SPECIFICATION ProvenSpec
INVARIANT KnownGoodIsKept

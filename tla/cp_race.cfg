CONSTANTS
  n1 = n1  n2 = n2  w1 = w1  w2 = w2
  good = good  bad = bad  gone = gone  c1 = c1  c2 = c2  c3 = c3
  None = None  Torn = Torn
  Names <- OneName
  Workers = {w1, w2}
  Images = {good}
  Cfgs = {c1}
  DefaultImage = good
  LocalImages = {good}
  GoodImages = {good}
  BadSecretCfgs = {}
  Requests = {"create", "update", "delete", "reconcile"}
  Exclusive = FALSE
  FaultKinds = {"engine", "stop"}
  MaxFaults = 1
  MaxCrashes = 0
SPECIFICATION FairSpec
INVARIANT FailClosed
PROPERTIES EveryRequestIsAnswered

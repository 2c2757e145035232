\* One record of two contents and two requests in any overlap, one kill, one
\* outage, one upgrade.
CONSTANTS
  n1 = n1  w1 = w1  w2 = w2
  Workers <- TwoWorkers
  Names = {n1}
  Values = {v1, v2}
  None = None
  Torn = Torn
  MaxCrashes = 1
  MaxOutages = 1
  MaxUpgrades = 1
SPECIFICATION Spec
INVARIANTS TypeOK BrokenLogIsLoud
PROPERTIES SuccessIsLogged UpgradeImportsRecords KeepsRecords
SYMMETRY WorkerSymmetry

CONSTANTS
  Workers = {w1, w2}
  Names = {n1, n2}
  Phrases = {p1, p2}
  None = None
  Torn = Torn
  Exclusive = TRUE
  MaxPairs = 4
  MaxCrashes = 2
SPECIFICATION Spec
INVARIANTS TypeOK CaCanSign ServedVerifies
PROPERTY IssuedIsUsable

\* Three overlapping fetches over three ticks, a TTL of two.
SPECIFICATION Spec
CONSTANTS
  Fetches = {f1, f2, f3}
  TTL = 2
  MaxTime = 3
  NoCard = NoCard
  Unusable = Unusable
SYMMETRY Symmetry
INVARIANTS TypeOK Freshness

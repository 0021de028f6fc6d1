SPECIFICATION Spec
CONSTANTS
  Callers = {c1, c2}
  Phases = {opening, endgame}
  Regimes = {1, 2}
  MinBucketN = 2
  PreMinBucketN = 1
  PerSecond = 2
  MaxDecisions = 3
  MaxOpen = 1
  MaxSearches = 2
  MaxHypotheses = 1
INVARIANTS PrefixIsExact
SYMMETRY Symmetry
CHECK_DEADLOCK FALSE

SPECIFICATION Spec
CONSTANTS
  Callers = {c1, c2}
  Phases = {opening, endgame}
  Regimes = {1, 2}
  MinBucketN = 1
  PreMinBucketN = 1
  PerSecond = 1
  MaxDecisions = 4
  MaxOpen = 2
  MaxSearches = 2
  MaxHypotheses = 1
PROPERTIES WideStaysWide
SYMMETRY Symmetry
CHECK_DEADLOCK FALSE

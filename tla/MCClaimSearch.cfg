SPECIFICATION Spec
CONSTANTS
  Callers = {c1, c2}
  Phases = {opening, endgame}
  Regimes = {1, 2}
  MinBucketN = 2
  PreMinBucketN = 1
  PerSecond = 3
  MaxDecisions = 4
  MaxOpen = 1
  MaxSearches = 1
  MaxHypotheses = 1
INVARIANTS TestedOnTheFuture SupportIsOnePopulation
PROPERTIES EvidenceIsFinal
SYMMETRY Symmetry
CHECK_DEADLOCK FALSE

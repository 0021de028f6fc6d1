SPECIFICATION Spec
CONSTANTS
  ScanLength = 1
  ReviewLength = 1
  MaxRuns = 4
  MaxLists = 2
  MaxFailures = 0
  MaxPositions = 2
INVARIANT NothingIsCarriedForward
CHECK_DEADLOCK FALSE

SPECIFICATION Spec
CONSTANTS
  ScanLength = 2
  ReviewLength = 1
  MaxRuns = 3
  MaxLists = 1
  MaxFailures = 1
  MaxPositions = 3
INVARIANTS VerdictsAreTheirOwn KeptCoversItsGames SomebodyIsAtWork
PROPERTIES RepliesFitTheBoard
CHECK_DEADLOCK FALSE

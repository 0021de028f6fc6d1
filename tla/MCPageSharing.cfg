SPECIFICATION Spec
CONSTANTS
  ScanLength = 1
  ReviewLength = 1
  MaxRuns = 4
  MaxLists = 2
  MaxFailures = 0
  MaxPositions = 2
INVARIANTS FailsForItself OneEngine OpponentIsAtWork ReadingIsOfTheGames
CHECK_DEADLOCK FALSE

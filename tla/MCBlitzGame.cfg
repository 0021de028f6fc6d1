SPECIFICATION Spec
CONSTANTS
  Initial = 2
  Increment = 1
  MaxGames = 2
  MaxPly <- MCMaxPly
  MaxTime = 6
  MaxFaults = 1
INVARIANTS ClocksAddUp OpponentWaitsForTheAnswer StoredIsTheGame
CHECK_DEADLOCK FALSE

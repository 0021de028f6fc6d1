SPECIFICATION Arrivals
CONSTANTS
  Intervals <- MCIntervals
  Created = 1
  MaxResults = 5
  LastSitting = 4
INVARIANTS TwoDaysEitherWay DueWhileOpen
CHECK_DEADLOCK FALSE

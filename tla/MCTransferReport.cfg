SPECIFICATION LiveSpec
CONSTANTS
  Intervals <- MCIntervals
  Created = 1
  Tabs = {t1}
  Boards = {b1, b2}
  PositionCount = 2
  Successes = 1
  MaxTransfers = 1
  MaxDecisions = 3
  MaxFaults = 1
  LastDay = 2
PROPERTY CompletedRunIsReported
CHECK_DEADLOCK FALSE

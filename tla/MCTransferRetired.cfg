SPECIFICATION Spec
CONSTANTS
  Intervals <- MCIntervals
  Created = 1
  Tabs = {t1, t2}
  Boards = {b1, b2}
  PositionCount = 2
  Successes = 1
  MaxTransfers = 1
  MaxDecisions = 3
  MaxFaults = 0
  LastDay = 2
PROPERTY RetiredIsTerminal
CHECK_DEADLOCK FALSE

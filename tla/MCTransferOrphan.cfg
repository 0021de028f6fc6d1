SPECIFICATION Spec
CONSTANTS
  Intervals <- MCShortLadder
  Created = 1
  Tabs = {t1, t2}
  Boards = {b1, b2}
  PositionCount = 1
  Successes = 1
  MaxTransfers = 3
  MaxDecisions = 2
  MaxFaults = 0
  LastDay = 2
PROPERTY StartedTestIsDue
SYMMETRY Symmetry
CHECK_DEADLOCK FALSE

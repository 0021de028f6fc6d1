SPECIFICATION LiveSpec
CONSTANTS
  Intervals <- MCShortLadder
  Created = 1
  Tabs = {t1}
  Boards = {b1, b2, b3, b4}
  PositionCount = 2
  Successes = 1
  MaxTransfers = 2
  MaxDecisions = 6
  MaxFaults = 2
  LastDay = 2
PROPERTIES BegunRunIsAnswered NoTestOnAClosedRule
CHECK_DEADLOCK FALSE

SPECIFICATION Spec
CONSTANTS
  Intervals <- MCIntervals
  Created = 1
  Tabs = {t1, t2}
  Boards = {b1, b2}
  PositionCount = 2
  Successes = 1
  MaxTransfers = 2
  MaxDecisions = 3
  MaxFaults = 1
  LastDay = 2
INVARIANTS ObservationsFitTheirBoards GradeIsAFold
PROPERTIES ImplementsLog
SYMMETRY Symmetry
CHECK_DEADLOCK FALSE

SPECIFICATION Spec
CONSTANTS
  Tabs = {t1, t2}
  Boards = {1, 2}
  MaxLength = 2
  MaxDrills = 2
  MaxDecisions = 3
  MaxFaults = 1
INVARIANTS ResultMeasuresTheDrill VerdictIsOnRecord OneDenialRefutes ServesAnOpenBoard
SYMMETRY Symmetry
CHECK_DEADLOCK FALSE

SPECIFICATION Spec
CONSTANTS
  Moves = {e4, d4, c4}
  Chosen = e4
  NoRow = NoRow
  NoMove = NoMove
  MaxSearches = 3
  Says <- MCSays
CHECK_DEADLOCK FALSE
INVARIANTS PageFollowsTheRecord SuccessMeansComplete PriceFromTheVerdictsSearch
PROPERTY ImplementsRecord

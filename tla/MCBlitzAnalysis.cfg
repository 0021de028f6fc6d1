SPECIFICATION LiveSpec
CONSTANTS
  Tabs = {t1, t2}
  Games = {g1, g2}
  NoTab = NoTab
  NoGame = NoGame
  MaxMishaps = 2
INVARIANTS LocalScoresAreItsEngines NothingGoodIsGivenUp EngineEndsWithThePass
PROPERTIES ProvenanceIsFinal EveryGameIsScored

SPECIFICATION AnalysisSpec
CONSTANTS
  Tabs = {t1, t2}
  Games = {g1}
  NoTab = NoTab
  NoGame = NoGame
  MaxMishaps = 1
INVARIANT ScoresAreItsEngines

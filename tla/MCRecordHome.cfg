SPECIFICATION ModeSpec
CONSTANTS
  Tabs = {t1, t2}
  Keys = {signedOut, account}
  d1 = d1
  d2 = d2
  Decisions = {d1, d2}
  File <- MCFile
  SignedOut = signedOut
  NoKey = NoKey
  NoRow = NoRow
  MaxRequests = 2
  MaxFaults = 1
SYMMETRY Symmetric
INVARIANTS OneHome WritesWhereAsked NothingKeptIsLost
CHECK_DEADLOCK FALSE

SPECIFICATION Spec
CONSTANTS
    Searches = {s1, s2}
    NoSearch = NoSearch
    MaxAttempts = 2
CHECK_DEADLOCK FALSE
INVARIANT
    DebtExact

SPECIFICATION LiveSpec
CONSTANTS
    Searches = {s1, s2, s3}
    NoSearch = NoSearch
    MaxAttempts = 3
CHECK_DEADLOCK FALSE
INVARIANTS
    TypeOK
    OwnAnswer
    DebtCovered
    OneHolder
PROPERTIES
    ImplementsService
    EverySearchSettles

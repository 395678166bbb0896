CONSTANTS
    MinKey <- LeastKey
    MaxKey = 1000
    CacheWrites = 1000
    MatchTakeover = 101
    AddPlansFactor = 10
    DupSetUpgrade = 540
    Tests <- AllTests
SPECIFICATION Spec
CHECK_DEADLOCK FALSE
INVARIANTS TypeOK AssertionsHold ExceptionsExpected

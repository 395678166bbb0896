CONSTANTS
    MinKey = 0
    MaxKey = 3
    CacheWrites = 1000
    MatchTakeover = 2
    AddPlansFactor = 1
    DupSetUpgrade = 2
    Collections <- SomeCollections
    Queries <- SomeQueries
    Orders <- SomeOrders
    NewDocs <- SomeNewDocs
    Removals <- SomeRemovals
    Updates <- SomeUpdates
    Fields <- SomeFields
    MaxCursors = 2
    MaxYields = 2
    MaxWrites = 2
SPECIFICATION FairSpec
CHECK_DEADLOCK FALSE
INVARIANTS
    TypeOK
    UntouchedReturnedOnce
    UntouchedMatchesReturned
    PositionsAreEntries
    OverwriteNoticed
    RecordedPlansExist
PROPERTIES
    ScanEnds
    OrderPreserved

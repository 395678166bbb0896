CONSTANTS
    Buckets = 3
    d1 = d1  d2 = d2  d3 = d3
    Deleted <- ThreeDeleted
    Null = Null
    MaxKills = 2
SPECIFICATION FairSpec
INVARIANTS
    TypeOK
    UnkilledMigrationWellFormed
    NoDeletedRecordLost
    MarkedMigratedLast
PROPERTIES CompletesKilledOnce

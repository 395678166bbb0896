CONSTANTS
    ExtentLength <- UniformExtents
    Lens <- SmallLens
    MaxObjects = 100
    MinMaxPasses = 5000
SPECIFICATION Spec
PROPERTIES
    QueueSpec
INVARIANTS
    TypeOK
    DeletedListWellFormed
    ExtentsTiled
    RecordChainsWellFormed
    CapExtentDeletedReachable
    CapExtentHoldsNewest
    NoAssertionFails

CONSTANTS
    ExtentLength <- TwoExtents
    Lens <- WithTooLargeFor128
    MaxObjects = 4
    MinMaxPasses = 5000
SPECIFICATION Spec
INVARIANTS
    MaxObjectsRespected
    NoAssertionFails
PROPERTIES
    QueueSpec
    TruncateAfterExact

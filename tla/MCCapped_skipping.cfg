CONSTANTS
    ExtentLength <- ShrinkingExtents
    Lens <- WithTooLargeFor160
    MaxObjects = 100
    MinMaxPasses = 5000
SPECIFICATION Spec
CHECK_DEADLOCK FALSE
INVARIANTS
    DeletedListWellFormed
    ExtentsTiled
    CapExtentDeletedReachable
PROPERTIES
    InsertRefusedOnlyIfTooLarge

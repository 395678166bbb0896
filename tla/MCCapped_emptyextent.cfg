CONSTANTS
    ExtentLength <- NarrowMiddle
    Lens <- MixedLens
    MaxObjects = 100
    MinMaxPasses = 5000
SPECIFICATION Spec
CHECK_DEADLOCK FALSE
INVARIANTS
    CapExtentHoldsNewest

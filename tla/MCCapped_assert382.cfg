CONSTANTS
    ExtentLength <- UniformExtents
    Lens <- SmallLens
    MaxObjects = 4
    MinMaxPasses = 5000
SPECIFICATION Spec
CHECK_DEADLOCK FALSE
INVARIANTS
    NoAssertionFails

CONSTANTS
    t1 = t1  t2 = t2  t3 = t3
    Threads <- TwoThreads
    Iterations = 2
    Increments = 2
    Excludes = FALSE
SPECIFICATION FairSpec
CHECK_DEADLOCK FALSE
INVARIANTS FailureMeansOverlap
PROPERTIES RunReturns

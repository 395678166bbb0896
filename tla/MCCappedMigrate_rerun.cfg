CONSTANTS
    Buckets = 3
    d1 = d1  d2 = d2  d3 = d3
    Deleted <- ThreeDeleted
    Null = Null
    MaxKills = 1
SPECIFICATION Spec
INVARIANTS MigratedListWellFormed

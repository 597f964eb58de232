SPECIFICATION Spec
CONSTANTS
    Client = {c1, c2}
    Server = {s1}
    NCells = 3
    Value = {0, 1}
    Free = Free
    MaxPtrs = 2
    BatchSize = 2
    Calls <- WithoutBulkWrite
    Faults = {"lose", "reorder"}
INVARIANTS PointersDistinct ReadResults
CHECK_DEADLOCK FALSE
SYMMETRY Symmetry

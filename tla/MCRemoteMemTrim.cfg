SPECIFICATION Spec
CONSTANTS
    Client = {c1}
    Server = {s1}
    NCells = 2
    Value = {0, 1}
    Free = Free
    MaxPtrs = 2
    BatchSize = 2
    Calls <- AllCalls
    Faults = {}
INVARIANT PointerIsDestination
CHECK_DEADLOCK FALSE

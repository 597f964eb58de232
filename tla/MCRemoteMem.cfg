SPECIFICATION FairSpec
CONSTANTS
    Client = {c1}
    Server = {s1, s2}
    NCells = 4
    Value = {0, 1}
    Free = Free
    MaxPtrs = 3
    BatchSize = 2
    Calls <- NoTrim
    Faults = {}
INVARIANTS BelievedContents ReadResults NothingLeftOver
PROPERTY CallReturns
CHECK_DEADLOCK FALSE

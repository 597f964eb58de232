SPECIFICATION Spec
CONSTANTS
    NumHosts = 2
    BlockSize = 1
    BatchSize = 2
    Byte = {0, 1}
    Sizes = {1, 2, 3}
    MaxRuns = 2
    Bit = {b0}
    BlockSizes = {1, 2, 3, 4, 5}
    HostCounts = {2, 3, 4}
    DevSize = 3
    DevByte = {0, 1}
    Lens = {1, 3}
    SockCap = 2
    MaxRequests = 2
    Clients = {c1, c2}
    HostList = {0}
    ByteMod = 6
    SIZE_STEPS <- Steps
    iterations = 1
    MessageLen = 2
    FaultBound = 1
    Unset <- Words
    NClientThreads = 2
    NServerThreads = 2
    KeyBytes = 3
    ValueBytes = 4
    SocketBytes = 5
    TotalReqs = 3
    PipelineArgs = {1, 5}
    MaxPipeline = 2
INVARIANTS StoreReads AllocatedAndFreed RaidReadsBack StreamsInStep DeviceReads ResultsCorrect EachAllocationFreedOnce NobodyIsStuck
    OneResponsePerRequest ClientEndsForAReason
PROPERTIES RequestsAnswered ClientEnds
\* The programs end, and the bounds end the others.
CHECK_DEADLOCK FALSE

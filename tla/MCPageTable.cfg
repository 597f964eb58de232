\* Two workers with one frame each after a main thread with one frame.
CONSTANTS
    NPages = 3
    NFrames = 1
    NThreads = 2
    BlockSize = 2
    FileSize = 5
    Value = {0, 1}
    Policies <- MCPolicies
SPECIFICATION FairSpec
INVARIANT ListsMatchPageTable
PROPERTIES ImplementsDemandPaging HandlersEnd
CHECK_DEADLOCK FALSE

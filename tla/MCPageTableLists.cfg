\* Three frames, four pages: the policies have a choice, and pages collide
\* in the hash table.
CONSTANTS
    NPages = 4
    NFrames = 3
    NThreads = 1
    BlockSize = 2
    FileSize = 7
    Value = {0}
    Policies <- MCPolicies
SPECIFICATION Spec
INVARIANTS ListsMatchPageTable
PROPERTIES LfuEvictsCleanFirst FfifoEvictsOldest
CHECK_DEADLOCK FALSE

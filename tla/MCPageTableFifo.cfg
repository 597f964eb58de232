CONSTANTS
    NPages = 3
    NFrames = 2
    NThreads = 1
    BlockSize = 2
    FileSize = 5
    Value = {0}
    Policies = {"FIFO"}
SPECIFICATION Spec
PROPERTY FifoEvictsOldest
CHECK_DEADLOCK FALSE

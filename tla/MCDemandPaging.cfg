CONSTANTS
    Thread = {0, 1, 2}
    Main = 2
    Page = {0, 1, 2}
    Frame = {0, 1}
    Value = {0, 1}
    FramesOf <- MCFramesOf
    PagesOf <- MCPagesOf
    NPages = 3
    MemSize = 2
    NRefs = 6
    Types = {"L", "S"}
    Algs = {"rand", "lru", "fifo", "clock", "opt"}
SPECIFICATION MCSpec
INVARIANTS FramesNotShared CleanPagesMatchStore TablesAgree ContentsKept OptIsOptimal
PROPERTIES ImplementsMemory VictimIsOldest
\* The simulation ends with the trace, and the paging with the program.
CHECK_DEADLOCK FALSE

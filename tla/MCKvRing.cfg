\* The default configuration: one client thread, one server thread, and the
\* pipeline is all requests, which are more than the ring has entries.
SPECIFICATION KvSpec
CONSTANTS
    NClientThreads = 1
    NServerThreads = 1
    KeyBytes = 3
    ValueBytes = 4
    SocketBytes = 9
    TotalReqs = 8
    PipelineArgs = {8}
    MaxPipeline = 4
INVARIANT RingNotEmpty
CHECK_DEADLOCK FALSE

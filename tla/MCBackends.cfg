SPECIFICATION Spec
CONSTANTS
    RxFrames = 3
    TxFrames = 2
    BatchSize = 2
    MaxArrivals = 6
    MaxSends = 4
    Ports = {0, 1, 2}
    EnabledLcores = {0}
    MaxLcore = 3
    MaxCheckTime = 3
    MaxPktBurst = 2
    Pool = 6
    RxDescs = 3
    TxDescs = 2
    BatchMax = 3
    MaxPackets = 6
    MaxForeign = 2
INVARIANTS PacketsHandledAsArrived PacketsSentAsQueued MbufsAccountedFor PacketsInOrder
PROPERTIES EveryPacketPasses StartupEnds DpdkCallReturns RequestsProcessed
\* The bounds on packets stop the system.
CHECK_DEADLOCK FALSE

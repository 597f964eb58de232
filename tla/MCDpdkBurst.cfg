SPECIFICATION DpdkSpec
CONSTANTS
    Ports = {1}
    EnabledLcores = {0}
    MaxLcore = 1
    MaxCheckTime = 2
    MaxPktBurst = 2
    Pool = 6
    RxDescs = 3
    TxDescs = 3
    BatchMax = 2
    MaxPackets = 2
    MaxForeign = 0
PROPERTY BatchWriteReturns
CHECK_DEADLOCK FALSE

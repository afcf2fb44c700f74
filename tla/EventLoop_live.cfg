SPECIFICATION FairSpec
CONSTANTS
    Partition = {p1}
    NoPartition = none
    LogEnd = 3
    Depth = 1
    MaxRuntimes = 2
    Slow = {}
PROPERTIES
    EveryCallbackReturns
    PolledIsSent
    CancelledEnds
    RevokedReturns

SPECIFICATION Spec
CONSTANTS
    Partition = {p1}
    NoPartition = none
    LogEnd = 2
    Depth = 1
    MaxRuntimes = 1
    Slow = {}
INVARIANT RevocationWaits

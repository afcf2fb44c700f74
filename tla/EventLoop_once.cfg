SPECIFICATION Spec
CONSTANTS
    Partition = {p1}
    NoPartition = none
    LogEnd = 2
    Depth = 1
    MaxRuntimes = 2
    Slow = {}
INVARIANT CommittedImpliesHandled

SPECIFICATION FairSpec
CONSTANTS
    Partition = {p1, p2}
    NoPartition = none
    LogEnd = 3
    Depth = 1
    MaxRuntimes = 2
    Slow = {p1}
PROPERTY PartitionIsolation

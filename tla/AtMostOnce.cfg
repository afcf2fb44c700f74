SPECIFICATION FairSpec
CONSTANTS
    LogEnd = 4
    MaxBatch = 2
    MaxRestarts = 1
INVARIANTS
    NeverTwice
    StartedAfterCommit
    LossWindow
    DrainedOnClose
PROPERTIES
    DeliversAtMostOnce
    CancelledReturns
    AcknowledgedIsProcessed

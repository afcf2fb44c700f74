SPECIFICATION FairSpec
CONSTANTS
    LogEnd = 4
    MaxBatch = 2
    MaxRestarts = 1
    Outcomes = {"ok", "error", "panic"}
INVARIANTS
    CommittedImpliesHandled
    HandledInOrder
    DuplicateWindow
    DrainedOnClose
PROPERTIES
    CommitMovesForward
    DeliversAtLeastOnce
    CancelledReturns
    ClosedReturns
    HandedOverIsHandled

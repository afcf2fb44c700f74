SPECIFICATION Spec
CONSTANTS
    LogEnd = 2
    MaxBatch = 2
    MaxRestarts = 0
    Outcomes = {"ok", "error"}
INVARIANTS
    CommittedImpliesSucceeded

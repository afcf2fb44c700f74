SPECIFICATION Spec
CONSTANTS
    LogEnd = 3
    MaxRuntimes = 3
INVARIANTS
    CommittedImpliesHandled
    NeverTwiceUnlessLate
PROPERTIES
    MovesBackOnlyWhenLate
    OwnerHandlesAll

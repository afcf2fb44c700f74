SPECIFICATION ApiSpec
CONSTANTS
    Call = {c1, c2}
    Stream = {c1}
    Service = {s1}
    NumParts = 2
    MaxChanges = 3
    None = None
INVARIANTS
    ResultTells
    NothingRunsAfterReturn
    MonitorIsCurrent
PROPERTIES
    SteadyAnswers
    WatchConverges
    ClientGoneEnds
    HangsOnlyOnOpenCalls

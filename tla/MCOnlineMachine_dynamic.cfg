SPECIFICATION FairSpec
CONSTANTS
    NThreads = 4
    Tapes <- FailTapes
    Schedule <- FailSchedule
    Code <- FailCode
    UnknownUsage = {3}
    SpuriousWakeups = FALSE
INVARIANTS
    TapesJoined
PROPERTIES
    ParametersStable
    ExceptionEndsProcess

SPECIFICATION FairSpec
CONSTANTS
    NThreads = 2
    Tapes <- StaticTapes
    Schedule <- StaticSchedule
    Code <- StaticCode
    UnknownUsage = {3}
    SpuriousWakeups = FALSE
INVARIANTS
    TypeOK
    LinesJoined
    NoItemUsedTwice
    UsedItemsDiscarded
PROPERTIES
    NoTapeOverwritten
    MachineFinishes
    ForkJoinSpec

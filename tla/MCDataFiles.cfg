SPECIFICATION Spec
CONSTANTS
    t1 = t1
    t2 = t2
    triple = triple
    mask = mask
    Threads <- MCTwoThreads
    Kinds <- MCTriple
    Tags <- MCMask
    Sizes <- MCSizes
    Items <- MCItems
    BufferSize = 4
    IntModulus = 128
    Needs <- MCNeeds
    MaxTapes = 2
    MaxRuns = 2
SYMMETRY MCSymmetry
INVARIANTS
    ItemsUsedOnce
    TuplesAreWhole
    UsedItemsDiscarded
    FailsOnlyWhenShort
CHECK_DEADLOCK FALSE

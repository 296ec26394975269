SPECIFICATION FairSpec
CONSTANTS
    NPlayers = 3
    Calls <- TwoEpochs
    Inconsistent = {1}
INVARIANTS
    BroadcastsAgree
    CheckedVectorsAgree
PROPERTY
    CallsFinish

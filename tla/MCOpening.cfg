SPECIFICATION Spec
CONSTANTS
    NPlayers = 4
    BasePlayer = 0
    OpeningSum = 2
    MaxBroadcast = 2
    PopenMax = 6
    Ops <- MCTape
INVARIANTS
    OpenedIsTheSum
    NobodyFails
    ChecksAgree
    InputsArrive
PROPERTIES
    CallsReturn

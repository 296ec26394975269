SPECIFICATION Spec
CONSTANTS
    NPlayers = 3
    Offset = 2
    Rounds = 2
    Lengths = {0, 1, 5}
    Chunk = 2
    Capacity = 2
INVARIANTS
    DataPassedOn
PROPERTIES
    CallsReturn

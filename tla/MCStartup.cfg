SPECIFICATION Spec
CONSTANTS
    NPlayers = 3
    NThreads = 1
    Bases <- WithCheckPlayer
    ThreadStep = 65536
INVARIANTS
    PlayersPaired
    StartTogether
PROPERTIES
    StartupEnds

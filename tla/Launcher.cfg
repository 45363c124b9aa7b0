CONSTANTS
    Launcher = {a, b}
    NODES = 2
    Attempts = 2
    MaxTries = 2
    MaxDeaths = 1
SPECIFICATION FairSpec
INVARIANTS
    NoneRunsOrphaned
    LaterTakesOtherPorts
PROPERTIES
    StartupEnds
CHECK_DEADLOCK FALSE

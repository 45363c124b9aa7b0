CONSTANTS
    Node = {n1, n2}
    NoPeer = NoPeer
    Batch = 2
    MaxCand = 3
    EarlyTimeout = FALSE
    MaxBlocks = 2
    MaxFaults = 0
    MaxTimeouts = 0
    MaxEvents = 1
    MaxWire = 0
SPECIFICATION FairSpec
PROPERTIES
    DownloadOnlyOnFork
CHECK_DEADLOCK FALSE

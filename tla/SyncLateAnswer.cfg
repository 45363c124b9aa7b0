CONSTANTS
    Node = {n1, n2}
    NoPeer = NoPeer
    Batch = 2
    MaxCand = 6
    EarlyTimeout = TRUE
    MaxBlocks = 3
    MaxFaults = 0
    MaxTimeouts = 1
    MaxEvents = 1
    MaxWire = 0
SPECIFICATION ForkedSpec
PROPERTIES
    Convergence
CHECK_DEADLOCK FALSE

CONSTANTS
    Node = {n1, n2}
    NoPeer = NoPeer
    Batch = 2
    MaxCand = 6
    EarlyTimeout = FALSE
    MaxBlocks = 4
    MaxFaults = 1
    MaxTimeouts = 0
    MaxEvents = 2
    MaxWire = 0
SPECIFICATION ForkedSpec
INVARIANTS
    SyncCoherent
    SyncPeerAlive
    OneRequest
PROPERTIES
    Convergence
    SyncEnds
CHECK_DEADLOCK FALSE

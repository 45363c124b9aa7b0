CONSTANTS
    Node = {n1, n2}
    NoPeer = NoPeer
    Batch = 2
    MaxCand = 3
    EarlyTimeout = TRUE
    MaxBlocks = 3
    MaxFaults = 0
    MaxTimeouts = 1
    MaxEvents = 1
    MaxWire = 0
SYMMETRY NodeSymmetry
SPECIFICATION Spec
INVARIANTS
    TypeOK
    ChainsArePaths
PROPERTIES
    ForkChoiceSpec
CHECK_DEADLOCK FALSE

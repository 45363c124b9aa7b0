CONSTANTS
    Nobody = Nobody
    Backlog = 1
    MaxChunks = 2
SPECIFICATION FairSpec
INVARIANTS
    NoCircularWait
    TeardownSafe
PROPERTIES
    ShutdownEnds
    RpcReturns

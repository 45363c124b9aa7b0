CONSTANTS
    Tree <- MCTree
    TxCount = 1
    MaxStops = 2
    MaxErrors = 1
SPECIFICATION Spec
INVARIANTS
    TypeOK
    CrashAtomic
    LoadsOwnHistory
    TableIsChain
    NoStaleTxRow
CHECK_DEADLOCK FALSE

CONSTANTS
    Tree <- MCTree
    TxCount = 2
    MaxStops = 1
    MaxErrors = 0
SPECIFICATION Spec
INVARIANT
    TxRowsComplete
CHECK_DEADLOCK FALSE

CONSTANTS
    Node = {1, 2, 3}
    Slot = {k1, k2}
    MaxFaults = 1
    Targets <- MCTargets
    NetId <- MCNetId
SPECIFICATION FairSpec
INVARIANTS
    BothSidesAgree
    OneLinkPerPair
PROPERTIES
    LinksSettle
    LinkKept

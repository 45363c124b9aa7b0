CONSTANTS
    Addr = {1, 2}
    NoAddr = 0
    Reward = 2
    MaxPayload = 1
    MaxBlockTxs = 4
    BlockWork = 2
    MaxPool = 2
    NonceWindow = 1
    MaxCollect = 2
    MinerAddr = 1
    MaxWork = 1
    MaxHeight = 3
    MaxOffer = 3
    Payee = 2
    MaxFeed = 2
    Wire <- MCWire
    Offers <- MCOffers
SPECIFICATION Spec
INVARIANTS
    TypeOK
    LedgerReplays
    SupplyConserved
    NoReplay
    IndexExact
    PoolFresh
    PoolConsistent
    PoolNotConfirmed
    CandidateConnects
    WorkConnects
    FeedExact
PROPERTIES
    OnlyHeavier
    LostOnlyInReorg
CHECK_DEADLOCK FALSE

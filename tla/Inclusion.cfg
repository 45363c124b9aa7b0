CONSTANTS
    Addr = {1, 2}
    NoAddr = 0
    Reward = 1
    MaxPayload = 1
    MaxBlockTxs = 6
    BlockWork = 2
    MaxPool = 1
    NonceWindow = 1
    MaxCollect = 1
    MinerAddr = 1
    MaxWork = 1
    MaxHeight = 0
    MaxOffer = 2
    Bodies = {2, 5}
    MaxDamage = 2
    Wire <- MCWire
    Offers <- MCOffers
SPECIFICATION InclusionSpec
INVARIANTS
    ProofVerifies
    ValidMeansConfirmed
    AgreedIsCommitted
CHECK_DEADLOCK FALSE

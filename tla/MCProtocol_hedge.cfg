\* Keepers register, settle, rebalance and prove while they are slashed and
\* leave, the minimum bond and the tolerance change and the price moves.
CONSTANTS
    ScaleUp = 1
    ScaleDown = 10
    U64Max = 99
    Venues = {1}
    Carries = {0}
    Capacities = {100}
    ParamSets <- ProtocolParams
    MaxTime = 3
    Users = {u1}
    Nonces = {1}
    Prices = {4, 5}
    Confidences = {0}
    PublishTimes = {1}
    Endowments = {88}
    CollateralAmounts = {8, 80}
    SyntheticAmounts = {30}
    MinOuts = {0}
    Fills = {4, 40}
    NoRequest = NoRequest
    Keepers = {k1, k2}
    BondAmounts = {2}
    BondHoldings = {2}
    NoAccount = NoAccount
    Hedges = {40}
    MaxProofs = 1
    NoDraft = NoDraft
    u1 = u1
    k1 = k1
    k2 = k2
SPECIFICATION Spec
SYMMETRY MCKeepers
PROPERTIES ImplementsIssuance OverwrittenMintWithinTolerance

\* The price may fall far beyond what the ratio covers, and keepers, oracle and
\* switches may fail for good.
CONSTANTS
    ScaleUp = 1
    ScaleDown = 10
    U64Max = 99
    Venues = {1}
    Carries = {0}
    Capacities = {100}
    ParamSets <- ParParams
    MaxTime = 4
    Users = {u1}
    Nonces = {1}
    Prices = {2, 5}
    Confidences = {0}
    PublishTimes = {2}
    Endowments = {40}
    CollateralAmounts = {40}
    SyntheticAmounts = {7, 19}
    MinOuts = {0}
    Fills = {8, 19}
    NoRequest = NoRequest
    u1 = u1
SPECIFICATION FairHSpec
INVARIANTS TypeOK
PROPERTIES ImplementsExchange IssuanceNearOpenGates OnlyPriceUncovers RedemptionNeverDilutes RequestsResolve

\* Prices and parameters move between request and settlement.
CONSTANTS
    ScaleUp = 1
    ScaleDown = 10
    U64Max = 999
    Venues = {1}
    Carries = {0}
    Capacities = {100}
    ParamSets <- TwoParams
    MaxTime = 3
    Users = {u1, u2}
    Nonces = {1}
    Prices = {4, 5}
    Confidences = {1}
    PublishTimes = {1}
    Endowments = {40}
    CollateralAmounts = {40}
    SyntheticAmounts = {11}
    MinOuts = {0}
    Fills = {20}
    NoRequest = NoRequest
    u1 = u1
    u2 = u2
SPECIFICATION Spec
SYMMETRY MCUsers
INVARIANTS CollateralAccounted SyntheticAccounted Backing SupplyWithinAdminLimits RedemptionsPayable

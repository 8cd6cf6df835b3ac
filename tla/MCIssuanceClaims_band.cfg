\* The price moves between request and confirm, and a mint is settled into a book
\* outside the hard band.  Nobody redeems.
CONSTANTS
    ScaleUp = 1
    ScaleDown = 10
    U64Max = 99
    Venues = {1}
    Carries = {0}
    Capacities = {100}
    ParamSets <- RoomyParams
    MaxTime = 3
    Users = {u1}
    Nonces = {1, 2}
    Prices = {4, 6}
    Confidences = {0}
    PublishTimes = {1}
    Endowments = {80}
    CollateralAmounts = {40}
    SyntheticAmounts = {}
    MinOuts = {0}
    Fills = {16, 24}
    NoRequest = NoRequest
    u1 = u1
SPECIFICATION Spec
PROPERTIES IssuesOnlyInsideBand

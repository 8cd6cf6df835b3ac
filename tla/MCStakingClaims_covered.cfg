\* Three stakers and two settlements: is every claim covered?
CONSTANTS
    ScaleUp = 1
    ScaleDown = 1
    U64Max = 99
    Venues = {0, 1}
    ParamSets <- GenerousParams
    MaxTime = 1
    Carries <- Signs
    Capacities = {0}
    Stakers = {a, b, c}
    StakeAmounts = {1, 2}
    Transfers = {1, 2}
    StakerWealth = 2
    OutsideWealth = 4
    AccScale = 2
    U128Max = 9999
    MaxTouches = 3
    MaxPrints = 2
    a = a
    b = b
    c = c
SPECIFICATION CSpec
SYMMETRY MCStakers
INVARIANTS ClaimsCovered

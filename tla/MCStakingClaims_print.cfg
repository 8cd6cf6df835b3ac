\* One negative report and silence.
CONSTANTS
    ScaleUp = 1
    ScaleDown = 1
    U64Max = 99
    Venues = {0, 1}
    ParamSets <- QuickParams
    MaxTime = 3
    Carries <- Signs
    Capacities = {0}
    Stakers = {a}
    StakeAmounts = {1}
    Transfers = {2}
    StakerWealth = 1
    OutsideWealth = 4
    AccScale = 2
    U128Max = 9999
    MaxTouches = 2
    MaxPrints = 2
    a = a
SPECIFICATION CSpec
PROPERTIES SinglePrintLocks

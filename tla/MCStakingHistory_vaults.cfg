\* Stakers join, claim and leave around settlements, reports, draws, changes of
\* the delays, and a breaker thrown at will.
CONSTANTS
    ScaleUp = 1
    ScaleDown = 1
    U64Max = 5
    Venues = {1}
    ParamSets <- VaultParams
    MaxTime = 3
    Carries <- Signs
    Capacities = {0}
    Stakers = {a, b}
    StakeAmounts = {1, 2}
    Transfers = {1}
    StakerWealth = 2
    OutsideWealth = 3
    AccScale = 2
    U128Max = 11
    MaxTouches = 3
    a = a
    b = b
SPECIFICATION FairHSpec
INVARIANTS TypeOK VaultsAccounted DebtWithinEntitlement EveryStakeCanAccrue OverpaymentBounded
PROPERTIES UnstakePaid StakeMovesNoClaim SettlementSharesWhatItBrings BufferDrawnInRegime

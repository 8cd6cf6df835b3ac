\* One keeper; see the property.
CONSTANTS
    ScaleUp = 1
    ScaleDown = 1
    U64Max = 99
    Venues = {1}
    ParamSets <- OneParams
    MaxTime = 2
    Keepers = {k1}
    BondAmounts = {2}
    BondHoldings = {2}
    NoAccount = NoAccount
    Books = {20, 30}
    Hedges = {20}
    DeltaClaims = {0}
    MaxSlot = 4
    MaxProofs = 2
    k1 = k1
SPECIFICATION KSpec
PROPERTIES ClaimStaysBonded

\* Two keepers bond, prove, are slashed, leave and come back while the minimum
\* bond and the cooldown change.
CONSTANTS
    ScaleUp = 1
    ScaleDown = 1
    U64Max = 99
    Venues = {0, 1}
    ParamSets <- RegistryParams
    MaxTime = 3
    Keepers = {k1, k2}
    BondAmounts = {1, 2, 3}
    BondHoldings = {3}
    NoAccount = NoAccount
    Books = {0, 20}
    Hedges = {19}
    DeltaClaims = {500}
    MaxSlot = 4
    MaxProofs = 2
    k1 = k1
    k2 = k2
SPECIFICATION Spec
SYMMETRY MCKeepers
INVARIANTS TypeOK BondsAccounted CountIsActiveKeepers ActiveKeepersHoldAMinimum ChainIntact
PROPERTIES BondOutlivesProofs

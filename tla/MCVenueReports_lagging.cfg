\* Two observations of a carry that crosses the floor land in either order.
CONSTANTS
    ScaleUp = 1
    ScaleDown = 1
    U64Max = 99
    Venues = {1}
    ParamSets <- OneParams
    MaxTime = 3
    Carries <- AroundFloor
    Capacities = {10}
SPECIFICATION Spec
PROPERTIES LaggardNeverReopens

\* Three keys hand the authority around, guard and propose.
CONSTANTS
    Keys = {k1, k2, k3}
    NoKey = NoKey
    k1 = k1
    k2 = k2
    k3 = k3
SPECIFICATION Spec
SYMMETRY MCKeys
INVARIANTS OpenOnlyWithVaults
PROPERTIES ReopenedByAuthority HandoverByNewestProposal

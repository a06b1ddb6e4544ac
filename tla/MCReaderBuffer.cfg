SPECIFICATION Spec
CONSTANTS
    Sizes = {0, 2, 4, 5, 20}
    Policies <- MCPolicies
    Capacities = {9}
    Reserves = {15}
    MaxCap = 40
    MaxTime = 3
    MaxInstalls = 2
INVARIANTS
    TypeOK
    NoPrematureReclaim
    NeverThrashesAtSteadyState
PROPERTIES
    BurstsAreReclaimed

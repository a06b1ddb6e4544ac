SPECIFICATION Spec
CONSTANTS
    Sizes = {2, 4, 5, 20}
    Capacities = {0, 9}
    Policies <- MCPolicies
    Overshoots = {6}
    MaxTime = 3
    MaxInstalls = 2
INVARIANTS
    TypeOK
    FrameHoldsItsItem
    NoPrematureReclaim
    NeverThrashesAtSteadyState
PROPERTIES
    ReclaimsAreReal
    BurstsAreReclaimed

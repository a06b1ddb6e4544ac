\* A size ratio of 1: every buffer is over-provisioned for every message.
SPECIFICATION Spec
CONSTANTS
    Sizes = {0, 2, 5, 20}
    Policies <- MCRatioOne
    Capacities = {9}
    Reserves = {15}
    MaxCap = 40
    MaxTime = 3
    MaxInstalls = 2
INVARIANTS
    NeverThrashesAtSteadyState

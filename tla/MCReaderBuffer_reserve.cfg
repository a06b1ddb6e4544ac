\* reserve() between a read that scheduled a reclaim and the next one.
SPECIFICATION Spec
CONSTANTS
    Sizes = {0, 2, 5, 20}
    Policies <- MCPolicies
    Capacities = {9}
    Reserves = {15}
    MaxCap = 40
    MaxTime = 3
    MaxInstalls = 2
PROPERTIES
    ReserveHonoured

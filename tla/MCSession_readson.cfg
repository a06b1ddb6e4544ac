\* A session that reads on after an error inside a frame is told of a clean end there.
SPECIFICATION Spec
CONSTANTS
    Kinds <- MCKinds
    Apis = {"raw", "typed"}
    MaxFrames = 2
    SumLens = {0, 1}
    MaxFrameLen = 2
    WireLens = {0, 1, 3}
    Stack <- MCStack
    MaxFaults = 1
INVARIANTS
    EveryCleanEndBetweenFrames
CHECK_DEADLOCK FALSE

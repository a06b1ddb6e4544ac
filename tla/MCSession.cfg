\* Sessions that may read on after any error.
SPECIFICATION FairSpec
CONSTANTS
    Kinds <- MCKinds
    Apis = {"raw", "typed"}
    MaxFrames = 2
    SumLens = {0, 1}
    MaxFrameLen = 2
    WireLens = {0, 1, 3}
    Stack <- MCStack
    MaxFaults = 1
INVARIANTS
    TypeOK
    DeliversExactly
    
    CleanEndBetweenFrames
    ObservesExactly
PROPERTIES
    SessionEnds
\* A session is over.
CHECK_DEADLOCK FALSE

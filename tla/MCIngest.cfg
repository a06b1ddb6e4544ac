SPECIFICATION Spec
CONSTANTS
    Bases <- MCBases
    Corpora <- MCCorpora
    MaxRuns = 2
    MaxFaults = 2
INVARIANTS
    TypeOK
    PairsAligned
    SidecarsTrue
    ErrorsLeavePairs
    SuccessIsComplete
\* The runs are used up.
CHECK_DEADLOCK FALSE

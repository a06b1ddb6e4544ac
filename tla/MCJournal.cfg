\* Frames of two bytes exceed the limit of the recovery.
SPECIFICATION FairSpec
CONSTANTS
    Capacity = 13
    PayloadLens = {0, 1, 2}
    MaxWrites = 3
    WriterSumLen = 0
    ReaderSumLen = 0
    MaxFrameLen = 1
    WireLens = {0, 1, 2}
    MaxRot = 0
INVARIANTS
    TypeOK
    AppendsAtBoundary
    ReportExact
    PromisesKept
PROPERTIES
    CompleteFramesKept
    AlwaysReadyAgain
    ImplementsAppendLog

SPECIFICATION Spec
CONSTANTS
    Capacity = 14
    PayloadLens = {0, 1, 2}
    MaxWrites = 2
    WriterSumLen = 0
    ReaderSumLen = 2
    MaxFrameLen = 3
    WireLens = {0, 1, 2, 3}
    MaxRot = 0
PROPERTIES
    CompleteFramesKept

\* A byte of a checksummed journal rots at rest; a corrupt length may decode to 9,
\* more than the rest of the file but within max_frame_len.
SPECIFICATION Spec
CONSTANTS
    Capacity = 14
    PayloadLens = {0, 1, 2}
    MaxWrites = 2
    WriterSumLen = 2
    ReaderSumLen = 2
    MaxFrameLen = 9
    WireLens = {0, 1, 9}
    MaxRot = 1
PROPERTIES
    CompleteFramesKept

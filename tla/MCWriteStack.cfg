SPECIFICATION Spec
CONSTANTS
    Base = 2
    Hash <- MCHash
    Magic <- MCMagic
    Shape <- MCShape
    DefaultLimits <- MCLimits
    Formats <- MCFormats
    Stacks <- MCStacks
    Payloads <- MCPayloads
    ReaderLimits <- MCReaderLimits
    MaxWrites = 3
    MaxFaults = 1
INVARIANTS
    TypeOK
    ReadsBack
    AcceptedStaysReadable
    ObserversSeeExactly
    BlamesFirst
    DamageDetected
    PathsAgree
    ZeroTails
    MirrorReads
    TypedReads
    ExamplesHold
\* The calls are used up.
CHECK_DEADLOCK FALSE

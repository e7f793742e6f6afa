CONSTANTS
    Alphabet = 4
    Base = 4
    CountMax = 7
    TotalMargin = 8
    NumSymbols = 13
    Values = {0, 1, 3}
    OutLimits = {5, 16}
    MaxInput = 7
    MaxOutput = 9
    Noise = {0, 3}
SPECIFICATION Spec
INVARIANTS
    RoundTrip
    ContextsAgree
    IntervalsTile
    RangeSuffices
    BuffersSuffice
CHECK_DEADLOCK FALSE

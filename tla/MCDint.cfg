SPECIFICATION MCSpec
CONSTANTS
    BlockSize = 8
    Overflow = 8
    MaxEntrySize = 4
    Runs <- ScaledRuns
    TargetSizes <- ScaledSizes
    SmallLimit = 2
    Junk = 99
    Inputs <- SomeInputs
    Dictionaries <- ScaledDictionaries
INVARIANTS
    CodersTypeOK
    RoundTrip
    OthersFaithful
    ShortestCode
PROPERTIES
    CodersEnd

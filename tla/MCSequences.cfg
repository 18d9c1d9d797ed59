SPECIFICATION MCSpec
CONSTANTS
    PartitionInputs <- RunsAndGaps
    FixCost = 3
    Factor <- ThreeHalves
    Lookahead <- SixTimes
    SortedInputs <- SortedTuples
    LogSampling0 = 2
    LogSampling1 = 2
    LinearScanThreshold = 1
    IncreasingInputs <- IncreasingSets
    BitvectorInputs <- BitvectorSets
    LogRank1Sampling = 2
    IndexedInputs <- IndexedSets
    Params <- Samplings
    NoSampling = 63
    Infinity = 1000000
    Inputs <- CutSets
    LogPartitionSize = 1
    Beyond = 3
    IntLimit = 16
    Lists <- PostingLists
    NumDocs = 4
    MaxLists = 2
    Garbage = 77
    CollectionInputs <- AroundPowers
    MaxSequences = 2
INVARIANTS
    CursorsInStep
    CodedExactly
    ListsRead
    PathGoesBack
    PartitionIsCheap
PROPERTY
    RefinesSequenceCursor
CHECK_DEADLOCK FALSE

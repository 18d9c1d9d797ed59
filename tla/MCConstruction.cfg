SPECIFICATION MCSpec
INVARIANTS
    CollectionRead
    StatisticsExact
    DictionaryFaithful
    FilesLossless
PROPERTY
    ConstructionEnds

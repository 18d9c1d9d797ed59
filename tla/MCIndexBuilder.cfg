SPECIFICATION MCSpec
CONSTANTS
    ListSize <- MixedSize
    ListBytes <- MixedBytes
    MinSize = 0
    WorkPerThread = 4
    MaxThreads = 3
INVARIANTS
    TypeOK
    PositionsMatchCollection
    EndpointsEncodable
PROPERTIES
    RefinesSequentialBuilder
    EventuallyBuilt

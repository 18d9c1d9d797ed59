SPECIFICATION MCSpec
CONSTANTS
    NumDocs = 4
    K = 2
    Indexes <- ThreeLists
    Queries <- MCQueries
    Operators <- MCOperators
INVARIANTS
    TypeOK
    BooleanCorrect
    TopkCorrect
    WandSorted
PROPERTIES
    RespectsCursors
    QueryEnds

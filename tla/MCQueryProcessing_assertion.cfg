SPECIFICATION Spec
CONSTANTS
    NumDocs = 4
    K = 1
    Indexes <- ThreeLists
    Queries <- AssertionQueries
    Operators <- AssertionOperators
INVARIANTS
    NextGeqAsserted

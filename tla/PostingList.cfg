SPECIFICATION Spec
CONSTANTS
    BlockSize = 2
    Universe = 7
    Word = 16
    Lists <- AllLists
INVARIANTS
    TypeOK
    CacheCurrent
    BlocksSurvive
PROPERTIES
    RefinesPostingCursor
    CallsReturn

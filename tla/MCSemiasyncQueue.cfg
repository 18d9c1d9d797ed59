SPECIFICATION MCSpec
CONSTANTS
    NumJobs = 11
    Work <- MixedWork
    WorkPerThread = 3
    MaxThreads = 3
INVARIANTS
    CommittedInOrder
    ThreadsBounded
    JobsConserved
PROPERTIES
    RefinesInOrderExecutor
    AllCommitted

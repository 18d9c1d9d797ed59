SPECIFICATION UnflushedSpec
INVARIANTS
    EmptyFileLossless
CHECK_DEADLOCK FALSE

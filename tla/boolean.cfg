SPECIFICATION Spec
CONSTANTS
    Words = {"a", "b", "c", "the"}
    StopWords = {"the"}
    Queries <- AllQueries
    Collections <- Positions
INVARIANTS Found Excluded
CHECK_DEADLOCK FALSE

SPECIFICATION FairSpec
CONSTANTS
    Pids = {1, 2, 3}
    NoPid = 0
    Limit = 2
    Sizes = {1, 3}
    Around <- Surroundings
INVARIANTS TypeOK OneGeneration AtMost MutexHeld
PROPERTIES ChildrenEnd ChildrenRun ReloadsEnd
CHECK_DEADLOCK FALSE

SPECIFICATION Spec
CONSTANTS
    Clients = {i1, i2}
    Urls = {1, 2}
    Words = {2, 3}
    WrdFiles = 2
    FileOf <- ThreeWords
    CacheLogWords = 1
    CacheLogDels = 1
    Docs <- Apart
    MaxCalls = 3
    Env = {"io", "unsaved"}
SYMMETRY Indexers
INVARIANTS TypeOK Sorted OneStore
CHECK_DEADLOCK FALSE

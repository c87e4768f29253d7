SPECIFICATION Spec
CONSTANTS
    Clients = {i1, i2}
    Urls = {1}
    Words = {1, 2, 3}
    WrdFiles = 2
    FileOf <- ThreeWords
    CacheLogWords = 2
    CacheLogDels = 2
    Docs <- Versions
    MaxCalls = 3
    Env = {"unsaved"}
INVARIANTS OldContentGone
CHECK_DEADLOCK FALSE

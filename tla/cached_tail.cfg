SPECIFICATION Spec
CONSTANTS
    Clients = {i1, i2}
    Urls = {1, 2}
    Words = {1, 2}
    WrdFiles = 1
    FileOf <- ThreeWords
    CacheLogWords = 4
    CacheLogDels = 2
    Docs <- Moves
    MaxCalls = 4
    Env = {}
INVARIANTS OnlyFresh
CHECK_DEADLOCK FALSE

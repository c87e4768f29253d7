SPECIFICATION FairSpec
CONSTANTS
    Clients = {i1, i2}
    Urls = {1, 2}
    Words = {2, 3}
    WrdFiles = 2
    FileOf <- ThreeWords
    CacheLogWords = 1
    CacheLogDels = 2
    Docs <- Shifted
    MaxCalls = 3
    Env = {}
INVARIANTS Fresh ShutdownSaves
PROPERTIES Searchable
CHECK_DEADLOCK FALSE

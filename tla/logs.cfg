SPECIFICATION Spec
CONSTANTS
    Urls = {1}
    Words = {1, 2}
    WrdFiles = 2
    FileOf <- TwoWords
    CacheLogWords = 2
    CacheLogDels = 1
    Docs <- Versions
    MaxCalls = 4
    MaxFlushes = 3
    PathMax = 9
    Around <- Troubles
    NoFile = NoFile
INVARIANTS TypeOK BuffersFit Once Fresh Served
CHECK_DEADLOCK FALSE

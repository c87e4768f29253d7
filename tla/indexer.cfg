SPECIFICATION MCSpec
CONSTANTS
    t1 = t1
    t2 = t2
    t3 = t3
    p1 = p1
    p2 = p2
    u1 = u1
    u2 = u2
    u3 = u3
    Threads = {t1, t2}
    Procs = {p1, p2}
    Urls = {u1, u2, u3}
    Forbidden = {u3}
    First = {u1, u3}
    CacheSize = 2
    MaxDocs <- Documents
    NoThread = NoThread
    NoUrl = NoUrl
    Surroundings <- Days
INVARIANTS TypeOK Exclusive Owned NothingLeft
PROPERTIES WaitsForAll AllEnd
CHECK_DEADLOCK FALSE

SPECIFICATION MCSpec
CONSTANTS
    t1 = t1
    t2 = t2
    t3 = t3
    p1 = p1
    p2 = p2
    p3 = p3
    Threads = {t1, t2, t3}
    Procs = {p1, p2, p3}
    Files = {1, 2}
    NoThread = NoThread
    NoFile = NoFile
    MaxHeld = 2
CHECK_DEADLOCK FALSE
INVARIANTS TypeOK ThreadsExcluded Exclusion NothingKept
PROPERTIES CallsEnd

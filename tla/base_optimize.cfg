SPECIFICATION OptimizeFairSpec
CONSTANTS
    a = a
    b = b
    c = c
    RecIds = {a, b, c}
    NoRec = NoRec
    HashPrime = 2
    Hash <- Colliding
    Versions = {v1}
    MaxSize = 2
    MaxSlots = 3
    MaxData = 3
    Ops = {"write", "delete"}
    Faults = {"crash"}
    KeepOpen = FALSE
    OptimizeRatio = 15
    MayDie = TRUE
PROPERTIES RecordsKept OptimizeEnds

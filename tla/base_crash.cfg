SPECIFICATION FairSpec
CONSTANTS
    a = a
    b = b
    c = c
    d = d
    RecIds = {a, b, c}
    NoRec = NoRec
    HashPrime = 2
    Hash <- Colliding
    Versions = {v1, v2}
    MaxSize = 2
    MaxSlots = 3
    MaxData = 4
    Ops = {"read", "write"}
    Faults = {"crash", "io"}
    KeepOpen = FALSE
INVARIANTS TypeOK LinksForward
PROPERTIES Dictionary Answers CallsEnd

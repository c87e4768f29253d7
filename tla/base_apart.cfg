SPECIFICATION Spec
CONSTANTS
    a = a
    b = b
    c = c
    d = d
    RecIds = {a, b}
    NoRec = NoRec
    HashPrime = 3
    Hash <- Apart
    Versions = {v1}
    MaxSize = 2
    MaxSlots = 4
    MaxData = 4
    Ops = {"read", "write", "delete"}
    Faults = {"crash", "io", "index"}
    KeepOpen = TRUE
INVARIANTS OwnData
PROPERTIES Dictionary

SPECIFICATION Spec
CONSTANTS
    v1 = v1
    w1 = w1
    w2 = w2
    s1 = s1
    N = 3
    Mapped = {v1}
    Word = {w1, w2, w3}
    Switch = {s1}
    NoAddr = NoAddr
    Val = {x, y}
    NoVal = NoVal
    Maps <- MCMaps
    ResetMap <- MCResetMap
    Modes = {"CACHE", "NOCACHE"}
    Careful = TRUE
INVARIANTS TypeOK OneRegister OldestWritten AgesOrdered PushesWriteBack PushesEmpty
PROPERTIES ImplementsMemory
SYMMETRY MCSymmetry

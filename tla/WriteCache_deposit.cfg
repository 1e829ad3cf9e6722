SPECIFICATION Spec
CONSTANTS
    v1 = v1
    w1 = w1
    w2 = w2
    s1 = s1
    N = 2
    Mapped = {v1}
    Word = {w1, w2}
    Switch = {s1}
    NoAddr = NoAddr
    Val = {x, y}
    NoVal = NoVal
    Maps <- MCOneMap
    ResetMap <- MCFixedMap
    Modes = {"NOCACHE"}
    Careful = FALSE
PROPERTIES DepositsOneWord

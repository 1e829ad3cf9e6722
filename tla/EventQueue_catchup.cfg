SPECIFICATION Spec
CONSTANTS
    Unit = {u1, u2}
    NoUnit = NoUnit
    Steady = {}
    ExecDelays <- MCLateDelay
    ActionDelays <- MCLateDelay
    Deadlines = {}
    ActionResults = {"OK", "ERR"}
    MaxStep = 3
    MaxCalls = 1
    RMod = 1
    NOQUEUE_WAIT = 2
    DriftCap = 0
    Interrupts = FALSE
INVARIANTS CatchUpEndsAtPresent
CHECK_DEADLOCK FALSE

SPECIFICATION FairSpec
CONSTANTS
    Unit = {u1, u2, u3}
    NoUnit = NoUnit
    Steady = {u1}
    ExecDelays <- MCExecDelays
    ActionDelays <- MCActionDelays
    MaxDelay = 3
    Deadlines = {}
    ActionResults = {"OK", "ERR"}
    MaxStep = 1
    MaxCalls = 1
    RMod = 1
    NOQUEUE_WAIT = 2
    DriftCap = 1
    Interrupts = FALSE
INVARIANTS RuntimeCountsInstructions
PROPERTIES ImplementsDueTimes EventsFire

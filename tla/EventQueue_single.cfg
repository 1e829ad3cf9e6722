SPECIFICATION FairSpec
CONSTANTS
    Unit = {u1, u2, u3}
    NoUnit = NoUnit
    Steady = {u1}
    ExecDelays <- MCAnyDelay
    ActionDelays <- MCAnyDelay
    Deadlines = {1, 2}
    ActionResults = {"OK", "ERR"}
    MaxStep = 1
    MaxCalls = 1
    RMod = 4
    NOQUEUE_WAIT = 2
    DriftCap = 0
    Interrupts = TRUE
INVARIANTS TypeOK DeltasAreDueTimes
PROPERTIES OnTime ArrivalOrder StopHonoured

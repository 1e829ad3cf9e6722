SPECIFICATION FairSpec
CONSTANTS
    Unit = {u1, u2, u3}
    Steady = {u1}
    MaxTicks = 3
INVARIANTS TypeOK
PROPERTIES NeverLate LateByFirst NeverEarly InOrder CoscheduledRuns

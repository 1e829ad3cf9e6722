SPECIFICATION FairSpec
CONSTANTS
    Unit = {u1, u2}
    NoUnit = NoUnit
    Steady = {u1}
    Thread = {t1}
    PostCalls = {"activate"}
    PostDelays = {3}
    MainCalls = {"activate"}
    MainDelays = {3}
    INST_LATENCY = 1
    MaxIdle = 2
    MaxPosts = 1
PROPERTIES IdleKeepsDelays

SPECIFICATION FairSpec
CONSTANTS
    Unit = {u1, u2}
    NoUnit = NoUnit
    Steady = {u1}
    Thread = {t1}
    PostCalls = {"activate", "abs"}
    PostDelays = {2}
    MainCalls = {"activate", "abs", "cancel"}
    MainDelays = {1}
    INST_LATENCY = 1
    MaxIdle = 1
    MaxPosts = 2
INVARIANTS TypeOK OneListAtATime NoPostLost SeenWithinLatency
PROPERTIES CancelHolds PostsServed

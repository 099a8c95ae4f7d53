SPECIFICATION Spec
CONSTANTS
    w1 = w1
    p1 = p1
    p2 = p2
    NoPool = NoPool
    Workers <- OneWorker
    Pools <- OnePool
    HeartbeatWindow = 1
    CoolDownPeriod = 1
    MaxBlocks = 8
    MaxLag = 2
    MaxRegistrations = 1
    MaxCalls = 3
INVARIANT
    AnsweredIsResponsive
CHECK_DEADLOCK FALSE

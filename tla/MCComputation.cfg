SPECIFICATION Spec
CONSTANTS
    w1 = w1
    p1 = p1
    p2 = p2
    NoPool = NoPool
    Workers <- OneWorker
    Pools <- TwoPools
    HeartbeatWindow = 0
    CoolDownPeriod = 1
    MaxBlocks = 6
    MaxLag = 2
    MaxRegistrations = 1
    MaxCalls = 4
INVARIANTS
    HeartbeatsAccepted
    CopiesAgree
    
    BooksBalance
SYMMETRY Symmetry
CHECK_DEADLOCK FALSE

SPECIFICATION Spec
CONSTANTS
    g1 = g1
    g2 = g2
    Replicas <- Gatekeepers
    First <- g1
    MsgsPerRound = 1
    MaxEvents = 2
    MaxFork = 2
    MaxFaults = 1
INVARIANTS
    ExactlyOnceInOrder
    ReplicasAgree
    NothingLost
PROPERTY
    ImplementsChannel
CHECK_DEADLOCK FALSE

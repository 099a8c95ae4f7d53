SPECIFICATION Spec
CONSTANTS
    e1 = e1
    e2 = e2
    NoHeader = NoHeader
    Kinds <- BothKinds
    MaxRelay = 3
    Heads <- HeadsOfRelay
    SetChanges <- ChangeAtTwo
    ForkAt = 2
    Effects <- TwoEffects
    MAX_PENDING = 1
    MaxBatch = 2
    MaxStray = 2
    MaxRestarts = 2
INVARIANTS
    RootsAligned
    FinalOnly
    AuthoritiesFollowed
    HandledInOrder
    EffectsKept
PROPERTIES
    NothingUndone
    CatchesUp
CHECK_DEADLOCK FALSE

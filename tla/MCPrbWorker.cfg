SPECIFICATION Spec
CONSTANTS
    MaxRelay = 4
    InitialRelay = 2
    ParaAt <- SomeParaAt
    Changes <- SomeChanges
    FastSync = TRUE
    Gatekeeper = FALSE
    SupportsAttestation = TRUE
    Histories = {0, 2, 3}
    CoolPeriodOutlasts = TRUE
    ErrorLimit = 1
    MaxDisturbances = 1
    MaxHeartbeats = 1
    MaxBacklog = 0
INVARIANTS  NeverStranded  OneTransactionPerStage CacheFollowsChain
CHECK_DEADLOCK FALSE

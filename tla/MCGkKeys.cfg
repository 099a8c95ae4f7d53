SPECIFICATION Spec
CONSTANTS
    g1 = g1
    g2 = g2
    Workers <- Two
    RandomBlocks = {}
    MaxCalls = 3
    MaxRotations = 1
    MaxReports = 1
    MaxPerBlock = 1
    MaxFaults = 1
INVARIANTS
    ExpectedVerifies
    KeysAgree
    HistoriesAgree
    HistoryIntact
SYMMETRY Symmetry
CHECK_DEADLOCK FALSE

SPECIFICATION Spec
CONSTANTS
    g1 = g1
    g2 = g2
    Workers <- One
    RandomBlocks = {}
    MaxCalls = 2
    MaxRotations = 1
    MaxReports = 1
    MaxPerBlock = 1
    MaxFaults = 0
INVARIANT
    ReportsVerify
CHECK_DEADLOCK FALSE

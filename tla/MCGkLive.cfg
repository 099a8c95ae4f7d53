SPECIFICATION FairSpec
CONSTANTS
    g1 = g1
    g2 = g2
    Workers <- Two
    RandomBlocks = {4}
    MaxCalls = 2
    MaxRotations = 1
    MaxReports = 0
    MaxPerBlock = 1
    MaxFaults = 0

    
PROPERTIES
    RotationEnds
    RegisteredBecomesActive
CHECK_DEADLOCK FALSE

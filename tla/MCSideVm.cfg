SPECIFICATION Spec
CONSTANTS
    v1 = v1
    v2 = v2
    Vms <- TwoVms
    virtual_cores = 1
    CommandCap = 1
    MaxStarts <- Starts
    MaxEffects = 3
    MaxRuntime = 1
INVARIANTS
    CoresShared
    
PROPERTIES
    
    StopTakesEffect
CHECK_DEADLOCK FALSE

SPECIFICATION Spec
CONSTANTS
    f1 = f1
    f2 = f2
    Flows <- TwoFlows
    Weights <- SomeWeights
    Costs <- SomeCosts
    backlog_cap = 2
    depth = 2
    MaxRequests = 5
INVARIANTS
    WorkConserving
    ServedInOrder
PROPERTIES
    Served
CHECK_DEADLOCK FALSE

SPECIFICATION Spec
CONSTANTS
    poster1 = poster1
    poster2 = poster2
    search = search
    change1 = change1
    change2 = change2
    runGate = runGate
    none = none
    Ops = {poster1, poster2, search, change1}
    PriorityOf <- MCPriorityOf
    BoundedOps <- MCBoundedOps
    Gates <- MCGates
    GateOf <- MCGateOf
    NoGate = none
    MaxBoundedOperations = 0
    MaxExceptions = 2
    MaxSuspensions = 2
INVARIANTS
    TypeOK
    PriorityCountDrift
    BoundedListAccurate
    BoundedBacklog
PROPERTIES
    EveryRequestEnds
CHECK_DEADLOCK FALSE

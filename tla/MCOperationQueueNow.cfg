SPECIFICATION Spec
CONSTANTS
    poster1 = poster1
    poster2 = poster2
    search = search
    change1 = change1
    change2 = change2
    runGate = runGate
    none = none
    Ops = {change1, change2}
    PriorityOf <- MCPriorityOf
    BoundedOps <- MCBoundedOps
    Gates <- MCGates
    GateOf <- MCGateOf
    NoGate = none
    MaxBoundedOperations = 0
    MaxExceptions = 1
    MaxSuspensions = 0
PROPERTIES
    NowRequestsHappen
CHECK_DEADLOCK FALSE

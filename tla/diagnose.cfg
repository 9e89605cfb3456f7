SPECIFICATION Spec
CONSTANTS
    p1 = p1
    p2 = p2
    e1 = e1
    e2 = e2
    z1 = z1
    Pids <- MCPids
    Endpoints <- MCEndpoints
    Pools <- MCPools
    Values <- MCValues
    Usual <- MCUsual
    Focuses <- MCFocuses
    EditBudget = 2
    BusyTicks = 1
INVARIANTS
    StandingFaultIsTold
    AlarmIsReal
\* The pass ends.
CHECK_DEADLOCK FALSE

SPECIFICATION Spec
CONSTANTS
    Nodes = {0, 1, 2, 3}
    FirstLinks = {{0, 1}, {1, 2}, {2, 3}}
    Breaks = {{1, 2}, {2, 3}}
    Flows <- Flow
    NETWORK_DIAMETER = 4
    MaxRequests = 2
    Budgets <- Budget
INVARIANT
    LoopFree
    NoFutureSeqno
    NothingWaitsForALiveRoute
    AbortsOnlyInRepair
CHECK_DEADLOCK FALSE

\* Three requests of one user: scheduling over exact and counted demands, with
\* tickets that lapse and leases that expire while others wait.
SPECIFICATION Spec
CONSTANTS
    g0 = g0
    g1 = g1
    g2 = g2
    r1 = r1
    r2 = r2
    r3 = r3
    None = None
    Root = 0
    Uid = {0}
    RequestId = {r1, r2, r3}
    CardOrder <- TwoCards
    Demands <- MixedDemands
    Reservations = {None}
    LeaseTTL = 2
    QueueTTL = 2
    MaxStall = 1
    MaxClock = 2
SYMMETRY RequestSymmetry
INVARIANTS HoldersMatchLeases TablesAgree AllOrNone HeadBlocked NoWaitOnIdleCards ReaperInTime
PROPERTIES StrictFIFO ImplementsPool

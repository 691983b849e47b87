\* A command of two processes; no transport faults.
SPECIFICATION WSpec
CONSTANTS
    w1 = w1
    w2 = w2
    r1 = r1
    r2 = r2
    g0 = g0
    None = None
    Root = 0
    Uid = {0, 1}
    RequestId = {r1, r2}
    CardOrder <- OneCard
    Demands <- AnyCard
    Reservations = {None, 2}
    LeaseTTL = 4
    QueueTTL = 3
    MaxStall = 1
    MaxClock = 4
    Wrappers = {w1, w2}
    Grabs = {}
    GrabFor = 2
    Owner <- OneOwner
    Margin = 3
    KillAfter = 1
    StartStall = 0
    Family = {"leader", "helper"}
    Faults = FALSE
SYMMETRY Symmetry
PROPERTIES WholeGroupTerminated
\* Every wrapper runs once and the clock is bounded: the instance ends.
CHECK_DEADLOCK FALSE

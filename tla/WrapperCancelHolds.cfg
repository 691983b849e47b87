\* The shortest lease TTL the daemon accepts (3s, server.py) and the default
\* --kill-after (5s), with a transport that never fails.
SPECIFICATION WSpec
CONSTANTS
    w1 = w1
    w2 = w2
    r1 = r1
    r2 = r2
    g0 = g0
    None = None
    Root = 0
    Uid = {0, 1}
    RequestId = {r1, r2}
    CardOrder <- OneCard
    Demands <- AnyCard
    Reservations = {None, 2}
    LeaseTTL = 3
    QueueTTL = 3
    MaxStall = 0
    MaxClock = 5
    Wrappers = {w1, w2}
    Grabs = {}
    GrabFor = 2
    Owner <- OneOwner
    Margin = 1
    KillAfter = 5
    StartStall = 0
    Family = {"leader"}
    Faults = FALSE
SYMMETRY Symmetry
INVARIANTS CanceledHolds
\* Every wrapper runs once and the clock is bounded: the instance ends.
CHECK_DEADLOCK FALSE

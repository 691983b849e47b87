\* One wrapper, an unreliable transport, users that cancel, and an installer, which
\* may be forced to restart the daemon under a command.
SPECIFICATION IFairSpec
CONSTANTS
    w1 = w1
    w2 = w2
    r1 = r1
    r2 = r2
    g0 = g0
    None = None
    Root = 0
    Uid = {0, 1}
    RequestId = {r1}
    CardOrder <- OneCard
    Demands <- AnyCard
    Reservations = {None, 2}
    LeaseTTL = 2
    QueueTTL = 1
    MaxStall = 0
    MaxClock = 3
    Wrappers = {w1}
    Grabs = {}
    GrabFor = 2
    Owner <- OneOwner
    Margin = 1
    KillAfter = 0
    StartStall = 0
    Family = {"leader"}
    Faults = TRUE
PROPERTIES CanceledStops LostLeaseStops LapsedLeasesReclaimed OldCommandsSpared
\* The wrapper and the installer run once and the clock is bounded: the instance ends.
CHECK_DEADLOCK FALSE

\* A wrapper and a grab that want the same card, with an unreliable transport and canceling users.
\* KillAfter + MaxStall < Margin and KillAfter + StartStall < Margin.
SPECIFICATION WSpec
CONSTANTS
    w1 = w1
    w2 = w2
    r1 = r1
    r2 = r2
    g0 = g0
    None = None
    Root = 0
    Uid = {0, 1}
    RequestId = {r1, r2}
    CardOrder <- OneCard
    Demands <- OneOrTooMany
    Reservations = {None, 2}
    LeaseTTL = 4
    QueueTTL = 3
    MaxStall = 1
    MaxClock = 6
    Wrappers = {w1, w2}
    Grabs = {w2}
    GrabFor = 2
    Owner <- OneOwner
    Margin = 3
    KillAfter = 1
    StartStall = 1
    Family = {"leader"}
    Faults = TRUE
SYMMETRY RequestSymmetry
INVARIANTS ClientTypeOK HeldWhileRunning NothingLeftBehind
\* Every client runs once and the clock is bounded: the instance ends.
CHECK_DEADLOCK FALSE

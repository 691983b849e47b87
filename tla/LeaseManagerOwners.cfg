\* The administrator and one other user: who may end what, reservations and
\* cancellation, with a clock reading that may be one tick old.
SPECIFICATION Spec
CONSTANTS
    g0 = g0
    g1 = g1
    g2 = g2
    r1 = r1
    r2 = r2
    r3 = r3
    None = None
    Root = 0
    Uid = {0, 1}
    RequestId = {r1, r2}
    CardOrder <- TwoCards
    Demands <- CountDemands
    Reservations = {None, 0, 2}
    LeaseTTL = 1
    QueueTTL = 2
    MaxStall = 1
    MaxClock = 3
SYMMETRY RequestSymmetry
INVARIANTS TypeOK
PROPERTIES OnlyOwnerEnds FixedDeadlines

\* Starts and stops that overlap in any way, in part, or not at all; kills at any time.
SPECIFICATION Spec
CONSTANTS
    d1 = d1
    d2 = d2
    d3 = d3
    i1 = i1
    i2 = i2
    i3 = i3
    None = None
    Foreign = Foreign
    Daemon = {d1, d2, d3}
    Inode = {i1, i2, i3}
SYMMETRY Symmetry
INVARIANTS TypeOK ServingReachable
PROPERTIES StartSparesServing StopSparesServing StartRecovers
\* Every process runs once: the instance ends.
CHECK_DEADLOCK FALSE

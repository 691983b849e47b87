SPECIFICATION Spec
CONSTANTS
    i1 = i1
    i2 = i2
    v1 = v1
    v2 = v2
    e1 = e1
    Run = {i1, i2}
    Agents = 2
    Package = {v1, v2}
    Edit = {e1}
    None = None
    Dir = Dir
    Torn = Torn
SYMMETRY Symmetry
INVARIANTS WholeFiles RefusedInWhole DoneIsInstalled
PROPERTIES OnlyLateEditsLost
\* The runs end.
CHECK_DEADLOCK FALSE

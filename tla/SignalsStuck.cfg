SPECIFICATION FairSpec
CONSTANTS
    MaxSignals = 1
    AnyMoment = TRUE
PROPERTIES CanceledTerminates
\* The wrapper ends.
CHECK_DEADLOCK FALSE

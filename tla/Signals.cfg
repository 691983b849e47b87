SPECIFICATION FairSpec
CONSTANTS
    MaxSignals = 3
    AnyMoment = FALSE
INVARIANTS ActedOnAfterOnePoll
PROPERTIES SignalsActedOn CanceledTerminates
\* The wrapper ends.
CHECK_DEADLOCK FALSE

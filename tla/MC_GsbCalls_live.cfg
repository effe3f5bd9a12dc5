\* Two callers and one id, so that every second call overwrites the sink of
\* the first; the sink may fail and the actor may stop for other reasons;
\* the fairness of the actor's polling.
CONSTANTS
    Calls = {c1, c2}
    ReqIds = {i1}
    MaxParts = 1
    IdCollisions = TRUE
    Faults <- MCStopFaults
    NoCall = NoCall
SPECIFICATION FairSpec
PROPERTIES
    UnaryCallResolves
    StreamTerminates
CHECK_DEADLOCK FALSE

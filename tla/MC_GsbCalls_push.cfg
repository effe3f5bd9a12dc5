\* Two callers and two ids with a sink that may fail: a push after the failure.
CONSTANTS
    Calls = {c1, c2}
    ReqIds = {i1, i2}
    MaxParts = 1
    IdCollisions = FALSE
    Faults <- MCSinkFaults
    NoCall = NoCall
SPECIFICATION Spec
INVARIANT PushOkImpliesSent
CHECK_DEADLOCK FALSE

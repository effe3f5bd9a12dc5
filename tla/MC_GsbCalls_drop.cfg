\* Two callers and two ids with no faults: a unary call dropped before its reply.
CONSTANTS
    Calls = {c1, c2}
    ReqIds = {i1, i2}
    MaxParts = 1
    IdCollisions = FALSE
    Faults <- MCNoFaults
    NoCall = NoCall
SPECIFICATION Spec
INVARIANT DroppedCallHasNoEntry
CHECK_DEADLOCK FALSE

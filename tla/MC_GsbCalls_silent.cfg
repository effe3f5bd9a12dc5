\* The actor stops while a stream is open; the broker is honest.
CONSTANTS
    Calls = {c1, c2}
    ReqIds = {i1, i2}
    MaxParts = 1
    IdCollisions = FALSE
    Faults <- MCOtherStop
    NoCall = NoCall
SPECIFICATION Spec
INVARIANT StreamEndsWithTerminal
CHECK_DEADLOCK FALSE

\* One bad body sent as bytes to a typed slot, then further calls.
CONSTANTS
    Keys = {k1, k2}
    MaxOps = 3
SPECIFICATION Spec
INVARIANT
    GoodCallsNeverFail
CHECK_DEADLOCK FALSE

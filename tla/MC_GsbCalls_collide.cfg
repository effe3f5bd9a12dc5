\* One request id for two callers, with collisions allowed: gen_id repeats.
CONSTANTS
    Calls = {c1, c2}
    ReqIds = {i1}
    MaxParts = 1
    IdCollisions = TRUE
    Faults <- MCNoFaults
    NoCall = NoCall
SPECIFICATION Spec
INVARIANT ChunkToOwner
CHECK_DEADLOCK FALSE

\* Two callers, two ids that gen_id never repeats, one Partial chunk per
\* answer: enough for a call to be answered while another is in flight, for
\* a unary call to see a Partial first, and for every fault.
CONSTANTS
    Calls = {c1, c2}
    ReqIds = {i1, i2}
    MaxParts = 1
    IdCollisions = FALSE
    Faults <- MCAllCallFaults
    NoCall = NoCall
SYMMETRY MCCallSymmetry
SPECIFICATION Spec
INVARIANTS
    TypeOK
    ChunkToOwner
\* The callers are finitely many and the actor may stop.
CHECK_DEADLOCK FALSE

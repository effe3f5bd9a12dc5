\* Two keys, each bound raw or typed by either of two message types that
\* share an ID, rebound, and called through forward with either type and
\* through forward_bytes with good and bad bodies, over five calls: enough
\* for a forward to miss its own type, panic, and be followed by refusals.
CONSTANTS
    Keys = {k1, k2}
    MaxOps = 4
SYMMETRY MCSymmetry
SPECIFICATION Spec
INVARIANTS
    TypeOK
    RefusalsFollowUnwrapPanic
CHECK_DEADLOCK FALSE

\* Two served requests with up to one Part chunk each, one ping, and every
\* fault: a request may be served while the other is pushed, and the sink
\* may fail between two frames of one reply stream.
CONSTANTS
    ServedIds = {s1, s2}
    MaxParts = 1
    MaxPings = 1
    Faults <- MCAllServeFaults
SYMMETRY MCServeSymmetry
SPECIFICATION Spec
INVARIANTS
    TypeOK
    ServedRepliesWellFormed
CHECK_DEADLOCK FALSE

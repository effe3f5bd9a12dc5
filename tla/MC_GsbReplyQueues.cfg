\* Three waiters: two can share a queue while a third goes to another one.
CONSTANTS
    Waiters = {w1, w2, w3}
    NoWaiter = NoWaiter
    Faults <- MCHonestFaults
SYMMETRY MCSymmetry
SPECIFICATION Spec
INVARIANTS
    TypeOK
    ReplyMatchesRequest
    QueueAlignment
\* The connection stops, and the bounded set of waiters runs out.
CHECK_DEADLOCK FALSE

\* Three waiters with every broker and transport fault: the queues implement
\* GsbCommands under the mapping of GsbReplyQueues.
CONSTANTS
    Waiters = {w1, w2, w3}
    NoWaiter = NoWaiter
    Faults <- MCAllFaults
SYMMETRY MCSymmetry
SPECIFICATION Spec
PROPERTY ImplementsCommands
CHECK_DEADLOCK FALSE

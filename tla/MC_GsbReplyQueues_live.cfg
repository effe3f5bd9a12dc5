\* Every fault of the broker and the transport, under the fairness of the
\* actor's polling and of a broker that answers what it reads.  The same
\* instance checks that the queues implement GsbCommands.
CONSTANTS
    Waiters = {w1, w2}
    NoWaiter = NoWaiter
    Faults <- MCAllFaults
SPECIFICATION FairSpec
PROPERTIES
    WaiterResolves
    ImplementsCommands
CHECK_DEADLOCK FALSE

CONSTANTS
    Conns = {c1, c2}
    Reqs = {r1, r2}
    Addrs <- MCAddrs
    EndpointOf <- MCEndpointOf
    MaxChunks = 2
SPECIFICATION Spec
INVARIANT
    GoodRequestsNeverPanic
CHECK_DEADLOCK FALSE

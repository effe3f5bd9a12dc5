\* Every slot variant; a raw streaming handler answering with an error.
CONSTANTS
    Conns = {c1, c2}
    Reqs = {r1, r2}
    Addrs <- MCAddrs
    EndpointOf <- MCEndpointOf
    MaxChunks = 2
SPECIFICATION Spec
INVARIANT
    HandlerErrorReachesCaller
CHECK_DEADLOCK FALSE

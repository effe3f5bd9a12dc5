\* Two connections and two requests, each to any address, good or bad,
\* call or push, with a handler that succeeds or fails: one request can
\* poison the router while the other, on the same or the other connection,
\* is sent, handled or done.  Two chunks let a stream yield items before
\* it ends.
CONSTANTS
    Conns = {c1, c2}
    Reqs = {r1, r2}
    Addrs <- MCAddrs
    EndpointOf <- MCEndpointOf
    MaxChunks = 2
SPECIFICATION Spec
INVARIANTS
    TypeOK
    PanicsTraceToStreamDecode
CHECK_DEADLOCK FALSE

\* Bind, unbind and rebind: the Removes of an unbind future are sent after
\* the Add of a later bind of the same address.
CONSTANTS
    Prefixes <- MCPrefixes
    TypeIds <- MCTypeIds
    UnbindIds = {u1, u2}
    MaxQueue = 3
    AllowDrop = FALSE
SPECIFICATION Spec
INVARIANT
    BoundIsAdvertised
CHECK_DEADLOCK FALSE

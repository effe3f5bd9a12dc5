\* A raw slot bound at "/s" itself survives unbind("/s") and still catches
\* the forwards to "/s/T".
CONSTANTS
    Prefixes <- MCPrefixes
    TypeIds <- MCTypeIds
    UnbindIds = {u1, u2}
    MaxQueue = 3
    AllowDrop = FALSE
SPECIFICATION Spec
PROPERTY
    UnbindClearsSubtree
CHECK_DEADLOCK FALSE

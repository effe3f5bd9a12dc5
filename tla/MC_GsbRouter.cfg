\* Two nested prefixes and one type give four keys, two of them below "/s";
\* two unbind calls whose futures may be dropped; a mailbox of three messages,
\* enough for a bind and a rebind to sit around a Remove.
CONSTANTS
    Prefixes <- MCPrefixes
    TypeIds <- MCTypeIds
    UnbindIds = {u1, u2}
    MaxQueue = 3
    AllowDrop = TRUE
SPECIFICATION Spec
INVARIANTS
    TypeOK
    AdvertisedIsBound
CHECK_DEADLOCK FALSE

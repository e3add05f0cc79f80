SPECIFICATION DialSpec
CONSTANTS
    p1 = p1
    p2 = p2
    direct = direct
    x1 = x1
    x2 = x2
    Proxy = {p1, p2}
    Unparsable = {p2}
    Direct = direct
    Fetched <- MCFetched
    Exchange = {x1, x2}
    MaxFaults = 4
SYMMETRY Symmetry
INVARIANTS
    FailedTriedDirect
    WorkingHasConnected

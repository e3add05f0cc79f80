SPECIFICATION FeedSpec
CONSTANTS
    btc = btc
    m1 = m1
    Symbol = {btc}
    Interval = {m1}
    s1 = s1
    Stream = {s1}
    OneShot = {}
    Request <- MCRequest
    MaxPairs = 1
    NumExchanges = 2
    ChanCap = 1
    e1 = e1
    e2 = e2
    Exchange = {e1, e2}
    Pinged = {e1}
    MaxFaults = 1
INVARIANTS
    FlagsMatchConnection
    ListenerIsPinged
PROPERTIES
    ServesAfterFaults
    TrackedStreamSubscribed
CHECK_DEADLOCK FALSE

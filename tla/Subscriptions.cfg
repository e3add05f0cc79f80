SPECIFICATION Spec
CONSTANTS
    btc = btc
    eth = eth
    m1 = m1
    h1 = h1
    Symbol = {btc, eth}
    Interval = {m1, h1}
    s1 = s1
    s2 = s2
    g1 = g1
    Stream = {s1, s2}
    OneShot = {g1}
    Request <- MCRequest
    MaxPairs = 2
    NumExchanges = 2
    ChanCap = 3
SYMMETRY Symmetry
INVARIANTS
    TypeOK
    IntervalCountExact
    StreamCountExact

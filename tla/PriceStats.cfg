SPECIFICATION Spec
CONSTANTS
    c1 = c1
    c2 = c2
    c3 = c3
    c4 = c4
    r1 = r1
    r2 = r2
    Size = 3
    Minute = {1, 2}
    Volume = {1, 2}
    Call = {c1, c2, c3, c4}
    Reader = {r1, r2}
    Rows <- MCRows
SYMMETRY Symmetry
CHECK_DEADLOCK FALSE
INVARIANTS
    RingIsWindow
    VolumeIsWindowVolume
    WarmedOpenIsOldest

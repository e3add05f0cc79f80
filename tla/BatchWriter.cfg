SPECIFICATION FairSpec
CONSTANTS
    Candle = {c1, c2, c3, c4}
    Worker = {w1, w2}
    Stopper = stopper
    NoCandle = none
    ChanCap = 2
    BatchSize = 2
CHECK_DEADLOCK FALSE
INVARIANTS
    TypeOK
    NothingVanishes
    NoDuplicateRow
    BatchBound
PROPERTIES
    ImplementsLedger
    QueuedSettles

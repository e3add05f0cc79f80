SPECIFICATION Spec
CONSTANTS
    Piece = {"BTC", "EUR", "USD", "T", "C"}
    Symbol <- MCSymbol
    Minute <- MCMinute
    BatchLimit <- MCBatchLimit
    ServerZone = 120
    MaxLive = 2
INVARIANTS
    EveryStreamAsked
    FiledUnderItsStream
    PeriodsTile
    ZoneNeutral

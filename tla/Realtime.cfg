SPECIFICATION Spec
CONSTANTS
    binance = binance
    kraken = kraken
    Exchange = {binance, kraken}
    Closing = {binance}
    NumWindows = 2
    MaxUpdates = 2
CHECK_DEADLOCK FALSE
INVARIANTS
    ClosedCandleSound
    CloseIsPersisted
    FirstCloseIsWhole
    SoleContributorCurrent
    SomePriceIsCurrent

SPECIFICATION FairCacheSpec
CONSTANTS
    btc1m = btc1m
    btc5m = btc5m
    r1 = r1
    f1 = f1
    Market = {btc1m, btc5m}
    Derived = {btc5m}
    Reader = {r1}
    Flusher = {f1}
    Asked <- MCAsked
    DefaultLimit = 1
    MaxLimit = 3
    CacheLimit = 2
    MaxTime = 2
    MaxBatch = 2
INVARIANTS
    AnswerGenuine
    UncachedIsCurrent
PROPERTY
    EventuallyFresh

SPECIFICATION FairSpec
CONSTANTS
    btc = btc
    eth = eth
    sol = sol
    old = old
    h1 = h1
    Symbol = {btc, eth, sol, old}
    DefaultSymbols <- MCDefaults
    Popular <- MCPopular
    Lists <- MCLists
    Strategy = "popular"
    MaxSymbols = 2
    FallbackTop = 2
    AutoSubscribe = TRUE
    Forced = {h1}
    MaxChanges = 1
    MaxFailures = 1
INVARIANTS
    ReferencesBounded
    SubscribedWasListed
PROPERTY
    ListedIsSubscribed

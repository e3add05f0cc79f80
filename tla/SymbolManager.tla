----------------------------- MODULE SymbolManager -----------------------------
(***************************************************************************)
(* SymbolManager and SymbolFetcher: which symbols the service subscribes on  *)
(* its own account.                                                         *)
(*                                                                          *)
(* refreshAndSubscribe runs in Start and then once per RefreshInterval in    *)
(* the manager's goroutine, and in every HTTP handler that forces a refresh; *)
(* StartAutoRefresh fetches the list in a goroutine of its own, as handlers  *)
(* that only ask for the symbols may.  They share                           *)
(* the fetcher's list and the set subscribedSymbols, each behind an RWMutex  *)
(* that is held neither during a fetch nor during a subscription.           *)
(*                                                                          *)
(* SubscribeToInterval (module Subscriptions) is one step that adds a        *)
(* reference.  Its error, that no exchange aggregator is set, cannot happen: *)
(* main sets one before it creates the manager.                             *)
(***************************************************************************)
EXTENDS Naturals, Sequences, FiniteSets, SequencesExt, Positions

CONSTANTS
    Symbol,
    DefaultSymbols,   \* the curated list
    Popular,          \* the list of getPopularSymbols
    Strategy,         \* "all", "popular", "top_N", or anything else
    MaxSymbols,       \* for top_N
    FallbackTop,      \* for an unknown strategy: 50
    AutoSubscribe,    \* whether the list is refreshed periodically
    Forced,            \* HTTP requests that force a refresh
    Lists,            \* the lists the backend may give
    MaxChanges,       \* bound: changes of the backend's list
    MaxFailures       \* bound: fetches that fail

Refresher == {"manager"} \cup Forced      \* those that run refreshAndSubscribe
Fetcher == Refresher \cup {"auto"}

ASSUME SymbolLists ==
    /\ Lists \subseteq Seq(Symbol) \ {<<>>}
    /\ DefaultSymbols \in Seq(Symbol) \ {<<>>} /\ Popular \in Seq(Symbol)
ASSUME SymbolSizes == {MaxSymbols, FallbackTop, MaxChanges, MaxFailures} \subseteq Nat
ASSUME AutoSubscribeIsFlag == AutoSubscribe \in BOOLEAN
ASSUME RefreshersDistinct == IsFiniteSet(Forced) /\ Forced \cap {"manager", "auto"} = {}

VARIABLES
    backend,      \* the list the backend has now
    symbols,      \* SymbolFetcher.symbols
    fresh,        \* time.Since(lastFetch) < cacheTTL
    subscribed,   \* subscribedSymbols
    refs,         \* refs[s]: references SubscribeToInterval holds for the manager
    pc,           \* where each goroutine is
    todo,         \* per goroutine: the list it has fetched or works through
    started,      \* Start has returned
    ever,         \* symbols the backend ever listed
    changes, failures

smVars == <<backend, symbols, fresh, subscribed, refs, pc, todo, started, ever,
            changes, failures>>
counters == <<changes, failures>>

Init ==
    /\ backend \in Lists
    /\ symbols = DefaultSymbols
    /\ fresh = FALSE           \* lastFetch is the zero time
    /\ subscribed = {}
    /\ refs = [s \in Symbol |-> 0]
    /\ pc = [g \in Fetcher |-> IF g = "manager" THEN "get" ELSE "wait"]
    /\ todo = [g \in Fetcher |-> <<>>]
    /\ started = FALSE
    /\ ever = ToSet(backend)
    /\ changes = 0 /\ failures = 0

ToPc(g, l) == pc' = [pc EXCEPT ![g] = l]

\* getPopularSymbols: the popular symbols that are listed, in the order of the popular list.
Listed(l) == {i \in DOMAIN Popular : Popular[i] \in ToSet(l)}
PopularOf(l) == Kept(Popular, Listed(l))

\* applyStrategy.
Top(l, n) == IF Len(l) <= n THEN l ELSE SubSeq(l, 1, n)
ApplyStrategy(l) ==
    CASE Strategy = "all" -> l
      [] Strategy = "popular" -> PopularOf(l)
      [] Strategy = "top_N" -> Top(l, MaxSymbols)
      [] OTHER -> Top(l, FallbackTop)

\* refreshAndSubscribe has returned: Start with an error too.
Leave(g) ==
    /\ pc' = [pc EXCEPT ![g] = IF g \in Forced THEN "done" ELSE "idle"]
    /\ started' = (started \/ g = "manager")

\* The loop over the symbols begins; an empty list would be replaced by the defaults.
BeginLoop(g, l) ==
    LET chosen == ApplyStrategy(IF l = <<>> THEN DefaultSymbols ELSE l)
    IN  /\ todo' = [todo EXCEPT ![g] = chosen]
        /\ IF chosen = <<>> THEN Leave(g) ELSE ToPc(g, "check") /\ UNCHANGED started

\* A tick of periodicRefresh, of StartAutoRefresh (or its first fetch), and a request to
\* /api/v1/symbols/refresh.
Tick(g) ==
    /\ started
    /\ g = "auto" \/ (g = "manager" /\ AutoSubscribe)
    /\ pc[g] \in {"idle", "wait"}
    /\ ToPc(g, IF g = "auto" THEN "fetch" ELSE "get")
    /\ UNCHANGED <<backend, symbols, fresh, subscribed, refs, todo, started, ever, counters>>

ForceRefresh(g) ==
    /\ started
    /\ g \in Forced
    /\ pc[g] = "wait"
    /\ ToPc(g, "get")
    /\ UNCHANGED <<backend, symbols, fresh, subscribed, refs, todo, started, ever, counters>>

\* GetSymbols: a copy of the list if it is recent, otherwise a fetch.
GetSymbols(g) ==
    /\ pc[g] = "get"
    /\ IF fresh /\ symbols # <<>>
       THEN BeginLoop(g, symbols)
       ELSE ToPc(g, "fetch") /\ UNCHANGED <<todo, started>>
    /\ UNCHANGED <<backend, symbols, fresh, subscribed, refs, ever, counters>>

\* FetchSymbols: the backend's answer is in ...
FetchAnswered(g) ==
    /\ pc[g] = "fetch"
    /\ todo' = [todo EXCEPT ![g] = backend]
    /\ ToPc(g, "put")
    /\ UNCHANGED <<backend, symbols, fresh, subscribed, refs, started, ever, counters>>

FetchFailsQuietly(g) ==     \* mutant: the cached symbols without the error
    /\ pc[g] = "fetch"
    /\ failures < MaxFailures
    /\ failures' = failures + 1
    /\ IF g = "auto" THEN ToPc(g, "idle") /\ UNCHANGED <<todo, started>> ELSE BeginLoop(g, symbols)
    /\ UNCHANGED <<backend, symbols, fresh, subscribed, refs, ever, changes>>

\* ... or the call fails (transport, status, body, or an empty list): the cached symbols
\* are returned with an error, for which every caller drops them.
FetchFails(g) ==
    /\ pc[g] = "fetch"
    /\ failures < MaxFailures
    /\ failures' = failures + 1
    /\ Leave(g)
    /\ UNCHANGED <<backend, symbols, fresh, subscribed, refs, todo, ever, changes>>

StoreSymbolsKeepsOld(g) ==      \* mutant: only the time of the fetch is stored
    /\ pc[g] = "put"
    /\ fresh' = TRUE
    /\ IF g = "auto" THEN ToPc(g, "idle") /\ UNCHANGED <<todo, started>> ELSE BeginLoop(g, todo[g])
    /\ UNCHANGED <<backend, symbols, subscribed, refs, ever, counters>>

\* The update of the fetcher's cache, under its lock.
StoreSymbols(g) ==
    /\ pc[g] = "put"
    /\ symbols' = todo[g]
    /\ fresh' = TRUE
    /\ IF g = "auto" THEN ToPc(g, "idle") /\ UNCHANGED <<todo, started>> ELSE BeginLoop(g, todo[g])
    /\ UNCHANGED <<backend, subscribed, refs, ever, counters>>

\* The next symbol of the loop, or its end.
NextSymbol(g) ==
    /\ todo' = [todo EXCEPT ![g] = Tail(@)]
    /\ IF Len(todo[g]) = 1 THEN Leave(g) ELSE ToPc(g, "check") /\ UNCHANGED started

\* alreadySubscribed, read under the read lock.
Check(g) ==
    /\ pc[g] = "check"
    /\ IF Head(todo[g]) \in subscribed
       THEN NextSymbol(g)
       ELSE ToPc(g, "call") /\ UNCHANGED <<todo, started>>
    /\ UNCHANGED <<backend, symbols, fresh, subscribed, refs, ever, counters>>

\* SubscribeToInterval(symbol, "1m").
Subscribe(g) ==
    /\ pc[g] = "call"
    /\ refs' = [refs EXCEPT ![Head(todo[g])] = @ + 1]
    /\ ToPc(g, "mark")
    /\ UNCHANGED <<backend, symbols, fresh, subscribed, todo, started, ever, counters>>

\* subscribedSymbols[symbol] = true, under the lock.
MarkLost(g) ==      \* mutant: the symbol is not marked
    /\ pc[g] = "mark"
    /\ NextSymbol(g)
    /\ UNCHANGED <<backend, symbols, fresh, subscribed, refs, ever, counters>>

Mark(g) ==
    /\ pc[g] = "mark"
    /\ subscribed' = subscribed \cup {Head(todo[g])}
    /\ NextSymbol(g)
    /\ UNCHANGED <<backend, symbols, fresh, refs, ever, counters>>

\* The backend lists other symbols.
BackendChanges(l) ==
    /\ changes < MaxChanges
    /\ changes' = changes + 1
    /\ backend' = l
    /\ ever' = ever \cup ToSet(l)
    /\ UNCHANGED <<symbols, fresh, subscribed, refs, pc, todo, started, failures>>

\* An hour has passed since the last fetch.
CacheAges ==
    /\ fresh
    /\ fresh' = FALSE
    /\ UNCHANGED <<backend, symbols, subscribed, refs, pc, todo, started, ever, counters>>

Step(g) ==
    \/ GetSymbols(g) \/ FetchAnswered(g) \/ FetchFails(g) \/ StoreSymbols(g)
    \/ Check(g) \/ Subscribe(g) \/ Mark(g)

Next ==
    \/ \E g \in Fetcher : Step(g) \/ Tick(g)
    \/ \E g \in Forced : ForceRefresh(g)
    \/ \E l \in Lists : BackendChanges(l)
    \/ CacheAges

Spec == Init /\ [][Next]_smVars

\* Goroutines run and the two tickers tick.  Nothing is assumed of the HTTP clients.
FairSpec ==
    Spec /\ \A g \in Fetcher : WF_smVars(Step(g)) /\ WF_smVars(Tick(g))

--------------------------------------------------------------------------------

\* The types of the fetcher, the manager and the goroutines.
TypeOK ==
    /\ backend \in Lists /\ symbols \in Lists \cup {DefaultSymbols}
    /\ fresh \in BOOLEAN /\ started \in BOOLEAN
    /\ subscribed \subseteq Symbol /\ ever \subseteq Symbol
    /\ refs \in [Symbol -> Nat]
    /\ \A g \in Fetcher :
          /\ pc[g] \in {"wait", "idle", "get", "fetch", "put", "check", "call", "mark", "done"}
          /\ todo[g] \in Seq(Symbol)
          /\ pc[g] \in {"check", "call", "mark"} => Len(todo[g]) \in 1..Cardinality(Symbol)
    /\ changes \in 0..MaxChanges /\ failures \in 0..MaxFailures

\* refreshAndSubscribe overlapping with itself: however refreshes interleave, each takes at
\* most one reference of a symbol, and no reference is taken that is not marked, or about
\* to be, by the goroutine that took it.
ReferencesBounded ==
    \A s \in Symbol :
        /\ refs[s] <= Cardinality(Refresher)
        /\ refs[s] > 0 <=> \/ s \in subscribed
                           \/ \E g \in Refresher : pc[g] = "mark" /\ Head(todo[g]) = s

\* refreshAndSubscribe, FetchSymbols: failed fetches, a stale cache and the built-in list
\* notwithstanding, only symbols the backend has listed are subscribed.
SubscribedWasListed == subscribed \subseteq ever

\* periodicRefresh and StartAutoRefresh: once the backend's list stays as it is, all the
\* symbols the strategy picks from it come to be subscribed.
\* (changes and failures are bounded, so both come to an end.)
ListedIsSubscribed == <>[](ToSet(ApplyStrategy(backend)) \subseteq subscribed)
================================================================================

------------------------------ MODULE CandleCache ------------------------------
(***************************************************************************)
(* candle.Service in front of the candles table: the read-through Redis     *)
(* cache of GetCandles and GetLatestCandle and its invalidation by          *)
(* BatchCreateCandles.                                                      *)
(*                                                                          *)
(* A market is a symbol and an interval; table[m] is the set of the open    *)
(* times of its rows, which come in any order and all have the source       *)
(* "aggregated", the only one the program writes.  Several rows may have    *)
(* one open time; a list then has fewer open times than its limit, which    *)
(* Lists allows.  One-minute candles are written by flushBatch through the  *)
(* service; the candles of the derived intervals are written by the         *)
(* interval aggregator straight to the repository, past the cache.  A call  *)
(* that reads the cache, then the database, then fills the cache overlaps   *)
(* with all of them.                                                        *)
(*                                                                          *)
(* An answer is the set of the open times in it; the repository returns     *)
(* them in chronological order.  An empty answer is stored as the JSON      *)
(* null, which Get reads as nil, a miss: the entry {} stands for that and   *)
(* for no entry.  The contract type is always spot.                         *)
(***************************************************************************)
EXTENDS Integers, Sequences, FiniteSets

CONSTANTS
    Market,        \* pairs of symbol and interval
    Derived,       \* those of them whose interval is not 1m
    Reader,        \* clients with one call after the other
    Flusher,       \* workers that run flushBatch
    Asked,         \* the requests of the clients
    DefaultLimit, MaxLimit,     \* DefaultCandlesLimit, MaxCandlesLimit
    CacheLimit,    \* largest limit that is cached, 100
    MaxTime,       \* bound: open times
    MaxBatch       \* bound: candles in a batch

Source == {"", "aggregated", "binance"}
ASSUME CacheRequests ==
    /\ Asked \subseteq [kind : {"list", "latest"}, market : Market, source : Source,
                        limit : Int, start : Nat, end : Nat]
    /\ Asked # {}
ASSUME CacheSizes ==
    /\ Derived \subseteq Market
    /\ MaxLimit \in Nat /\ DefaultLimit \in 1..MaxLimit /\ CacheLimit \in Nat
    /\ MaxTime \in Nat \ {0} /\ MaxBatch \in Nat

VARIABLES
    table,     \* table[m]: the open times in the table
    mem,       \* mem[m]: open time of the candle in memory, 0 for nil
    cache,     \* cache[k]: the answer stored under a key
    pc, asked, got,     \* per reader: position, request, answer
    since,     \* per reader: rows of its market when it asked past the cache
    pending    \* per flusher: the keys it still has to delete

ccVars == <<table, mem, cache, pc, asked, got, since, pending>>

Time == 1..MaxTime
Error == {0}       \* no candle has the open time 0
Key == {"list", "latest"} \X Market \X Source

CacheInit ==
    /\ table \in [Market -> SUBSET {1}]
    /\ mem = [m \in Market |-> 0]
    /\ cache = [k \in Key |-> {}]
    /\ pc = [r \in Reader |-> "idle"]
    /\ asked = [r \in Reader |-> CHOOSE q \in Asked : TRUE]
    /\ got = [r \in Reader |-> {}]
    /\ since = [r \in Reader |-> {}]
    /\ pending = [f \in Flusher |-> <<>>]

\* The sources that make the repository leave the source out of its query.
AnySource == {"", "aggregated"}

\* The limit after "Apply limits".
LimitOf(q) ==
    IF q.limit <= 0 THEN DefaultLimit ELSE IF q.limit > MaxLimit THEN MaxLimit ELSE q.limit

\* Only requests without a time range and with a small limit use the cache.
CacheableAnyLimit(q) == q.start = 0 /\ q.end = 0     \* mutant: large limits too
Cacheable(q) == q.start = 0 /\ q.end = 0 /\ LimitOf(q) <= CacheLimit

\* A list that has to come from the database.
Bypasses(q) == q.kind = "list" /\ (q.start # 0 \/ q.end # 0 \/ LimitOf(q) > CacheLimit)

\* The cache key of a request: neither the limit nor the time range is in it.
KeyWithoutSource(q) == <<q.kind, q.market, "">>      \* mutant
KeyOf(q) == <<q.kind, q.market, q.source>>

\* The rows of T that a request is about.
InRange(T, q) ==
    {t \in T : q.source \in AnySource /\ t >= q.start /\ (q.end = 0 \/ t < q.end)}

\* GetCandles of the repository: the newest rows of the range, at most limit of them.
\* The loop ends when rows.Next() is false and no rows.Err() is asked for: a read that
\* breaks off gives the rows read so far, the newest ones or none, without an error.
Lists(T, q) ==
    {A \in SUBSET InRange(T, q) :
        /\ Cardinality(A) <= LimitOf(q)
        /\ \A t \in A, u \in InRange(T, q) : u > t => u \in A}

\* GetLatestCandle of the repository: the newest row.
Latest(T, q) == {A \in Lists(T, [q EXCEPT !.limit = 1]) : A # {}}

ToPc(r, l) == pc' = [pc EXCEPT ![r] = l]
Reply(r, a) == got' = [got EXCEPT ![r] = a]

\* A request arrives at GetCandles or GetLatestCandle.
Ask(r, q) ==
    /\ pc[r] = "idle"
    /\ asked' = [asked EXCEPT ![r] = q]
    /\ since' = [since EXCEPT ![r] = IF Bypasses(q) THEN table[q.market] ELSE {}]
    /\ Reply(r, {})
    /\ ToPc(r, IF q.kind = "latest" THEN "memory" ELSE IF Cacheable(q) THEN "get" ELSE "query")
    /\ UNCHANGED <<table, mem, cache, pending>>

\* GetLatestCandle, priority 1: the candle in memory, which is cached as well.
MemoryHit(r) ==
    /\ pc[r] = "memory"
    /\ asked[r].source \in AnySource
    /\ mem[asked[r].market] # 0
    /\ Reply(r, {mem[asked[r].market]})
    /\ ToPc(r, "fill")
    /\ UNCHANGED <<table, mem, cache, asked, since, pending>>

\* Another source, or nothing in memory; the latter may also happen when an older
\* candle was there before, while a new live candle has no aggregate.
MemoryMiss(r) ==
    /\ pc[r] = "memory"
    /\ ToPc(r, "get")
    /\ UNCHANGED <<table, mem, cache, asked, got, since, pending>>

CacheHitRefills(r) ==     \* mutant: the answer of a hit is stored again
    /\ pc[r] = "get"
    /\ cache[KeyOf(asked[r])] # {}
    /\ Reply(r, cache[KeyOf(asked[r])])
    /\ ToPc(r, "fill")
    /\ UNCHANGED <<table, mem, cache, asked, since, pending>>

\* cache.Get or GetLatest finds an entry ...
CacheHit(r) ==
    /\ pc[r] = "get"
    /\ cache[KeyOf(asked[r])] # {}
    /\ Reply(r, cache[KeyOf(asked[r])])
    /\ ToPc(r, "idle")
    /\ UNCHANGED <<table, mem, cache, asked, since, pending>>

\* ... or none, or Redis fails, which is treated alike.
CacheMiss(r) ==
    /\ pc[r] = "get"
    /\ ToPc(r, "query")
    /\ UNCHANGED <<table, mem, cache, asked, got, since, pending>>

\* The repository answers with a list, complete or not, or with the newest row ...
QueryDatabase(r) ==
    /\ pc[r] = "query"
    /\ LET q == asked[r]
           T == table[q.market]
       IN  /\ \E A \in IF q.kind = "list" THEN Lists(T, q) ELSE Latest(T, q) : Reply(r, A)
           /\ ToPc(r, IF q.kind = "list" /\ ~Cacheable(q) THEN "idle" ELSE "fill")
    /\ UNCHANGED <<table, mem, cache, asked, since, pending>>

\* ... or with an error: of Query or Scan, or of a QueryRow that finds no row.
QueryFails(r) ==
    /\ pc[r] = "query"
    /\ Reply(r, Error)
    /\ ToPc(r, "idle")
    /\ UNCHANGED <<table, mem, cache, asked, since, pending>>

\* cache.Set or SetLatest, whose error is ignored; the answer goes to the client.
Fill(r) ==
    /\ pc[r] = "fill"
    /\ ToPc(r, "idle")
    /\ \/ cache' = [cache EXCEPT ![KeyOf(asked[r])] = got[r]]
       \/ UNCHANGED cache
    /\ UNCHANGED <<table, mem, asked, got, since, pending>>

\* The aggregators put another candle in memory.  They compare no open times, neither
\* with the candle there nor with the table: it may be older than both.
LiveCandle(m, t) ==
    /\ mem' = [mem EXCEPT ![m] = t]
    /\ UNCHANGED <<table, cache, pc, asked, got, since, pending>>

\* The keys BatchCreateCandles deletes for a batch of n candles of a market: for
\* each candle those with the candle's own source.
Invalidated(m, n) ==
    [i \in 1..(2 * n) |-> <<IF i % 2 = 1 THEN "list" ELSE "latest", m, "aggregated">>]

\* BatchCreateCandles, the insert of a batch of closed 1m candles, in the order they were
\* queued (when it fails the service returns and nothing has changed) ...
InsertBatch(f, m, S) ==
    /\ pending[f] = <<>>
    /\ table' = [table EXCEPT ![m] = @ \cup S]
    /\ pending' = [pending EXCEPT ![f] = Invalidated(m, Cardinality(S))]
    /\ UNCHANGED <<mem, cache, pc, asked, got, since>>

\* ... and cache.Delete of one key, whose error is ignored.
DeleteKey(f) ==
    /\ pending[f] # <<>>
    /\ pending' = [pending EXCEPT ![f] = Tail(@)]
    /\ \/ cache' = [cache EXCEPT ![Head(pending[f])] = {}]
       \/ UNCHANGED cache
    /\ UNCHANGED <<table, mem, pc, asked, got, since>>

\* The interval aggregator inserts a candle of a derived interval.
InsertDerived(m, t) ==
    /\ table' = [table EXCEPT ![m] = @ \cup {t}]
    /\ UNCHANGED <<mem, cache, pc, asked, got, since, pending>>

\* Redis drops an entry whose time to live, CandleTTL or 5 s, has passed.
Expire(k) ==
    /\ cache[k] # {}
    /\ cache' = [cache EXCEPT ![k] = {}]
    /\ UNCHANGED <<table, mem, pc, asked, got, since, pending>>

\* What a batch can hold.
Batches == {S \in SUBSET Time : S # {} /\ Cardinality(S) <= MaxBatch}

ReaderStep(r) ==
    \/ \E q \in Asked : Ask(r, q)
    \/ MemoryHit(r) \/ MemoryMiss(r) \/ CacheHit(r) \/ CacheMiss(r)
    \/ QueryDatabase(r) \/ QueryFails(r) \/ Fill(r)

CacheNext ==
    \/ \E r \in Reader : ReaderStep(r)
    \/ \E m \in Market, t \in Time : LiveCandle(m, t)
    \/ \E f \in Flusher, m \in Market \ Derived, S \in Batches : InsertBatch(f, m, S)
    \/ \E f \in Flusher : DeleteKey(f)
    \/ \E m \in Derived, t \in Time : InsertDerived(m, t)
    \/ \E k \in Key : Expire(k)

CacheSpec == CacheInit /\ [][CacheNext]_ccVars

\* Entries do expire; nothing is assumed of clients, writers or the exchanges.
FairCacheSpec == CacheSpec /\ \A k \in Key : WF_ccVars(Expire(k))

--------------------------------------------------------------------------------

Answered(r) == pc[r] = "idle" /\ got[r] \notin {{}, Error}

\* GetCandles, GetLatestCandle: whatever overtakes what, no client gets what another one
\* asked for, but for the limit, which the cache key leaves out.  A list has only rows of
\* the market, source and time range asked for; past the cache it has at most as many as
\* asked for, from the cache at most the largest limit that is cached, as another client
\* may have filled it.  A latest candle is one candle, of a source that has candles.
AnswerGenuine ==
    \A r \in Reader : Answered(r) =>
        LET q == asked[r]
        IN  /\ q.kind = "list" =>
                  /\ got[r] \subseteq InRange(table[q.market], q)
                  /\ Cardinality(got[r]) <= IF Bypasses(q) THEN LimitOf(q) ELSE CacheLimit
            /\ q.kind = "latest" => q.source \in AnySource /\ Cardinality(got[r]) = 1

\* GetCandles: a list for a request with a time range or a large limit has no hole, however
\* stale the cache is: of the rows of its range that were in the table when it was made,
\* it has every one from the oldest in the list on, the newest included.  (It may lack
\* older ones, or all, as a read that broke off is returned as a success.)
UncachedIsCurrent ==
    \A r \in Reader : Answered(r) /\ Bypasses(asked[r]) =>
        \A a \in got[r], t \in InRange(since[r], asked[r]) : t > a => t \in got[r]

\* An entry is stale when the table has a row that it lacks, newer than one it has.
Stale(k) == \E a \in cache[k], t \in table[k[2]] : t > a /\ t \notin cache[k]
StaleOf(kind) == \E k \in Key : k[1] = kind /\ Stale(k)
MemoryBehind == \E m \in Market : mem[m] # 0 /\ \E t \in table[m] : t > mem[m]

\* Cache and table, which no transaction holds together: with invalidations missed, lost
\* or overtaken by a fill from an older query, the cache is stale, but once no row is new
\* it does not stay so; the time to live repairs what Delete cannot.  That is so of the
\* lists; GetLatestCandle fills its key from memory first, so a latest candle is fresh
\* in the end only if the candles in memory are not behind the table.
EventuallyFresh ==
    /\ <>[]~StaleOf("list")
    /\ <>[]~MemoryBehind => <>[]~StaleOf("latest")
================================================================================

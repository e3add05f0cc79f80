# Formal models of nyyu-market

nyyu-market collects candles from six exchanges over websockets, aggregates them
into candles of its own, keeps them in ClickHouse and Redis and serves them over
gRPC and HTTP.  Nearly all of its difficulty is concurrency inside one Go process:
goroutines per exchange, per message and per request share maps, channels and
caches with little locking, and connections fail and are retried.  This directory
holds TLA+ modules of those parts, TLC configurations that check them on small
instances, and TLAPS proofs, for every instance, of all the safety properties among them.

Paths below are relative to `src/`; `agg/` stands for
`internal/services/aggregator/`.

## 1. The system

| Part | Source | State | Operations | Interacts with |
|---|---|---|---|---|
| Subscription registry | `agg/exchange_aggregator.go`, `internal/grpc/candle_handler.go` | `subscriptions`, `activeStreams` (reference counts, one mutex each), `reconnectChan` | SubscribeToInterval, UnsubscribeFromInterval, TriggerReconnectAll | gRPC handlers call it in pairs or alone; managers read `activeStreams` and receive the signals |
| Exchange managers | `agg/exchange_aggregator.go` | per exchange: connection, isHealthy, isConnecting, isSubscribed, backoffUntil, lastUpdate | manageExchangeConnection, connectExchange, subscribeX, listenExchange, sendPeriodicPing, handleConnectionError | registry, proxy service, rate limiter, real-time aggregator |
| Exchange handlers | `agg/exchange_handlers.go`, `agg/exchange_helpers.go` | none of their own | subscribeX: names and batches; processXMessage; interval tables | read `activeStreams`, write to the connection, call ProcessCandleUpdate |
| Backoff | `agg/rate_limiter.go` | backoffDuration, lastRateLimitHit, failureCount | Wait, RecordRateLimitHit, RecordSuccess, circuit breaker | inside connectExchange |
| Batch writer | `agg/exchange_aggregator.go` | `candleBatchChan`, `currentBatch` | five workers, flushBatch, Stop | fed by the real-time aggregator, writes through the candle service |
| Real-time aggregator | `agg/realtime_candle_aggregator.go` | live candles, per-exchange data, aggregate, latest candle, prices | ProcessCandleUpdate, aggregateLiveCandle, updateLivePrice, handleClosedCandle, GetLatestCandle | called by all listening goroutines; feeds batch writer, interval aggregator, price statistics |
| Interval aggregator | `agg/interval_aggregator.go` | building candles per period, last completed candle, `batchChan` | Process1mCandle, batchWriter, buildHistoricalInterval, GetLastCompletedCandle, Stop | one goroutine per published 1m candle |
| 24h statistics | `internal/services/candle/streaming_price_calculator.go` | ring buffer of 1440 candles, running sums, open | ProcessCandle, Get24hStats, warmupSymbol | one goroutine per published 1m candle, price requests |
| Candle service and cache | `internal/services/candle/candle_service.go`, `internal/cache/candle_cache.go`, `internal/repository/candle_repository.go` | rows, cache entries with a time to live | GetCandles, GetLatestCandle, BatchCreateCandles | clients, batch writer; the interval aggregator writes past it |
| Symbols | `internal/services/symbols/` | fetched list, subscribedSymbols | GetSymbols, FetchSymbols, refreshAndSubscribe, ForceRefresh, tickers | subscribes in the registry |
| Proxies | `internal/proxy/proxy_service.go` | list, working proxy | fetchProxies, GetProxyListWithWorkingFirst, SetWorkingProxy, dialWithProxy | dials of all managers |
| Others | mark price service, price cache, Redis publisher, importer, servers, configuration | | | see section 8 |

What is hard in it:

* **Two locks for one fact.** The two reference counts, the list and the working
  proxy, the symbol list and the set of subscribed symbols are each updated in
  sections that others interleave with.
* **Goroutines that overtake one another.** 1m candles are handed on by `go`
  statements, so Process1mCandle and ProcessCandle see them in any order;
  handlers of different exchanges compute outside the locks they store under.
* **Shared, lossy signals.** `reconnectChan` and the two batch channels are sent to
  without blocking; one signal serves one manager, whichever takes it.
* **Timeouts around waits.** A rate limiter's wait inside a 10 s context, a delayed
  delete, a cache entry's time to live.
* **Stopping.** Channels are closed and flushed while producers still run.
* **Translations there and back.** Symbols and intervals are renamed for six exchanges
  and back, and times carry the location they were made in.

PROJECT.json lists 40 such hazards with the line where each bites and the properties
that would catch it, or why none does.

## 2. Modules and how they correspond to the code

An action is one atomic section of the code: what is done under one lock, one
operation on a `sync.Map`, one channel operation, one call to the outside.
Definitions keep the names of the Go functions; PROJECT.json maps each to its lines.
Definitions marked *mutant* are deliberate mistakes, used to show that the properties
can fail.

* **Subscriptions.** Callers are the streaming handlers (subscribe each pair of the
  request, serve, unsubscribe each) and the one-shot handlers (subscribe only).
  CountInterval/CountStream/Signal are the three sections of SubscribeToInterval,
  UncountInterval/UncountStream those of UnsubscribeFromInterval.  A missing map
  entry is the count 0.
* **ExchangeFeed** extends Subscriptions: the managers take the signals the registry
  sends and read the streams it counts.  Times are Booleans (in backoff, connected
  less than 5 s ago, message within 60 s).  Peers may go quiet without failing.  The
  ping goroutines of OKX are counted by what they are about to do: wait for the next
  tick, write to the current connection, or write to one that has been closed since
  they loaded it.  Two writers on one websocket may panic (WritesCollide, a property of
  the library); then the program has ended.  The limiter's backoff is one Boolean:
  `locked` says that it has become as long as the 10 s of the wait, which a failed
  subscribe call may bring about (WriteFails) and which makes every later wait time out
  (WaitTimesOut).  That it is so, and never ends, is ConnectionBackoff's.
* **ExchangeWire.** From `activeStreams` to the key of a live candle, one connection
  after the other: what subscribeX asks for (names, order of a map iteration, batches),
  what an exchange that lists the symbol answers, and what processXMessage makes of it.
  A symbol is a sequence of pieces such as BTC, USD and T with a letter case, so that
  ReplaceAll and cutting off letters act on it as on text: the T of a USDT is left out,
  a T is put in behind a USD, a separator is put where so many letters are left.
* **IntervalClock.** getIntervalOpenTime and intervalToDuration on minutes since the epoch;
  the calendar of Go's `time` package for 1970 to 2099.  The location of the Go time is a
  fixed offset from UTC: `time.Date` with `t.Location()` also knows daylight saving time,
  which is not modelled (the Docker image runs in UTC).
* **ConnectionBackoff.** One manager with the real durations: the quadratic delay of
  the circuit breaker and the limiter's 1.5x / 0.9x backoff in milliseconds, inside
  the 10 s context.  When backoff and timeout are equal the context's timer, created
  first, wins, so the wait needs `backoffDuration < WaitTimeout`.
* **CandleLedger** is the abstract promise of the batch writer: a closed candle is
  new, accepted, stored or lost, batches settle as a whole and fates are final.
  **CandleBatchWriter** is the implementation: bounded channel, workers, shared
  batch, failing inserts, Stop.  The refinement mapping
  is `candleFate`: `INSTANCE CandleLedger WITH fate <- candleFate`.
* **RealtimeAggregator.** One symbol, interval 1m.  A live candle is an object, so a
  goroutine may go on with one that has been deleted from the map.  An aggregate is
  the set of updates it was computed from.  The three effects of handleClosedCandle are
  three steps (StoreLatest, OfferClosed, StartDelete), the delayed delete a fourth.
  Updates come in any order of windows; Closing are the exchanges whose messages can
  report a closed candle.
* **IntervalAggregator.** One symbol, one derived interval.  A call is a 1m candle,
  identified by minute and version; the history variable `overlap` tells whether
  calls have overtaken one another yet.  The last completed candle is its period,
  the queues of the writer are lengths: no property tells more apart.  The rows of a
  rebuild are remembered (`histRows`) while a query is under way, which may return them.
* **PriceStats.** The ring buffer of one symbol and its replacement by warm-ups.
  `hist` is a history variable with everything put into an object.
* **CandleCache.** `table` has the open times of a market's rows, inserted in any order;
  an answer is a set of open times.  Requests carry kind, source, limit and range; every
  Redis operation may fail.  A list query gives the newest rows of its range or, because
  the loop in candle_repository.go:73 ends without asking for `rows.Err()`, the newest few
  of them or none (Lists); a query may also fail with an error.  The candle in memory
  (LiveCandle) is any one, older than the last or than the table's too.
* **SymbolManager.** Fetcher and manager with their locks; a subscription is one step
  here, Subscriptions has the details.  Three goroutines run refreshes or fetches.
* **ProxyDial.** The list, the working proxy, and managers that walk through a copy
  (`stage` says where each is).  URLs that pass the validity test and fail to parse are a
  constant.
* **Positions.** What a filtering loop keeps of a list, by positions (the n-th position
  whose entry passes) because nothing can be proved of SelectSeq: getPopularSymbols in
  SymbolManager, parseProxyList and GetProxyListWithWorkingFirst in ProxyDial, the text
  operations of ExchangeWire.

`MC*` modules give the constants their small values.  `*Proofs` modules hold
theorems: ExchangeFeedProofs about the registry and the managers composed with it,
CandleStorageProofs about the batch writer and the cache, FetchedListsProofs about symbols
and proxies, ExchangeWireProofs about handlers and clock, the others about the module
they are named after.  Where two specifications meet in one proofs module, that of
CandleCache and ProxyDial is called CacheSpec and DialSpec.

## 3. Runs

Deadlock checking is off where a model has finitely many inputs and then stops.

| Run | Checks | Instance |
|---|---|---|
| Subscriptions | both maps count exactly the references held | 2 streaming and 1 one-shot caller, 2 symbols, 2 intervals, requests of one pair, two pairs and a repeated pair |
| ExchangeFeed | manager flags fit its position and connection; while OKX is listened to somebody pings it; once faults end every exchange serves unless its own limiter is locked; an attempt subscribes what was tracked when it began | 2 exchanges, one of them pinged, 1 client, channel of 1, one fault |
| FeedNewStream | *violated*: a tracked stream reaches every exchange | as above, no fault needed |
| BatchWriter | nothing vanishes, nothing is inserted twice, growth bound of the batch, refinement of CandleLedger, queued candles settle | 4 candles, 2 workers and Stop, channel and batches of 2 |
| Realtime | a persisted close holds the closing update; every valid close is persisted; until its first close is out a window is in one live candle, whatever the delayed deletes do; a single contributor's aggregate is current; the published price has the newest price of some exchange | 2 exchanges, one of which (as Binance does and Kraken does not) reports closed candles, 2 windows in any order, 2 updates each |
| Interval | periods complete only when over and with minutes of their own; without overlap each is completed once, in order, whole; queue is flushed | 3 periods (2+2+1 minutes), one overtaken call at a time, one historical rebuild, Stop |
| Backoff | range of the backoff; from 10 s on it is final; serves or is locked | real durations, 12 faults |
| PriceStats | ring is the sliding window; running volume is the window's; open of warmed stats is the oldest | 3 slots, 4 candles, 2 warm-ups |
| CandleCache | lists have only rows of what was asked for, within their bound; lists past the cache have no hole; once no row is new the lists cached are fresh in the end, latest candles too if memory is not behind the table | a 1m and a derived market, 2 open times, 1 batch writer, 1 client, 7 requests, two of them for different limits under one key |
| SymbolManager | one reference per refresher, taken for a mark; only listed symbols; listed symbols are subscribed in the end | periodic, forced and automatic refresh, one list change, one failure |
| ProxyDial | a failed dial has tried the direct path; the working proxy has connected | 2 proxies, one of them unparsable, 2 managers, 4 failures each |
| ExchangeWire | every tracked stream is asked for, in requests within the limit; candles are filed under the stream's symbol and interval; periods hold their minutes and do not overlap; where the zone of a candle does not matter | 6 exchanges; BTCUSDT, USDCUSDT, BTCEUR; minutes on 31 January, at the ends of February and of a week in 2024; requests of 1 or 2 names; server at UTC+2; 2 live candles |

**Why the bounds are enough.** Each interaction in question is between two parties
(two exchanges, two callers, a worker and Stop, a client and a writer), so two of
each kind meet in every order; the third caller, third period, third slot and fourth
candle make limits (flush size, wrap-around, completing a second period) be passed
and not only reached.  Capacities are far below the real ones (1 to 3 instead of 10
and 10000) so that full channels occur.  Counters that would grow for ever are bounded
by named constants: MaxFaults, MaxUpdates, MaxVersion, MaxHistory, MaxOvertaken,
MaxTime, MaxBatch, MaxChanges, MaxFailures,
MaxLive.  The number of ping goroutines is bounded by that of the connections, and so by
MaxFaults.  The proofs of section 5 remove the bounds
on callers, symbols, candles, workers, requests, proxies and durations.

**Mutants.** For every property of a passing run PROJECT.json names a plausible bug (a
dropped guard, an off-by-one, a missing reset, a value read too late) in a definition
of the model under which the run reports that property as violated.

## 4. Fairness

* Goroutines that can run do run, tickers fire, backoffs and sleeps end: weak fairness
  of the steps inside a function once it is called (ExchangeFeed, ConnectionBackoff,
  IntervalAggregator's writer, SymbolManager, CandleBatchWriter).
* Receiving in a batch worker has strong fairness: Go's `select` chooses at random
  among ready cases, so the ticker case cannot win for ever.
* Dials and writes either fail or complete; their failures are bounded, so "once
  failures end" can be asked.  The time-out of the limiter's wait is not such a failure: it
  comes on every attempt once the backoff is as long as the wait may take, without bound.
  Nothing makes an exchange deliver messages.
* Redis drops an entry whose time to live is over: weak fairness of Expire.
* Nothing is assumed of clients, HTTP requests, the database's success or the
  exchanges.

## 5. Proofs

All theorems are checked by TLAPS for every value of the constants that satisfies the
named assumptions in the modules.

* **ExchangeFeedProofs**, registry.  Any finite set of callers, symbols, intervals, requests; the
  counts fit int32 if there are fewer references than that.  IntervalCountExact is not
  inductive alone: what a caller still has to release depends on its position in its
  list.  The invariant is Exact: the shape of the callers' positions, and for each map
  that its entry equals the cardinality of the set of *slots* (caller, position in the
  list) counted there.  Each action adds or removes exactly one slot, and a lemma on
  cardinalities gives the count.  TypeCorrect, IntervalCountsAreExact and
  StreamCountsAreExact follow, and from them ServedStreamsAreTracked (no other client's
  cleanup removes a stream that is being served) and MapsStayTogether (the two maps agree
  on every symbol no caller is in the middle of), which have no run of their own.
* **ExchangeFeedProofs**, composition.  Any set of exchanges, any number of faults.
  FeedImplementsRegistry: each step of a manager is a TakeSignal of the registry or leaves
  it alone, so FeedSpec implements Subscriptions' Spec and inherits its theorems
  (FeedCountsAreExact).  The flags need the managers' own invariant FeedInv: their types,
  FlagsMatchConnection, ListenerIsPinged, and DialedHasConnection (a manager between dial
  and listen already has a connection), without which the first does not survive the step
  into listening.  FlagsAreTrue and ListenersArePinged follow; the latter says of
  sendPeriodicPing that a goroutine left over from an earlier connection may take over a
  new one but never leaves a connection without any.
* **CandleStorageProofs**, the batch writer.  Any sets of candles and workers.  The invariant is
  TypeOK with Custody, that is NothingVanishes and OnePlace: a candle is in one place and in one
  hand until it is stored or lost, without which "no duplicate row" does not survive
  a step.  BatchIsBounded needs BatchGrowth, which trades a candle above the limit for
  a worker about to flush.  WriterImplementsLedger shows that each step is a step
  of CandleLedger or leaves every fate unchanged.
* **CandleStorageProofs**, the cache.  Any markets, clients, writers and limits, any
  requests, at least one.  What a query answers is described first (ListFacts, LatestFacts:
  rows of the range, no more than the limit, without a hole, whether or not the read broke
  off).  CacheInv says of every cache entry (CacheSound), and of every reader by its position
  (ReaderSound), that its answer is Sound: rows the market has, of a source that has rows, no
  more than the largest cached limit, or one latest candle; and that a request past the cache
  is never on its way to it and holds an answer of its Own: within its range and limit, with
  every row from its oldest on that was there when it was made.  The latter is what survives
  the rows inserted in between, the former the keys that leave out the limit.
  AnswersAreGenuine and UncachedStaysCurrent follow.
* **ConnectionBackoffProofs.** Any durations with FirstBackoff <= WaitTimeout and
  1.5 * WaitTimeout <= MaxBackoff.  The invariant IInv adds Progress: past the wait the
  backoff is below the timeout.  Hence the range (maxBackoff is never reached) and
  LongBackoffLocks: a backoff that reaches the timeout never changes again.
* **RealtimeAggregatorProofs.** Any finite set of exchanges, any number of windows and
  updates.  IInv adds to the types: an exchange writes only its own entry of a live candle
  (OwnData), all data of an object are of one window (OneWindow), and the aggregate a
  goroutine has computed is of the window of its update (AggregateOfWindow), and nobody
  starts or sleeps in a delete of a window that has not been offered (OfferedFirst).  That
  gives ClosedCandlesAreSound and ClosesArePersisted: what handleClosedCandle offers always
  contains the close it is offered for, although data and aggregate have a lock each.
  FirstClosesAreWhole takes the property itself as invariant beside IInv: as long as a window
  has not been offered, an entry of the map is only ever created, and with OfferedFirst no
  goroutine is left that could delete it.  SomePriceStaysCurrent needs
  PricesInv (no sum has a newer price than the stored one, and the price of the exchange
  that is averaging is in its sum as stored), SoleContributorStaysCurrent needs
  SoleAggregate (an aggregate computed and not yet set is still that of the live candle,
  unless another exchange has stored data in it).
* **IntervalAggregatorProofs.** Any number and length of periods, versions and overtaken
  calls.  IInv has the types, HandsMatch (what a call is closing is of periods that
  are over for it, what it is updating is of its own period) and CompletedIsOver, which thus
  holds for every interleaving.  SerialCallsCompleteWhole needs a second invariant, that
  as long as no two calls have overlapped everything is Orderly: one call at a time, the
  candle in its hand still the one in the map, at most one building candle, no processed
  minute outside a building or completed candle, completed periods in order and whole.  Overlapping calls void it for good,
  which is section 7's deviation at line 278.
* **PriceStatsProofs.** A buffer of any size, any calls, readers and rows.  Lemmas on
  remainders (uniqueness, the successor, numbers less than Size apart have different
  slots) give PutSlides: a put moves the window by one.  The invariant joins to it that an
  object of warmupSymbol is visible only with rows in it (WarmHasRows), without which a
  first put could find open24h empty.  RingStaysWindow and WarmedOpenStaysOldest follow.
  For the volume the invariant has HasVolume: the total of everything ever put into an
  object is the total of what has left the window plus the volume kept.  That a total is
  one row more than the total before (TotalsExist), of a longer list (TotalsAppend) and of
  a part (TotalsShift) takes an induction, by the least number at which it would fail;
  PutSlidesVolume and VolumeStaysWindowVolume follow.
* **FetchedListsProofs**, symbols.  Any finite set of forced refreshes, any lists (with
  repetitions), every strategy.  OnlyListed: lists in use hold listed symbols, and the
  curated list is used only before the first fetch, when nothing is fresh.  Accounted: until
  a symbol is marked, its references are as many as the refreshers about to mark it; from
  then on, the references and the refreshers already at the call are no more than the
  refreshers.  Check, call and mark are three steps without a common lock, so the bound
  itself is not inductive.  NthExists (a finite set of n positions has an i-th smallest
  for each i <= n, by counting an injection) makes getPopularSymbols a sequence.
* **FetchedListsProofs**, proxies.  Any proxies, texts and managers, any number of faults.
  DialInv adds to the two properties that every list, being stored, stored, copied or
  dialled through, ends in the direct connection (FallbackLast: ParsedEndsDirect and
  WorkingFirstEndsDirect, from what Kept keeps of a list's end), and that a manager about to mark an
  entry has connected through it (MarkedConnected).  DialsFallBackToDirect and
  WorkingProxyConnected follow.
* **ExchangeWireProofs**, the clock.  Any minute and any fixed offset from UTC (no daylight
  saving time).  OpenIsTruncation shows
  that each case of getIntervalOpenTime but the month truncates a shifted clock
  to a multiple of the interval's length (three days on UTC, weeks from the first Monday);
  lemmas about truncation then give PeriodHoldsItsMinute, PeriodsAreDisjoint and
  PeriodsIgnoreZone.  For months
  YearExists and MonthExists show that the calendar's CHOOSE has something to choose, with
  the year 1970 + (4d + 2) div 1461 as witness (a leap year every four years, which is
  Go's calendar up to 2099); MonthHoldsItsMinute follows, the 31st excepted.
* **ExchangeWireProofs**, the handlers.  Any symbols, minutes, batch limits and server zone
  between UTC-12 and UTC+14.  The invariant LocatedInv says that live candles are located
  in UTC or in the server's zone, and messages come from an exchange; with
  PeriodsIgnoreZone it gives PeriodsAreZoneNeutral, with the clock's theorems
  LivePeriodsTile.
* **ExchangeWireProofs**, names and batches.  Any finite set of symbols over any pieces that
  have USD and T, with a base that is not empty.  CutAt: a longer end has more letters, so
  a symbol has at most one place with so many letters behind it.  TetherListed: hence every
  subscribe function asks for a pair in USDT under the name the exchange lists.
  KrakenSymbol: leaving out and putting in the T are inverse unless there is a stray USD;
  DecodedFiled: each handler's symbol and interval are then those of the stream.  WireInv
  counts: the positions in the batches written are as many as the names passed (BatchAdds),
  each of these is in a batch, and the names are those of the tracked symbols, one for one,
  since a map's order meets each key (EachKeyOnce, by counting).  StreamsAllAsked and
  CandlesFiledUnderTheirStream follow.

Only model-checked:

* everything with fairness (leads-to, eventually), which is outside the prover's reach, as
  is ENABLED: ServesAfterFaults, TrackedStreamSubscribed, QueuedSettles, QueuedIsFlushed,
  ServesOrIsLocked, EventuallyFresh, ListedIsSubscribed;
* the text operations on pieces as such: the proofs are about pairs in USDT and about what
  comes back from Kraken; which pairs the cutting spoils (BTCEUR) is seen in the run.

The library's induction theorems cannot be used, since they take an operator as a
parameter.  The sums of PriceStats are the one place that needs an induction; it is made
with the well-foundedness of the numbers, which is stated about sets.  Elsewhere folds and
filters are written by positions and cardinalities, of which the finite-set theorems speak.

## 6. Findings

A comment of the code is contradicted by a run of its own.

* `agg/exchange_aggregator.go:357` "Trigger reconnection for ALL exchanges (each
  exchange needs the signal)".  A manager that listens receives no signal; a stream
  added while an exchange is connected is not subscribed there until the connection
  fails (run FeedNewStream).

## 7. Other deviations seen while modelling

These stronger statements suggest themselves from a comment and do not hold of the
models.  The properties checked are what does hold; no run is kept for them.

* `agg/exchange_aggregator.go:92` "number of users watching": one-shot calls keep
  their references for good.
* `agg/exchange_aggregator.go:477` "Periodic health check/reconnection": the check runs in
  the select that a listening manager has left; a quiet connection is not replaced.
* `agg/exchange_aggregator.go:314` "Flush remaining batches": candles in the channel, or in
  a worker's hand at the moment of Stop's flush, are left behind.
* `agg/interval_aggregator.go:91` "Stop gracefully stops the aggregator": Stop closes
  `batchChan` while goroutines of Process1mCandle may still send on it, and main stops it
  before the exchanges; the send panics (the variable `panicked` of IntervalAggregator).
* `agg/exchange_aggregator.go:805` "to keep connection alive": after a reconnect within 20 s
  the ping goroutine of the old connection goes on with the new one beside its own; two
  pings, or a ping and a subscription, may be written at once.
* `agg/exchange_handlers.go:80` "Convert BTC/USD -> BTCUSDT": every USD becomes USDT, so
  USDCUSDT comes back as USDTCUSDT, and BTCUSD as BTCUSDT.  Pairs whose quote does not have the three or four
  letters that are cut off (BTCEUR on Coinbase, OKX and Gate.io) are asked for under a name
  no exchange has.  Of several candles in a message Coinbase's and Bybit's handlers read
  the first.  Kraken, Coinbase and OKX never report a closed candle.  Several entries of the interval tables
  have no way back (Kraken's week, Bybit's three minutes); only 1m streams are asked for,
  so none is used.
* `agg/interval_aggregator.go:755` months are 30 days long: on the 31st a month is over
  with each minute and begun again, and February's period reaches into March.  Periods
  are aligned to the zone of the exchange that reported first.
* `agg/exchange_aggregator.go:1214` "Exponential backoff": a dial resets the count, so
  failures behind the dial are retried at one second.
* `agg/rate_limiter.go:85` "if we hit rate limits recently": Wait does not look at the
  time of the hit; six failing subscribe calls lift the backoff over the 10 s of the
  wait, which then never ends well (theorem LongBackoffLocks).
* `agg/realtime_candle_aggregator.go:96` "atomic updates": of two overlapping updates the
  older aggregate can be stored last.  Line 60 "Current aggregated prices": likewise
  for the average.  Line 56 "Latest completed candle": a slower exchange or a reader's
  row replaces a later window.  Line 419: a newest live candle without an aggregate
  hides an older one.  Line 410 "Remove from live candles": a late update creates a
  closed window again, and a second delete by key may take that object away from those who
  still work on it; a second close of the window can then lack earlier updates.
* `agg/interval_aggregator.go:278`: with overlapping calls a 1m candle is processed into a
  period already completed without it.  Line 567 "most recent": the last candle of a
  map iteration.  Line 100: a reader's row replaces a newer completed candle.  Line 397:
  expected1mCount is stored and never compared with anything; a period is completed by the
  first minute after it, however many minutes it has.
* `internal/services/candle/streaming_price_calculator.go:120`: in stats created by a live
  candle the open stays zero until the buffer is full.  Line 39: one minute takes as many slots as it has
  publications.  Line 15: a warm-up replaces the object live candles went into.
* `internal/services/candle/candle_service.go:194` "Invalidate cache": only keys with the
  source "aggregated".  Line 80 "Apply limits": the limit is not in the cache key, so a
  request for one candle may get a hundred, and one for a hundred one.  Line 130 "Cache the
  in-memory candle for fallback": a candle in memory that is behind the table is cached
  again on every request and hides the newer row.
* `internal/repository/candle_repository.go:73`: after the loop nothing asks for
  `rows.Err()`; a list whose read broke off is returned, and cached, as if it were complete.
* `internal/services/symbols/symbol_manager.go:99`: two refreshes may both subscribe a symbol
  they tested before either marked it; symbols that leave the top N stay subscribed;
  line 224 "immediate": a forced refresh takes the list cached within the hour; when
  the first fetch fails nothing is subscribed, the curated list included.
* `internal/proxy/proxy_service.go:463`: a URL that does not parse is dialled
  directly and recorded as the working proxy (allowed for in WorkingHasConnected).
* publishPriceUpdate passes a full channel name to a publisher that adds the prefix
  again.  Service.CreateCandle, the subscription batcher's Add and several getters of
  the proxy service have no callers; the fallback to pending candles in
  GetLatestInMemoryCandle cannot be reached.

## 8. Not modelled

* JSON, decimals, SQL: pure data.  Only outcomes appear.
* Redis publisher, servers, configuration, metrics, generated code: one call each, or no
  behaviour of their own.
* The mark price service and the price cache: the last price is set to the index price, so
  the mark price is the live price behind a Redis key.
* The importer: a command of its own that shares no state with the server.
* The direct subscriber lists, filled by one goroutine at start-up; the dead subscription
  batcher; the order in which main stops the parts.
* The overflow of failureCount squared after 96038 failures in a row: ConnectionBackoff
  computes with integers, its delay is the code's up to there.

Several modules define a TypeOK that no run lists any more: it says less than the
properties that are checked, and is kept as the start of an inductive invariant.

## 9. Plan

1. *Done:* Subscriptions, ExchangeFeed (composition, with the pinger), ExchangeWire and
   IntervalClock, CandleLedger and CandleBatchWriter (refinement), ConnectionBackoff,
   RealtimeAggregator, IntervalAggregator, PriceStats, CandleCache, SymbolManager,
   ProxyDial; every invariant a run checks, the refinement of CandleLedger and the action
   property of ConnectionBackoff are theorems.
2. *Open:* the int64 delay of handleConnectionError, whose overflow TLC's numbers do not
   reach.
3. *Model then, if the code comes to depend on it:* the shutdown order across parts, the
   mark price once it has a futures price of its own.

--------------------------- MODULE RealtimeAggregator ---------------------------
(***************************************************************************)
(* RealtimeCandleAggregator for one symbol and the 1m interval.             *)
(*                                                                          *)
(* The listening goroutine of each exchange calls ProcessCandleUpdate for   *)
(* one message after the other; the goroutines of different exchanges       *)
(* interleave on sync.Maps, so every access to shared state is a step of    *)
(* its own.  A live candle is an object that the map liveCandles refers to: *)
(* a goroutine that loaded it goes on using it after the entry was deleted. *)
(*                                                                          *)
(* Prices and volumes are abstracted to the update they come from.  An      *)
(* aggregate is determined by the exchangeData it was computed from, so it  *)
(* is modelled as that function: for each exchange with valid data, the     *)
(* update it contributes.  A Range over a sync.Map is one step.             *)
(***************************************************************************)
EXTENDS Naturals, FiniteSets, FiniteSetsExt

CONSTANTS
    Exchange,
    Closing,      \* the exchanges whose messages can report a closed candle
    NumWindows,   \* bound: one-minute windows (open times) 1..NumWindows
    MaxUpdates    \* bound: updates each exchange sends

ASSUME RealtimeSets == IsFiniteSet(Exchange) /\ Closing \subseteq Exchange
ASSUME RealtimeSizes == NumWindows \in Nat \ {0} /\ MaxUpdates \in Nat

Window == 1..NumWindows

\* The LiveCandle values that can be created: at most one for each update.
Object == 1..(Cardinality(Exchange) * MaxUpdates)

\* An update: its number among the updates of its exchange, its window, and the
\* two facts the aggregator looks at: whether open and close are not both zero,
\* and whether the exchange reports the candle as closed.
Update == [seq : 1..MaxUpdates, win : Window, valid : BOOLEAN, closed : BOOLEAN]
NoUpdate == [seq |-> 0, win |-> 1, valid |-> FALSE, closed |-> FALSE]

VARIABLES
    liveCandles,    \* liveCandles[w]: an object, or 0 for no entry
    created,        \* number of objects created so far
    exchangeData,   \* exchangeData[o][e]
    aggregated,     \* aggregated[o]: the aggregate stored in the object
    latestCandle,   \* latestCandles: the window and aggregate stored last
    offered,        \* closed candles sent to candleBatchChan, by sender
    deletes,        \* deletes[w]: sleeping goroutines that will delete the entry
    exchangePrices, \* exchangePrices[e]: the update the price is from
    lastPrice,      \* AggregatedPrice.LastPrice: the prices it averages
    reader,         \* a caller of GetLatestCandle that goes to the database
    at, upd, live, agg, sum   \* per exchange: position and local variables

rtVars == <<liveCandles, created, exchangeData, aggregated, latestCandle, offered,
            deletes, exchangePrices, lastPrice, reader, at, upd, live, agg, sum>>

None == [e \in Exchange |-> NoUpdate]    \* nothing to aggregate: nil

NoPrices == [e \in Exchange |-> 0]

\* No latest candle; a row that an earlier run of the server left in the database.
NoCandle == [win |-> 0, agg |-> None]
OldRow == [win |-> 1, agg |-> None]

Init ==
    /\ liveCandles = [w \in Window |-> 0]
    /\ created = 0
    /\ exchangeData = [o \in Object |-> None]
    /\ aggregated = [o \in Object |-> None]
    /\ latestCandle = NoCandle
    /\ offered = {}
    /\ deletes = [w \in Window |-> 0]
    /\ exchangePrices = NoPrices
    /\ lastPrice = NoPrices
    /\ reader = "idle"
    /\ at = [e \in Exchange |-> "idle"]
    /\ upd = [e \in Exchange |-> NoUpdate]
    /\ live = [e \in Exchange |-> 0]
    /\ agg = [e \in Exchange |-> None]
    /\ sum = [e \in Exchange |-> NoPrices]

\* The next update an exchange sends.  The aggregator compares no open times: the window
\* may go back, and one the exchange has closed may come again.
NextUpdate(e, u) ==
    /\ u.seq = upd[e].seq + 1
    /\ u.closed => e \in Closing

\* ProcessCandleUpdate returns; its local variable is gone.
Return(e) ==
    /\ at' = [at EXCEPT ![e] = "idle"]
    /\ agg' = [agg EXCEPT ![e] = None]

\* ProcessCandleUpdate: LoadOrStore of the live candle of the window.
Receive(e, u) ==
    /\ at[e] = "idle"
    /\ NextUpdate(e, u)
    /\ upd' = [upd EXCEPT ![e] = u]
    /\ IF liveCandles[u.win] # 0
       THEN /\ live' = [live EXCEPT ![e] = liveCandles[u.win]]
            /\ UNCHANGED <<liveCandles, created>>
       ELSE /\ created' = created + 1
            /\ liveCandles' = [liveCandles EXCEPT ![u.win] = created + 1]
            /\ live' = [live EXCEPT ![e] = created + 1]
    /\ at' = [at EXCEPT ![e] = "store"]
    /\ UNCHANGED <<exchangeData, aggregated, latestCandle, offered, deletes,
                   exchangePrices, lastPrice, reader, agg, sum>>

\* live.exchangeData.Store
StoreData(e) ==
    /\ at[e] = "store"
    /\ exchangeData' = [exchangeData EXCEPT ![live[e]][e] = upd[e]]
    /\ at' = [at EXCEPT ![e] = "aggregate"]
    /\ UNCHANGED <<liveCandles, created, aggregated, latestCandle, offered, deletes,
                   exchangePrices, lastPrice, reader, upd, live, agg, sum>>

\* aggregateLiveCandle: the exchanges with valid data; nil if there is none.
AggregateLiveCandle(o) ==
    [e \in Exchange |-> IF exchangeData[o][e].valid THEN exchangeData[o][e] ELSE NoUpdate]

Aggregate(e) ==
    /\ at[e] = "aggregate"
    /\ agg' = [agg EXCEPT ![e] = AggregateLiveCandle(live[e])]
    /\ at' = [at EXCEPT ![e] = "set"]
    /\ UNCHANGED <<liveCandles, created, exchangeData, aggregated, latestCandle, offered,
                   deletes, exchangePrices, lastPrice, reader, upd, live, sum>>

\* Mutant: a nil aggregate does not replace the one before it.
SetAggregatedKeepsOld(e) ==
    /\ at[e] = "set"
    /\ aggregated' = [aggregated EXCEPT ![live[e]] = IF agg[e] = None THEN @ ELSE agg[e]]
    /\ at' = [at EXCEPT ![e] = "price"]
    /\ UNCHANGED <<liveCandles, created, exchangeData, latestCandle, offered, deletes,
                   exchangePrices, lastPrice, reader, upd, live, agg, sum>>

\* The section under aggregatedMu.
SetAggregated(e) ==
    /\ at[e] = "set"
    /\ aggregated' = [aggregated EXCEPT ![live[e]] = agg[e]]
    /\ at' = [at EXCEPT ![e] = "price"]
    /\ UNCHANGED <<liveCandles, created, exchangeData, latestCandle, offered, deletes,
                   exchangePrices, lastPrice, reader, upd, live, agg, sum>>

\* updateLivePrice: the exchange's price is stored, even a zero price ...
StorePrice(e) ==
    /\ at[e] = "price"
    /\ exchangePrices' = [exchangePrices EXCEPT ![e] = upd[e].seq]
    /\ at' = [at EXCEPT ![e] = "sum"]
    /\ UNCHANGED <<liveCandles, created, exchangeData, aggregated, latestCandle, offered,
                   deletes, lastPrice, reader, upd, live, agg, sum>>

\* Mutant: the sum takes the exchange's own price as it was published before.
SumPricesOwnOld(e) ==
    /\ at[e] = "sum"
    /\ sum' = [sum EXCEPT ![e] = [exchangePrices EXCEPT ![e] = lastPrice[e]]]
    /\ at' = [at EXCEPT ![e] = "average"]
    /\ UNCHANGED <<liveCandles, created, exchangeData, aggregated, latestCandle, offered,
                   deletes, exchangePrices, lastPrice, reader, upd, live, agg>>

\* ... all prices are summed ...
SumPrices(e) ==
    /\ at[e] = "sum"
    /\ sum' = [sum EXCEPT ![e] = exchangePrices]
    /\ at' = [at EXCEPT ![e] = "average"]
    /\ UNCHANGED <<liveCandles, created, exchangeData, aggregated, latestCandle, offered,
                   deletes, exchangePrices, lastPrice, reader, upd, live, agg>>

\* ... and their average is written, without a lock.
WritePrice(e) ==
    /\ at[e] = "average"
    /\ lastPrice' = sum[e]
    /\ sum' = [sum EXCEPT ![e] = NoPrices]
    /\ IF upd[e].closed
       THEN at' = [at EXCEPT ![e] = "closed"] /\ UNCHANGED agg
       ELSE Return(e)
    /\ UNCHANGED <<liveCandles, created, exchangeData, aggregated, latestCandle, offered,
                   deletes, exchangePrices, reader, upd, live>>

\* The aggregate that ProcessCandleUpdate passes to handleClosedCandle is the one it
\* computed itself; the mutant reads the shared field again.
SharedAggregate(e) == aggregated[live[e]]
ClosedAggregate(e) == agg[e]

\* Mutant: the delete goroutine is started for a nil aggregate too.
StoreLatestNilToo(e) ==
    /\ at[e] = "closed"
    /\ IF ClosedAggregate(e) = None
       THEN at' = [at EXCEPT ![e] = "delete"] /\ UNCHANGED latestCandle
       ELSE /\ latestCandle' = [win |-> upd[e].win, agg |-> ClosedAggregate(e)]
            /\ at' = [at EXCEPT ![e] = "send"]
    /\ UNCHANGED <<liveCandles, created, exchangeData, aggregated, offered, deletes,
                   exchangePrices, lastPrice, reader, upd, live, agg, sum>>

\* handleClosedCandle: nothing for a nil aggregate; otherwise latestCandles.Store, which
\* compares no open times ...
StoreLatest(e) ==
    /\ at[e] = "closed"
    /\ IF ClosedAggregate(e) = None
       THEN Return(e) /\ UNCHANGED latestCandle
       ELSE /\ latestCandle' = [win |-> upd[e].win, agg |-> ClosedAggregate(e)]
            /\ at' = [at EXCEPT ![e] = "send"]
            /\ UNCHANGED agg
    /\ UNCHANGED <<liveCandles, created, exchangeData, aggregated, offered, deletes,
                   exchangePrices, lastPrice, reader, upd, live, sum>>

\* ... the send to the batch writer (whether it finds room is CandleBatchWriter's
\* Offer) ...
OfferClosed(e) ==
    /\ at[e] = "send"
    /\ offered' = offered \cup {[by |-> e, win |-> upd[e].win, agg |-> ClosedAggregate(e)]}
    /\ at' = [at EXCEPT ![e] = "delete"]
    /\ UNCHANGED <<liveCandles, created, exchangeData, aggregated, latestCandle, deletes,
                   exchangePrices, lastPrice, reader, upd, live, agg, sum>>

\* ... and the start of the goroutine that deletes the entry after 200 ms.
StartDelete(e) ==
    /\ at[e] = "delete"
    /\ deletes' = [deletes EXCEPT ![upd[e].win] = @ + 1]
    /\ Return(e)
    /\ UNCHANGED <<liveCandles, created, exchangeData, aggregated, latestCandle, offered,
                   exchangePrices, lastPrice, reader, upd, live, sum>>

\* A delete goroutine wakes up: it deletes by key, whatever object is there.
DeleteLive(w) ==
    /\ deletes[w] > 0
    /\ deletes' = [deletes EXCEPT ![w] = @ - 1]
    /\ liveCandles' = [liveCandles EXCEPT ![w] = 0]
    /\ UNCHANGED <<created, exchangeData, aggregated, latestCandle, offered,
                   exchangePrices, lastPrice, reader, at, upd, live, agg, sum>>

\* GetLatestCandle in memory: the aggregate of the newest live candle; the latest
\* closed candle when that is nil.
GetLatestCandle ==
    LET open == {w \in Window : liveCandles[w] # 0}
        newest == Max(open)
    IN  IF open # {} /\ aggregated[liveCandles[newest]] # None
        THEN [win |-> newest, agg |-> aggregated[liveCandles[newest]]]
        ELSE latestCandle

\* GetLatestCandle finds nothing in memory and queries the database ...
ReaderMisses ==
    /\ reader = "idle"
    /\ GetLatestCandle = NoCandle
    /\ reader' = "query"
    /\ UNCHANGED <<liveCandles, created, exchangeData, aggregated, latestCandle, offered,
                   deletes, exchangePrices, lastPrice, at, upd, live, agg, sum>>

\* ... and stores the row it got in latestCandles, whatever is there by now.  The
\* row is the newest one written when the query ran, which may be any candle
\* offered so far; without a row, or on an error, nothing is stored.
ReaderStores ==
    /\ reader = "query"
    /\ reader' = "idle"
    /\ latestCandle' \in {latestCandle, OldRow}
                          \cup {[win |-> c.win, agg |-> c.agg] : c \in offered}
    /\ UNCHANGED <<liveCandles, created, exchangeData, aggregated, offered, deletes,
                   exchangePrices, lastPrice, at, upd, live, agg, sum>>

ExchangeStep(e) ==
    \/ StoreData(e)
    \/ Aggregate(e)
    \/ SetAggregated(e)
    \/ StorePrice(e)
    \/ SumPrices(e)
    \/ WritePrice(e)
    \/ StoreLatest(e)
    \/ OfferClosed(e)
    \/ StartDelete(e)

Next ==
    \/ \E e \in Exchange, u \in Update : Receive(e, u)
    \/ \E e \in Exchange : ExchangeStep(e)
    \/ \E w \in Window : DeleteLive(w)
    \/ ReaderMisses
    \/ ReaderStores

\* Goroutines run; whether another update comes is up to the exchange.
Fairness ==
    /\ \A e \in Exchange : WF_rtVars(ExchangeStep(e))
    /\ \A w \in Window : WF_rtVars(DeleteLive(w))

Spec == Init /\ [][Next]_rtVars /\ Fairness

--------------------------------------------------------------------------------
Aggregates == [Exchange -> Update \cup {NoUpdate}]

\* Type invariant.
TypeOK ==
    /\ liveCandles \in [Window -> 0..created]
    /\ created \in 0..(Cardinality(Exchange) * MaxUpdates)
    /\ exchangeData \in [Object -> Aggregates]
    /\ aggregated \in [Object -> Aggregates]
    /\ latestCandle \in [win : 0..NumWindows, agg : Aggregates]
    /\ offered \subseteq [by : Exchange, win : Window, agg : Aggregates]
    /\ deletes \in [Window -> Nat]
    /\ exchangePrices \in [Exchange -> 0..MaxUpdates]
    /\ lastPrice \in [Exchange -> 0..MaxUpdates]
    /\ reader \in {"idle", "query"}
    /\ at \in [Exchange -> {"idle", "store", "aggregate", "set", "price", "sum",
                            "average", "closed", "send", "delete"}]
    /\ upd \in [Exchange -> Update \cup {NoUpdate}]
    /\ live \in [Exchange -> 0..created]
    /\ agg \in [Exchange -> Aggregates]
    /\ sum \in [Exchange -> [Exchange -> 0..MaxUpdates]]
    /\ \A e \in Exchange : at[e] # "idle" => live[e] > 0 /\ upd[e].seq > 0
    /\ \A v, w \in Window : liveCandles[v] = liveCandles[w] => v = w \/ liveCandles[v] = 0

\* A candle handed to the batch writer is about its own window, and the exchange
\* that closed it contributes the very update that did, whatever the other
\* exchanges and the delete goroutines do in between, unless that update had
\* no prices.
ClosedCandleSound ==
    \A c \in offered :
        /\ \A e \in Exchange : c.agg[e] = NoUpdate \/ c.agg[e].win = c.win
        /\ c.agg[c.by] = NoUpdate \/ c.agg[c.by].closed

\* Every valid close is persisted: when an exchange is done with an update that
\* closes its window, the batch writer was offered a candle with that update.
CloseIsPersisted ==
    \A e \in Exchange :
        at[e] = "idle" /\ upd[e].closed /\ upd[e].valid =>
            \E c \in offered : c.by = e /\ c.agg[e] = upd[e]

\* Until a closed candle of a window has been offered to the batch writer, all that the exchanges
\* sent for it is in the one live candle the map holds, and whoever works on the window
\* works on that one: the delete goroutines, which delete by key whatever is there, split
\* no window before its first close is out, however late they wake up and whoever creates
\* the entry again.  (Afterwards they may: a second close of the window can lack what went
\* with the deleted object.)
FirstCloseIsWhole ==
    \A w \in Window : (\A c \in offered : c.win # w) =>
        /\ \A o \in Object, e \in Exchange :
               exchangeData[o][e].seq > 0 /\ exchangeData[o][e].win = w => o = liveCandles[w]
        /\ \A e \in Exchange : at[e] # "idle" /\ upd[e].win = w => live[e] = liveCandles[w]

\* The average is written without a lock and an older one may be written last.  What it
\* can miss is bounded by that race: once nobody is averaging, the published price has
\* the newest price of some exchange, the one that wrote last, and no price that was
\* never stored.
SomePriceIsCurrent ==
    /\ \A e \in Exchange : lastPrice[e] <= exchangePrices[e]
    /\ (\A e \in Exchange : at[e] \notin {"sum", "average"}) /\ exchangePrices # NoPrices
       => \E e \in Exchange : exchangePrices[e] > 0 /\ lastPrice[e] = exchangePrices[e]

\* While only one exchange has data for a live candle, the stored aggregate is
\* never behind: what readers see is its latest processed update.
SoleContributorCurrent ==
    \A e \in Exchange, o \in Object :
        (/\ exchangeData[o][e] # NoUpdate
         /\ \A d \in Exchange \ {e} :
                exchangeData[o][d] = NoUpdate /\ (live[d] = o => at[d] = "idle")
         /\ ~(live[e] = o /\ at[e] \in {"aggregate", "set"}))
        => aggregated[o] = AggregateLiveCandle(o)
================================================================================

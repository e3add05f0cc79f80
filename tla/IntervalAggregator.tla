--------------------------- MODULE IntervalAggregator ---------------------------
(***************************************************************************)
(* IntervalAggregator for one symbol and one of its intervals: 1m candles   *)
(* are collected in a BuildingCandle per period, a 1m candle of a later     *)
(* period completes it, and the completed candle goes through batchChan to  *)
(* a writer goroutine.  buildHistoricalInterval rebuilds periods from the   *)
(* 1m rows of the database in between.                                      *)
(*                                                                          *)
(* Every publication of a 1m candle starts a goroutine that runs            *)
(* Process1mCandle, so the calls overlap and finish in any order.  A call   *)
(* is identified by its 1m candle: the minute and the version of it, a 1m   *)
(* candle being published again with each change.  A building candle is an  *)
(* object; what is done under its mutex is one step.  An aggregated candle  *)
(* is determined by the 1m candles it is built from, so it is that map; of  *)
(* the candle kept as the last completed one only the period matters, and   *)
(* of those queued for the writer only how many there are.                  *)
(* The history variable overlap records whether a call ever began before    *)
(* all calls for earlier candles were over.                                 *)
(***************************************************************************)
EXTENDS Integers, Sequences, FiniteSets, SequencesExt, FiniteSetsExt

CONSTANTS
    Length,       \* minutes per period
    NumMinutes,   \* bound: minutes 0..NumMinutes-1
    MaxVersion,   \* bound: publications of one minute
    ChanCap,      \* capacity of batchChan (10000)
    BatchSize,    \* flush size of the writer (50)
    MaxHistory,   \* bound: runs of buildHistoricalInterval
    MaxOvertaken  \* bound: earlier calls that are not over when one begins

ASSUME IntervalSizes ==
    /\ Length \in Nat \ {0} /\ NumMinutes \in Nat \ {0} /\ MaxVersion \in Nat \ {0}
    /\ ChanCap \in Nat /\ BatchSize \in Nat \ {0}
    /\ MaxHistory \in Nat /\ MaxOvertaken \in Nat

Minute == 0..(NumMinutes - 1)
Call == Minute \X (1..MaxVersion)
Period == 0..((NumMinutes - 1) \div Length)
PeriodOf(m) == m \div Length

\* The 1m candles a building or completed candle is made of: minute -> version,
\* 0 for a minute that is missing.
Minutes == [Minute -> 0..MaxVersion]
NoMinutes == [m \in Minute |-> 0]
Candle == [per : Period, data : Minutes]
NoCandle == [per |-> 0, data |-> NoMinutes]
NoPeriod == -1

Object == 1..Cardinality(Call)    \* each call creates at most one building candle

VARIABLES
    buildingCandles,  \* buildingCandles[p]: an object, or 0 for no entry
    created,          \* number of building candles created
    building,         \* building[o]: the period and candles1m of an object
    lastCompleted,    \* lastCompletedCandles: a period, or NoPeriod for no entry
    completed,        \* the candles completed so far, in order
    at, todo, obj,    \* per call: position, periods to look at, object in hand
    overlap,          \* whether some call began before an earlier one was over
    batchChan, chanClosed, cancelled, panicked,   \* batchChan: how many are queued
    writer, batch,    \* the writer goroutine: whether it runs, its batch's length
    stopper,          \* where Stop is
    history, histBatch,  \* runs of buildHistoricalInterval, the periods it builds
    histRows,            \* the periods it has written a row for during a query
    reader               \* a caller of GetLastCompletedCandle that asks the database

callVars == <<at, todo, obj, overlap>>
mapVars == <<buildingCandles, created, building>>
outVars == <<batchChan, panicked>>
writerVars == <<writer, batch>>
stopVars == <<stopper, chanClosed, cancelled>>
sideVars == <<history, histBatch, histRows, reader>>
iaVars == <<mapVars, lastCompleted, completed, callVars, outVars, writerVars,
            stopVars, sideVars>>

Init ==
    /\ buildingCandles = [p \in Period |-> 0]
    /\ created = 0
    /\ building = [o \in Object |-> NoCandle]
    /\ lastCompleted = NoPeriod
    /\ completed = <<>>
    /\ at = [c \in Call |-> "new"]
    /\ todo = [c \in Call |-> {}]
    /\ obj = [c \in Call |-> 0]
    /\ overlap = FALSE
    /\ batchChan = 0
    /\ chanClosed = FALSE
    /\ cancelled = FALSE
    /\ panicked = FALSE
    /\ writer = "run"
    /\ batch = 0
    /\ stopper = "run"
    /\ history = 0
    /\ histBatch = {}
    /\ histRows = {}
    /\ reader = "idle"

Alive == ~panicked    \* a panic in a goroutine ends the process

Earlier(b, c) == b[1] < c[1] \/ (b[1] = c[1] /\ b[2] < c[2])
Overtaken(c) == {b \in Call : Earlier(b, c) /\ at[b] # "done"}

\* closeExpiredIntervals looks at the building candles whose close time is not
\* after the minute of the 1m candle.
ExpiredEarly(p, m) == (p + 1) * Length <= m + 1     \* mutant: a minute too early
Expired(p, m) == (p + 1) * Length <= m

BeginCall(c) ==
    /\ Alive
    /\ at[c] = "new"
    /\ Cardinality(Overtaken(c)) <= MaxOvertaken
    /\ overlap' = (overlap \/ Overtaken(c) # {})
    /\ at' = [at EXCEPT ![c] = "range"]
    /\ todo' = [todo EXCEPT ![c] = {p \in Period : Expired(p, c[1])}]
    /\ UNCHANGED <<mapVars, lastCompleted, completed, obj, outVars, writerVars,
                   stopVars, sideVars>>

\* The Range over buildingCandles visits the keys in any order and loads the entry
\* that is there when it comes to it.
VisitExpired(c, p) ==
    /\ Alive
    /\ at[c] = "range"
    /\ p \in todo[c]
    /\ todo' = [todo EXCEPT ![c] = @ \ {p}]
    /\ IF buildingCandles[p] = 0
       THEN UNCHANGED <<at, obj>>
       ELSE /\ obj' = [obj EXCEPT ![c] = buildingCandles[p]]
            /\ at' = [at EXCEPT ![c] = "lock"]
    /\ UNCHANGED <<mapVars, lastCompleted, completed, overlap, outVars, writerVars,
                   stopVars, sideVars>>

\* Mutant: the completed candle stays in buildingCandles.
CompleteIntervalNowKeeps(o) ==
    /\ lastCompleted' = building[o].per
    /\ completed' = Append(completed, building[o])
    /\ panicked' = chanClosed
    /\ batchChan' = IF chanClosed \/ batchChan >= ChanCap THEN batchChan ELSE batchChan + 1
    /\ UNCHANGED buildingCandles

\* completeIntervalNow: store, send without blocking (a send on a closed channel
\* panics), delete the entry by its key.
CompleteIntervalNow(o) ==
    /\ lastCompleted' = building[o].per
    /\ completed' = Append(completed, building[o])
    /\ panicked' = chanClosed
    /\ batchChan' = IF chanClosed \/ batchChan >= ChanCap THEN batchChan ELSE batchChan + 1
    /\ buildingCandles' = [buildingCandles EXCEPT ![building[o].per] = 0]

\* With the mutex of the building candle: complete it if it has data.
CloseExpired(c) ==
    /\ Alive
    /\ at[c] = "lock"
    /\ at' = [at EXCEPT ![c] = "range"]
    /\ obj' = [obj EXCEPT ![c] = 0]
    /\ IF building[obj[c]].data = NoMinutes
       THEN UNCHANGED <<lastCompleted, completed, outVars, buildingCandles>>
       ELSE CompleteIntervalNow(obj[c])
    /\ UNCHANGED <<created, building, todo, overlap, writerVars, stopVars, sideVars>>

\* The building candle LoadOrStore stores.
NewBuilding(p) == [per |-> p, data |-> NoMinutes]

\* updateIntervalCandle: LoadOrStore of the period's building candle ...
LoadBuilding(c) ==
    /\ Alive
    /\ at[c] = "range"
    /\ todo[c] = {}
    /\ LET p == PeriodOf(c[1]) IN
       IF buildingCandles[p] # 0
       THEN obj' = [obj EXCEPT ![c] = buildingCandles[p]] /\ UNCHANGED mapVars
       ELSE /\ created' = created + 1
            /\ buildingCandles' = [buildingCandles EXCEPT ![p] = created + 1]
            /\ building' = [building EXCEPT ![created + 1] = NewBuilding(p)]
            /\ obj' = [obj EXCEPT ![c] = created + 1]
    /\ at' = [at EXCEPT ![c] = "update"]
    /\ UNCHANGED <<lastCompleted, completed, todo, overlap, outVars, writerVars, stopVars,
                   sideVars>>

\* ... and, under its mutex, the 1m candle replaces what was there for its minute.
UpdateBuilding(c) ==
    /\ Alive
    /\ at[c] = "update"
    /\ building' = [building EXCEPT ![obj[c]].data[c[1]] = c[2]]
    /\ at' = [at EXCEPT ![c] = "done"]
    /\ UNCHANGED <<buildingCandles, created, lastCompleted, completed, todo, obj, overlap,
                   outVars, writerVars, stopVars, sideVars>>

CallStep(c) ==
    \/ BeginCall(c)
    \/ \E p \in Period : VisitExpired(c, p)
    \/ CloseExpired(c)
    \/ LoadBuilding(c)
    \/ UpdateBuilding(c)

--------------------------------------------------------------------------------
BatchFull(n) == n >= BatchSize

\* batchWriter: receive, and flush when the batch is full.  After a flush the
\* batch is empty, whether the write succeeded or not ...
WriterReceives ==
    /\ Alive
    /\ writer = "run"
    /\ batchChan > 0
    /\ batchChan' = batchChan - 1
    /\ batch' = IF BatchFull(batch + 1) THEN 0 ELSE batch + 1
    /\ UNCHANGED <<mapVars, lastCompleted, completed, callVars, panicked, writer,
                   stopVars, sideVars>>

\* Mutant: the ticker only flushes a full batch.
WriterTicksFull ==
    /\ Alive
    /\ writer = "run"
    /\ BatchFull(batch)
    /\ batch' = 0
    /\ UNCHANGED <<mapVars, lastCompleted, completed, callVars, outVars, writer,
                   stopVars, sideVars>>

\* ... flush on the ticker ...
WriterTicks ==
    /\ Alive
    /\ writer = "run"
    /\ batch > 0
    /\ batch' = 0
    /\ UNCHANGED <<mapVars, lastCompleted, completed, callVars, outVars, writer,
                   stopVars, sideVars>>

\* ... flush and return when the context is cancelled, whatever is still queued,
\* or when the channel is closed and drained.
WriterExits ==
    /\ Alive
    /\ writer = "run"
    /\ cancelled \/ (chanClosed /\ batchChan = 0)
    /\ batch' = 0
    /\ writer' = "exited"
    /\ UNCHANGED <<mapVars, lastCompleted, completed, callVars, outVars, stopVars, sideVars>>

\* Stop: cancel, close the channel, wait for the goroutines.
StopCancels ==
    /\ Alive
    /\ stopper = "run"
    /\ stopper' = "cancelled"
    /\ cancelled' = TRUE
    /\ UNCHANGED <<mapVars, lastCompleted, completed, callVars, outVars, writerVars,
                   chanClosed, sideVars>>

StopCloses ==
    /\ Alive
    /\ stopper = "cancelled"
    /\ stopper' = "wait"
    /\ chanClosed' = TRUE
    /\ UNCHANGED <<mapVars, lastCompleted, completed, callVars, outVars, writerVars,
                   cancelled, sideVars>>

StopReturns ==
    /\ Alive
    /\ stopper = "wait"
    /\ writer = "exited"
    /\ stopper' = "stopped"
    /\ UNCHANGED <<mapVars, lastCompleted, completed, callVars, outVars, writerVars,
                   chanClosed, cancelled, sideVars>>

--------------------------------------------------------------------------------
\* buildHistoricalInterval reads 1m rows, which may be there once the final version
\* of their minute has been published.  Every period with a row gets a candle, the
\* current one too.
HistoryReads ==
    /\ Alive
    /\ history < MaxHistory
    /\ histBatch = {}
    /\ histBatch' \in SUBSET {PeriodOf(m) : m \in {n \in Minute : at[<<n, MaxVersion>>] # "new"}}
                      \ {{}}
    /\ history' = history + 1
    /\ UNCHANGED <<mapVars, lastCompleted, completed, callVars, outVars, writerVars,
                   stopVars, histRows, reader>>

\* group1mCandlesByInterval returns the candles in the order of a map iteration;
\* when the write succeeds, the last one becomes the last completed candle.  Its rows
\* matter to a query that is under way: with an entry no other query is begun.
HistoryWrites ==
    /\ Alive
    /\ histBatch # {}
    /\ histBatch' = {}
    /\ \/ /\ lastCompleted' \in histBatch
          /\ histRows' = IF reader = "query" THEN histRows \cup histBatch ELSE histRows
       \/ UNCHANGED <<histRows, lastCompleted>>
    /\ UNCHANGED <<mapVars, completed, callVars, outVars, writerVars, stopVars,
                   history, reader>>

\* GetLastCompletedCandle finds no entry and queries the database ...
ReaderMisses ==
    /\ Alive
    /\ reader = "idle"
    /\ lastCompleted = NoPeriod
    /\ reader' = "query"
    /\ UNCHANGED <<mapVars, lastCompleted, completed, callVars, outVars, writerVars,
                   stopVars, history, histBatch, histRows>>

\* ... and stores the row it got, whatever the entry is by now.  The row is the
\* newest one written when the query ran: any candle completed or built from
\* history so far.  Without a row, or on an error, nothing is stored.
ReaderStores ==
    /\ Alive
    /\ reader = "query"
    /\ reader' = "idle"
    /\ lastCompleted' \in {lastCompleted} \cup {k.per : k \in Range(completed)}
                          \cup histBatch \cup histRows
    /\ histRows' = {}
    /\ UNCHANGED <<mapVars, completed, callVars, outVars, writerVars, stopVars,
                   history, histBatch>>

Next ==
    \/ \E c \in Call : CallStep(c)
    \/ WriterReceives
    \/ WriterTicks
    \/ WriterExits
    \/ StopCancels
    \/ StopCloses
    \/ StopReturns
    \/ HistoryReads
    \/ HistoryWrites
    \/ ReaderMisses
    \/ ReaderStores

\* The writer goroutine runs and its ticker fires.
Fairness == WF_iaVars(WriterReceives) /\ WF_iaVars(WriterTicks)

Spec == Init /\ [][Next]_iaVars /\ Fairness

--------------------------------------------------------------------------------
\* Type invariant; a building candle only holds minutes of its own period, and is
\* found in buildingCandles under no other period.
TypeOK ==
    /\ buildingCandles \in [Period -> 0..created]
    /\ created \in 0..Cardinality(Call)
    /\ building \in [Object -> Candle]
    /\ lastCompleted \in Period \cup {NoPeriod}
    /\ completed \in Seq(Candle)
    /\ at \in [Call -> {"new", "range", "lock", "update", "done"}]
    /\ todo \in [Call -> SUBSET Period]
    /\ obj \in [Call -> 0..created]
    /\ overlap \in BOOLEAN
    /\ batchChan \in 0..ChanCap
    /\ {chanClosed, cancelled, panicked} \subseteq BOOLEAN
    /\ writer \in {"run", "exited"}
    /\ batch \in 0..(BatchSize - 1)
    /\ stopper \in {"run", "cancelled", "wait", "stopped"}
    /\ history \in 0..MaxHistory
    /\ histBatch \subseteq Period /\ histRows \subseteq Period
    /\ reader \in {"idle", "query"}
    /\ \A o \in Object, m \in Minute : building[o].data[m] > 0 => PeriodOf(m) = building[o].per
    /\ \A p \in Period : buildingCandles[p] # 0 => building[buildingCandles[p]].per = p

\* A 1m candle of a later period has arrived.
Over(p) == \E c \in Call : at[c] # "new" /\ PeriodOf(c[1]) > p

\* However the calls overlap, a candle is completed only with data, of no other period,
\* and when its period is over.  The same holds of the candle kept as the last completed one, also when it
\* is a reader's row: only buildHistoricalInterval passes the current period off as
\* completed.
CompletedIsOver ==
    /\ \A k \in Range(completed) :
          /\ k.data # NoMinutes /\ Over(k.per)
          /\ \A m \in Minute : k.data[m] > 0 => PeriodOf(m) = k.per
    /\ history = 0 /\ lastCompleted # NoPeriod => Over(lastCompleted)

\* interval_aggregator.go:278 "When we receive a 1m candle for time T, any interval
\* ending at or before T is complete": as long as calls have not overlapped, periods
\* are completed one after the other, each of them once, and a completed candle
\* holds every 1m candle of its period that has been processed.
CompletedIsWhole ==
    ~overlap =>
        /\ \A i, j \in DOMAIN completed : i < j => completed[i].per < completed[j].per
        /\ \A k \in Range(completed), c \in Call :
              at[c] = "done" /\ PeriodOf(c[1]) = k.per => k.data[c[1]] >= c[2]

\* While the writer runs, a candle that was queued is flushed, by size or by time.
QueuedIsFlushed ==
    (batchChan > 0 \/ batch > 0)
        ~> ((batchChan = 0 /\ batch = 0) \/ cancelled \/ panicked)
================================================================================

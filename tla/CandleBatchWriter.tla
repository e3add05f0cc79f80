--------------------------- MODULE CandleBatchWriter ---------------------------
(***************************************************************************)
(* The batch writer of ExchangeAggregator: closed 1m candles go through the *)
(* bounded candleBatchChan to a pool of workers that share currentBatch     *)
(* (under batchMu) and write it with one repository call.  Stop closes      *)
(* stopChan and flushes the batch once more from its own goroutine.         *)
(*                                                                          *)
(* A candle stands for one pointer sent by handleClosedCandle, so no candle *)
(* is offered twice.  Channel, batch and batches under way are sets: which  *)
(* worker takes which candle, and the order inside a batch, is not used.    *)
(***************************************************************************)
EXTENDS Naturals, FiniteSets

CONSTANTS
    Candle,      \* closed candles offered for persistence
    Worker,      \* the batchWriterWorker goroutines (5 in Start)
    Stopper,     \* the goroutine that runs ExchangeAggregator.Stop
    NoCandle,    \* an empty hand
    ChanCap,     \* capacity of candleBatchChan (10000)
    BatchSize    \* config.Service.BatchWriteSize (100)

Process == Worker \cup {Stopper}

ASSUME WriterSets == IsFiniteSet(Candle) /\ IsFiniteSet(Worker) /\ Stopper \notin Worker
ASSUME NoCandleOutside == NoCandle \notin Candle
ASSUME WriterSizes == ChanCap \in Nat /\ BatchSize \in Nat \ {0}

VARIABLES
    offered,       \* candles handleClosedCandle was called with
    queue,         \* candleBatchChan
    currentBatch,
    at,            \* where each process is
    hand,          \* the candle a worker received and has not appended yet
    writing,       \* the batch a process took out and is writing
    rows,          \* rows[c]: how often c was inserted into the database
    lost,          \* dropped on a full channel, or in a batch whose write failed
    stopChanClosed

vars == <<offered, queue, currentBatch, at, hand, writing, rows, lost, stopChanClosed>>

Init ==
    /\ offered = {}
    /\ queue = {}
    /\ currentBatch = {}
    /\ at = [p \in Process |-> "select"]
    /\ hand = [p \in Process |-> NoCandle]
    /\ writing = [p \in Process |-> {}]
    /\ rows = [c \in Candle |-> 0]
    /\ lost = {}
    /\ stopChanClosed = FALSE

\* handleClosedCandle: a non-blocking send.
Offer(c) ==
    /\ c \notin offered
    /\ offered' = offered \cup {c}
    /\ IF Cardinality(queue) < ChanCap
       THEN queue' = queue \cup {c} /\ UNCHANGED lost
       ELSE lost' = lost \cup {c} /\ UNCHANGED queue
    /\ UNCHANGED <<currentBatch, at, hand, writing, rows, stopChanClosed>>

\* A worker's select receives a candle ...
Receive(w, c) ==
    /\ at[w] = "select"
    /\ c \in queue
    /\ queue' = queue \ {c}
    /\ hand' = [hand EXCEPT ![w] = c]
    /\ at' = [at EXCEPT ![w] = "append"]
    /\ UNCHANGED <<offered, currentBatch, writing, rows, lost, stopChanClosed>>

BatchOverfull(B) == Cardinality(B) > BatchSize    \* mutant: off by one
BatchFull(B) == Cardinality(B) >= BatchSize

\* ... and appends it under batchMu, noting whether the batch is full.
AppendToBatch(w) ==
    /\ at[w] = "append"
    /\ currentBatch' = currentBatch \cup {hand[w]}
    /\ hand' = [hand EXCEPT ![w] = NoCandle]
    /\ at' = [at EXCEPT ![w] = IF BatchFull(currentBatch')
                               THEN "flush" ELSE "select"]
    /\ UNCHANGED <<offered, queue, writing, rows, lost, stopChanClosed>>

\* Mutant: the ticker only flushes full batches.
TickWhenFull(w) ==
    /\ at[w] = "select"
    /\ BatchFull(currentBatch)
    /\ at' = [at EXCEPT ![w] = "flush"]
    /\ UNCHANGED <<offered, queue, currentBatch, hand, writing, rows, lost, stopChanClosed>>

\* The BatchWriteInterval ticker of a worker.
Tick(w) ==
    /\ at[w] = "select"
    /\ at' = [at EXCEPT ![w] = "flush"]
    /\ UNCHANGED <<offered, queue, currentBatch, hand, writing, rows, lost, stopChanClosed>>

\* Where a process continues after flushBatch.
AfterFlush(p) == IF p = Stopper THEN "stopped" ELSE "select"

\* Mutants: the batch is not reset; it is reset before it is copied.
TakeBatchKeeps(p) ==
    /\ at[p] = "flush"
    /\ writing' = [writing EXCEPT ![p] = currentBatch]
    /\ at' = [at EXCEPT ![p] = IF currentBatch = {} THEN AfterFlush(p) ELSE "write"]
    /\ UNCHANGED <<offered, queue, currentBatch, hand, rows, lost, stopChanClosed>>

TakeBatchSwapped(p) ==
    /\ at[p] = "flush"
    /\ currentBatch' = {}
    /\ at' = [at EXCEPT ![p] = AfterFlush(p)]
    /\ UNCHANGED <<offered, queue, hand, writing, rows, lost, stopChanClosed>>

\* flushBatch, section under batchMu: nothing to do, or the batch is swapped out.
TakeBatch(p) ==
    /\ at[p] = "flush"
    /\ writing' = [writing EXCEPT ![p] = currentBatch]
    /\ currentBatch' = {}
    /\ at' = [at EXCEPT ![p] = IF currentBatch = {} THEN AfterFlush(p) ELSE "write"]
    /\ UNCHANGED <<offered, queue, hand, rows, lost, stopChanClosed>>

\* flushBatch: the repository inserts the whole batch ...
WriteSucceeds(p) ==
    /\ at[p] = "write"
    /\ rows' = [c \in Candle |-> IF c \in writing[p] THEN rows[c] + 1 ELSE rows[c]]
    /\ writing' = [writing EXCEPT ![p] = {}]
    /\ at' = [at EXCEPT ![p] = AfterFlush(p)]
    /\ UNCHANGED <<offered, queue, currentBatch, hand, lost, stopChanClosed>>

\* Mutant: the failed batch is kept, and never looked at again.
WriteFailsKeepsBatch(p) ==
    /\ at[p] = "write"
    /\ at' = [at EXCEPT ![p] = AfterFlush(p)]
    /\ UNCHANGED <<offered, queue, currentBatch, hand, writing, rows, lost, stopChanClosed>>

\* ... or fails; the error is logged and the batch is not kept.
WriteFails(p) ==
    /\ at[p] = "write"
    /\ lost' = lost \cup writing[p]
    /\ writing' = [writing EXCEPT ![p] = {}]
    /\ at' = [at EXCEPT ![p] = AfterFlush(p)]
    /\ UNCHANGED <<offered, queue, currentBatch, hand, rows, stopChanClosed>>

\* A worker's select finds stopChan closed; with other cases ready it need not.
WorkerExits(w) ==
    /\ at[w] = "select"
    /\ stopChanClosed
    /\ at' = [at EXCEPT ![w] = "stopped"]
    /\ UNCHANGED <<offered, queue, currentBatch, hand, writing, rows, lost, stopChanClosed>>

\* Stop: close(stopChan); then, after the connections are closed, flushBatch.
Stop ==
    /\ at[Stopper] = "select"
    /\ stopChanClosed' = TRUE
    /\ at' = [at EXCEPT ![Stopper] = "flush"]
    /\ UNCHANGED <<offered, queue, currentBatch, hand, writing, rows, lost>>

WorkerStep(w) ==
    \/ \E c \in Candle : Receive(w, c)
    \/ AppendToBatch(w)
    \/ Tick(w)
    \/ WorkerExits(w)

FlushStep(p) == TakeBatch(p) \/ WriteSucceeds(p) \/ WriteFails(p)

Next ==
    \/ \E c \in Candle : Offer(c)
    \/ \E w \in Worker : WorkerStep(w)
    \/ \E p \in Process : FlushStep(p)
    \/ Stop

Spec == Init /\ [][Next]_vars

\* Workers run, their tickers fire, repository calls return.  Receiving needs
\* strong fairness: Go's select picks among its ready cases at random, so a
\* worker whose ticker keeps firing still receives.
Fairness ==
    \A p \in Process :
        /\ WF_vars(p \in Worker /\ AppendToBatch(p))
        /\ WF_vars(p \in Worker /\ Tick(p))
        /\ SF_vars(p \in Worker /\ \E c \in Candle : Receive(p, c))
        /\ WF_vars(FlushStep(p))

FairSpec == Spec /\ Fairness

--------------------------------------------------------------------------------
\* Type invariant; a hand is full exactly between receive and append, and a
\* batch is under way exactly while it is being written.
TypeOK ==
    /\ offered \in SUBSET Candle
    /\ queue \in SUBSET Candle
    /\ currentBatch \in SUBSET Candle
    /\ at \in [Process -> {"select", "append", "flush", "write", "stopped"}]
    /\ hand \in [Process -> Candle \cup {NoCandle}]
    /\ writing \in [Process -> SUBSET Candle]
    /\ rows \in [Candle -> Nat]
    /\ lost \in SUBSET Candle
    /\ stopChanClosed \in BOOLEAN
    /\ \A p \in Process : (hand[p] = NoCandle) <=> (at[p] # "append")
    /\ \A p \in Process : at[p] # "write" => writing[p] = {}
    /\ at[Stopper] # "append"

Held == {c \in Candle : \E p \in Process : hand[p] = c}
InFlight == {c \in Candle : \E p \in Process : c \in writing[p]}
Stored == {c \in Candle : rows[c] > 0}

\* No closed candle disappears between the channel, a worker's hand, the shared
\* batch and a batch being written: it is in one of them, in the database, or
\* was dropped by the two places that log a loss.
NothingVanishes ==
    offered = queue \cup Held \cup currentBatch \cup InFlight \cup Stored \cup lost

\* However the workers, the tickers and Stop's own flush interleave, no candle
\* is inserted twice, and a candle reported as lost is not in the database.
NoDuplicateRow ==
    \A c \in Candle : rows[c] <= 1 /\ (rows[c] = 1 => c \notin lost)

\* The inductive form of both: a candle is in one place at a time, and in the
\* hands of one process at a time, until it is stored once or lost.
OnePlace ==
    \A c \in Candle :
        /\ rows[c] <= 1
        /\ rows[c] = 1 => c \notin lost
        /\ c \in queue \cup currentBatch \cup Held \cup InFlight
             => rows[c] = 0 /\ c \notin lost
        /\ c \in queue => c \notin currentBatch /\ c \notin Held /\ c \notin InFlight
        /\ c \in currentBatch => c \notin Held /\ c \notin InFlight
        /\ c \in Held => c \notin InFlight
        /\ \A p, q \in Process : hand[p] = c /\ hand[q] = c => p = q
        /\ \A p, q \in Process : c \in writing[p] /\ c \in writing[q] => p = q

\* The workers that are about to call flushBatch.
Flushing == {w \in Worker : at[w] = "flush"}

\* currentBatch reaches BatchWriteSize only while workers are about to flush it,
\* and exceeds it only by one candle for each further one of them.
BatchGrowth == Cardinality(currentBatch) < BatchSize + Cardinality(Flushing)

\* Hence currentBatch may outgrow BatchWriteSize, but never by as many candles
\* as there are workers.
BatchBound == Cardinality(currentBatch) < BatchSize + Cardinality(Worker)

\* While the writer runs, every queued candle is written or its loss logged.
QueuedSettles ==
    \A c \in Candle : c \in queue ~> (rows[c] = 1 \/ c \in lost \/ stopChanClosed)

\* The ledger kept by the writer.
candleFate ==
    [c \in Candle |->
        IF c \in lost THEN "lost"
        ELSE IF rows[c] > 0 THEN "stored"
        ELSE IF c \in offered THEN "accepted" ELSE "new"]

Ledger == INSTANCE CandleLedger WITH Candle <- Candle, fate <- candleFate

\* The writer implements the ledger: a batch settles as a whole, and the fate
\* of a settled candle never changes.
ImplementsLedger == Ledger!LedgerSpec
================================================================================

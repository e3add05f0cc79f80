-------------------------- MODULE CandleStorageProofs --------------------------
(* Proofs about the way of a candle into the table and out of it.              *)
(*                                                                             *)
(* CandleBatchWriter: for any finite sets of candles and workers.              *)
(* CandleCache: for any markets, clients, requests and limits.                 *)
EXTENDS CandleBatchWriter, CandleCache, FiniteSetTheorems, TLAPS

\* The type invariant holds of every state of the writer.
THEOREM TypeCorrect == Spec => []TypeOK
<1> USE NoCandleOutside, WriterSets DEF TypeOK, Process
<1>1. Init => TypeOK
  <2> SUFFICES ASSUME Init PROVE TypeOK
    OBVIOUS
  <2>1. stopChanClosed \in BOOLEAN
    BY DEF Init
  <2> QED
    BY <2>1 DEF Init
<1>2. TypeOK /\ [Next]_vars => TypeOK'
  <2> SUFFICES ASSUME TypeOK, [Next]_vars PROVE TypeOK'
    OBVIOUS
  <2>1. ASSUME NEW c \in Candle, Offer(c) PROVE TypeOK'
    BY <2>1 DEF Offer
  <2>2. ASSUME NEW w \in Worker, NEW c \in Candle, Receive(w, c) PROVE TypeOK'
    BY <2>2 DEF Receive
  <2>3. ASSUME NEW w \in Worker, AppendToBatch(w) PROVE TypeOK'
    BY <2>3 DEF AppendToBatch, BatchFull
  <2>4. ASSUME NEW w \in Worker, Tick(w) PROVE TypeOK'
    BY <2>4 DEF Tick
  <2>5. ASSUME NEW w \in Worker, WorkerExits(w) PROVE TypeOK'
    BY <2>5 DEF WorkerExits
  <2>6. ASSUME NEW p \in Process, TakeBatch(p) PROVE TypeOK'
    BY <2>6 DEF TakeBatch, AfterFlush
  <2>7. ASSUME NEW p \in Process, WriteSucceeds(p) PROVE TypeOK'
    BY <2>7 DEF WriteSucceeds, AfterFlush
  <2>8. ASSUME NEW p \in Process, WriteFails(p) PROVE TypeOK'
    BY <2>8 DEF WriteFails, AfterFlush
  <2>9. CASE Stop
    BY <2>9 DEF Stop
  <2>10. CASE UNCHANGED vars
    BY <2>10 DEF vars
  <2> QED
    BY <2>1, <2>2, <2>3, <2>4, <2>5, <2>6, <2>7, <2>8, <2>9, <2>10
    DEF Next, WorkerStep, FlushStep
<1> QED
  BY <1>1, <1>2, PTL DEF Spec
--------------------------------------------------------------------------------
\* A step of the writer, one disjunct per action.
LEMMA NextCases ==
    ASSUME Next
    PROVE  \/ \E c \in Candle : Offer(c)
           \/ \E w \in Worker, c \in Candle : Receive(w, c)
           \/ \E w \in Worker : AppendToBatch(w)
           \/ \E w \in Worker : Tick(w)
           \/ \E w \in Worker : WorkerExits(w)
           \/ \E p \in Process : TakeBatch(p)
           \/ \E p \in Process : WriteSucceeds(p)
           \/ \E p \in Process : WriteFails(p)
           \/ Stop
BY DEF Next, WorkerStep, FlushStep

\* Custody of a candle: it is conserved and in one place at a time.
Custody == NothingVanishes /\ OnePlace

\* Every action of the writer preserves custody.
LEMMA CustodyStep == TypeOK /\ Custody /\ [Next]_vars => Custody'
<1> SUFFICES ASSUME TypeOK, Custody, [Next]_vars PROVE Custody'
  OBVIOUS
<1> USE NoCandleOutside, WriterSets
        DEF TypeOK, Process, Custody, NothingVanishes, OnePlace, Held, InFlight, Stored
<1>1. ASSUME NEW c \in Candle, Offer(c) PROVE Custody'
  BY <1>1 DEF Offer
<1>2. ASSUME NEW w \in Worker, NEW c \in Candle, Receive(w, c) PROVE Custody'
  BY <1>2 DEF Receive
<1>3. ASSUME NEW w \in Worker, AppendToBatch(w) PROVE Custody'
  BY <1>3 DEF AppendToBatch, BatchFull
<1>4. ASSUME NEW w \in Worker, Tick(w) \/ WorkerExits(w) PROVE Custody'
  BY <1>4 DEF Tick, WorkerExits
<1>5. ASSUME NEW p \in Process, TakeBatch(p) PROVE Custody'
  BY <1>5 DEF TakeBatch
<1>6. ASSUME NEW p \in Process, WriteSucceeds(p) PROVE Custody'
  BY <1>6 DEF WriteSucceeds
<1>7. ASSUME NEW p \in Process, WriteFails(p) PROVE Custody'
  BY <1>7 DEF WriteFails
<1>8. CASE Stop
  BY <1>8 DEF Stop
<1>9. CASE UNCHANGED vars
  BY <1>9 DEF vars
<1> QED
  BY <1>1, <1>2, <1>3, <1>4, <1>5, <1>6, <1>7, <1>8, <1>9, NextCases
\* Custody holds in every reachable state.
LEMMA CustodyInvariant == Spec => []Custody
<1>1. Init => Custody
  BY NoCandleOutside
  DEF Init, Custody, NothingVanishes, OnePlace, Held, InFlight, Stored, Process
<1> QED
  BY <1>1, CustodyStep, TypeCorrect, PTL DEF Spec

\* Every closed candle is accounted for in every reachable state.
THEOREM WriterLosesNothing == Spec => []NothingVanishes
BY CustodyInvariant, PTL DEF Custody

\* No closed candle is inserted into the database twice, or inserted although
\* its loss was logged.
THEOREM WriterWritesOnce == Spec => []NoDuplicateRow
<1>1. Custody => NoDuplicateRow
  BY DEF Custody, OnePlace, NoDuplicateRow
<1> QED
  BY <1>1, CustodyInvariant, PTL

--------------------------------------------------------------------------------
\* A worker that fills the batch is among those that are about to flush it.
LEMMA BatchGrowthStep == TypeOK /\ BatchGrowth /\ [Next]_vars => BatchGrowth'
<1> SUFFICES ASSUME TypeOK, BatchGrowth, [Next]_vars PROVE BatchGrowth'
  OBVIOUS
<1> USE WriterSets, WriterSizes
<1>1. /\ IsFiniteSet(Flushing) /\ Cardinality(Flushing) \in Nat
      /\ IsFiniteSet(Flushing') /\ Cardinality(Flushing') \in Nat
      /\ IsFiniteSet(currentBatch) /\ Cardinality(currentBatch) \in Nat
  BY FS_Subset, FS_CardinalityType DEF Flushing, TypeOK
<1>2. ASSUME Flushing \subseteq Flushing' , currentBatch' = currentBatch PROVE BatchGrowth'
  BY <1>1, <1>2, FS_Subset DEF BatchGrowth
<1>3. ASSUME NEW w \in Worker, AppendToBatch(w) PROVE BatchGrowth'
  <2>1. hand[w] \in Candle /\ currentBatch' = currentBatch \cup {hand[w]}
    BY <1>3 DEF AppendToBatch, BatchFull, TypeOK, Process
  <2>2. /\ Cardinality(currentBatch') \in Nat
        /\ Cardinality(currentBatch') <= Cardinality(currentBatch) + 1
    <3>1. Cardinality(currentBatch \cup {hand[w]}) =
            IF hand[w] \in currentBatch THEN Cardinality(currentBatch)
                                        ELSE Cardinality(currentBatch) + 1
      BY <1>1, FS_AddElement
    <3> QED
      BY <1>1, <2>1, <3>1
  <2>3. CASE Cardinality(currentBatch') < BatchSize
    BY <1>1, <2>2, <2>3 DEF BatchGrowth
  <2>4. CASE Cardinality(currentBatch') >= BatchSize
    <3>1. w \notin Flushing /\ Flushing' = Flushing \cup {w}
      BY <1>3, <2>4 DEF AppendToBatch, BatchFull, TypeOK, Flushing, Process
    <3>2. Cardinality(Flushing') = Cardinality(Flushing) + 1
      BY <1>1, <3>1, FS_AddElement
    <3> QED
      BY <1>1, <2>2, <3>2 DEF BatchGrowth
  <2> QED
    BY <2>2, <2>3, <2>4
<1>4. ASSUME NEW p \in Process, TakeBatch(p) PROVE BatchGrowth'
  <2>1. Cardinality(currentBatch') = 0
    BY <1>4, FS_EmptySet DEF TakeBatch
  <2> QED
    BY <1>1, <2>1 DEF BatchGrowth
<1>5. ASSUME NEW c \in Candle, Offer(c) PROVE BatchGrowth'
  BY <1>2, <1>5 DEF Offer, Flushing
<1>6. ASSUME NEW w \in Worker, NEW c \in Candle, Receive(w, c) PROVE BatchGrowth'
  BY <1>2, <1>6 DEF Receive, Flushing, TypeOK, Process
<1>7. ASSUME NEW w \in Worker, Tick(w) \/ WorkerExits(w) PROVE BatchGrowth'
  BY <1>2, <1>7 DEF Tick, WorkerExits, Flushing, TypeOK, Process
<1>8. ASSUME NEW p \in Process, WriteSucceeds(p) \/ WriteFails(p) PROVE BatchGrowth'
  BY <1>2, <1>8 DEF WriteSucceeds, WriteFails, Flushing, TypeOK, Process
<1>9. CASE Stop
  BY <1>2, <1>9 DEF Stop, Flushing, TypeOK, Process
<1>10. CASE UNCHANGED vars
  BY <1>2, <1>10 DEF vars, Flushing
<1> QED
  BY <1>3, <1>4, <1>5, <1>6, <1>7, <1>8, <1>9, <1>10, NextCases

\* currentBatch never holds BatchWriteSize + |workers| candles, whatever the
\* configured size and the number of workers.
THEOREM BatchIsBounded == Spec => []BatchBound
<1>1. Init => BatchGrowth
  BY FS_EmptySet, FS_Subset, FS_CardinalityType, WriterSets, WriterSizes
  DEF Init, BatchGrowth, Flushing
<1>2. TypeOK /\ BatchGrowth => BatchBound
  <2>1. Flushing \subseteq Worker
    BY DEF Flushing
  <2>2. IsFiniteSet(Flushing) /\ Cardinality(Flushing) <= Cardinality(Worker)
    BY <2>1, FS_Subset, WriterSets
  <2>3. Cardinality(Flushing) \in Nat /\ Cardinality(Worker) \in Nat
    BY <2>2, FS_CardinalityType, WriterSets
  <2>4. TypeOK => Cardinality(currentBatch) \in Nat
    BY FS_Subset, FS_CardinalityType, WriterSets DEF TypeOK
  <2> QED
    BY <2>2, <2>3, <2>4, WriterSizes DEF BatchGrowth, BatchBound
<1> QED
  BY <1>1, <1>2, BatchGrowthStep, TypeCorrect, PTL DEF Spec

--------------------------------------------------------------------------------
\* The batch writer implements the candle ledger: every step settles a whole
\* batch of accepted candles, accepts or refuses one, or leaves all fates alone.
THEOREM WriterImplementsLedger == Spec => ImplementsLedger
<1>1. Init => Ledger!LedgerInit
  BY DEF Init, Ledger!LedgerInit, candleFate
<1>2. TypeOK /\ Custody /\ [Next]_vars => [Ledger!LedgerNext]_candleFate
  <2> SUFFICES ASSUME TypeOK, Custody, [Next]_vars PROVE [Ledger!LedgerNext]_candleFate
    OBVIOUS
  <2> USE DEF TypeOK, Custody, NothingVanishes, OnePlace, Held, InFlight, Stored
  <2>1. ASSUME UNCHANGED <<offered, rows, lost>> PROVE UNCHANGED candleFate
    BY <2>1 DEF candleFate
  <2>2. ASSUME NEW c \in Candle, Offer(c) PROVE Ledger!LedgerNext
    <3>0. /\ c \notin lost /\ ~(rows[c] > 0) /\ rows' = rows
          /\ offered' = offered \cup {c}
      BY <2>2 DEF Offer
    <3>1. candleFate[c] = "new"
      BY <2>2, <3>0 DEF Offer, candleFate
    <3>2. CASE UNCHANGED lost
      <4>1. ASSUME NEW d \in Candle
            PROVE  candleFate'[d] = IF d = c THEN "accepted" ELSE candleFate[d]
        BY <3>0, <3>2 DEF candleFate
      <4>2. candleFate' = [candleFate EXCEPT ![c] = "accepted"]
        BY <4>1 DEF candleFate
      <4> QED
        BY <3>1, <4>2 DEF Ledger!LedgerNext, Ledger!Offer
    <3>3. CASE lost' = lost \cup {c}
      <4>1. candleFate' = [candleFate EXCEPT ![c] = "lost"]
        BY <2>2, <3>3 DEF Offer, candleFate
      <4> QED
        BY <3>1, <4>1 DEF Ledger!LedgerNext, Ledger!Offer
    <3> QED
      BY <2>2, <3>2, <3>3 DEF Offer
  <2>3. ASSUME NEW p \in Process PROVE \A c \in writing[p] : candleFate[c] = "accepted"
    BY DEF candleFate
  <2>4. ASSUME NEW p \in Process, WriteSucceeds(p) PROVE Ledger!LedgerNext
    <3>1. candleFate' = [c \in Candle |-> IF c \in writing[p] THEN "stored" ELSE candleFate[c]]
      BY <2>4 DEF WriteSucceeds, candleFate
    <3> QED
      BY <2>3, <3>1 DEF Ledger!LedgerNext, Ledger!Settle
  <2>5. ASSUME NEW p \in Process, WriteFails(p) PROVE Ledger!LedgerNext
    <3>1. candleFate' = [c \in Candle |-> IF c \in writing[p] THEN "lost" ELSE candleFate[c]]
      BY <2>5 DEF WriteFails, candleFate
    <3> QED
      BY <2>3, <3>1 DEF Ledger!LedgerNext, Ledger!Settle
  <2>6. ASSUME NEW w \in Worker, NEW c \in Candle, Receive(w, c) PROVE UNCHANGED candleFate
    BY <2>1, <2>6 DEF Receive
  <2>7. ASSUME NEW w \in Worker, AppendToBatch(w) \/ Tick(w) \/ WorkerExits(w)
        PROVE  UNCHANGED candleFate
    BY <2>1, <2>7 DEF AppendToBatch, BatchFull, Tick, WorkerExits
  <2>8. ASSUME NEW p \in Process, TakeBatch(p) PROVE UNCHANGED candleFate
    BY <2>1, <2>8 DEF TakeBatch
  <2>9. CASE Stop \/ UNCHANGED vars
    BY <2>1, <2>9 DEF Stop, vars
  <2> QED
    BY <2>2, <2>4, <2>5, <2>6, <2>7, <2>8, <2>9, NextCases
<1> QED
  BY <1>1, <1>2, CustodyInvariant, TypeCorrect, PTL
  DEF Spec, ImplementsLedger, Ledger!LedgerSpec

--------------------------------------------------------------------------------
\* CandleCache.  What the variables are.
Location == {"idle", "memory", "get", "query", "fill"}
CacheTypes ==
    /\ table \in [Market -> SUBSET Time]
    /\ mem \in [Market -> 0..MaxTime]
    /\ cache \in [Key -> SUBSET Nat]
    /\ pc \in [Reader -> Location]
    /\ asked \in [Reader -> Asked]
    /\ got \in [Reader -> SUBSET Nat]
    /\ since \in [Reader -> SUBSET Time]
    /\ pending \in [Flusher -> Seq(Key)]

\* An answer that may be found under key k when the market has the rows T.
Sound(T, a, k) ==
    /\ k[3] \in AnySource
    /\ k[1] = "list" => a \subseteq T /\ Cardinality(a) <= CacheLimit
    /\ k[1] = "latest" => Cardinality(a) = 1

CacheSound == \A k \in Key : cache[k] # {} => Sound(table[k[2]], cache[k], k)

\* An answer to request q that the database gave after it had the rows s.
Own(T, q, g, s) ==
    /\ g \subseteq InRange(T, q) /\ Cardinality(g) <= LimitOf(q)
    /\ \A a \in g, t \in InRange(s, q) : t > a => t \in g

\* A reader at l with request q, answer g and the rows s when it asked.  A request that
\* passes the cache by is never on its way to the cache; a reader about to fill the cache
\* has an answer for its key; an idle one has such an answer, or one of its own.
ReaderOK(T, l, q, g, s) ==
    /\ l \in {"memory", "get", "fill"} => ~Bypasses(q)
    /\ l = "memory" => q.kind = "latest"
    /\ s \subseteq T
    /\ l = "fill" => g = {} \/ Sound(T, g, KeyOf(q))
    /\ l = "idle" /\ g \notin {{}, Error} =>
          IF Bypasses(q) THEN Own(T, q, g, s) ELSE Sound(T, g, KeyOf(q))
ReaderSound(r) == ReaderOK(table[asked[r].market], pc[r], asked[r], got[r], since[r])

CacheInv == CacheTypes /\ CacheSound /\ \A r \in Reader : ReaderSound(r)

\* Apply limits: the limit is a number of rows.
LEMMA LimitIsNatural ==
  ASSUME NEW q \in Asked
  PROVE  LimitOf(q) \in Nat
BY CacheRequests, CacheSizes DEF LimitOf

\* A list has to come from the database exactly when it is not cacheable.
LEMMA BypassIsUncacheable ==
  ASSUME NEW q \in Asked
  PROVE  /\ q.kind \in {"list", "latest"}
         /\ Bypasses(q) <=> q.kind = "list" /\ ~Cacheable(q)
         /\ q.kind = "list" /\ ~Bypasses(q) =>
               q.start = 0 /\ q.end = 0 /\ LimitOf(q) <= CacheLimit
<1>1. LimitOf(q) \in Nat /\ CacheLimit \in Nat /\ q.kind \in {"list", "latest"}
  BY LimitIsNatural, CacheRequests, CacheSizes
<1> QED
  BY <1>1 DEF Bypasses, Cacheable

\* A key names its market.
LEMMA KeyFacts ==
  ASSUME NEW q \in Asked
  PROVE  /\ q.market \in Market /\ KeyOf(q) \in Key
         /\ KeyOf(q)[1] = q.kind /\ KeyOf(q)[2] = q.market /\ KeyOf(q)[3] = q.source
BY CacheRequests DEF KeyOf, Key

\* The open times are finitely many, so every set of them has a size.
LEMMA TimesFinite ==
  ASSUME NEW S \in SUBSET Time
  PROVE  IsFiniteSet(S) /\ Cardinality(S) \in Nat
<1>1. IsFiniteSet(Time)
  BY CacheSizes, FS_Interval DEF Time
<1> QED
  BY <1>1, FS_Subset, FS_CardinalityType

\* The rows a list query gives are the newest ones of its range, as far as it got.
LEMMA ListFacts ==
  ASSUME NEW T \in SUBSET Time, NEW s \in SUBSET T, NEW q, NEW A \in Lists(T, q)
  PROVE  /\ A \subseteq T /\ A \subseteq Nat /\ (A # {} => q.source \in AnySource)
         /\ Own(T, q, A, s)
<1>1. /\ A \subseteq InRange(T, q) /\ Cardinality(A) <= LimitOf(q)
      /\ \A a \in A, t \in InRange(T, q) : t > a => t \in A
  BY DEF Lists
<1>2. InRange(s, q) \subseteq InRange(T, q) /\ InRange(T, q) \subseteq T
  BY Zenon DEF InRange
<1>3. A # {} => q.source \in AnySource
  BY <1>1 DEF InRange
<1>4. T \subseteq Nat
  BY CacheSizes DEF Time
<1> QED
  BY <1>1, <1>2, <1>3, <1>4, Zenon DEF Own

\* The answer of the latest query is one row of the table.
LEMMA LatestFacts ==
  ASSUME NEW T \in SUBSET Time, NEW q \in Asked, NEW A \in Latest(T, q)
  PROVE  /\ A \subseteq Nat /\ Cardinality(A) = 1 /\ q.source \in AnySource
<1> DEFINE p == [q EXCEPT !.limit = 1]
<1>1. A \in Lists(T, p) /\ A # {}
  BY DEF Latest
<1>2. p.source = q.source /\ LimitOf(p) = 1
  BY CacheRequests, CacheSizes DEF LimitOf
<1> HIDE DEF p
<1>3. A \subseteq T /\ A \subseteq Nat /\ q.source \in AnySource
  BY <1>1, <1>2, ListFacts
<1>4. Cardinality(A) <= 1
  BY <1>1, <1>2 DEF Lists
<1>5. IsFiniteSet(A) /\ Cardinality(A) \in Nat
  BY <1>3, TimesFinite
<1>6. Cardinality(A) # 0
  BY <1>1, <1>5, FS_EmptySet
<1> QED
  BY <1>3, <1>4, <1>5, <1>6

\* A reader's answer stays sound as the table grows.
LEMMA ReaderStays ==
  ASSUME NEW T, NEW T2, T \subseteq T2, NEW l, NEW q, NEW g, NEW s, ReaderOK(T, l, q, g, s)
  PROVE  ReaderOK(T2, l, q, g, s)
<1>1. Sound(T, g, KeyOf(q)) => Sound(T2, g, KeyOf(q))
  BY Zenon DEF Sound
<1>2. InRange(T, q) \subseteq InRange(T2, q)
  BY Zenon DEF InRange
<1>3. Own(T, q, g, s) => Own(T2, q, g, s)
  BY <1>2, Zenon DEF Own
<1>4. s \subseteq T2
  BY Zenon DEF ReaderOK
<1> QED
  BY <1>1, <1>3, <1>4, Zenon DEF ReaderOK

\* A step of one reader.
LEMMA ReaderMoves ==
  ASSUME CacheInv, NEW r \in Reader,
         NEW l \in Location, NEW q \in Asked, NEW g \in SUBSET Nat, NEW s \in SUBSET Time,
         pc' = [pc EXCEPT ![r] = l], asked' = [asked EXCEPT ![r] = q],
         got' = [got EXCEPT ![r] = g], since' = [since EXCEPT ![r] = s],
         UNCHANGED <<table, mem, pending>>,
         cache' \in [Key -> SUBSET Nat], CacheSound',
         ReaderOK(table[q.market], l, q, g, s)
  PROVE  CacheInv'
<1>1. CacheTypes'
  BY DEF CacheInv, CacheTypes
<1>2. ASSUME NEW x \in Reader PROVE ReaderSound(x)'
  <2>1. CASE x = r
    <3>1. pc'[x] = l /\ asked'[x] = q /\ got'[x] = g /\ since'[x] = s
      BY <2>1 DEF CacheInv, CacheTypes
    <3> QED
      BY <3>1 DEF ReaderSound
  <2>2. CASE x # r
    <3>1. pc'[x] = pc[x] /\ asked'[x] = asked[x] /\ got'[x] = got[x] /\ since'[x] = since[x]
      BY <2>2 DEF CacheInv, CacheTypes
    <3> QED
      BY <3>1 DEF ReaderSound, CacheInv
  <2> QED
    BY <2>1, <2>2
<1> QED
  BY <1>1, <1>2 DEF CacheInv

\* A step that no reader takes: the table grows, the memory changes, entries are dropped.
LEMMA OthersMove ==
  ASSUME CacheInv, CacheTypes', UNCHANGED <<pc, asked, got, since>>,
         \A m \in Market : table[m] \subseteq table'[m],
         \A k \in Key : cache'[k] = cache[k] \/ cache'[k] = {}
  PROVE  CacheInv'
<1>1. ASSUME NEW k \in Key, cache'[k] # {}
      PROVE  Sound(table'[k[2]], cache'[k], k)
  <2>1. cache'[k] = cache[k] /\ k[2] \in Market
    BY <1>1 DEF Key
  <2>2. Sound(table[k[2]], cache[k], k)
    BY <1>1, <2>1 DEF CacheInv, CacheSound
  <2>3. table[k[2]] \subseteq table'[k[2]]
    BY <2>1
  <2> QED
    BY <2>1, <2>2, <2>3, Zenon DEF Sound
<1>2. ASSUME NEW r \in Reader PROVE ReaderSound(r)'
  <2> DEFINE m == asked[r].market
  <2>1. m \in Market
    BY KeyFacts DEF CacheInv, CacheTypes
  <2> HIDE DEF m
  <2>2. table[m] \subseteq table'[m]
    BY <2>1
  <2>3. ReaderOK(table[m], pc[r], asked[r], got[r], since[r])
    BY DEF CacheInv, ReaderSound, m
  <2>4. ReaderOK(table'[m], pc[r], asked[r], got[r], since[r])
    BY <2>2, <2>3, ReaderStays
  <2> QED
    BY <2>4 DEF ReaderSound, m
<1> QED
  BY <1>1, <1>2 DEF CacheInv, CacheSound

\* A step of one reader that keeps its request.
LEMMA ReaderReplies ==
  ASSUME CacheInv, NEW r \in Reader, NEW l \in Location, NEW g \in SUBSET Nat,
         pc' = [pc EXCEPT ![r] = l], got' = [got EXCEPT ![r] = g],
         UNCHANGED <<table, mem, asked, since, pending>>,
         cache' \in [Key -> SUBSET Nat], CacheSound',
         ReaderOK(table[asked[r].market], l, asked[r], g, since[r])
  PROVE  CacheInv'
<1>1. asked[r] \in Asked /\ since[r] \in SUBSET Time
  BY DEF CacheInv, CacheTypes
<1>2. asked' = [asked EXCEPT ![r] = asked[r]] /\ since' = [since EXCEPT ![r] = since[r]]
  BY DEF CacheInv, CacheTypes
<1> QED
  BY <1>1, <1>2, ReaderMoves

\* Each step of a reader, which finds and leaves sound answers.
LEMMA ReaderPreserves ==
  ASSUME CacheInv, NEW r \in Reader, ReaderStep(r)
  PROVE  CacheInv'
<1> DEFINE l0 == pc[r]
           q0 == asked[r]
           g0 == got[r]
           s0 == since[r]
           t0 == table[q0.market]
<1>1. /\ l0 \in Location /\ q0 \in Asked /\ g0 \in SUBSET Nat /\ s0 \in SUBSET Time
      /\ q0.market \in Market /\ t0 \in SUBSET Time
      /\ KeyOf(q0) \in Key /\ KeyOf(q0)[1] = q0.kind /\ KeyOf(q0)[2] = q0.market
      /\ KeyOf(q0)[3] = q0.source
  BY KeyFacts DEF CacheInv, CacheTypes
<1>2. ReaderOK(t0, l0, q0, g0, s0)
  BY DEF CacheInv, ReaderSound
<1>3. got = [got EXCEPT ![r] = g0]
  BY DEF CacheInv, CacheTypes
<1>4. cache \in [Key -> SUBSET Nat] /\ CacheSound
  BY DEF CacheInv, CacheTypes
<1>5. ASSUME UNCHANGED <<table, cache>> PROVE cache' \in [Key -> SUBSET Nat] /\ CacheSound'
  BY <1>4, <1>5 DEF CacheSound
<1>6. ASSUME NEW q \in Asked, Ask(r, q) PROVE CacheInv'
  <2> DEFINE l == IF q.kind = "latest" THEN "memory" ELSE IF Cacheable(q) THEN "get" ELSE "query"
             s == IF Bypasses(q) THEN table[q.market] ELSE {}
  <2>1. {} \in SUBSET Nat /\ table[q.market] \in SUBSET Time /\ l \in Location
    BY KeyFacts DEF CacheInv, CacheTypes, Location
  <2>2. s \in SUBSET Time /\ s \subseteq table[q.market]
    BY <2>1
  <2>3. l \in {"memory", "get", "fill"} => ~Bypasses(q)
    BY BypassIsUncacheable
  <2>4. (l = "memory" => q.kind = "latest") /\ l # "fill"
    OBVIOUS
  <2>5. /\ pc' = [pc EXCEPT ![r] = l] /\ asked' = [asked EXCEPT ![r] = q]
        /\ got' = [got EXCEPT ![r] = {}]
        /\ since' = [since EXCEPT ![r] = s]
        /\ UNCHANGED <<table, mem, cache, pending>>
    BY <1>6 DEF Ask, Reply, ToPc
  <2> HIDE DEF l, s
  <2>6. ReaderOK(table[q.market], l, q, {}, s)
    BY <2>2, <2>3, <2>4 DEF ReaderOK
  <2> QED
    BY <1>5, <2>1, <2>2, <2>5, <2>6, ReaderMoves
<1>7. CASE MemoryHit(r)
  <2> DEFINE g == {mem[q0.market]}
  <2>1. mem[q0.market] \in Nat
    BY <1>1, CacheSizes DEF CacheInv, CacheTypes
  <2>2. g \in SUBSET Nat /\ Cardinality(g) = 1
    BY <2>1, FS_Singleton
  <2>3. ~Bypasses(q0) /\ q0.kind = "latest" /\ s0 \subseteq t0
    BY <1>2, <1>7 DEF MemoryHit, ReaderOK
  <2>4. q0.source \in AnySource /\ UNCHANGED <<table, mem, cache, asked, since, pending>>
    BY <1>7 DEF MemoryHit
  <2>5. pc' = [pc EXCEPT ![r] = "fill"] /\ got' = [got EXCEPT ![r] = g]
    BY <1>7 DEF MemoryHit, Reply, ToPc
  <2> HIDE DEF g
  <2>6. Sound(t0, g, KeyOf(q0))
    BY <1>1, <2>2, <2>3, <2>4 DEF Sound
  <2>7. ReaderOK(t0, "fill", q0, g, s0)
    BY <2>3, <2>6 DEF ReaderOK
  <2>8. "fill" \in Location
    BY DEF Location
  <2> QED
    BY <1>5, <2>2, <2>4, <2>5, <2>7, <2>8, ReaderReplies
<1>8. CASE MemoryMiss(r)
  <2>1. ReaderOK(t0, "get", q0, g0, s0)
    BY <1>2, <1>8 DEF MemoryMiss, ReaderOK
  <2>2. /\ pc' = [pc EXCEPT ![r] = "get"]
        /\ got' = [got EXCEPT ![r] = g0]
        /\ UNCHANGED <<table, mem, cache, asked, since, pending>>
    BY <1>3, <1>8 DEF MemoryMiss, ToPc
  <2>3. "get" \in Location
    BY DEF Location
  <2> QED
    BY <1>1, <1>5, <2>1, <2>2, <2>3, ReaderReplies
<1>9. CASE CacheHit(r)
  <2> DEFINE g == cache[KeyOf(q0)]
  <2>1. g \in SUBSET Nat /\ g # {}
    BY <1>1, <1>4, <1>9 DEF CacheHit
  <2>2. Sound(t0, g, KeyOf(q0))
    BY <1>1, <1>4, <2>1 DEF CacheSound
  <2>3. ReaderOK(t0, "idle", q0, g, s0)
    BY <1>2, <1>9, <2>1, <2>2 DEF CacheHit, ReaderOK
  <2>4. /\ pc' = [pc EXCEPT ![r] = "idle"] /\ got' = [got EXCEPT ![r] = g]
        /\ UNCHANGED <<table, mem, cache, asked, since, pending>>
    BY <1>9 DEF CacheHit, Reply, ToPc
  <2>5. "idle" \in Location
    BY DEF Location
  <2> QED
    BY <1>5, <2>1, <2>3, <2>4, <2>5, ReaderReplies
<1>10. CASE CacheMiss(r)
  <2>1. ReaderOK(t0, "query", q0, g0, s0)
    BY <1>2, <1>10 DEF CacheMiss, ReaderOK
  <2>2. /\ pc' = [pc EXCEPT ![r] = "query"]
        /\ got' = [got EXCEPT ![r] = g0]
        /\ UNCHANGED <<table, mem, cache, asked, since, pending>>
    BY <1>3, <1>10 DEF CacheMiss, ToPc
  <2>3. "query" \in Location
    BY DEF Location
  <2> QED
    BY <1>1, <1>5, <2>1, <2>2, <2>3, ReaderReplies
<1>11. CASE QueryDatabase(r)
  <2> DEFINE Answers == IF q0.kind = "list" THEN Lists(t0, q0) ELSE Latest(t0, q0)
             l == IF q0.kind = "list" /\ ~Cacheable(q0) THEN "idle" ELSE "fill"
  <2>1. \E A \in Answers : got' = [got EXCEPT ![r] = A]
    BY <1>11 DEF QueryDatabase, Reply
  <2>2. PICK g \in Answers : got' = [got EXCEPT ![r] = g]
    BY <2>1
  <2>3. /\ pc' = [pc EXCEPT ![r] = l]
        /\ UNCHANGED <<table, mem, cache, asked, since, pending>>
    BY <1>11 DEF QueryDatabase, ToPc
  <2>4. s0 \subseteq t0 /\ l \in Location /\ (l = "idle" <=> Bypasses(q0)) /\ l \in {"idle", "fill"}
    BY <1>1, <1>2, BypassIsUncacheable DEF ReaderOK, Location
  <2>5. CASE q0.kind = "list"
    <3>1. /\ g \subseteq t0 /\ g \subseteq Nat /\ (g # {} => q0.source \in AnySource)
          /\ Own(t0, q0, g, s0)
      BY <1>1, <2>2, <2>4, <2>5, ListFacts
    <3>2. ~Bypasses(q0) => Cardinality(g) <= CacheLimit
      <4>1. Cardinality(g) \in Nat /\ LimitOf(q0) \in Nat /\ CacheLimit \in Nat
        BY <1>1, <3>1, TimesFinite, LimitIsNatural, CacheSizes
      <4> QED
        BY <1>1, <2>5, <3>1, <4>1, BypassIsUncacheable DEF Own
    <3>3. ~Bypasses(q0) => g = {} \/ Sound(t0, g, KeyOf(q0))
      BY <1>1, <2>5, <3>1, <3>2 DEF Sound
    <3> HIDE DEF l
    <3>4. ReaderOK(t0, l, q0, g, s0)
      BY <2>4, <3>1, <3>3 DEF ReaderOK
    <3> QED
      BY <1>5, <2>2, <2>3, <2>4, <3>1, <3>4, ReaderReplies
  <2>6. CASE q0.kind = "latest"
    <3>1. g \subseteq Nat /\ Cardinality(g) = 1 /\ q0.source \in AnySource
      BY <1>1, <2>2, <2>6, LatestFacts
    <3>2. Sound(t0, g, KeyOf(q0)) /\ ~Bypasses(q0)
      BY <1>1, <2>6, <3>1 DEF Sound, Bypasses
    <3> HIDE DEF l
    <3>3. ReaderOK(t0, l, q0, g, s0)
      BY <2>4, <3>2 DEF ReaderOK
    <3> QED
      BY <1>5, <2>2, <2>3, <2>4, <3>1, <3>3, ReaderReplies
  <2> QED
    BY <1>1, <2>5, <2>6, BypassIsUncacheable
<1>12. CASE QueryFails(r)
  <2>1. Error \in SUBSET Nat /\ "idle" \in Location
    BY DEF Error, Location
  <2>2. ReaderOK(t0, "idle", q0, Error, s0)
    BY <1>2 DEF ReaderOK
  <2>3. /\ pc' = [pc EXCEPT ![r] = "idle"] /\ got' = [got EXCEPT ![r] = Error]
        /\ UNCHANGED <<table, mem, cache, asked, since, pending>>
    BY <1>12 DEF QueryFails, Reply, ToPc
  <2> QED
    BY <1>5, <2>1, <2>2, <2>3, ReaderReplies
<1>13. CASE Fill(r)
  <2>1. ~Bypasses(q0) /\ (g0 = {} \/ Sound(t0, g0, KeyOf(q0))) /\ s0 \subseteq t0
    BY <1>2, <1>13 DEF Fill, ReaderOK
  <2>2. ReaderOK(t0, "idle", q0, g0, s0)
    BY <2>1 DEF ReaderOK
  <2>3. /\ pc' = [pc EXCEPT ![r] = "idle"]
        /\ got' = [got EXCEPT ![r] = g0]
        /\ UNCHANGED <<table, mem, asked, since, pending>>
        /\ cache' = [cache EXCEPT ![KeyOf(q0)] = g0] \/ cache' = cache
    BY <1>3, <1>13 DEF Fill, ToPc
  <2>4. cache' \in [Key -> SUBSET Nat]
    BY <1>1, <1>4, <2>3
  <2>5. ASSUME NEW k \in Key, cache'[k] # {}
        PROVE  Sound(table'[k[2]], cache'[k], k)
    <3>1. CASE cache'[k] = cache[k]
      BY <1>4, <2>3, <2>5, <3>1 DEF CacheSound
    <3>2. CASE k = KeyOf(q0) /\ cache'[k] = g0
      BY <1>1, <2>1, <2>3, <2>5, <3>2
    <3> QED
      BY <1>4, <2>3, <3>1, <3>2
  <2>6. CacheSound'
    BY <2>5 DEF CacheSound
  <2>7. "idle" \in Location
    BY DEF Location
  <2> QED
    BY <1>1, <2>2, <2>3, <2>4, <2>6, <2>7, ReaderReplies
<1> QED
  BY <1>6, <1>7, <1>8, <1>9, <1>10, <1>11, <1>12, <1>13 DEF ReaderStep

\* BatchCreateCandles deletes keys of the cache.
LEMMA InvalidatedKeys ==
  ASSUME NEW m \in Market, NEW n \in Nat
  PROVE  Invalidated(m, n) \in Seq(Key)
<1>1. ASSUME NEW i \in 1..(2 * n)
      PROVE  <<IF i % 2 = 1 THEN "list" ELSE "latest", m, "aggregated">> \in Key
  <2>1. <<"list", m, "aggregated">> \in Key /\ <<"latest", m, "aggregated">> \in Key
    BY Zenon DEF Key, Source
  <2> QED
    BY <2>1, Zenon
<1>2. Invalidated(m, n) \in [1..(2 * n) -> Key]
  BY <1>1, Zenon DEF Invalidated
<1>3. 2 * n \in Nat
  OBVIOUS
<1> QED
  BY <1>2, <1>3

\* At the start nothing is cached and nobody has asked.
LEMMA CacheInitially == CacheInit => CacheInv
<1> SUFFICES ASSUME CacheInit PROVE CacheInv
  OBVIOUS
<1>1. (CHOOSE q \in Asked : TRUE) \in Asked
  BY CacheRequests
<1>2. /\ <<>> \in Seq(Key) /\ "idle" \in Location /\ SUBSET {1} \subseteq SUBSET Time
      /\ 0 \in 0..MaxTime
  BY CacheSizes DEF Location, Time
<1>3. CacheTypes
  BY <1>1, <1>2 DEF CacheInit, CacheTypes
<1>4. CacheSound
  BY DEF CacheInit, CacheSound
<1>5. ASSUME NEW r \in Reader PROVE ReaderSound(r)
  <2>1. pc[r] = "idle" /\ got[r] = {} /\ since[r] = {}
    BY DEF CacheInit
  <2> QED
    BY <2>1 DEF ReaderSound, ReaderOK
<1> QED
  BY <1>3, <1>4, <1>5 DEF CacheInv

\* Every step of readers, writers and Redis keeps the invariant.
LEMMA CacheInductive == CacheInv /\ [CacheNext]_ccVars => CacheInv'
<1> SUFFICES ASSUME CacheInv, [CacheNext]_ccVars PROVE CacheInv'
  OBVIOUS
<1>0. CacheTypes
  BY DEF CacheInv
<1>1. ASSUME NEW r \in Reader, ReaderStep(r) PROVE CacheInv'
  BY <1>1, ReaderPreserves
<1>2. ASSUME NEW m \in Market, NEW t \in Time, LiveCandle(m, t) PROVE CacheInv'
  <2>1. /\ mem' = [mem EXCEPT ![m] = t]
        /\ UNCHANGED <<table, cache, pc, asked, got, since, pending>>
    BY <1>2 DEF LiveCandle
  <2>2. t \in 0..MaxTime
    BY CacheSizes DEF Time
  <2>3. CacheTypes'
    BY <1>0, <2>1, <2>2 DEF CacheTypes
  <2> QED
    BY <2>1, <2>3, OthersMove
<1>3. ASSUME NEW f \in Flusher, NEW m \in Market \ Derived, NEW S \in Batches,
             InsertBatch(f, m, S)
      PROVE  CacheInv'
  <2>1. S \in SUBSET Time
    BY DEF Batches
  <2>2. Invalidated(m, Cardinality(S)) \in Seq(Key)
    BY <2>1, TimesFinite, InvalidatedKeys
  <2>3. /\ table' = [table EXCEPT ![m] = @ \cup S]
        /\ pending' = [pending EXCEPT ![f] = Invalidated(m, Cardinality(S))]
        /\ UNCHANGED <<mem, cache, pc, asked, got, since>>
    BY <1>3 DEF InsertBatch
  <2>4. CacheTypes'
    BY <1>0, <2>1, <2>2, <2>3 DEF CacheTypes
  <2>5. \A x \in Market : table[x] \subseteq table'[x]
    BY <1>0, <2>3 DEF CacheTypes
  <2> QED
    BY <2>3, <2>4, <2>5, OthersMove
<1>4. ASSUME NEW f \in Flusher, DeleteKey(f) PROVE CacheInv'
  <2>1. pending[f] \in Seq(Key) /\ pending[f] # <<>>
    BY <1>0, <1>4 DEF CacheTypes, DeleteKey
  <2>2. Tail(pending[f]) \in Seq(Key) /\ Head(pending[f]) \in Key
    BY <2>1
  <2>3. /\ pending' = [pending EXCEPT ![f] = Tail(pending[f])]
        /\ cache' = [cache EXCEPT ![Head(pending[f])] = {}] \/ cache' = cache
        /\ UNCHANGED <<table, mem, pc, asked, got, since>>
    BY <1>4 DEF DeleteKey
  <2>4. CacheTypes'
    BY <1>0, <2>2, <2>3 DEF CacheTypes
  <2>5. \A k \in Key : cache'[k] = cache[k] \/ cache'[k] = {}
    BY <1>0, <2>2, <2>3 DEF CacheTypes
  <2> QED
    BY <2>3, <2>4, <2>5, OthersMove
<1>5. ASSUME NEW m \in Derived, NEW t \in Time, InsertDerived(m, t) PROVE CacheInv'
  <2>1. /\ table' = [table EXCEPT ![m] = @ \cup {t}]
        /\ UNCHANGED <<mem, cache, pc, asked, got, since, pending>>
    BY <1>5 DEF InsertDerived
  <2>2. CacheTypes'
    BY <1>0, <2>1, CacheSizes DEF CacheTypes
  <2>3. \A x \in Market : table[x] \subseteq table'[x]
    BY <1>0, <2>1 DEF CacheTypes
  <2> QED
    BY <2>1, <2>2, <2>3, OthersMove
<1>6. ASSUME NEW k \in Key, Expire(k) PROVE CacheInv'
  <2>1. /\ cache' = [cache EXCEPT ![k] = {}]
        /\ UNCHANGED <<table, mem, pc, asked, got, since, pending>>
    BY <1>6 DEF Expire
  <2>2. CacheTypes'
    BY <1>0, <2>1 DEF CacheTypes
  <2>3. \A x \in Key : cache'[x] = cache[x] \/ cache'[x] = {}
    BY <1>0, <2>1 DEF CacheTypes
  <2> QED
    BY <2>1, <2>2, <2>3, OthersMove
<1>7. CASE UNCHANGED ccVars
  BY <1>7 DEF ccVars, CacheInv, CacheTypes, CacheSound, ReaderSound
<1> QED
  BY <1>1, <1>2, <1>3, <1>4, <1>5, <1>6, <1>7 DEF CacheNext

\* The invariant of the cache, always.
LEMMA CacheInvariant == CacheSpec => []CacheInv
BY CacheInitially, CacheInductive, PTL DEF CacheSpec

\* GetCandles, GetLatestCandle: for any number of clients, writers and markets, and
\* whatever overtakes what, a list has only rows of the market, source and range asked
\* for, at most as many as asked for past the cache and as are ever cached otherwise; a
\* latest candle is one candle.
THEOREM AnswersAreGenuine == CacheSpec => []AnswerGenuine
<1>1. CacheInv => AnswerGenuine
  <2> SUFFICES ASSUME CacheInv, NEW r \in Reader, Answered(r)
               PROVE  LET q == asked[r]
                      IN  /\ q.kind = "list" =>
                             /\ got[r] \subseteq InRange(table[q.market], q)
                             /\ Cardinality(got[r]) <=
                                   IF Bypasses(q) THEN LimitOf(q) ELSE CacheLimit
                          /\ q.kind = "latest" =>
                                q.source \in AnySource /\ Cardinality(got[r]) = 1
    BY DEF AnswerGenuine
  <2> DEFINE q == asked[r]
             T == table[q.market]
  <2>1. q \in Asked /\ T \in SUBSET Time
    BY KeyFacts DEF CacheInv, CacheTypes
  <2>2. KeyOf(q)[1] = q.kind /\ KeyOf(q)[3] = q.source
    BY <2>1, KeyFacts
  <2>3. IF Bypasses(q) THEN Own(T, q, got[r], since[r]) ELSE Sound(T, got[r], KeyOf(q))
    BY DEF CacheInv, ReaderSound, ReaderOK, Answered
  <2>4. CASE Bypasses(q)
    BY <2>3, <2>4 DEF Own, Bypasses
  <2>5. CASE ~Bypasses(q)
    <3>1. Sound(T, got[r], KeyOf(q))
      BY <2>3, <2>5
    <3>2. ASSUME q.kind = "list"
          PROVE  got[r] \subseteq InRange(T, q) /\ Cardinality(got[r]) <= CacheLimit
      <4>1. q.start = 0 /\ q.end = 0
        BY <2>1, <2>5, <3>2, BypassIsUncacheable
      <4>2. T \subseteq InRange(T, q)
        BY <2>1, <2>2, <3>1, <4>1, CacheSizes DEF InRange, Sound, Time
      <4> QED
        BY <2>2, <3>1, <3>2, <4>2 DEF Sound
    <3> QED
      BY <2>2, <2>5, <3>1, <3>2 DEF Sound
  <2> QED
    BY <2>4, <2>5
<1> QED
  BY <1>1, CacheInvariant, PTL

\* GetCandles: a list for a request with a time range or a large limit has no hole: every
\* row of its range that was there when it was made and is newer than one in the list is
\* in the list, for any markets, clients and writers and however stale the cache is.
THEOREM UncachedStaysCurrent == CacheSpec => []UncachedIsCurrent
<1>1. CacheInv => UncachedIsCurrent
  <2> SUFFICES ASSUME CacheInv, NEW r \in Reader, Answered(r), Bypasses(asked[r])
               PROVE  \A a \in got[r], t \in InRange(since[r], asked[r]) : t > a => t \in got[r]
    BY DEF UncachedIsCurrent
  <2>1. Own(table[asked[r].market], asked[r], got[r], since[r])
    BY DEF CacheInv, ReaderSound, ReaderOK, Answered
  <2> QED
    BY <2>1 DEF Own
<1> QED
  BY <1>1, CacheInvariant, PTL
================================================================================

------------------------ MODULE RealtimeAggregatorProofs ------------------------
(***************************************************************************)
(* Proofs about RealtimeAggregator, for any finite set of exchanges and any *)
(* number of windows and updates.                                           *)
(***************************************************************************)
EXTENDS RealtimeAggregator, FiniteSetTheorems, TLAPS

\* Every step is one of an exchange's goroutine, a delete goroutine or a reader.
LEMMA NextCases ==
    ASSUME Next
    PROVE  \/ \E e \in Exchange, u \in Update : Receive(e, u)
           \/ \E e \in Exchange : StoreData(e)
           \/ \E e \in Exchange : Aggregate(e)
           \/ \E e \in Exchange : SetAggregated(e)
           \/ \E e \in Exchange : StorePrice(e)
           \/ \E e \in Exchange : SumPrices(e)
           \/ \E e \in Exchange : WritePrice(e)
           \/ \E e \in Exchange : StoreLatest(e) \/ OfferClosed(e) \/ StartDelete(e)
           \/ \E w \in Window : DeleteLive(w)
           \/ ReaderMisses
           \/ ReaderStores
BY DEF Next, ExchangeStep

--------------------------------------------------------------------------------
\* The updates received so far.  There are no more live candles than that, which is why
\* there are enough objects.
Received == {h \in Exchange \X (1..MaxUpdates) : h[2] <= upd[h[1]].seq}
EnoughObjects == created <= Cardinality(Received)

\* The updates received are finitely many.
LEMMA ReceivedFinite ==
    /\ IsFiniteSet(Received)
    /\ Cardinality(Received) \in Nat
    /\ Cardinality(Exchange) * MaxUpdates \in Nat
    /\ Cardinality(Received) <= Cardinality(Exchange) * MaxUpdates
<1>1. IsFiniteSet(1..MaxUpdates) /\ Cardinality(1..MaxUpdates) = MaxUpdates
  BY FS_Interval, RealtimeSizes
<1>2. /\ IsFiniteSet(Exchange \X (1..MaxUpdates))
      /\ Cardinality(Exchange \X (1..MaxUpdates)) = Cardinality(Exchange) * MaxUpdates
  BY <1>1, FS_Product, RealtimeSets
<1>3. Received \in SUBSET (Exchange \X (1..MaxUpdates))
  BY DEF Received
<1>4. IsFiniteSet(Received) /\ Cardinality(Received) <= Cardinality(Exchange) * MaxUpdates
  BY <1>2, <1>3, FS_Subset
<1> QED
  BY <1>2, <1>4, FS_CardinalityType

\* The types of an update and of an aggregate.
LEMMA UpdateType ==
    /\ NoUpdate.seq = 0 /\ NoUpdate.win = 1 /\ NoUpdate.valid = FALSE /\ NoUpdate.closed = FALSE
    /\ \A u \in Update : /\ u.seq \in 1..MaxUpdates /\ u.win \in Window /\ u # NoUpdate
                         /\ u.valid \in BOOLEAN /\ u.closed \in BOOLEAN
    /\ None \in Aggregates
    /\ \A e \in Exchange : None[e] = NoUpdate
    /\ NoPrices \in [Exchange -> 0..MaxUpdates]
BY RealtimeSizes DEF NoUpdate, Update, Window, None, Aggregates, NoPrices

\* aggregateLiveCandle makes an aggregate of the updates of an object.
LEMMA AggregateType ==
    ASSUME TypeOK, NEW o \in Object
    PROVE  AggregateLiveCandle(o) \in Aggregates
BY DEF AggregateLiveCandle, TypeOK, Aggregates

\* Every step keeps the types, and the objects suffice.
LEMMA TypeStep == TypeOK /\ EnoughObjects /\ [Next]_rtVars => TypeOK' /\ EnoughObjects'
<1> SUFFICES ASSUME TypeOK, EnoughObjects, [Next]_rtVars PROVE TypeOK' /\ EnoughObjects'
  OBVIOUS
<1> USE RealtimeSizes
<1> DEFINE N == Cardinality(Exchange) * MaxUpdates
<1>a. N \in Nat /\ created \in 0..N /\ Cardinality(Received) \in Nat
  BY ReceivedFinite DEF TypeOK
<1>b. \A e \in Exchange : at[e] # "idle" => live[e] \in Object /\ upd[e] \in Update
  BY <1>a, UpdateType DEF TypeOK, Object
<1> HIDE DEF N
<1>c. UNCHANGED upd /\ UNCHANGED created => EnoughObjects'
  BY DEF EnoughObjects, Received
<1>1. ASSUME NEW e \in Exchange, NEW u \in Update, Receive(e, u) PROVE TypeOK' /\ EnoughObjects'
  <2>1. u.seq = upd[e].seq + 1 /\ u.seq \in 1..MaxUpdates /\ u.win \in Window
    BY <1>1, UpdateType DEF Receive, NextUpdate
  <2>2. \A d \in Exchange : upd'[d] = IF d = e THEN u ELSE upd[d]
    BY <1>1 DEF Receive, TypeOK
  <2>3. \A d \in Exchange : upd[d].seq \in 0..MaxUpdates
    BY UpdateType DEF TypeOK
  <2>4. Received' = Received \cup {<<e, u.seq>>} /\ <<e, u.seq>> \notin Received
    BY <2>1, <2>2, <2>3 DEF Received
  <2>5. Cardinality(Received') = Cardinality(Received) + 1
    BY <2>4, ReceivedFinite, FS_AddElement
  <2>6. Cardinality(Received') <= N
    <3>1. Received' \in SUBSET (Exchange \X (1..MaxUpdates))
      BY DEF Received
    <3>2. IsFiniteSet(1..MaxUpdates) /\ Cardinality(1..MaxUpdates) = MaxUpdates
      BY FS_Interval
    <3>3. /\ IsFiniteSet(Exchange \X (1..MaxUpdates))
          /\ Cardinality(Exchange \X (1..MaxUpdates)) = N
      BY <3>2, FS_Product, RealtimeSets DEF N
    <3> QED
      BY <3>1, <3>3, FS_Subset
  <2>7. /\ created' \in 0..N /\ created <= created' /\ EnoughObjects'
    BY <1>1, <1>a, <2>5, <2>6 DEF Receive, EnoughObjects
  <2>8. /\ liveCandles' \in [Window -> 0..created'] /\ live' \in [Exchange -> 0..created']
        /\ live'[e] > 0 /\ \A d \in Exchange \ {e} : live'[d] = live[d]
        /\ \A v, w \in Window : liveCandles'[v] = liveCandles'[w] => v = w \/ liveCandles'[v] = 0
    <3>1. CASE liveCandles[u.win] # 0
      BY <1>1, <2>1, <3>1 DEF Receive, TypeOK
    <3>2. CASE liveCandles[u.win] = 0
      <4>1. /\ created' = created + 1 /\ created \in Nat
            /\ liveCandles' = [liveCandles EXCEPT ![u.win] = created + 1]
            /\ live' = [live EXCEPT ![e] = created + 1]
        BY <1>1, <1>a, <3>2 DEF Receive
      <4>2. liveCandles \in [Window -> 0..created] /\ live \in [Exchange -> 0..created]
        BY DEF TypeOK
      <4>3. /\ liveCandles' \in [Window -> 0..created'] /\ live' \in [Exchange -> 0..created']
            /\ live'[e] > 0 /\ \A d \in Exchange \ {e} : live'[d] = live[d]
        <5>1. created + 1 \in 0..created' /\ created + 1 > 0 /\ 0..created \subseteq 0..created'
          BY <4>1
        <5>2. liveCandles' \in [Window -> 0..created'] /\ live' \in [Exchange -> 0..created']
          BY <4>1, <4>2, <5>1
        <5> QED
          BY <4>1, <4>2, <5>1, <5>2
      <4>4. /\ liveCandles'[u.win] = created + 1
            /\ \A w \in Window : w # u.win => liveCandles'[w] = liveCandles[w]
        BY <2>1, <4>1, <4>2
      <4>5. ASSUME NEW v \in Window, NEW w \in Window, liveCandles'[v] = liveCandles'[w]
            PROVE  v = w \/ liveCandles'[v] = 0
        <5>1. liveCandles[v] \in 0..created /\ liveCandles[w] \in 0..created
          BY <4>2
        <5>2. liveCandles[v] = liveCandles[w] => v = w \/ liveCandles[v] = 0
          BY DEF TypeOK
        <5> QED
          BY <4>1, <4>4, <4>5, <5>1, <5>2
      <4> QED
        BY <4>3, <4>5
    <3> QED
      BY <3>1, <3>2
  <2>9. upd' \in [Exchange -> Update \cup {NoUpdate}]
    BY <1>1 DEF Receive, TypeOK
  <2>10. /\ at' \in [Exchange -> {"idle", "store", "aggregate", "set", "price", "sum",
                                  "average", "closed", "send", "delete"}]
         /\ at'[e] = "store" /\ \A d \in Exchange \ {e} : at'[d] = at[d]
    BY <1>1 DEF Receive, TypeOK
  <2>11. \A d \in Exchange : at'[d] # "idle" => live'[d] > 0 /\ upd'[d].seq > 0
    <3>1. upd'[e].seq > 0 /\ \A d \in Exchange \ {e} : upd'[d] = upd[d]
      BY <1>1, <2>1, <2>2 DEF Receive, TypeOK
    <3>2. \A d \in Exchange : at[d] # "idle" => live[d] > 0 /\ upd[d].seq > 0
      BY DEF TypeOK
    <3>3. \A d \in Exchange \ {e} : at'[d] = at[d] /\ live'[d] = live[d]
      BY <2>8, <2>10
    <3>4. live'[e] > 0
      BY <2>8
    <3> HIDE DEF TypeOK
    <3> QED
      BY <3>1, <3>2, <3>3, <3>4
  <2>12. UNCHANGED <<exchangeData, aggregated, latestCandle, offered, deletes,
                     exchangePrices, lastPrice, reader, agg, sum>>
    BY <1>1 DEF Receive
  <2> QED
    BY <2>7, <2>8, <2>9, <2>10, <2>11, <2>12 DEF TypeOK, N
<1>2. ASSUME NEW e \in Exchange, StoreData(e) PROVE TypeOK' /\ EnoughObjects'
  <2>1. live[e] \in Object /\ upd[e] \in Update
    BY <1>2, <1>b DEF StoreData
  <2>2. exchangeData' \in [Object -> Aggregates]
    BY <1>2, <2>1 DEF StoreData, TypeOK, Aggregates
  <2> QED
    BY <1>2, <1>c, <2>2 DEF StoreData, TypeOK
<1>3. ASSUME NEW e \in Exchange, Aggregate(e) PROVE TypeOK' /\ EnoughObjects'
  <2>1. AggregateLiveCandle(live[e]) \in Aggregates
    BY <1>3, <1>b, AggregateType DEF Aggregate
  <2> QED
    BY <1>3, <1>c, <2>1 DEF Aggregate, TypeOK
<1>4. ASSUME NEW e \in Exchange, SetAggregated(e) PROVE TypeOK' /\ EnoughObjects'
  BY <1>4, <1>b, <1>c DEF SetAggregated, TypeOK
<1>5. ASSUME NEW e \in Exchange, StorePrice(e) PROVE TypeOK' /\ EnoughObjects'
  <2>1. upd[e].seq \in 0..MaxUpdates
    BY UpdateType DEF TypeOK
  <2> QED
    BY <1>5, <1>c, <2>1 DEF StorePrice, TypeOK
<1>6. ASSUME NEW e \in Exchange, SumPrices(e) PROVE TypeOK' /\ EnoughObjects'
  BY <1>6, <1>c DEF SumPrices, TypeOK
<1>7. ASSUME NEW e \in Exchange, WritePrice(e) PROVE TypeOK' /\ EnoughObjects'
  <2>1. /\ lastPrice' \in [Exchange -> 0..MaxUpdates]
        /\ sum' \in [Exchange -> [Exchange -> 0..MaxUpdates]]
    BY <1>7, UpdateType DEF WritePrice, TypeOK
  <2>2. /\ at' \in [Exchange -> {"idle", "store", "aggregate", "set", "price", "sum",
                                 "average", "closed", "send", "delete"}]
        /\ agg' \in [Exchange -> Aggregates]
        /\ \A d \in Exchange : at'[d] # "idle" => at[d] # "idle"
    <3>1. /\ at' = [at EXCEPT ![e] = IF upd[e].closed THEN "closed" ELSE "idle"]
          /\ agg' = IF upd[e].closed THEN agg ELSE [agg EXCEPT ![e] = None]
          /\ at[e] = "average"
      BY <1>7 DEF WritePrice, Return
    <3>2. None \in Aggregates
      BY UpdateType
    <3> QED
      BY <3>1, <3>2 DEF TypeOK
  <2> QED
    BY <1>7, <1>c, <2>1, <2>2 DEF WritePrice, TypeOK
<1>8. ASSUME NEW e \in Exchange, StoreLatest(e) \/ OfferClosed(e) \/ StartDelete(e)
      PROVE  TypeOK' /\ EnoughObjects'
  <2>1. upd[e].win \in Window /\ agg[e] \in Aggregates /\ Window \subseteq 0..NumWindows
    BY UpdateType DEF TypeOK, Window
  <2>2. None \in Aggregates
    BY UpdateType
  <2>3. CASE StoreLatest(e)
    <3>1. /\ at[e] = "closed"
          /\ at' \in {[at EXCEPT ![e] = "idle"], [at EXCEPT ![e] = "send"]}
          /\ agg' \in {agg, [agg EXCEPT ![e] = None]}
          /\ latestCandle' \in {latestCandle, [win |-> upd[e].win, agg |-> agg[e]]}
      BY <2>3 DEF StoreLatest, ClosedAggregate, Return
    <3>2. agg' \in [Exchange -> Aggregates]
      <4>1. agg \in [Exchange -> Aggregates]
        BY DEF TypeOK
      <4>2. [agg EXCEPT ![e] = None] \in [Exchange -> Aggregates]
        BY <2>2, <4>1
      <4> QED
        BY <3>1, <4>1, <4>2, Zenon
    <3>3. latestCandle' \in [win : 0..NumWindows, agg : Aggregates]
      <4>1. latestCandle \in [win : 0..NumWindows, agg : Aggregates]
        BY DEF TypeOK
      <4>2. [win |-> upd[e].win, agg |-> agg[e]] \in [win : 0..NumWindows, agg : Aggregates]
        BY <2>1
      <4> QED
        BY <3>1, <4>1, <4>2, Zenon
    <3>4. /\ at' \in [Exchange -> {"idle", "store", "aggregate", "set", "price", "sum",
                                   "average", "closed", "send", "delete"}]
          /\ \A d \in Exchange : at'[d] # "idle" => at[d] # "idle"
      BY <3>1 DEF TypeOK
    <3> QED
      BY <1>c, <2>3, <3>2, <3>3, <3>4 DEF StoreLatest, TypeOK
  <2>4. CASE OfferClosed(e)
    <3> DEFINE c == [by |-> e, win |-> upd[e].win, agg |-> agg[e]]
    <3>1. c \in [by : Exchange, win : Window, agg : Aggregates]
      BY <2>1
    <3>2. offered' = offered \cup {c}
      BY <2>4 DEF OfferClosed, ClosedAggregate
    <3>3. offered' \subseteq [by : Exchange, win : Window, agg : Aggregates]
      BY <3>1, <3>2 DEF TypeOK
    <3>4. /\ at' \in [Exchange -> {"idle", "store", "aggregate", "set", "price", "sum",
                                   "average", "closed", "send", "delete"}]
          /\ \A d \in Exchange : at'[d] # "idle" => at[d] # "idle"
      BY <2>4 DEF OfferClosed, TypeOK
    <3> QED
      BY <1>c, <2>4, <3>3, <3>4 DEF OfferClosed, TypeOK
  <2>5. CASE StartDelete(e)
    <3>1. deletes' \in [Window -> Nat]
      <4>1. deletes \in [Window -> Nat]
        BY DEF TypeOK
      <4>2. \A w \in Window : deletes[w] + 1 \in Nat
        BY <4>1
      <4> QED
        BY <2>1, <2>5, <4>1, <4>2 DEF StartDelete
    <3>2. agg' \in [Exchange -> Aggregates]
      BY <2>2, <2>5 DEF StartDelete, Return, TypeOK
    <3>3. /\ at' \in [Exchange -> {"idle", "store", "aggregate", "set", "price", "sum",
                                   "average", "closed", "send", "delete"}]
          /\ \A d \in Exchange : at'[d] # "idle" => at[d] # "idle"
      BY <2>5 DEF StartDelete, Return, TypeOK
    <3> QED
      BY <1>c, <2>5, <3>1, <3>2, <3>3 DEF StartDelete, TypeOK
  <2> QED
    BY <1>8, <2>3, <2>4, <2>5
<1>9. ASSUME NEW w \in Window, DeleteLive(w) PROVE TypeOK' /\ EnoughObjects'
  BY <1>9, <1>a, <1>c DEF DeleteLive, TypeOK
<1>10. CASE ReaderMisses
  BY <1>10, <1>c DEF ReaderMisses, TypeOK
<1>11. CASE ReaderStores
  <2>1. latestCandle' \in [win : 0..NumWindows, agg : Aggregates]
    <3>1. OldRow \in [win : 0..NumWindows, agg : Aggregates]
      BY UpdateType DEF OldRow
    <3>2. \A c \in offered : [win |-> c.win, agg |-> c.agg] \in [win : 0..NumWindows, agg : Aggregates]
      BY DEF TypeOK, Window
    <3> QED
      BY <1>11, <3>1, <3>2 DEF ReaderStores, TypeOK
  <2> QED
    BY <1>11, <1>c, <2>1 DEF ReaderStores, TypeOK
<1>12. CASE UNCHANGED rtVars
  BY <1>12, <1>c DEF rtVars, TypeOK
<1> QED
  BY <1>1, <1>2, <1>3, <1>4, <1>5, <1>6, <1>7, <1>8, <1>9, <1>10, <1>11, <1>12, NextCases

\* The types hold of the empty maps.
LEMMA TypeInit == Init => TypeOK /\ EnoughObjects
<1> SUFFICES ASSUME Init PROVE TypeOK /\ EnoughObjects
  OBVIOUS
<1>1. /\ Cardinality(Received) \in Nat /\ Cardinality(Exchange) * MaxUpdates \in Nat
  BY ReceivedFinite
<1>2. NoCandle \in [win : 0..NumWindows, agg : Aggregates]
  BY UpdateType, RealtimeSizes DEF NoCandle
<1> QED
  BY <1>1, <1>2, UpdateType, RealtimeSizes DEF Init, TypeOK, EnoughObjects

\* Every message and every goroutine keeps the types; no more live candles are created
\* than updates come in.
THEOREM TypeInvariant == Spec => [](TypeOK /\ EnoughObjects)
  BY TypeInit, TypeStep, PTL DEF Spec

--------------------------------------------------------------------------------
\* What only the goroutine of an exchange writes stays as it left it: its entry in the
\* live candle it holds, and its own contribution to the aggregate it computed.
Closes == {"closed", "send", "delete"}
Computed == {"set", "price", "sum", "average"} \cup Closes
Contribution(u) == IF u.valid THEN u ELSE NoUpdate

OwnData ==
    \A e \in Exchange :
        /\ at[e] \notin {"idle", "store"} => exchangeData[live[e]][e] = upd[e]
        /\ at[e] \in Computed => agg[e][e] = Contribution(upd[e])
        /\ at[e] \in Closes => upd[e].closed

\* What a step of one exchange's goroutine leaves alone of the others.
LEMMA OthersUntouched ==
    ASSUME TypeOK, NEW e \in Exchange,
           \/ \E u \in Update : Receive(e, u)
           \/ ExchangeStep(e)
    PROVE  /\ \A d \in Exchange \ {e} : /\ at'[d] = at[d] /\ upd'[d] = upd[d]
                                        /\ live'[d] = live[d] /\ agg'[d] = agg[d]
           /\ \A o \in Object, d \in Exchange \ {e} : exchangeData'[o][d] = exchangeData[o][d]
<1>1. ASSUME NEW u \in Update, Receive(e, u)
      PROVE  /\ \A d \in Exchange \ {e} : /\ at'[d] = at[d] /\ upd'[d] = upd[d]
                                          /\ live'[d] = live[d] /\ agg'[d] = agg[d]
             /\ exchangeData' = exchangeData
  BY <1>1 DEF Receive, TypeOK
<1>2. CASE StoreData(e)
  BY <1>2 DEF StoreData, TypeOK, Aggregates
<1>3. CASE Aggregate(e)
  BY <1>3 DEF Aggregate, TypeOK
<1>4. CASE SetAggregated(e) \/ StorePrice(e) \/ SumPrices(e)
  BY <1>4 DEF SetAggregated, StorePrice, SumPrices, TypeOK
<1>5. CASE WritePrice(e)
  BY <1>5 DEF WritePrice, Return, TypeOK
<1>6. CASE StoreLatest(e) \/ OfferClosed(e) \/ StartDelete(e)
  BY <1>6 DEF StoreLatest, OfferClosed, StartDelete, Return, TypeOK
<1> QED
  BY <1>1, <1>2, <1>3, <1>4, <1>5, <1>6 DEF ExchangeStep

\* An exchange writes no entry but its own.
LEMMA OwnDataStep == TypeOK /\ OwnData /\ [Next]_rtVars => OwnData'
<1> SUFFICES ASSUME TypeOK, OwnData, [Next]_rtVars, NEW e \in Exchange
             PROVE  /\ at'[e] \notin {"idle", "store"} => exchangeData'[live'[e]][e] = upd'[e]
                    /\ at'[e] \in Computed => agg'[e][e] = Contribution(upd'[e])
                    /\ at'[e] \in Closes => upd'[e].closed
  BY DEF OwnData, Contribution
<1> DEFINE Goal == /\ at'[e] \notin {"idle", "store"} => exchangeData'[live'[e]][e] = upd'[e]
                   /\ at'[e] \in Computed => agg'[e][e] = Contribution(upd'[e])
                   /\ at'[e] \in Closes => upd'[e].closed
<1>a. at[e] # "idle" => live[e] \in Object /\ upd[e] \in Update
  BY ReceivedFinite, UpdateType DEF TypeOK, Object
<1>b. /\ at[e] \notin {"idle", "store"} => exchangeData[live[e]][e] = upd[e]
      /\ at[e] \in Computed => agg[e][e] = Contribution(upd[e])
      /\ at[e] \in Closes => upd[e].closed
  BY DEF OwnData
<1>c. at[e] \in {"idle", "store", "aggregate", "set", "price", "sum", "average", "closed", "send",
                "delete"}
  BY DEF TypeOK
<1>d. (/\ at'[e] = at[e] /\ upd'[e] = upd[e] /\ live'[e] = live[e] /\ agg'[e] = agg[e]
       /\ \A o \in Object : exchangeData'[o][e] = exchangeData[o][e])
      => Goal
  BY <1>a, <1>b
<1>1. ASSUME NEW d \in Exchange \ {e}, (\E u \in Update : Receive(d, u)) \/ ExchangeStep(d)
      PROVE  Goal
  BY <1>1, <1>d, OthersUntouched
<1>2. ASSUME NEW u \in Update, Receive(e, u) PROVE Goal
  <2>1. at'[e] = "store"
    BY <1>2 DEF Receive, TypeOK
  <2> QED
    BY <2>1 DEF Computed, Closes
<1>3. CASE StoreData(e)
  <2>1. at'[e] = "aggregate" /\ live'[e] = live[e] /\ upd'[e] = upd[e]
    BY <1>3 DEF StoreData, TypeOK
  <2>2. exchangeData'[live[e]][e] = upd[e]
    BY <1>3, <1>a DEF StoreData, TypeOK, Aggregates
  <2> QED
    BY <2>1, <2>2 DEF Computed, Closes
<1>4. CASE Aggregate(e)
  <2>1. /\ at'[e] = "set" /\ live' = live /\ upd' = upd /\ exchangeData' = exchangeData
        /\ agg'[e] = AggregateLiveCandle(live[e]) /\ at[e] = "aggregate"
    BY <1>4 DEF Aggregate, TypeOK
  <2>2. agg'[e][e] = Contribution(upd[e])
    BY <1>b, <2>1 DEF AggregateLiveCandle, Contribution
  <2>3. at'[e] \notin Closes
    BY <2>1 DEF Closes
  <2> QED
    BY <1>b, <2>1, <2>2, <2>3
<1>5. CASE SetAggregated(e) \/ StorePrice(e) \/ SumPrices(e)
  <2>1. /\ at[e] \in {"set", "price", "sum"} /\ at'[e] \in {"price", "sum", "average"}
        /\ live' = live /\ upd' = upd /\ exchangeData' = exchangeData /\ agg' = agg
    BY <1>5 DEF SetAggregated, StorePrice, SumPrices, TypeOK
  <2> QED
    BY <1>b, <2>1 DEF Computed, Closes
<1>6. CASE WritePrice(e)
  <2>1. /\ at[e] = "average" /\ live' = live /\ upd' = upd /\ exchangeData' = exchangeData
        /\ \/ at'[e] = "closed" /\ agg' = agg /\ upd[e].closed
           \/ at'[e] = "idle"
    BY <1>6 DEF WritePrice, Return, TypeOK
  <2> QED
    BY <1>b, <2>1 DEF Computed, Closes
<1>7. CASE StoreLatest(e) \/ OfferClosed(e) \/ StartDelete(e)
  <2>1. \/ at'[e] = "idle"
        \/ at[e] \in {"closed", "send"} /\ at'[e] \in {"send", "delete"} /\ agg' = agg
    BY <1>7 DEF StoreLatest, OfferClosed, StartDelete, Return, TypeOK
  <2>2. live' = live /\ upd' = upd /\ exchangeData' = exchangeData
    BY <1>7 DEF StoreLatest, OfferClosed, StartDelete
  <2> QED
    BY <1>b, <2>1, <2>2 DEF Computed, Closes
<1>8. CASE (\E w \in Window : DeleteLive(w)) \/ ReaderMisses \/ ReaderStores \/ UNCHANGED rtVars
  <2>1. UNCHANGED <<at, upd, live, agg, exchangeData>>
    BY <1>8 DEF DeleteLive, ReaderMisses, ReaderStores, rtVars
  <2> QED
    BY <1>d, <2>1
<1> QED
  BY <1>1, <1>2, <1>3, <1>4, <1>5, <1>6, <1>7, <1>8 DEF Next, ExchangeStep

--------------------------------------------------------------------------------
\* A live candle belongs to one window, whether it is found under its key or held by a
\* goroutine after its entry was deleted: nobody who holds it, and nothing in it, is of
\* another window.
OfWindow(o, w) ==
    \A d \in Exchange :
        /\ live[d] = o => upd[d].win = w
        /\ exchangeData[o][d] = NoUpdate \/ exchangeData[o][d].win = w

OneWindow ==
    /\ \A w \in Window : liveCandles[w] # 0 => OfWindow(liveCandles[w], w)
    /\ \A e \in Exchange : live[e] # 0 => OfWindow(live[e], upd[e].win)
    /\ \A o \in Object : o > created => exchangeData[o] = None

\* The data of a live candle stay those of its window.
LEMMA OneWindowStep == TypeOK /\ TypeOK' /\ OneWindow /\ [Next]_rtVars => OneWindow'
<1> SUFFICES ASSUME TypeOK, TypeOK', OneWindow, [Next]_rtVars PROVE OneWindow'
  OBVIOUS
<1>a. /\ created \in Nat /\ liveCandles \in [Window -> 0..created] /\ live \in [Exchange -> 0..created]
      /\ \A o \in 1..created : o \in Object
  BY ReceivedFinite DEF TypeOK, Object
<1>1. ASSUME NEW e \in Exchange, NEW u \in Update, Receive(e, u) PROVE OneWindow'
  <2>1. /\ \A d \in Exchange : upd'[d] = IF d = e THEN u ELSE upd[d]
        /\ exchangeData' = exchangeData /\ u.win \in Window
    BY <1>1, UpdateType DEF Receive, TypeOK
  <2>2. CASE liveCandles[u.win] # 0
    <3>1. /\ created' = created /\ liveCandles' = liveCandles
          /\ \A d \in Exchange : live'[d] = IF d = e THEN liveCandles[u.win] ELSE live[d]
      BY <1>1, <2>2, <1>a DEF Receive
    <3>2. OfWindow(liveCandles[u.win], u.win)
      BY <2>1, <2>2 DEF OneWindow
    <3>3. ASSUME NEW w \in Window, liveCandles[w] # 0 PROVE OfWindow(liveCandles[w], w)'
      <4>1. liveCandles[w] = liveCandles[u.win] => w = u.win
        BY <2>1, <3>3 DEF TypeOK
      <4> QED
        BY <2>1, <3>1, <3>3, <4>1 DEF OfWindow, OneWindow
    <3>4. ASSUME NEW d \in Exchange, live'[d] # 0 PROVE OfWindow(live[d], upd[d].win)'
      BY <2>1, <3>1, <3>2, <3>4 DEF OfWindow, OneWindow
    <3> QED
      BY <2>1, <3>1, <3>3, <3>4 DEF OneWindow
  <2>3. CASE liveCandles[u.win] = 0
    <3> DEFINE n == created + 1
    <3>1. /\ created' = n
          /\ \A w \in Window : liveCandles'[w] = IF w = u.win THEN n ELSE liveCandles[w]
          /\ \A d \in Exchange : live'[d] = IF d = e THEN n ELSE live[d]
      BY <1>1, <2>1, <2>3, <1>a DEF Receive
    <3>2. /\ \A d \in Exchange : live[d] \in Nat /\ live[d] < n
          /\ \A w \in Window : liveCandles[w] \in Nat /\ liveCandles[w] < n
      BY <1>a
    <3>3. n \in Object /\ exchangeData[n] = None
      <4>1. n \in Object
        BY <3>1, <1>a DEF TypeOK, Object
      <4> QED
        BY <1>a, <4>1 DEF OneWindow
    <3>4. \A d \in Exchange : exchangeData[n][d] = NoUpdate
      BY <3>3, UpdateType
    <3> HIDE DEF n
    <3>5. \A d \in Exchange :
              /\ live'[d] = n => upd'[d].win = u.win
              /\ exchangeData'[n][d] = NoUpdate
      BY <2>1, <3>1, <3>2, <3>4
    <3>6. ASSUME NEW w \in Window, liveCandles'[w] # 0 PROVE OfWindow(liveCandles[w], w)'
      <4>1. CASE w = u.win
        BY <3>1, <3>5, <4>1 DEF OfWindow
      <4>2. CASE w # u.win
        <5>1. OfWindow(liveCandles[w], w) /\ liveCandles'[w] = liveCandles[w] /\ liveCandles[w] # n
          BY <3>1, <3>2, <3>6, <4>2 DEF OneWindow
        <5> QED
          BY <2>1, <3>1, <5>1 DEF OfWindow
      <4> QED
        BY <4>1, <4>2
    <3>7. ASSUME NEW d \in Exchange, live'[d] # 0 PROVE OfWindow(live[d], upd[d].win)'
      <4>1. CASE d = e
        BY <2>1, <3>1, <3>5, <4>1 DEF OfWindow
      <4>2. CASE d # e
        <5>1. OfWindow(live[d], upd[d].win) /\ live'[d] = live[d] /\ upd'[d] = upd[d] /\ live[d] # n
          BY <2>1, <3>1, <3>2, <3>7, <4>2 DEF OneWindow
        <5> QED
          BY <2>1, <3>1, <5>1 DEF OfWindow
      <4> QED
        BY <4>1, <4>2
    <3>8. \A o \in Object : o > created' => exchangeData'[o] = None
      <4>1. \A o \in Object : o \in Int
        BY DEF Object
      <4> QED
        BY <1>a, <2>1, <3>1, <4>1 DEF OneWindow, n
    <3> QED
      BY <3>6, <3>7, <3>8 DEF OneWindow
  <2> QED
    BY <2>2, <2>3
<1>2. ASSUME NEW e \in Exchange, StoreData(e) PROVE OneWindow'
  <2>1. /\ UNCHANGED <<liveCandles, created, upd, live>>
        /\ live[e] \in Object /\ live[e] # 0 /\ live[e] <= created
    BY <1>2, <1>a DEF StoreData, TypeOK
  <2>2. \A o \in Object, d \in Exchange :
            exchangeData'[o][d] = IF o = live[e] /\ d = e THEN upd[e] ELSE exchangeData[o][d]
    BY <1>2, <2>1 DEF StoreData, TypeOK, Aggregates
  <2>3. ASSUME NEW o \in Object, NEW w, OfWindow(o, w), o = live[e] => upd[e].win = w
        PROVE  OfWindow(o, w)'
    BY <2>1, <2>2, <2>3 DEF OfWindow
  <2>4. ASSUME NEW w \in Window, liveCandles[w] # 0 PROVE OfWindow(liveCandles[w], w)'
    <3>1. OfWindow(liveCandles[w], w) /\ liveCandles[w] \in Object
      BY <1>a, <2>4 DEF OneWindow
    <3>2. OfWindow(liveCandles[w], w)'
      BY <2>1, <2>2, <3>1 DEF OfWindow
    <3> QED
      BY <2>1, <3>2
  <2>5. ASSUME NEW d \in Exchange, live[d] # 0 PROVE OfWindow(live[d], upd[d].win)'
    <3>1. OfWindow(live[d], upd[d].win) /\ live[d] \in Object
      BY <1>a, <2>5 DEF OneWindow
    <3> QED
      BY <2>1, <2>2, <3>1 DEF OfWindow
  <2>6. \A o \in Object : o > created => exchangeData'[o] = exchangeData[o]
    <3>1. live[e] \in Int /\ \A o \in Object : o > created => o # live[e]
      BY <1>a, <2>1 DEF Object
    <3> QED
      BY <1>2, <3>1 DEF StoreData, TypeOK
  <2> QED
    BY <2>1, <2>4, <2>5, <2>6 DEF OneWindow
<1>3. ASSUME NEW w \in Window, DeleteLive(w) PROVE OneWindow'
  <2>1. /\ UNCHANGED <<created, exchangeData, upd, live>>
        /\ \A v \in Window : liveCandles'[v] = IF v = w THEN 0 ELSE liveCandles[v]
    BY <1>3, <1>a DEF DeleteLive
  <2> QED
    BY <2>1 DEF OneWindow, OfWindow
<1>4. CASE UNCHANGED <<liveCandles, created, exchangeData, upd, live>>
  BY <1>4 DEF OneWindow, OfWindow
<1>5. ASSUME NEW e \in Exchange,
             \/ Aggregate(e) \/ SetAggregated(e) \/ StorePrice(e) \/ SumPrices(e)
             \/ WritePrice(e) \/ StoreLatest(e) \/ OfferClosed(e) \/ StartDelete(e)
      PROVE  OneWindow'
  BY <1>4, <1>5 DEF Aggregate, SetAggregated, StorePrice, SumPrices, WritePrice, StoreLatest,
                    OfferClosed, StartDelete
<1>6. CASE ReaderMisses \/ ReaderStores \/ UNCHANGED rtVars
  BY <1>4, <1>6 DEF ReaderMisses, ReaderStores, rtVars
<1> QED
  BY <1>1, <1>2, <1>3, <1>5, <1>6 DEF Next, ExchangeStep

\* The aggregate a goroutine computed is about the window of its update.
AggregateOfWindow ==
    \A e \in Exchange : at[e] \in Computed =>
        \A d \in Exchange : agg[e][d] = NoUpdate \/ agg[e][d].win = upd[e].win

\* An aggregate stays one of the window it is stored for.
LEMMA AggregateOfWindowStep ==
    TypeOK /\ OneWindow /\ AggregateOfWindow /\ [Next]_rtVars => AggregateOfWindow'
<1> SUFFICES ASSUME TypeOK, OneWindow, AggregateOfWindow, [Next]_rtVars,
                    NEW e \in Exchange, at'[e] \in Computed,
                    NEW d \in Exchange
             PROVE  agg'[e][d] = NoUpdate \/ agg'[e][d].win = upd'[e].win
  BY DEF AggregateOfWindow
<1>a. at[e] \in Computed /\ agg'[e] = agg[e] /\ upd'[e] = upd[e]
      => agg'[e][d] = NoUpdate \/ agg'[e][d].win = upd'[e].win
  BY DEF AggregateOfWindow
<1>1. ASSUME NEW b \in Exchange \ {e}, (\E u \in Update : Receive(b, u)) \/ ExchangeStep(b)
      PROVE  at[e] \in Computed /\ agg'[e] = agg[e] /\ upd'[e] = upd[e]
  BY <1>1, OthersUntouched
<1>2. ASSUME (\E u \in Update : Receive(e, u)) \/ StoreData(e) \/ StartDelete(e)
      PROVE  FALSE
  <2>1. at'[e] \in {"store", "aggregate", "idle"}
    BY <1>2 DEF Receive, StoreData, StartDelete, Return, TypeOK
  <2> QED
    BY <2>1 DEF Computed, Closes
<1>3. CASE Aggregate(e)
  <2>1. agg'[e] = AggregateLiveCandle(live[e]) /\ upd' = upd /\ at[e] = "aggregate"
    BY <1>3 DEF Aggregate, TypeOK
  <2>2. \A b \in Exchange : at[b] # "idle" => live[b] > 0
    BY DEF TypeOK
  <2>3. live[e] > 0
    BY <2>1, <2>2
  <2>4. OfWindow(live[e], upd[e].win)
    BY <2>3 DEF OneWindow
  <2> QED
    BY <2>1, <2>4 DEF OfWindow, AggregateLiveCandle
<1>4. CASE \/ SetAggregated(e) \/ StorePrice(e) \/ SumPrices(e) \/ WritePrice(e)
           \/ StoreLatest(e) \/ OfferClosed(e)
  <2>1. at[e] \in Computed /\ upd' = upd
    BY <1>4 DEF SetAggregated, StorePrice, SumPrices, WritePrice, StoreLatest, OfferClosed,
                Computed, Closes
  <2>2. agg'[e] = agg[e]
    <3>1. CASE WritePrice(e) \/ StoreLatest(e)
      <4>1. at'[e] # "idle"
        BY DEF Computed, Closes
      <4> QED
        BY <3>1, <4>1 DEF WritePrice, StoreLatest, Return, TypeOK
    <3> QED
      BY <1>4, <3>1 DEF SetAggregated, StorePrice, SumPrices, OfferClosed
  <2> QED
    BY <1>a, <2>1, <2>2
<1>5. CASE (\E w \in Window : DeleteLive(w)) \/ ReaderMisses \/ ReaderStores \/ UNCHANGED rtVars
  BY <1>5, <1>a DEF DeleteLive, ReaderMisses, ReaderStores, rtVars
<1> QED
  BY <1>a, <1>1, <1>2, <1>3, <1>4, <1>5 DEF Next, ExchangeStep

--------------------------------------------------------------------------------
\* A goroutine that is about to start the delete has offered its candle, and none sleeps
\* for a window of which no closed candle was offered.
OfferedFirst ==
    /\ \A e \in Exchange :
          at[e] = "delete" => [by |-> e, win |-> upd[e].win, agg |-> agg[e]] \in offered
    /\ \A w \in Window : deletes[w] > 0 => \E c \in offered : c.win = w

\* What is offered stays so; only OfferClosed adds to it.
LEMMA Offering ==
    ASSUME [Next]_rtVars
    PROVE  \/ offered' = offered
           \/ \E e \in Exchange :
                 /\ OfferClosed(e)
                 /\ offered' = offered \cup {[by |-> e, win |-> upd[e].win, agg |-> agg[e]]}
<1>1. ASSUME NEW e \in Exchange, OfferClosed(e)
      PROVE  offered' = offered \cup {[by |-> e, win |-> upd[e].win, agg |-> agg[e]]}
  BY <1>1 DEF OfferClosed, ClosedAggregate
<1>2. ASSUME NEW e \in Exchange, NEW u \in Update, Receive(e, u) PROVE offered' = offered
  BY <1>2 DEF Receive
<1>3. ASSUME NEW e \in Exchange,
             \/ StoreData(e) \/ Aggregate(e) \/ SetAggregated(e) \/ StorePrice(e)
             \/ SumPrices(e) \/ WritePrice(e) \/ StoreLatest(e) \/ StartDelete(e)
      PROVE  offered' = offered
  BY <1>3 DEF StoreData, Aggregate, SetAggregated, StorePrice, SumPrices, WritePrice,
              StoreLatest, StartDelete
<1>4. CASE (\E w \in Window : DeleteLive(w)) \/ ReaderMisses \/ ReaderStores \/ UNCHANGED rtVars
  BY <1>4 DEF DeleteLive, ReaderMisses, ReaderStores, rtVars
<1> QED
  BY <1>1, <1>2, <1>3, <1>4 DEF Next, ExchangeStep

\* The send comes before the delete goroutine, and that before the delete.
LEMMA OfferedFirstStep == TypeOK /\ OfferedFirst /\ [Next]_rtVars => OfferedFirst'
<1> SUFFICES ASSUME TypeOK, OfferedFirst, [Next]_rtVars PROVE OfferedFirst'
  OBVIOUS
<1>a. offered \subseteq offered'
  BY Offering
<1>b. /\ DOMAIN at = Exchange /\ deletes \in [Window -> Nat]
      /\ \A e \in Exchange : upd[e].win \in Window
  <2>1. DOMAIN at = Exchange /\ deletes \in [Window -> Nat]
    BY DEF TypeOK
  <2>2. upd \in [Exchange -> Update \cup {NoUpdate}]
    BY DEF TypeOK
  <2>3. \A u \in Update \cup {NoUpdate} : u.win \in Window
    BY UpdateType, RealtimeSizes DEF Window
  <2> QED
    BY <2>1, <2>2, <2>3
<1>1. ASSUME NEW e \in Exchange, at'[e] = "delete"
      PROVE  [by |-> e, win |-> upd'[e].win, agg |-> agg'[e]] \in offered'
  <2>1. ASSUME at[e] = "delete", upd'[e] = upd[e], agg'[e] = agg[e]
        PROVE  [by |-> e, win |-> upd'[e].win, agg |-> agg'[e]] \in offered'
    BY <1>a, <2>1 DEF OfferedFirst
  <2>2. ASSUME NEW d \in Exchange \ {e}, (\E u \in Update : Receive(d, u)) \/ ExchangeStep(d)
        PROVE  at[e] = "delete" /\ upd'[e] = upd[e] /\ agg'[e] = agg[e]
    BY <1>1, <2>2, OthersUntouched
  <2>3. ASSUME \/ \E u \in Update : Receive(e, u)
               \/ StoreData(e) \/ Aggregate(e) \/ SetAggregated(e) \/ StorePrice(e)
               \/ SumPrices(e) \/ WritePrice(e) \/ StoreLatest(e) \/ StartDelete(e)
        PROVE  FALSE
    BY <1>1, <1>b, <2>3 DEF Receive, StoreData, Aggregate, SetAggregated, StorePrice, SumPrices,
                            WritePrice, StoreLatest, StartDelete, Return
  <2>4. CASE OfferClosed(e)
    BY <2>4 DEF OfferClosed, ClosedAggregate
  <2>5. CASE (\E w \in Window : DeleteLive(w)) \/ ReaderMisses \/ ReaderStores \/ UNCHANGED rtVars
    BY <1>1, <2>1, <2>5 DEF DeleteLive, ReaderMisses, ReaderStores, rtVars
  <2> QED
    BY <2>1, <2>2, <2>3, <2>4, <2>5 DEF Next, ExchangeStep
<1>2. ASSUME NEW w \in Window, deletes'[w] > 0 PROVE \E c \in offered' : c.win = w
  <2>1. deletes[w] > 0 => \E c \in offered' : c.win = w
    BY <1>a DEF OfferedFirst
  <2>2. ASSUME NEW e \in Exchange, StartDelete(e) PROVE \E c \in offered' : c.win = w
    <3>1. CASE w = upd[e].win
      <4>1. [by |-> e, win |-> upd[e].win, agg |-> agg[e]] \in offered'
        BY <1>a, <2>2 DEF StartDelete, OfferedFirst
      <4> QED
        BY <3>1, <4>1
    <3>2. CASE w # upd[e].win
      <4>1. deletes'[w] = deletes[w]
        BY <1>b, <2>2, <3>2 DEF StartDelete
      <4> QED
        BY <1>2, <2>1, <4>1
    <3> QED
      BY <3>1, <3>2
  <2>3. ASSUME NEW v \in Window, DeleteLive(v) PROVE deletes[w] > 0
    BY <1>2, <1>b, <2>3 DEF DeleteLive
  <2>4. ASSUME NEW e \in Exchange,
               \/ \E u \in Update : Receive(e, u)
               \/ StoreData(e) \/ Aggregate(e) \/ SetAggregated(e) \/ StorePrice(e)
               \/ SumPrices(e) \/ WritePrice(e) \/ StoreLatest(e) \/ OfferClosed(e)
        PROVE  deletes' = deletes
    BY <2>4 DEF Receive, StoreData, Aggregate, SetAggregated, StorePrice, SumPrices, WritePrice,
                StoreLatest, OfferClosed
  <2>5. CASE ReaderMisses \/ ReaderStores \/ UNCHANGED rtVars
    BY <1>2, <2>1, <2>5 DEF ReaderMisses, ReaderStores, rtVars
  <2> QED
    BY <1>2, <2>1, <2>2, <2>3, <2>4, <2>5 DEF Next, ExchangeStep
<1> QED
  BY <1>1, <1>2 DEF OfferedFirst

--------------------------------------------------------------------------------
\* The inductive invariant.
IInv == TypeOK /\ EnoughObjects /\ OwnData /\ OneWindow /\ AggregateOfWindow /\ OfferedFirst

\* The invariant holds always.
LEMMA IInvInvariant == Spec => []IInv
<1>1. Init => IInv
  <2> SUFFICES ASSUME Init PROVE IInv
    OBVIOUS
  <2>1. TypeOK /\ EnoughObjects
    BY TypeInit
  <2>2. OwnData /\ AggregateOfWindow
    BY DEF Init, OwnData, AggregateOfWindow, Computed, Closes
  <2>3. OneWindow /\ OfferedFirst
    BY DEF Init, OneWindow, OfferedFirst
  <2> QED
    BY <2>1, <2>2, <2>3 DEF IInv
<1>2. IInv /\ [Next]_rtVars => IInv'
  BY TypeStep, OwnDataStep, OneWindowStep, AggregateOfWindowStep, OfferedFirstStep
  DEF IInv
<1> QED
  BY <1>1, <1>2, PTL DEF Spec

\* What an exchange offers has its own update in it, if that has prices.
LEMMA OfferedIsOwn ==
    ASSUME IInv, NEW e \in Exchange, at[e] \in Closes
    PROVE  /\ agg[e][e] = Contribution(upd[e]) /\ upd[e].closed /\ upd[e] \in Update
           /\ \A d \in Exchange : agg[e][d] = NoUpdate \/ agg[e][d].win = upd[e].win
<1>1. at[e] \in Computed /\ at[e] # "idle"
  BY DEF Computed, Closes
<1>2. upd[e] \in Update
  <2>1. upd[e] \in Update \cup {NoUpdate} /\ upd[e].seq > 0
    BY <1>1 DEF IInv, TypeOK
  <2> QED
    BY <2>1, UpdateType
<1> QED
  BY <1>1, <1>2 DEF IInv, OwnData, AggregateOfWindow

\* handleClosedCandle: a candle handed to the batch writer is about one window and has
\* the closing update of the exchange that handed it over, for any number of exchanges.
THEOREM ClosedCandlesAreSound == Spec => []ClosedCandleSound
<1>1. Init => ClosedCandleSound
  BY DEF Init, ClosedCandleSound
<1>2. IInv /\ ClosedCandleSound /\ [Next]_rtVars => ClosedCandleSound'
  <2> SUFFICES ASSUME IInv, ClosedCandleSound, [Next]_rtVars, NEW c \in offered'
               PROVE  /\ \A d \in Exchange : c.agg[d] = NoUpdate \/ c.agg[d].win = c.win
                      /\ c.agg[c.by] = NoUpdate \/ c.agg[c.by].closed
    BY DEF ClosedCandleSound
  <2>1. CASE c \in offered
    BY <2>1 DEF ClosedCandleSound
  <2>2. CASE c \notin offered
    <3>1. PICK e \in Exchange : /\ at[e] \in Closes
                               /\ c = [by |-> e, win |-> upd[e].win, agg |-> agg[e]]
      BY <2>2, Offering DEF OfferClosed, Closes
    <3>2. c.by = e /\ c.win = upd[e].win /\ c.agg = agg[e]
      BY <3>1
    <3>3. /\ agg[e][e] = Contribution(upd[e]) /\ upd[e].closed
          /\ \A d \in Exchange : agg[e][d] = NoUpdate \/ agg[e][d].win = upd[e].win
      BY <3>1, OfferedIsOwn
    <3> QED
      BY <3>2, <3>3 DEF Contribution
  <2> QED
    BY <2>1, <2>2
<1> QED
  BY <1>1, <1>2, IInvInvariant, PTL DEF Spec

\* ProcessCandleUpdate: every close with prices has been offered to the batch writer when
\* the call returns; no interleaving loses one.
THEOREM ClosesArePersisted == Spec => []CloseIsPersisted
<1>1. Init => CloseIsPersisted
  BY DEF Init, CloseIsPersisted, NoUpdate
<1>2. IInv /\ CloseIsPersisted /\ [Next]_rtVars => CloseIsPersisted'
  <2> SUFFICES ASSUME IInv, CloseIsPersisted, [Next]_rtVars, NEW e \in Exchange,
                      at'[e] = "idle", upd'[e].closed, upd'[e].valid
               PROVE  \E c \in offered' : c.by = e /\ c.agg[e] = upd'[e]
    BY DEF CloseIsPersisted
  <2>a. offered \subseteq offered'
    BY Offering
  <2>b. at[e] = "idle" /\ upd'[e] = upd[e] => \E c \in offered' : c.by = e /\ c.agg[e] = upd'[e]
    BY <2>a DEF CloseIsPersisted
  <2>c. TypeOK
    BY DEF IInv
  <2>1. ASSUME NEW d \in Exchange \ {e}, (\E u \in Update : Receive(d, u)) \/ ExchangeStep(d)
        PROVE  at[e] = "idle" /\ upd'[e] = upd[e]
    BY <2>1, <2>c, OthersUntouched
  <2>2. ASSUME (\E u \in Update : Receive(e, u)) \/ StoreData(e) \/ Aggregate(e)
               \/ SetAggregated(e) \/ StorePrice(e) \/ SumPrices(e) \/ OfferClosed(e)
        PROVE  FALSE
    BY <2>2, <2>c DEF Receive, StoreData, Aggregate, SetAggregated, StorePrice, SumPrices,
                      OfferClosed, TypeOK
  <2>3. ASSUME WritePrice(e) PROVE FALSE
    <3>1. upd'[e] = upd[e] /\ (upd[e].closed => at'[e] = "closed")
      BY <2>3, <2>c DEF WritePrice, TypeOK
    <3> QED
      BY <3>1
  <2>4. CASE StoreLatest(e) \/ StartDelete(e)
    <3>1. at[e] \in Closes /\ upd' = upd
      BY <2>4 DEF StoreLatest, StartDelete, Closes
    <3>2. agg[e][e] = Contribution(upd[e]) /\ upd[e] \in Update
      BY <3>1, OfferedIsOwn
    <3>3. agg[e][e] = upd[e] /\ agg[e] # None
      BY <3>1, <3>2, UpdateType DEF Contribution
    <3>4. at[e] = "delete"
      BY <2>4, <2>c, <3>3 DEF StoreLatest, StartDelete, ClosedAggregate, TypeOK
    <3>5. [by |-> e, win |-> upd[e].win, agg |-> agg[e]] \in offered'
      BY <2>a, <3>4 DEF IInv, OfferedFirst
    <3> QED
      BY <3>1, <3>3, <3>5
  <2>5. CASE (\E w \in Window : DeleteLive(w)) \/ ReaderMisses \/ ReaderStores \/ UNCHANGED rtVars
    BY <2>5, <2>b DEF DeleteLive, ReaderMisses, ReaderStores, rtVars
  <2> QED
    BY <2>b, <2>1, <2>2, <2>3, <2>4, <2>5 DEF Next, ExchangeStep
<1> QED
  BY <1>1, <1>2, IInvInvariant, PTL DEF Spec

\* LoadOrStore, and Delete by key after 200 ms: as long as no closed candle of a window has
\* been offered, every exchange works on the one live candle in the map and no data of the
\* window is anywhere else, for any number of exchanges, closes and late updates.
THEOREM FirstClosesAreWhole == Spec => []FirstCloseIsWhole
<1>1. Init => FirstCloseIsWhole
  BY DEF Init, FirstCloseIsWhole, None, NoUpdate
<1>2. IInv /\ FirstCloseIsWhole /\ [Next]_rtVars => FirstCloseIsWhole'
  <2> SUFFICES ASSUME IInv, FirstCloseIsWhole, [Next]_rtVars,
                      NEW w \in Window, \A c \in offered' : c.win # w
               PROVE  /\ \A o \in Object, d \in Exchange :
                            exchangeData'[o][d].seq > 0 /\ exchangeData'[o][d].win = w
                              => o = liveCandles'[w]
                      /\ \A d \in Exchange :
                            at'[d] # "idle" /\ upd'[d].win = w => live'[d] = liveCandles'[w]
    BY DEF FirstCloseIsWhole
  <2> DEFINE Data == \A o \in Object, d \in Exchange :
                        exchangeData'[o][d].seq > 0 /\ exchangeData'[o][d].win = w
                          => o = liveCandles'[w]
             Held == \A d \in Exchange :
                        at'[d] # "idle" /\ upd'[d].win = w => live'[d] = liveCandles'[w]
  <2>t. TypeOK
    BY DEF IInv
  <2>a. \A c \in offered : c.win # w
    BY Offering
  <2>b. /\ \A o \in Object, d \in Exchange :
              exchangeData[o][d].seq > 0 /\ exchangeData[o][d].win = w => o = liveCandles[w]
        /\ \A d \in Exchange : at[d] # "idle" /\ upd[d].win = w => live[d] = liveCandles[w]
    BY <2>a DEF FirstCloseIsWhole
  <2>c. deletes[w] = 0
    BY <2>a, <2>t DEF IInv, OfferedFirst, TypeOK
  <2>d. 0 \notin Object /\ \A d \in Exchange : at[d] # "idle" => live[d] # 0
    BY <2>t DEF Object, TypeOK
  <2>e. ASSUME UNCHANGED <<liveCandles, exchangeData, upd, live>>,
               \A d \in Exchange : at'[d] # "idle" => at[d] # "idle"
        PROVE  Data /\ Held
    BY <2>b, <2>e
  <2>1. ASSUME NEW e \in Exchange, NEW u \in Update, Receive(e, u) PROVE Data /\ Held
    <3>1. /\ exchangeData' = exchangeData
          /\ \A d \in Exchange : upd'[d] = IF d = e THEN u ELSE upd[d]
          /\ \A d \in Exchange \ {e} : at'[d] = at[d] /\ live'[d] = live[d]
      BY <2>1, <2>t DEF Receive, TypeOK
    <3>2. u.win \in Window
      BY DEF Update
    <3>3. live'[e] = liveCandles'[u.win]
      BY <2>1, <2>t, <3>2 DEF Receive, TypeOK
    <3>4. liveCandles[w] # 0 \/ u.win # w => liveCandles'[w] = liveCandles[w]
      BY <2>1, <2>t DEF Receive, TypeOK
    <3>5. CASE liveCandles[w] # 0 \/ u.win # w
      BY <2>b, <3>1, <3>3, <3>4, <3>5
    <3>6. CASE liveCandles[w] = 0 /\ u.win = w
      BY <2>b, <2>d, <3>1, <3>3, <3>6
    <3> QED
      BY <3>5, <3>6
  <2>2. ASSUME NEW e \in Exchange, StoreData(e) PROVE Data /\ Held
    <3>1. /\ UNCHANGED <<liveCandles, upd, live>> /\ at[e] # "idle"
          /\ \A d \in Exchange : at'[d] # "idle" => at[d] # "idle"
      BY <2>2, <2>t DEF StoreData, TypeOK
    <3>2. \A o \in Object, d \in Exchange :
             exchangeData'[o][d] = exchangeData[o][d]
               \/ (o = live[e] /\ d = e /\ exchangeData'[o][d] = upd[e])
      BY <2>2, <2>t DEF StoreData, TypeOK, Aggregates
    <3> QED
      BY <2>b, <3>1, <3>2
  <2>3. ASSUME NEW v \in Window, DeleteLive(v) PROVE Data /\ Held
    <3>1. v # w /\ liveCandles'[w] = liveCandles[w]
      BY <2>3, <2>c, <2>t DEF DeleteLive, TypeOK
    <3> QED
      BY <2>3, <2>b, <3>1 DEF DeleteLive
  <2>4. ASSUME NEW e \in Exchange,
               \/ Aggregate(e) \/ SetAggregated(e) \/ StorePrice(e) \/ SumPrices(e)
               \/ WritePrice(e) \/ StoreLatest(e) \/ OfferClosed(e) \/ StartDelete(e)
        PROVE  Data /\ Held
    <3>1. UNCHANGED <<liveCandles, exchangeData, upd, live>> /\ at[e] # "idle"
      BY <2>4 DEF Aggregate, SetAggregated, StorePrice, SumPrices, WritePrice, StoreLatest,
                  OfferClosed, StartDelete
    <3>2. \A d \in Exchange \ {e} : at'[d] = at[d]
      BY <2>4, <2>t, OthersUntouched DEF ExchangeStep
    <3> QED
      BY <2>e, <3>1, <3>2
  <2>5. CASE ReaderMisses \/ ReaderStores \/ UNCHANGED rtVars
    BY <2>e, <2>5 DEF ReaderMisses, ReaderStores, rtVars
  <2> QED
    BY <2>1, <2>2, <2>3, <2>4, <2>5 DEF Next, ExchangeStep
<1> QED
  BY <1>1, <1>2, IInvInvariant, PTL DEF Spec

--------------------------------------------------------------------------------
\* Only an exchange's own goroutine stores its price.  From there to the write of the
\* average the price stays the newest, and it is in the sum; no sum and no average has a
\* newer price than the stored one.
PricesInv ==
    \A e \in Exchange :
        /\ exchangePrices[e] <= upd[e].seq
        /\ at[e] \in {"sum", "average"} => exchangePrices[e] = upd[e].seq
        /\ at[e] = "average" => sum[e][e] = exchangePrices[e]
        /\ \A d \in Exchange : sum[d][e] <= exchangePrices[e]

\* updateLivePrice: however the unlocked writes interleave, the published average has no
\* price that was not stored, and when nobody is averaging it has the newest price of the
\* exchange that wrote it last.
THEOREM SomePriceStaysCurrent == Spec => [](PricesInv /\ SomePriceIsCurrent)
<1> DEFINE Inv == PricesInv /\ SomePriceIsCurrent
<1>1. Init => Inv
  BY DEF Init, PricesInv, SomePriceIsCurrent, NoPrices, NoUpdate
<1>2. TypeOK /\ Inv /\ [Next]_rtVars => Inv'
  <2> SUFFICES ASSUME TypeOK, PricesInv, SomePriceIsCurrent, [Next]_rtVars PROVE Inv'
    OBVIOUS
  <2>a. /\ exchangePrices \in [Exchange -> 0..MaxUpdates] /\ lastPrice \in [Exchange -> 0..MaxUpdates]
        /\ sum \in [Exchange -> [Exchange -> 0..MaxUpdates]]
        /\ \A e \in Exchange : exchangePrices[e] \in Nat /\ lastPrice[e] \in Nat
        /\ \A d, e \in Exchange : sum[d][e] \in Nat
        /\ DOMAIN at = Exchange
    BY RealtimeSizes DEF TypeOK
  <2>b. \A e \in Exchange : upd[e].seq \in Nat /\ (at[e] # "idle" => upd[e].seq > 0)
    BY RealtimeSizes, UpdateType DEF TypeOK
  <2>1. ASSUME UNCHANGED <<exchangePrices, lastPrice, sum>>,
               \A e \in Exchange : /\ upd'[e].seq \in Nat /\ upd'[e].seq >= upd[e].seq
                                   /\ at[e] \in {"sum", "average"} <=> at'[e] \in {"sum", "average"}
                                   /\ at'[e] = "average" => at[e] = "average"
                                   /\ at[e] \in {"sum", "average"} => upd'[e] = upd[e]
        PROVE  Inv'
    <3>1. PricesInv'
      BY <2>1, <2>a, <2>b DEF PricesInv
    <3>2. SomePriceIsCurrent'
      BY <2>1 DEF SomePriceIsCurrent
    <3> QED
      BY <3>1, <3>2
  <2>2. ASSUME NEW e \in Exchange, NEW u \in Update, Receive(e, u) PROVE Inv'
    <3>1. /\ u.seq = upd[e].seq + 1 /\ at[e] = "idle"
          /\ \A d \in Exchange : upd'[d] = IF d = e THEN u ELSE upd[d]
          /\ \A d \in Exchange : at'[d] = IF d = e THEN "store" ELSE at[d]
          /\ UNCHANGED <<exchangePrices, lastPrice, sum>>
      BY <2>2 DEF Receive, NextUpdate, TypeOK
    <3> QED
      BY <2>1, <2>b, <3>1
  <2>3. ASSUME NEW e \in Exchange, StoreData(e) \/ Aggregate(e) \/ SetAggregated(e) PROVE Inv'
    <3>1. /\ UNCHANGED <<exchangePrices, lastPrice, sum, upd>>
          /\ at[e] \in {"store", "aggregate", "set"}
          /\ at'[e] \in {"aggregate", "set", "price"}
          /\ \A d \in Exchange \ {e} : at'[d] = at[d]
      BY <2>3 DEF StoreData, Aggregate, SetAggregated, TypeOK
    <3> QED
      BY <2>1, <2>b, <3>1
  <2>4. ASSUME NEW e \in Exchange, StorePrice(e) PROVE Inv'
    <3>1. /\ UNCHANGED <<lastPrice, sum, upd>> /\ at[e] = "price" /\ at'[e] = "sum"
          /\ \A d \in Exchange \ {e} : at'[d] = at[d]
          /\ \A d \in Exchange : exchangePrices'[d] = IF d = e THEN upd[e].seq ELSE exchangePrices[d]
      BY <2>4, <2>a DEF StorePrice
    <3>2. PricesInv'
      BY <2>a, <2>b, <3>1 DEF PricesInv
    <3>3. SomePriceIsCurrent'
      BY <2>a, <2>b, <3>1 DEF PricesInv, SomePriceIsCurrent
    <3> QED
      BY <3>2, <3>3
  <2>5. ASSUME NEW e \in Exchange, SumPrices(e) PROVE Inv'
    <3>1. /\ UNCHANGED <<lastPrice, exchangePrices, upd>> /\ at[e] = "sum" /\ at'[e] = "average"
          /\ \A d \in Exchange \ {e} : at'[d] = at[d]
          /\ \A d \in Exchange : sum'[d] = IF d = e THEN exchangePrices ELSE sum[d]
      BY <2>5, <2>a DEF SumPrices
    <3>2. PricesInv'
      <4>1. /\ \A d, x \in Exchange : sum'[d][x] <= exchangePrices'[x]
            /\ sum'[e][e] = exchangePrices'[e]
        BY <2>a, <3>1 DEF PricesInv
      <4>2. \A d \in Exchange \ {e} : sum'[d] = sum[d]
        BY <3>1
      <4> QED
        BY <3>1, <4>1, <4>2 DEF PricesInv
    <3>3. SomePriceIsCurrent'
      BY <2>a, <3>1 DEF SomePriceIsCurrent
    <3> QED
      BY <3>2, <3>3
  <2>6. ASSUME NEW e \in Exchange, WritePrice(e) PROVE Inv'
    <3>1. /\ UNCHANGED <<exchangePrices, upd>> /\ at[e] = "average" /\ at'[e] \in {"closed", "idle"}
          /\ \A d \in Exchange \ {e} : at'[d] = at[d]
          /\ \A d \in Exchange : sum'[d] = IF d = e THEN NoPrices ELSE sum[d]
          /\ lastPrice' = sum[e]
      <4>1. at'[e] \in {"closed", "idle"} /\ \A d \in Exchange \ {e} : at'[d] = at[d]
        BY <2>6, <2>a DEF WritePrice, Return
      <4>2. \A d \in Exchange : sum'[d] = IF d = e THEN NoPrices ELSE sum[d]
        BY <2>6, <2>a DEF WritePrice
      <4> QED
        BY <2>6, <4>1, <4>2 DEF WritePrice
    <3>2. PricesInv'
      BY <2>a, <2>b, <3>1 DEF PricesInv, NoPrices
    <3>3. lastPrice'[e] = exchangePrices'[e] /\ exchangePrices'[e] > 0
      BY <2>b, <3>1 DEF PricesInv
    <3>4. \A d \in Exchange : lastPrice'[d] <= exchangePrices'[d]
      BY <3>1 DEF PricesInv
    <3>5. SomePriceIsCurrent'
      BY <3>3, <3>4 DEF SomePriceIsCurrent
    <3> QED
      BY <3>2, <3>5
  <2>7. ASSUME NEW e \in Exchange, StoreLatest(e) \/ OfferClosed(e) \/ StartDelete(e) PROVE Inv'
    <3>1. /\ UNCHANGED <<exchangePrices, lastPrice, sum, upd>>
          /\ at[e] \in {"closed", "send", "delete"} /\ at'[e] \in {"idle", "send", "delete"}
          /\ \A d \in Exchange \ {e} : at'[d] = at[d]
      BY <2>7, <2>a DEF StoreLatest, OfferClosed, StartDelete, Return
    <3> QED
      BY <2>1, <2>b, <3>1
  <2>8. CASE (\E w \in Window : DeleteLive(w)) \/ ReaderMisses \/ ReaderStores \/ UNCHANGED rtVars
    <3>1. UNCHANGED <<exchangePrices, lastPrice, sum, upd, at>>
      BY <2>8 DEF DeleteLive, ReaderMisses, ReaderStores, rtVars
    <3> QED
      BY <2>1, <2>b, <3>1
  <2> QED
    BY <2>2, <2>3, <2>4, <2>5, <2>6, <2>7, <2>8 DEF Next, ExchangeStep
<1> QED
  BY <1>1, <1>2, TypeInvariant, PTL DEF Spec

--------------------------------------------------------------------------------
\* An aggregate that a goroutine has computed and not yet stored is still that of the
\* live candle, unless another exchange has stored data in it meanwhile.
SoleAggregate ==
    \A e \in Exchange :
        /\ at[e] = "set"
        /\ \A d \in Exchange \ {e} : exchangeData[live[e]][d] = NoUpdate
        => agg[e] = AggregateLiveCandle(live[e])

\* Whether e is the only exchange that has had anything to do with a live candle.
Sole(e, o) ==
    /\ exchangeData[o][e] # NoUpdate
    /\ \A d \in Exchange \ {e} :
          exchangeData[o][d] = NoUpdate /\ (live[d] = o => at[d] = "idle")
    /\ ~(live[e] = o /\ at[e] \in {"aggregate", "set"})

\* Unfolds what a sole contributor is.
LEMMA SoleByDefinition ==
    SoleContributorCurrent <=>
        \A e \in Exchange, o \in Object : Sole(e, o) => aggregated[o] = AggregateLiveCandle(o)
BY DEF SoleContributorCurrent, Sole

\* Every step keeps the sole contributor's aggregate that of its own updates.
LEMMA SoleAggregateStep == IInv /\ SoleAggregate /\ [Next]_rtVars => SoleAggregate'
<1> SUFFICES ASSUME IInv, SoleAggregate, [Next]_rtVars, NEW e \in Exchange, at'[e] = "set",
                    \A d \in Exchange \ {e} : exchangeData'[live'[e]][d] = NoUpdate
             PROVE  agg'[e] = AggregateLiveCandle(live[e])'
  BY DEF SoleAggregate
<1>t. TypeOK
  BY DEF IInv
<1>a. ASSUME at[e] = "set", agg'[e] = agg[e], live'[e] = live[e],
             exchangeData'[live[e]] = exchangeData[live[e]]
      PROVE  agg'[e] = AggregateLiveCandle(live[e])'
  BY <1>a DEF SoleAggregate, AggregateLiveCandle
<1>1. ASSUME NEW d \in Exchange \ {e}, StoreData(d) PROVE agg'[e] = AggregateLiveCandle(live[e])'
  <2>1. at[e] = "set" /\ agg'[e] = agg[e] /\ live'[e] = live[e]
    BY <1>1, <1>t, OthersUntouched DEF ExchangeStep
  <2>2. live[d] \in Object /\ upd[d] # NoUpdate
    <3>1. /\ created \in 0..(Cardinality(Exchange) * MaxUpdates) /\ live[d] \in 0..created
          /\ live[d] > 0 /\ upd[d].seq > 0
      BY <1>1, <1>t DEF StoreData, TypeOK
    <3>2. Cardinality(Exchange) * MaxUpdates \in Nat
      BY ReceivedFinite
    <3>3. live[d] \in Object
      BY <3>1, <3>2 DEF Object
    <3> QED
      BY <3>1, <3>3, UpdateType
  <2>3. CASE live[d] = live[e]
    <3>1. exchangeData'[live[e]][d] = upd[d]
      BY <1>1, <1>t, <2>2, <2>3 DEF StoreData, TypeOK, Aggregates
    <3> QED
      BY <2>1, <2>2, <3>1
  <2>4. CASE live[d] # live[e]
    <3>1. exchangeData'[live[e]] = exchangeData[live[e]]
      BY <1>1, <1>t, <2>4 DEF StoreData, TypeOK
    <3> QED
      BY <1>a, <2>1, <3>1
  <2> QED
    BY <2>3, <2>4
<1>2. ASSUME NEW d \in Exchange \ {e},
             \/ \E u \in Update : Receive(d, u)
             \/ Aggregate(d) \/ SetAggregated(d) \/ StorePrice(d) \/ SumPrices(d)
             \/ WritePrice(d) \/ StoreLatest(d) \/ OfferClosed(d) \/ StartDelete(d)
      PROVE  agg'[e] = AggregateLiveCandle(live[e])'
  <2>1. at[e] = "set" /\ agg'[e] = agg[e] /\ live'[e] = live[e]
    BY <1>2, <1>t, OthersUntouched DEF ExchangeStep
  <2>2. exchangeData' = exchangeData
    BY <1>2 DEF Receive, Aggregate, SetAggregated, StorePrice, SumPrices, WritePrice,
                StoreLatest, OfferClosed, StartDelete
  <2> QED
    BY <1>a, <2>1, <2>2
<1>3. CASE Aggregate(e)
  <2>1. /\ agg'[e] = AggregateLiveCandle(live[e])
        /\ live' = live /\ exchangeData' = exchangeData
    BY <1>3, <1>t DEF Aggregate, TypeOK
  <2> QED
    BY <2>1 DEF AggregateLiveCandle
<1>4. ASSUME \/ \E u \in Update : Receive(e, u)
             \/ StoreData(e) \/ SetAggregated(e) \/ StorePrice(e) \/ SumPrices(e)
             \/ WritePrice(e) \/ StoreLatest(e) \/ OfferClosed(e) \/ StartDelete(e)
      PROVE  FALSE
  <2>1. at'[e] \in {"store", "aggregate", "price", "sum", "average", "closed", "send", "delete",
                    "idle"}
    BY <1>4, <1>t DEF Receive, StoreData, SetAggregated, StorePrice, SumPrices, WritePrice,
                StoreLatest, OfferClosed, StartDelete, Return, TypeOK
  <2> QED
    BY <2>1
<1>5. CASE (\E w \in Window : DeleteLive(w)) \/ ReaderMisses \/ ReaderStores \/ UNCHANGED rtVars
  <2>1. UNCHANGED <<at, agg, live, exchangeData>>
    BY <1>5 DEF DeleteLive, ReaderMisses, ReaderStores, rtVars
  <2> QED
    BY <1>a, <2>1
<1> QED
  BY <1>1, <1>2, <1>3, <1>4, <1>5 DEF Next, ExchangeStep

\* Every step keeps what readers see of a sole contributor current.
LEMMA SoleStep ==
    IInv /\ SoleAggregate /\ SoleContributorCurrent /\ [Next]_rtVars => SoleContributorCurrent'
<1> SUFFICES ASSUME IInv, SoleAggregate, SoleContributorCurrent, [Next]_rtVars,
                    NEW e \in Exchange, NEW o \in Object, Sole(e, o)'
             PROVE  aggregated'[o] = AggregateLiveCandle(o)'
  BY DEF SoleContributorCurrent, Sole
<1>t. TypeOK
  BY DEF IInv
<1>a. ASSUME Sole(e, o), aggregated'[o] = aggregated[o], exchangeData'[o] = exchangeData[o]
      PROVE  aggregated'[o] = AggregateLiveCandle(o)'
  BY <1>a, SoleByDefinition DEF AggregateLiveCandle
\* An exchange that is past its store in this live candle would not leave e alone in it.
<1>b. \A d \in Exchange \ {e} : live[d] = o /\ at[d] \notin {"idle", "store"}
                               => exchangeData[o][d] # NoUpdate
  BY <1>t, UpdateType DEF IInv, OwnData, TypeOK
<1>c. \A d \in Exchange \ {e} : exchangeData'[o][d] = NoUpdate /\ (live'[d] = o => at'[d] = "idle")
  BY DEF Sole
<1>1. ASSUME NEW d \in Exchange \ {e}, StoreData(d) PROVE aggregated'[o] = AggregateLiveCandle(o)'
  <2>1. live[d] # o
    BY <1>1, <1>c, <1>t DEF StoreData, TypeOK
  <2>2. /\ exchangeData'[o] = exchangeData[o] /\ aggregated' = aggregated /\ live' = live
        /\ \A b \in Exchange \ {d} : at'[b] = at[b]
    BY <1>1, <1>t, <2>1 DEF StoreData, TypeOK
  <2>3. Sole(e, o)
    BY <2>1, <2>2 DEF Sole
  <2> QED
    BY <1>a, <2>2, <2>3
<1>2. ASSUME NEW d \in Exchange \ {e}, NEW u \in Update, Receive(d, u)
      PROVE  aggregated'[o] = AggregateLiveCandle(o)'
  <2>1. /\ exchangeData' = exchangeData /\ aggregated' = aggregated /\ at[d] = "idle"
        /\ \A b \in Exchange \ {d} : at'[b] = at[b] /\ live'[b] = live[b]
    BY <1>2, <1>t DEF Receive, TypeOK
  <2>2. Sole(e, o)
    BY <2>1 DEF Sole
  <2> QED
    BY <1>a, <2>1, <2>2
<1>3. ASSUME NEW d \in Exchange \ {e},
             \/ Aggregate(d) \/ StorePrice(d) \/ SumPrices(d)
             \/ WritePrice(d) \/ SetAggregated(d)
             \/ StoreLatest(d) \/ OfferClosed(d) \/ StartDelete(d)
      PROVE  aggregated'[o] = AggregateLiveCandle(o)'
  <2>1. /\ exchangeData' = exchangeData /\ live' = live
        /\ at[d] \notin {"idle", "store"}
    BY <1>3 DEF Aggregate, StorePrice, SumPrices, WritePrice, StoreLatest, OfferClosed,
                StartDelete, SetAggregated
  <2>2. \A b \in Exchange \ {d} : at'[b] = at[b]
    BY <1>3, <1>t, OthersUntouched DEF ExchangeStep
  <2>3. live[d] # o
    BY <1>b, <1>c, <2>1
  <2>4. aggregated'[o] = aggregated[o]
    BY <1>3, <1>t, <2>3 DEF Aggregate, StorePrice, SumPrices, WritePrice, StoreLatest,
                            OfferClosed, StartDelete, SetAggregated, TypeOK
  <2>5. Sole(e, o)
    BY <2>1, <2>2, <2>3 DEF Sole
  <2> QED
    BY <1>a, <2>1, <2>4, <2>5
<1>4. ASSUME NEW u \in Update, Receive(e, u) PROVE aggregated'[o] = AggregateLiveCandle(o)'
  <2>1. /\ exchangeData' = exchangeData /\ aggregated' = aggregated /\ at[e] = "idle"
        /\ \A b \in Exchange \ {e} : at'[b] = at[b] /\ live'[b] = live[b]
    BY <1>4, <1>t DEF Receive, TypeOK
  <2>2. Sole(e, o)
    BY <2>1 DEF Sole
  <2> QED
    BY <1>a, <2>1, <2>2
<1>5. CASE StoreData(e)
  <2>1. live[e] # o
    BY <1>5, <1>t DEF StoreData, TypeOK, Sole
  <2>2. /\ exchangeData'[o] = exchangeData[o] /\ aggregated' = aggregated /\ live' = live
        /\ \A b \in Exchange \ {e} : at'[b] = at[b]
    BY <1>5, <1>t, <2>1 DEF StoreData, TypeOK
  <2>3. Sole(e, o)
    BY <2>1, <2>2 DEF Sole
  <2> QED
    BY <1>a, <2>2, <2>3
<1>6. CASE SetAggregated(e)
  <2>1. /\ exchangeData' = exchangeData /\ live' = live /\ at[e] = "set"
        /\ \A b \in Exchange \ {e} : at'[b] = at[b]
        /\ aggregated' = [aggregated EXCEPT ![live[e]] = agg[e]]
    BY <1>6, <1>t DEF SetAggregated, TypeOK
  <2>2. CASE live[e] = o
    <3>1. agg[e] = AggregateLiveCandle(o)
      BY <1>c, <2>1, <2>2 DEF SoleAggregate
    <3>2. aggregated'[o] = agg[e]
      BY <1>t, <2>1, <2>2 DEF TypeOK
    <3> QED
      BY <2>1, <3>1, <3>2 DEF AggregateLiveCandle
  <2>3. CASE live[e] # o
    <3>1. aggregated'[o] = aggregated[o]
      BY <1>t, <2>1, <2>3 DEF TypeOK
    <3>2. Sole(e, o)
      BY <2>1, <2>3 DEF Sole
    <3> QED
      BY <1>a, <2>1, <3>1, <3>2
  <2> QED
    BY <2>2, <2>3
<1>7. CASE \/ Aggregate(e) \/ StorePrice(e) \/ SumPrices(e) \/ WritePrice(e)
           \/ StoreLatest(e) \/ OfferClosed(e) \/ StartDelete(e)
  <2>1. /\ exchangeData' = exchangeData /\ live' = live /\ aggregated' = aggregated
        /\ at[e] \in {"price", "sum", "average", "closed", "send", "delete"} \/ at'[e] = "set"
    BY <1>7, <1>t DEF Aggregate, StorePrice, SumPrices, WritePrice, StoreLatest, OfferClosed,
                      StartDelete, TypeOK
  <2>2. \A b \in Exchange \ {e} : at'[b] = at[b]
    BY <1>7, <1>t, OthersUntouched DEF ExchangeStep
  <2>3. Sole(e, o)
    BY <2>1, <2>2 DEF Sole
  <2> QED
    BY <1>a, <2>1, <2>3
<1>8. CASE (\E w \in Window : DeleteLive(w)) \/ ReaderMisses \/ ReaderStores \/ UNCHANGED rtVars
  <2>1. UNCHANGED <<at, aggregated, live, exchangeData>>
    BY <1>8 DEF DeleteLive, ReaderMisses, ReaderStores, rtVars
  <2> QED
    BY <1>a, <2>1 DEF Sole
<1> QED
  BY <1>1, <1>2, <1>3, <1>4, <1>5, <1>6, <1>7, <1>8 DEF Next, ExchangeStep

\* aggregateLiveCandle and the section under aggregatedMu: as long as one exchange alone
\* has touched a live candle, readers see the aggregate of its latest processed update.
THEOREM SoleContributorStaysCurrent == Spec => []SoleContributorCurrent
<1>1. Init => SoleAggregate /\ SoleContributorCurrent
  BY UpdateType DEF Init, SoleAggregate, SoleContributorCurrent
<1>2. IInv /\ SoleAggregate /\ SoleContributorCurrent /\ [Next]_rtVars
      => SoleAggregate' /\ SoleContributorCurrent'
  BY SoleAggregateStep, SoleStep
<1> QED
  BY <1>1, <1>2, IInvInvariant, PTL DEF Spec
================================================================================

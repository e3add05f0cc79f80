------------------------ MODULE IntervalAggregatorProofs ------------------------
(***************************************************************************)
(* Proofs about IntervalAggregator, for any period length, any number of    *)
(* minutes and versions, and any interleaving of the calls.                 *)
(***************************************************************************)
EXTENDS IntervalAggregator, FiniteSetTheorems, TLAPS

\* The calls that have come to their LoadOrStore: each has created one building
\* candle at most.
Loaded == {c \in Call : at[c] \in {"update", "done"}}
EnoughObjects == created <= Cardinality(Loaded)

\* What a call holds: the periods it still has to look at are over for it, and the
\* building candle in its hand is of a period that is over for it, or of its own.
HandsMatch ==
    /\ \A c \in Call : \A p \in todo[c] : Expired(p, c[1])
    /\ \A c \in Call : at[c] \in {"lock", "update"} => obj[c] # 0
    /\ \A c \in Call : at[c] = "lock" => Expired(building[obj[c]].per, c[1])
    /\ \A c \in Call : at[c] = "update" => building[obj[c]].per = PeriodOf(c[1])
    /\ \A p \in histBatch \cup histRows : history > 0

IInv == TypeOK /\ EnoughObjects /\ HandsMatch /\ CompletedIsOver

\* While calls have not overlapped: calls run one after the other, one period at most
\* is being built, a call that is past it has closed it, and what is being built or
\* completed holds all that was processed.
OneAtATime ==
    \A b, c \in Call : at[c] # "new" /\ Earlier(b, c) => at[b] = "done"

InHand ==
    \A c \in Call :
        /\ at[c] = "lock" => buildingCandles[building[obj[c]].per] = obj[c]
        /\ at[c] = "update" => buildingCandles[PeriodOf(c[1])] = obj[c]

\* A building candle of the map is the only one, its period has begun, a call that
\* closes expired ones will come to it, and it is not empty for long.
OneBuilding ==
    \A p \in Period : buildingCandles[p] # 0 =>
        /\ \A q \in Period : buildingCandles[q] # 0 => p = q
        /\ \E c \in Call : at[c] # "new" /\ PeriodOf(c[1]) = p
        /\ \A c \in Call : at[c] \in {"range", "lock"} /\ Expired(p, c[1]) =>
              p \in todo[c] \/ (at[c] = "lock" /\ obj[c] = buildingCandles[p])
        /\ \/ building[buildingCandles[p]].data # NoMinutes
           \/ \E c \in Call : at[c] = "update" /\ PeriodOf(c[1]) = p

NothingLost ==
    /\ \A p \in Period : buildingCandles[p] # 0 =>
          /\ \A k \in Range(completed) : k.per < p
          /\ \A c \in Call : at[c] = "done" /\ PeriodOf(c[1]) = p =>
                building[buildingCandles[p]].data[c[1]] >= c[2]
    /\ \A c \in Call : at[c] = "done" /\ buildingCandles[PeriodOf(c[1])] = 0 =>
          \E k \in Range(completed) : k.per = PeriodOf(c[1])

\* The two claims of CompletedIsWhole.
InOrder == \A i, j \in DOMAIN completed : i < j => completed[i].per < completed[j].per
Whole ==
    \A k \in Range(completed), c \in Call :
        at[c] = "done" /\ PeriodOf(c[1]) = k.per => k.data[c[1]] >= c[2]

Orderly == OneAtATime /\ InHand /\ OneBuilding /\ NothingLost /\ InOrder /\ Whole
Serial == ~overlap => Orderly

--------------------------------------------------------------------------------
\* Periods are in the order of their minutes, and a period has expired for a 1m candle
\* exactly when the candle is of a later one.
LEMMA PeriodFacts ==
    /\ Minute \subseteq Nat /\ Period \subseteq Nat /\ NoPeriod \notin Period
    /\ \A m \in Minute : PeriodOf(m) \in Period
    /\ \A m, n \in Minute : m <= n => PeriodOf(m) <= PeriodOf(n)
    /\ \A m \in Minute, p \in Period : Expired(p, m) <=> PeriodOf(m) > p
<1> USE IntervalSizes
<1>1. Minute \subseteq Nat /\ Period \subseteq Nat /\ NoPeriod \notin Period
  BY DEF Minute, Period, NoPeriod
<1>2. ASSUME NEW m \in Nat
      PROVE  /\ PeriodOf(m) \in Nat
             /\ PeriodOf(m) * Length <= m /\ m < (PeriodOf(m) + 1) * Length
  BY DEF PeriodOf
<1>3. ASSUME NEW a \in Nat, NEW b \in Nat, NEW m \in Nat, a * Length <= m, m < (b + 1) * Length
      PROVE  a <= b
  <2> SUFFICES ASSUME a >= b + 1 PROVE FALSE
    BY <1>3
  <2>1. a * Length >= (b + 1) * Length
    OBVIOUS
  <2> QED
    BY <1>3, <2>1
<1>4. ASSUME NEW a \in Nat, NEW b \in Nat, a <= b PROVE a * Length <= b * Length
  BY <1>4
<1>5. ASSUME NEW m \in Nat, NEW n \in Nat, m <= n PROVE PeriodOf(m) <= PeriodOf(n)
  <2>1. PeriodOf(m) * Length <= n
    BY <1>2, <1>5
  <2> QED
    BY <1>2, <1>3, <2>1
<1>6. ASSUME NEW m \in Nat, NEW p \in Nat PROVE Expired(p, m) <=> PeriodOf(m) > p
  <2>1. CASE Expired(p, m)
    <3>1. (p + 1) * Length <= m /\ p + 1 \in Nat
      BY <2>1 DEF Expired
    <3>2. p + 1 <= PeriodOf(m)
      BY <1>2, <1>3, <3>1
    <3> QED
      BY <1>2, <2>1, <3>2
  <2>2. CASE PeriodOf(m) > p
    <3>1. PeriodOf(m) \in Nat /\ p + 1 <= PeriodOf(m) /\ PeriodOf(m) * Length <= m
      BY <1>2, <2>2
    <3>2. (p + 1) * Length <= PeriodOf(m) * Length
      BY <1>4, <3>1
    <3> QED
      BY <2>2, <3>1, <3>2 DEF Expired
  <2> QED
    BY <2>1, <2>2
<1>7. ASSUME NEW m \in Minute PROVE PeriodOf(m) \in Period
  <2>1. m \in Nat /\ NumMinutes - 1 \in Nat /\ m <= NumMinutes - 1
    BY DEF Minute
  <2>2. PeriodOf(m) <= PeriodOf(NumMinutes - 1)
    BY <1>5, <2>1
  <2> QED
    BY <1>2, <2>1, <2>2 DEF Period, PeriodOf
<1> QED
  BY <1>1, <1>5, <1>6, <1>7

\* Calls are identified by minute and version, and come in one order.
LEMMA CallFacts ==
    /\ \A c \in Call : c[1] \in Minute /\ c[2] \in 1..MaxVersion /\ PeriodOf(c[1]) \in Period
    /\ \A b, c \in Call : Earlier(b, c) \/ Earlier(c, b) \/ b = c
    /\ \A b, c \in Call : ~(Earlier(b, c) /\ Earlier(c, b)) /\ ~Earlier(c, c)
    /\ \A b, c \in Call : Earlier(b, c) => PeriodOf(b[1]) <= PeriodOf(c[1])
<1>1. \A c \in Call : c[1] \in Minute /\ c[2] \in 1..MaxVersion /\ c = <<c[1], c[2]>>
  BY DEF Call
<1>2. Minute \subseteq Nat /\ 1..MaxVersion \subseteq Nat
  BY PeriodFacts, IntervalSizes
<1>3. \A b, c \in Call : Earlier(b, c) \/ Earlier(c, b) \/ b = c
  BY <1>1, <1>2 DEF Earlier
<1>4. \A b, c \in Call : ~(Earlier(b, c) /\ Earlier(c, b)) /\ ~Earlier(c, c)
  BY <1>1, <1>2 DEF Earlier
<1>5. \A b, c \in Call : Earlier(b, c) => b[1] <= c[1]
  BY <1>1, <1>2 DEF Earlier
<1> QED
  BY <1>1, <1>3, <1>4, <1>5, PeriodFacts

\* The calls that have loaded a building candle are finitely many.
LEMMA LoadedFinite ==
    /\ IsFiniteSet(Call) /\ Cardinality(Call) \in Nat
    /\ IsFiniteSet(Loaded) /\ Cardinality(Loaded) \in Nat
    /\ Cardinality(Loaded) <= Cardinality(Call)
<1>1. IsFiniteSet(Minute) /\ IsFiniteSet(1..MaxVersion)
  BY FS_Interval, IntervalSizes DEF Minute
<1>2. IsFiniteSet(Call)
  BY <1>1, FS_Product DEF Call
<1>3. Loaded \in SUBSET Call
  BY DEF Loaded
<1> QED
  BY <1>2, <1>3, FS_Subset, FS_CardinalityType

\* Every step is a step of a call, of the writer, of a reader or of Stop.
LEMMA NextCases ==
    ASSUME Next
    PROVE  \/ \E c \in Call : BeginCall(c)
           \/ \E c \in Call, p \in Period : VisitExpired(c, p)
           \/ \E c \in Call : CloseExpired(c)
           \/ \E c \in Call : LoadBuilding(c)
           \/ \E c \in Call : UpdateBuilding(c)
           \/ WriterReceives \/ WriterTicks \/ WriterExits
           \/ StopCancels \/ StopCloses \/ StopReturns
           \/ HistoryReads \/ HistoryWrites \/ ReaderMisses \/ ReaderStores
BY DEF Next, CallStep

\* The candles completed after one more.
LEMMA RangeAppend ==
    ASSUME NEW s \in Seq(Candle), NEW k \in Candle
    PROVE  /\ Append(s, k) \in Seq(Candle)
           /\ Range(Append(s, k)) = Range(s) \cup {k}
           /\ DOMAIN s = 1..Len(s) /\ DOMAIN Append(s, k) = 1..(Len(s) + 1)
           /\ \A i \in 1..Len(s) : Append(s, k)[i] = s[i]
           /\ Append(s, k)[Len(s) + 1] = k
<1>1. /\ Append(s, k) \in Seq(Candle) /\ Len(s) \in Nat
      /\ DOMAIN s = 1..Len(s) /\ DOMAIN Append(s, k) = 1..(Len(s) + 1)
      /\ \A i \in 1..Len(s) : Append(s, k)[i] = s[i]
      /\ Append(s, k)[Len(s) + 1] = k
  OBVIOUS
<1>2. \A i \in 1..(Len(s) + 1) : i \in 1..Len(s) \/ i = Len(s) + 1
  BY <1>1
<1>3. 1..Len(s) \subseteq 1..(Len(s) + 1) /\ Len(s) + 1 \in 1..(Len(s) + 1)
  BY <1>1
<1> HIDE DEF Candle
<1>4. Range(Append(s, k)) = Range(s) \cup {k}
  BY <1>1, <1>2, <1>3 DEF Range
<1> QED
  BY <1>1, <1>4

\* What a call has in its hand is one of the building candles.
LEMMA InHandIsObject ==
    ASSUME TypeOK, HandsMatch
    PROVE  /\ created \in Nat /\ created <= Cardinality(Call) /\ 1..created \subseteq Object
           /\ \A c \in Call : obj[c] # 0 => obj[c] \in 1..created
           /\ \A p \in Period : buildingCandles[p] # 0 => buildingCandles[p] \in 1..created
           /\ \A c \in Call : at[c] \in {"lock", "update"} => obj[c] \in 1..created
           /\ \A o \in Object : building[o] \in Candle /\ building[o].per \in Period
                                /\ building[o].data \in Minutes
<1>1. created \in Nat /\ created <= Cardinality(Call)
  BY LoadedFinite DEF TypeOK
<1>2. 1..created \subseteq Object
  BY <1>1, LoadedFinite DEF Object
<1>3. buildingCandles \in [Period -> 0..created] /\ obj \in [Call -> 0..created]
  BY DEF TypeOK
<1>4. \A c \in Call : at[c] \in {"lock", "update"} => obj[c] # 0
  BY DEF HandsMatch
<1>5. \A o \in Object : building[o] \in Candle /\ building[o].per \in Period
                        /\ building[o].data \in Minutes
  BY DEF TypeOK, Candle
<1> QED
  BY <1>1, <1>2, <1>3, <1>4, <1>5

\* The empty candle is a candle.
LEMMA NoMinutesType == NoMinutes \in Minutes /\ NoCandle \in Candle
                       /\ \A p \in Period : NewBuilding(p) \in Candle
BY IntervalSizes, PeriodFacts DEF NoMinutes, Minutes, NoCandle, Candle, NewBuilding, Period

\* What UpdateBuilding changes: one minute of the building candle in hand.
LEMMA UpdateEffect ==
    ASSUME TypeOK, HandsMatch, NEW c \in Call, UpdateBuilding(c)
    PROVE  /\ building' \in [Object -> Candle]
           /\ \A o \in Object : building'[o].per = building[o].per
           /\ \A o \in Object, m \in Minute :
                building'[o].data[m] = IF o = obj[c] /\ m = c[1] THEN c[2]
                                       ELSE building[o].data[m]
<1>1. obj[c] \in Object /\ c[1] \in Minute /\ c[2] \in 0..MaxVersion /\ c \in Call
  BY InHandIsObject, CallFacts DEF UpdateBuilding
<1>2. building' = [building EXCEPT ![obj[c]].data[c[1]] = c[2]]
  BY DEF UpdateBuilding
<1>3. building \in [Object -> Candle]
  BY DEF TypeOK
<1>4. \A o \in Object : building[o] \in [per : Period, data : [Minute -> 0..MaxVersion]]
  BY <1>3 DEF Candle, Minutes
<1>5. [building[obj[c]].data EXCEPT ![c[1]] = c[2]] \in [Minute -> 0..MaxVersion]
  BY <1>1, <1>4
<1>6. \A o \in Object : building'[o] =
         IF o = obj[c] THEN [per |-> building[o].per,
                             data |-> [building[o].data EXCEPT ![c[1]] = c[2]]]
         ELSE building[o]
  BY <1>1, <1>2, <1>3, <1>4
<1>7. ASSUME NEW o \in Object PROVE building'[o] \in Candle
  <2>1. CASE o # obj[c]
    BY <1>3, <1>6, <2>1
  <2>2. CASE o = obj[c]
    <3>1. building'[o] = [per |-> building[o].per,
                          data |-> [building[o].data EXCEPT ![c[1]] = c[2]]]
      BY <1>6, <2>2
    <3>2. building[o].per \in Period
      BY <1>4
    <3> QED
      BY <1>5, <2>2, <3>1, <3>2 DEF Candle, Minutes
  <2> QED
    BY <2>1, <2>2
<1>8. DOMAIN building' = Object /\ building' = [o \in Object |-> building'[o]]
  BY <1>2, <1>3
<1>9. building' \in [Object -> Candle]
  BY <1>7, <1>8
<1> QED
  BY <1>1, <1>4, <1>6, <1>9

\* Completed candles are candles of periods.
LEMMA CompletedType ==
    ASSUME TypeOK
    PROVE  completed \in Seq(Candle) /\ \A k \in Range(completed) : k \in Candle /\ k.per \in Period
<1>1. completed \in Seq(Candle)
  BY DEF TypeOK
<1>2. \A i \in DOMAIN completed : completed[i] \in Candle
  BY <1>1
<1>3. \A k \in Candle : k.per \in Period
  BY DEF Candle
<1> QED
  BY <1>1, <1>2, <1>3 DEF Range

\* Every step keeps the types, and the objects suffice.
LEMMA TypeStep == IInv /\ [Next]_iaVars => TypeOK' /\ EnoughObjects'
<1> SUFFICES ASSUME TypeOK, EnoughObjects, HandsMatch, [Next]_iaVars
             PROVE  TypeOK' /\ EnoughObjects'
  BY DEF IInv
<1> USE IntervalSizes
<1>a. UNCHANGED <<at, created>> => EnoughObjects'
  BY DEF EnoughObjects, Loaded
<1>b. /\ created \in Nat /\ obj \in [Call -> 0..created]
      /\ buildingCandles \in [Period -> 0..created]
      /\ batchChan \in 0..ChanCap /\ batch \in 0..(BatchSize - 1)
      /\ at \in [Call -> {"new", "range", "lock", "update", "done"}]
      /\ building \in [Object -> Candle] /\ todo \in [Call -> SUBSET Period]
  BY InHandIsObject DEF TypeOK
<1>c. completed \in Seq(Candle) /\ \A k \in Range(completed) : k \in Candle /\ k.per \in Period
  BY CompletedType
<1>d. \A o \in Object, m \in Minute : building[o].data[m] > 0 => PeriodOf(m) = building[o].per
  BY DEF TypeOK
<1>1. ASSUME NEW c \in Call, BeginCall(c) PROVE TypeOK' /\ EnoughObjects'
  <2>1. /\ todo' \in [Call -> SUBSET Period] /\ overlap' \in BOOLEAN
        /\ at' \in [Call -> {"new", "range", "lock", "update", "done"}]
    BY <1>b, <1>1 DEF BeginCall
  <2>2. TypeOK'
    BY <1>1, <2>1 DEF BeginCall, TypeOK, mapVars, outVars, writerVars, stopVars, sideVars
  <2>3. Loaded' = Loaded /\ created' = created
    BY <1>b, <1>1 DEF BeginCall, Loaded, mapVars
  <2> QED
    BY <2>2, <2>3 DEF EnoughObjects
<1>2. ASSUME NEW c \in Call, NEW p \in Period, VisitExpired(c, p) PROVE TypeOK' /\ EnoughObjects'
  <2>1. /\ todo' \in [Call -> SUBSET Period] /\ obj' \in [Call -> 0..created]
        /\ at' \in [Call -> {"new", "range", "lock", "update", "done"}]
    BY <1>b, <1>2 DEF VisitExpired
  <2>2. TypeOK'
    BY <1>2, <2>1 DEF VisitExpired, TypeOK, mapVars, outVars, writerVars, stopVars, sideVars
  <2>3. Loaded' = Loaded /\ created' = created
    BY <1>b, <1>2 DEF VisitExpired, Loaded, mapVars
  <2> QED
    BY <2>2, <2>3 DEF EnoughObjects
<1>3. ASSUME NEW c \in Call, CloseExpired(c) PROVE TypeOK' /\ EnoughObjects'
  <2>0. obj[c] \in Object /\ building[obj[c]] \in Candle /\ building[obj[c]].per \in Period
    BY <1>3, InHandIsObject DEF CloseExpired
  <2>1. /\ at' \in [Call -> {"new", "range", "lock", "update", "done"}]
        /\ obj' \in [Call -> 0..created] /\ building' = building /\ created' = created
        /\ UNCHANGED <<todo, overlap, writerVars, stopVars, sideVars>>
    BY <1>b, <1>3 DEF CloseExpired
  <2>2. \/ UNCHANGED <<lastCompleted, completed, outVars, buildingCandles>>
        \/ CompleteIntervalNow(obj[c])
    BY <1>3 DEF CloseExpired
  <2>3. /\ buildingCandles' \in [Period -> 0..created]
        /\ \A p \in Period : buildingCandles'[p] # 0 => buildingCandles'[p] = buildingCandles[p]
    BY <1>b, <2>0, <2>2 DEF CompleteIntervalNow
  <2>4. completed' \in Seq(Candle)
    BY <1>c, <2>0, <2>2, RangeAppend DEF CompleteIntervalNow
  <2>5. lastCompleted' \in Period \cup {NoPeriod}
    BY <2>0, <2>2 DEF CompleteIntervalNow, TypeOK
  <2>6. batchChan' \in 0..ChanCap
    BY <1>b, <2>2 DEF CompleteIntervalNow, outVars
  <2>7. panicked' \in BOOLEAN
    BY <2>2 DEF CompleteIntervalNow, outVars, TypeOK
  <2>8. TypeOK'
    BY <2>1, <2>3, <2>4, <2>5, <2>6, <2>7 DEF TypeOK, writerVars, stopVars, sideVars
  <2>9. Loaded' = Loaded
    BY <1>b, <1>3 DEF CloseExpired, Loaded
  <2> QED
    BY <2>1, <2>8, <2>9 DEF EnoughObjects
<1>4. ASSUME NEW c \in Call, LoadBuilding(c) PROVE TypeOK' /\ EnoughObjects'
  <2> DEFINE q == PeriodOf(c[1])
  <2>0. q \in Period
    BY CallFacts
  <2> HIDE DEF q
  <2>1. /\ at' \in [Call -> {"new", "range", "lock", "update", "done"}]
        /\ UNCHANGED <<lastCompleted, completed, todo, overlap, outVars, writerVars, stopVars,
                       sideVars>>
    BY <1>b, <1>4 DEF LoadBuilding
  <2>2. Loaded' = Loaded \cup {c} /\ c \notin Loaded
    BY <1>b, <1>4 DEF LoadBuilding, Loaded
  <2>3. Cardinality(Loaded') = Cardinality(Loaded) + 1
    BY <2>2, LoadedFinite, FS_AddElement
  <2>4. Cardinality(Loaded') <= Cardinality(Call)
    <3>1. Loaded' \in SUBSET Call
      BY DEF Loaded
    <3> QED
      BY <3>1, LoadedFinite, FS_Subset
  <2>5. /\ Cardinality(Loaded) \in Nat /\ Cardinality(Call) \in Nat
        /\ created <= Cardinality(Loaded)
    BY LoadedFinite DEF EnoughObjects
  <2>6. CASE buildingCandles[q] # 0
    <3>1. obj' = [obj EXCEPT ![c] = buildingCandles[q]] /\ UNCHANGED mapVars
      BY <1>4, <2>6 DEF LoadBuilding, q
    <3>2. obj' \in [Call -> 0..created]
      BY <1>b, <2>0, <3>1
    <3>3. TypeOK'
      BY <2>1, <3>1, <3>2 DEF TypeOK, mapVars, outVars, writerVars, stopVars, sideVars
    <3>4. created' = created
      BY <3>1 DEF mapVars
    <3>5. EnoughObjects'
      BY <1>b, <2>3, <2>5, <3>4 DEF EnoughObjects
    <3> QED
      BY <3>3, <3>5
  <2>7. CASE buildingCandles[q] = 0
    <3>1. /\ created' = created + 1
          /\ buildingCandles' = [buildingCandles EXCEPT ![q] = created + 1]
          /\ building' = [building EXCEPT ![created + 1] = NewBuilding(q)]
          /\ obj' = [obj EXCEPT ![c] = created + 1]
      BY <1>4, <2>7 DEF LoadBuilding, q
    <3>2. created' \in 0..Cardinality(Call) /\ created + 1 \in Object
      BY <1>b, <2>3, <2>4, <2>5, <3>1 DEF Object
    <3>3. obj' \in [Call -> 0..created'] /\ buildingCandles' \in [Period -> 0..created']
      BY <1>b, <2>0, <3>1
    <3>4. building' \in [Object -> Candle]
      BY <1>b, <2>0, <3>1, <3>2, NoMinutesType
    <3>5. /\ NewBuilding(q).per = q
          /\ \A m \in Minute : NewBuilding(q).data[m] = 0
      BY DEF NewBuilding, NoMinutes
    <3>6. \A o \in Object : building'[o] = IF o = created + 1 THEN NewBuilding(q) ELSE building[o]
      BY <1>b, <3>1, <3>2
    <3>7. \A o \in Object, m \in Minute : building'[o].data[m] > 0 => PeriodOf(m) = building'[o].per
      BY <1>d, <3>5, <3>6
    <3>8. \A p \in Period : buildingCandles'[p] = IF p = q THEN created + 1 ELSE buildingCandles[p]
      BY <1>b, <2>0, <3>1
    <3>9. \A p \in Period : buildingCandles[p] # 0 => buildingCandles[p] \in Object
                                                     /\ buildingCandles[p] # created + 1
      BY InHandIsObject
    <3>10. \A p \in Period : buildingCandles'[p] # 0 => building'[buildingCandles'[p]].per = p
      <4>1. ASSUME NEW p \in Period, p # q, buildingCandles'[p] # 0
            PROVE  building'[buildingCandles'[p]].per = p
        <5>1. buildingCandles'[p] = buildingCandles[p]
          BY <3>8, <4>1
        <5>2. building'[buildingCandles[p]] = building[buildingCandles[p]]
          BY <3>6, <3>9, <4>1, <5>1
        <5> QED
          BY <4>1, <5>1, <5>2 DEF TypeOK
      <4>2. building'[buildingCandles'[q]].per = q
        BY <2>0, <3>2, <3>5, <3>6, <3>8
      <4> QED
        BY <4>1, <4>2
    <3>11. TypeOK'
      BY <2>1, <3>2, <3>3, <3>4, <3>7, <3>10 DEF TypeOK, outVars, writerVars, stopVars, sideVars
    <3>12. EnoughObjects'
      BY <1>b, <2>3, <2>5, <3>1 DEF EnoughObjects
    <3> QED
      BY <3>11, <3>12
  <2> QED
    BY <2>6, <2>7
<1>5. ASSUME NEW c \in Call, UpdateBuilding(c) PROVE TypeOK' /\ EnoughObjects'
  <2>1. /\ at' \in [Call -> {"new", "range", "lock", "update", "done"}]
        /\ UNCHANGED <<buildingCandles, created, lastCompleted, completed, todo, obj, overlap,
                       outVars, writerVars, stopVars, sideVars>>
    BY <1>b, <1>5 DEF UpdateBuilding
  <2>2. /\ building' \in [Object -> Candle]
        /\ \A o \in Object : building'[o].per = building[o].per
        /\ \A o \in Object, m \in Minute :
             building'[o].data[m] = IF o = obj[c] /\ m = c[1] THEN c[2] ELSE building[o].data[m]
    BY <1>5, UpdateEffect
  <2>3. building[obj[c]].per = PeriodOf(c[1])
    BY <1>5 DEF UpdateBuilding, HandsMatch
  <2>4. \A o \in Object, m \in Minute : building'[o].data[m] > 0 => PeriodOf(m) = building'[o].per
    <3>1. \A o \in Object, m \in Minute : building[o].data[m] > 0 => PeriodOf(m) = building[o].per
      BY DEF TypeOK
    <3>2. ASSUME NEW o \in Object, NEW m \in Minute, building'[o].data[m] > 0
          PROVE  PeriodOf(m) = building[o].per
      <4>1. CASE o = obj[c] /\ m = c[1]
        BY <2>3, <4>1
      <4>2. CASE ~(o = obj[c] /\ m = c[1])
        BY <2>2, <3>1, <3>2, <4>2
      <4> QED
        BY <4>1, <4>2
    <3> QED
      BY <2>2, <3>2
  <2>5. \A p \in Period : buildingCandles[p] # 0 => buildingCandles[p] \in Object
    BY InHandIsObject
  <2>6. \A p \in Period : buildingCandles'[p] # 0 => building'[buildingCandles'[p]].per = p
    BY <2>1, <2>2, <2>5 DEF TypeOK
  <2>7. TypeOK'
    BY <2>1, <2>2, <2>4, <2>6 DEF TypeOK, outVars, writerVars, stopVars, sideVars
  <2>8. Loaded' = Loaded
    BY <1>b, <1>5 DEF UpdateBuilding, Loaded
  <2> QED
    BY <2>1, <2>7, <2>8 DEF EnoughObjects
<1>6. CASE WriterReceives \/ WriterTicks \/ WriterExits
  <2>1. /\ UNCHANGED <<mapVars, lastCompleted, completed, callVars, stopVars, sideVars, panicked>>
        /\ batchChan' \in 0..ChanCap /\ batch' \in 0..(BatchSize - 1)
        /\ writer' \in {writer, "exited"}
    BY <1>b, <1>6 DEF WriterReceives, WriterTicks, WriterExits, BatchFull, outVars
  <2>2. TypeOK'
    BY <2>1 DEF TypeOK, mapVars, callVars, stopVars, sideVars
  <2> QED
    BY <1>a, <2>1, <2>2 DEF callVars, mapVars
<1>7. CASE StopCancels \/ StopCloses \/ StopReturns
  <2>1. /\ UNCHANGED <<mapVars, lastCompleted, completed, callVars, outVars, writerVars, sideVars>>
        /\ stopper' \in {"cancelled", "wait", "stopped"}
        /\ cancelled' \in {TRUE, cancelled} /\ chanClosed' \in {TRUE, chanClosed}
    BY <1>7 DEF StopCancels, StopCloses, StopReturns
  <2>2. TypeOK'
    BY <2>1 DEF TypeOK, mapVars, callVars, outVars, writerVars, sideVars
  <2> QED
    BY <1>a, <2>1, <2>2 DEF callVars, mapVars
<1>8. CASE HistoryReads \/ HistoryWrites \/ ReaderMisses \/ ReaderStores
  <2>1. UNCHANGED <<mapVars, completed, callVars, outVars, writerVars, stopVars>>
    BY <1>8 DEF HistoryReads, HistoryWrites, ReaderMisses, ReaderStores
  <2>2. {PeriodOf(m) : m \in {n \in Minute : at[<<n, MaxVersion>>] # "new"}} \subseteq Period
    BY PeriodFacts
  <2>3. /\ histBatch' \subseteq Period /\ histRows' \subseteq Period /\ history' \in 0..MaxHistory
        /\ reader' \in {"idle", "query"} /\ lastCompleted' \in Period \cup {NoPeriod}
    <3>1. CASE HistoryReads
      <4>1. history \in 0..MaxHistory /\ history < MaxHistory /\ history' = history + 1
        BY <3>1 DEF HistoryReads, TypeOK
      <4>2. history' \in 0..MaxHistory
        BY <4>1
      <4>3. histBatch' \subseteq Period
        BY <2>2, <3>1 DEF HistoryReads
      <4> QED
        BY <3>1, <4>2, <4>3 DEF HistoryReads, TypeOK
    <3>2. CASE HistoryWrites
      BY <3>2 DEF HistoryWrites, TypeOK
    <3>3. CASE ReaderMisses
      BY <3>3 DEF ReaderMisses, TypeOK
    <3>4. CASE ReaderStores
      BY <1>c, <3>4 DEF ReaderStores, TypeOK
    <3> QED
      BY <1>8, <3>1, <3>2, <3>3, <3>4
  <2>4. TypeOK'
    BY <2>1, <2>3 DEF TypeOK, mapVars, callVars, outVars, writerVars, stopVars
  <2> QED
    BY <1>a, <2>1, <2>4 DEF callVars, mapVars
<1>9. CASE UNCHANGED iaVars
  BY <1>9 DEF TypeOK, EnoughObjects, Loaded, iaVars, mapVars, callVars, outVars, writerVars,
              stopVars, sideVars
<1> QED
  BY <1>1, <1>2, <1>3, <1>4, <1>5, <1>6, <1>7, <1>8, <1>9, NextCases

\* What is not a step of a call leaves the calls, the map and the completed candles alone.
LEMMA CallsUntouched ==
    ASSUME \/ WriterReceives \/ WriterTicks \/ WriterExits
           \/ StopCancels \/ StopCloses \/ StopReturns
           \/ HistoryReads \/ HistoryWrites \/ ReaderMisses \/ ReaderStores
           \/ UNCHANGED iaVars
    PROVE  UNCHANGED <<buildingCandles, created, building, completed, at, todo, obj, overlap>>
<1>1. CASE WriterReceives \/ WriterTicks \/ WriterExits
  BY <1>1 DEF WriterReceives, WriterTicks, WriterExits, mapVars, callVars
<1>2. CASE StopCancels \/ StopCloses \/ StopReturns
  BY <1>2 DEF StopCancels, StopCloses, StopReturns, mapVars, callVars
<1>3. CASE HistoryReads \/ HistoryWrites \/ ReaderMisses \/ ReaderStores
  BY <1>3 DEF HistoryReads, HistoryWrites, ReaderMisses, ReaderStores, mapVars, callVars
<1>4. CASE UNCHANGED iaVars
  BY <1>4 DEF iaVars, mapVars, callVars
<1> QED
  BY <1>1, <1>2, <1>3, <1>4

\* What the steps of a call change.
LEMMA BeginEffect ==
    ASSUME TypeOK, NEW c \in Call, BeginCall(c)
    PROVE  /\ at[c] = "new" /\ overlap' = (overlap \/ Overtaken(c) # {})
           /\ \A d \in Call : /\ at'[d] = IF d = c THEN "range" ELSE at[d]
                              /\ todo'[d] = IF d = c THEN {p \in Period : Expired(p, c[1])}
                                            ELSE todo[d]
           /\ UNCHANGED <<buildingCandles, created, building, completed, lastCompleted, obj,
                          history, histBatch, histRows>>
BY DEF BeginCall, TypeOK, mapVars, sideVars

\* What visiting a building candle of closeExpiredIntervals changes.
LEMMA VisitEffect ==
    ASSUME TypeOK, NEW c \in Call, NEW p \in Period, VisitExpired(c, p)
    PROVE  /\ at[c] = "range" /\ p \in todo[c]
           /\ \A d \in Call : /\ at'[d] = IF d = c /\ buildingCandles[p] # 0 THEN "lock" ELSE at[d]
                              /\ obj'[d] = IF d = c /\ buildingCandles[p] # 0
                                           THEN buildingCandles[p] ELSE obj[d]
                              /\ todo'[d] = IF d = c THEN todo[d] \ {p} ELSE todo[d]
           /\ UNCHANGED <<buildingCandles, created, building, completed, lastCompleted, overlap,
                          history, histBatch, histRows>>
BY DEF VisitExpired, TypeOK, mapVars, sideVars

\* What closing a building candle changes.
LEMMA CloseEffect ==
    ASSUME TypeOK, HandsMatch, NEW c \in Call, CloseExpired(c)
    PROVE  /\ at[c] = "lock" /\ obj[c] \in 1..created /\ obj[c] \in Object
           /\ building[obj[c]] \in Candle /\ building[obj[c]].per \in Period
           /\ \A d \in Call : /\ at'[d] = IF d = c THEN "range" ELSE at[d]
                              /\ obj'[d] = IF d = c THEN 0 ELSE obj[d]
           /\ IF building[obj[c]].data = NoMinutes
              THEN UNCHANGED <<lastCompleted, completed, buildingCandles>>
              ELSE /\ lastCompleted' = building[obj[c]].per
                   /\ completed' = Append(completed, building[obj[c]])
                   /\ Range(completed)' = Range(completed) \cup {building[obj[c]]}
                   /\ \A p \in Period : buildingCandles'[p] =
                        IF p = building[obj[c]].per THEN 0 ELSE buildingCandles[p]
           /\ UNCHANGED <<created, building, todo, overlap, history, histBatch, histRows>>
<1>1. /\ at[c] = "lock" /\ obj[c] \in 1..created /\ obj[c] \in Object
      /\ building[obj[c]] \in Candle /\ building[obj[c]].per \in Period
  BY InHandIsObject DEF CloseExpired
<1>2. /\ \A d \in Call : /\ at'[d] = IF d = c THEN "range" ELSE at[d]
                         /\ obj'[d] = IF d = c THEN 0 ELSE obj[d]
      /\ UNCHANGED <<created, building, todo, overlap, history, histBatch, histRows>>
  BY DEF CloseExpired, TypeOK, sideVars
<1>3. CASE building[obj[c]].data = NoMinutes
  BY <1>1, <1>2, <1>3 DEF CloseExpired
<1>4. CASE building[obj[c]].data # NoMinutes
  <2>1. CompleteIntervalNow(obj[c])
    BY <1>4 DEF CloseExpired
  <2>2. /\ lastCompleted' = building[obj[c]].per
        /\ completed' = Append(completed, building[obj[c]])
    BY <2>1 DEF CompleteIntervalNow
  <2>3. Range(completed') = Range(completed) \cup {building[obj[c]]}
    BY <1>1, <2>2, CompletedType, RangeAppend
  <2>4. \A p \in Period : buildingCandles'[p] =
                        IF p = building[obj[c]].per THEN 0 ELSE buildingCandles[p]
    BY <1>1, <2>1 DEF CompleteIntervalNow, TypeOK
  <2> QED
    BY <1>1, <1>2, <1>4, <2>2, <2>3, <2>4
<1> QED
  BY <1>3, <1>4

\* What loading or creating a building candle changes.
LEMMA LoadEffect ==
    ASSUME TypeOK, HandsMatch, EnoughObjects, NEW c \in Call, LoadBuilding(c)
    PROVE  LET q == PeriodOf(c[1])
           IN  /\ at[c] = "range" /\ todo[c] = {} /\ q \in Period
               /\ \A d \in Call : at'[d] = IF d = c THEN "update" ELSE at[d]
               /\ \A d \in Call \ {c} : obj'[d] = obj[d]
               /\ obj'[c] = buildingCandles'[q] /\ buildingCandles'[q] # 0
               /\ \A p \in Period \ {q} : buildingCandles'[p] = buildingCandles[p]
               /\ buildingCandles[q] # 0 => buildingCandles'[q] = buildingCandles[q]
               /\ buildingCandles[q] = 0 =>
                     /\ buildingCandles'[q] = created + 1 /\ created + 1 \in Object
                     /\ building'[created + 1] = NewBuilding(q)
               /\ \A o \in 1..created : building'[o] = building[o]
               /\ UNCHANGED <<completed, lastCompleted, todo, overlap, history, histBatch, histRows>>
<1> DEFINE q == PeriodOf(c[1])
<1>0. q \in Period
  BY CallFacts
<1>a. /\ created \in Nat /\ obj \in [Call -> 0..created]
      /\ buildingCandles \in [Period -> 0..created]
      /\ at \in [Call -> {"new", "range", "lock", "update", "done"}]
      /\ building \in [Object -> Candle] /\ 1..created \subseteq Object
  BY InHandIsObject DEF TypeOK
<1>1. /\ at[c] = "range" /\ todo[c] = {}
      /\ \A d \in Call : at'[d] = IF d = c THEN "update" ELSE at[d]
      /\ UNCHANGED <<completed, lastCompleted, todo, overlap, history, histBatch, histRows>>
  BY <1>a DEF LoadBuilding, sideVars
<1>2. CASE buildingCandles[q] # 0
  <2>1. obj' = [obj EXCEPT ![c] = buildingCandles[q]] /\ UNCHANGED mapVars
    BY <1>2 DEF LoadBuilding
  <2> QED
    BY <1>0, <1>a, <1>1, <1>2, <2>1 DEF mapVars
<1>3. CASE buildingCandles[q] = 0
  <2>1. /\ created' = created + 1
        /\ buildingCandles' = [buildingCandles EXCEPT ![q] = created + 1]
        /\ building' = [building EXCEPT ![created + 1] = NewBuilding(q)]
        /\ obj' = [obj EXCEPT ![c] = created + 1]
    BY <1>3 DEF LoadBuilding
  <2>2. c \in Call /\ c \notin Loaded /\ Loaded \subseteq Call
    BY <1>1 DEF Loaded
  <2>3. Loaded \cup {c} \in SUBSET Call
    BY <2>2
  <2>4. /\ Cardinality(Loaded \cup {c}) = Cardinality(Loaded) + 1
        /\ Cardinality(Loaded \cup {c}) <= Cardinality(Call)
    BY <2>2, <2>3, LoadedFinite, FS_AddElement, FS_Subset
  <2>5. created + 1 \in Object
    BY <1>a, <2>4, LoadedFinite DEF EnoughObjects, Object
  <2>6. created + 1 # 0 /\ \A o \in 1..created : o # created + 1
    BY <1>a
  <2> QED
    BY <1>0, <1>a, <1>1, <1>3, <2>1, <2>5, <2>6
<1> QED
  BY <1>2, <1>3

\* Every step keeps the candles in the calls' hands those of their periods.
LEMMA HandsMatchStep == IInv /\ [Next]_iaVars => HandsMatch'
<1> SUFFICES ASSUME TypeOK, EnoughObjects, HandsMatch, [Next]_iaVars PROVE HandsMatch'
  BY DEF IInv
<1>a. \A p \in Period : buildingCandles[p] # 0 => /\ buildingCandles[p] \in 1..created
                                                  /\ building[buildingCandles[p]].per = p
  BY InHandIsObject DEF TypeOK
<1>b. \A d \in Call : at[d] \in {"lock", "update"} => obj[d] \in 1..created
  BY InHandIsObject
<1>1. ASSUME NEW c \in Call, BeginCall(c) PROVE HandsMatch'
  <2>1. /\ \A d \in Call : /\ at'[d] = IF d = c THEN "range" ELSE at[d]
                           /\ todo'[d] = IF d = c THEN {p \in Period : Expired(p, c[1])}
                                         ELSE todo[d]
        /\ building' = building /\ obj' = obj /\ history' = history /\ histBatch' = histBatch
        /\ histRows' = histRows
    BY <1>1, BeginEffect
  <2>2. \A d \in Call : /\ at'[d] = "lock" => at[d] = "lock"
                        /\ at'[d] = "update" => at[d] = "update"
    BY <2>1
  <2>3. \A d \in Call : \A p \in todo'[d] : Expired(p, d[1])
    BY <2>1 DEF HandsMatch
  <2> QED
    BY <2>1, <2>2, <2>3 DEF HandsMatch
<1>2. ASSUME NEW c \in Call, NEW p \in Period, VisitExpired(c, p) PROVE HandsMatch'
  <2>1. /\ p \in todo[c] /\ Expired(p, c[1]) /\ building' = building
        /\ UNCHANGED <<history, histBatch, histRows>>
    BY <1>2, VisitEffect DEF HandsMatch
  <2>2. ASSUME NEW d \in Call
        PROVE  /\ todo'[d] \subseteq todo[d]
               /\ \/ at'[d] = at[d] /\ obj'[d] = obj[d]
                  \/ d = c /\ at'[d] = "lock" /\ buildingCandles[p] # 0
                     /\ obj'[d] = buildingCandles[p]
    <3>1. /\ at'[d] = IF d = c /\ buildingCandles[p] # 0 THEN "lock" ELSE at[d]
          /\ obj'[d] = IF d = c /\ buildingCandles[p] # 0 THEN buildingCandles[p] ELSE obj[d]
          /\ todo'[d] = IF d = c THEN todo[d] \ {p} ELSE todo[d]
      BY <1>2, VisitEffect
    <3> QED
      BY <3>1
  <2>3. ASSUME NEW d \in Call
        PROVE  /\ at'[d] = "lock" => Expired(building[obj'[d]].per, d[1])
               /\ at'[d] = "update" => building[obj'[d]].per = PeriodOf(d[1])
               /\ at'[d] \in {"lock", "update"} => obj'[d] # 0
    BY <1>a, <2>1, <2>2 DEF HandsMatch
  <2> QED
    BY <2>1, <2>2, <2>3 DEF HandsMatch
<1>3. ASSUME NEW c \in Call, CloseExpired(c) PROVE HandsMatch'
  BY <1>3, CloseEffect DEF HandsMatch
<1>4. ASSUME NEW c \in Call, LoadBuilding(c) PROVE HandsMatch'
  <2> DEFINE q == PeriodOf(c[1])
  <2>1. /\ \A d \in Call : at'[d] = IF d = c THEN "update" ELSE at[d]
        /\ \A d \in Call \ {c} : obj'[d] = obj[d]
        /\ obj'[c] = buildingCandles'[q] /\ buildingCandles'[q] # 0
        /\ \A o \in 1..created : building'[o] = building[o]
        /\ UNCHANGED <<todo, history, histBatch, histRows>> /\ q \in Period
    BY <1>4, LoadEffect
  <2>2. building'[buildingCandles'[q]].per = q
    <3>1. CASE buildingCandles[q] # 0
      BY <1>4, <1>a, <2>1, <3>1, LoadEffect
    <3>2. CASE buildingCandles[q] = 0
      <4>1. building'[buildingCandles'[q]] = NewBuilding(q)
        BY <1>4, <3>2, LoadEffect
      <4> QED
        BY <4>1 DEF NewBuilding
    <3> QED
      BY <3>1, <3>2
  <2>3. ASSUME NEW d \in Call
        PROVE  /\ at'[d] = "lock" => Expired(building'[obj'[d]].per, d[1])
               /\ at'[d] = "update" => building'[obj'[d]].per = PeriodOf(d[1])
               /\ at'[d] \in {"lock", "update"} => obj'[d] # 0
    BY <1>b, <2>1, <2>2 DEF HandsMatch
  <2> QED
    BY <2>1, <2>3 DEF HandsMatch
<1>5. ASSUME NEW c \in Call, UpdateBuilding(c) PROVE HandsMatch'
  <2>1. /\ \A d \in Call : at'[d] = IF d = c THEN "done" ELSE at[d]
        /\ UNCHANGED <<todo, obj, history, histBatch, histRows>>
    BY <1>5 DEF UpdateBuilding, TypeOK, sideVars
  <2>2. \A o \in 1..created : building'[o].per = building[o].per
    BY <1>5, UpdateEffect, InHandIsObject
  <2> QED
    BY <1>b, <2>1, <2>2 DEF HandsMatch
<1>6. ASSUME UNCHANGED <<building, at, todo, obj>>, histBatch' \cup histRows' # {} => history' > 0
      PROVE  HandsMatch'
  BY <1>6 DEF HandsMatch
<1>7. CASE HistoryReads \/ HistoryWrites
  <2>1. history \in Nat
    BY IntervalSizes DEF TypeOK
  <2>2. CASE HistoryReads
    BY <1>6, <2>1, <2>2, CallsUntouched DEF HistoryReads
  <2>3. CASE HistoryWrites
    <3>1. history > 0 /\ history' = history
      BY <2>3 DEF HistoryWrites, HandsMatch
    <3> QED
      BY <1>6, <2>3, <3>1, CallsUntouched
  <2> QED
    BY <1>7, <2>2, <2>3
<1>8. CASE \/ WriterReceives \/ WriterTicks \/ WriterExits \/ StopCancels \/ StopCloses
           \/ StopReturns \/ ReaderMisses \/ ReaderStores \/ UNCHANGED iaVars
  <2>1. UNCHANGED <<history, histBatch>> /\ histRows' \subseteq histRows
    BY <1>8 DEF WriterReceives, WriterTicks, WriterExits, StopCancels, StopCloses, StopReturns,
                ReaderMisses, ReaderStores, iaVars, sideVars
  <2>2. histBatch' \cup histRows' # {} => history' > 0
    BY <2>1 DEF HandsMatch
  <2> QED
    BY <1>6, <1>8, <2>2, CallsUntouched
<1> QED
  BY <1>1, <1>2, <1>3, <1>4, <1>5, <1>7, <1>8, NextCases

\* Over, after the step.
OverAfter(p) == \E c \in Call : at'[c] # "new" /\ PeriodOf(c[1]) > p

\* A call that has begun stays begun, so a period that is over stays over.
LEMMA BegunStays ==
    ASSUME IInv, [Next]_iaVars
    PROVE  /\ \A c \in Call : at'[c] = "new" => at[c] = "new"
           /\ \A p \in Period : Over(p) => OverAfter(p)
<1>0. TypeOK /\ HandsMatch /\ EnoughObjects
  BY DEF IInv
<1>1. ASSUME NEW d \in Call, at'[d] = "new" PROVE at[d] = "new"
  <2>1. ASSUME NEW c \in Call, BeginCall(c) PROVE at[d] = "new"
    BY <1>0, <1>1, <2>1, BeginEffect
  <2>2. ASSUME NEW c \in Call, NEW p \in Period, VisitExpired(c, p) PROVE at[d] = "new"
    BY <1>0, <1>1, <2>2, VisitEffect
  <2>3. ASSUME NEW c \in Call, CloseExpired(c) \/ LoadBuilding(c) \/ UpdateBuilding(c)
        PROVE at[d] = "new"
    BY <1>0, <1>1, <2>3 DEF CloseExpired, LoadBuilding, UpdateBuilding, TypeOK
  <2> QED
    BY <1>1, <2>1, <2>2, <2>3, CallsUntouched, NextCases
<1> QED
  BY <1>1 DEF Over, OverAfter

\* No step completes a period before a later one has begun.
LEMMA CompletedIsOverStep == IInv /\ [Next]_iaVars => CompletedIsOver'
<1> SUFFICES ASSUME IInv, [Next]_iaVars PROVE CompletedIsOver'
  OBVIOUS
<1>0. TypeOK /\ HandsMatch /\ EnoughObjects /\ CompletedIsOver
  BY DEF IInv
<1>a. ASSUME NEW k \in Range(completed)
      PROVE  /\ k.data # NoMinutes /\ OverAfter(k.per)
             /\ \A m \in Minute : k.data[m] > 0 => PeriodOf(m) = k.per
  BY <1>0, CompletedType, BegunStays DEF CompletedIsOver
<1>b. history = 0 => histBatch \cup histRows = {} /\ (lastCompleted # NoPeriod => OverAfter(lastCompleted))
  <2>1. lastCompleted # NoPeriod => lastCompleted \in Period
    BY <1>0 DEF TypeOK
  <2>2. history = 0 => histBatch \cup histRows = {}
    BY <1>0 DEF HandsMatch
  <2> QED
    BY <1>0, <2>1, <2>2, BegunStays DEF CompletedIsOver
<1>1. CASE UNCHANGED <<completed, lastCompleted>> /\ (history' = 0 => history = 0)
  BY <1>a, <1>b, <1>1 DEF CompletedIsOver, Over, OverAfter
<1>2. ASSUME NEW c \in Call, CloseExpired(c) PROVE CompletedIsOver'
  <2>0. PICK k : k = building[obj[c]]
    OBVIOUS
  <2>1. /\ at[c] = "lock" /\ at'[c] = "range" /\ history' = history
        /\ obj[c] \in Object /\ k.per \in Period
    BY <1>0, <1>2, <2>0, CloseEffect
  <2>2. PeriodOf(c[1]) > k.per
    BY <1>0, <2>0, <2>1, PeriodFacts, CallFacts DEF HandsMatch
  <2>3. OverAfter(k.per)
    BY <2>1, <2>2 DEF OverAfter
  <2>4. \A m \in Minute : k.data[m] > 0 => PeriodOf(m) = k.per
    BY <1>0, <2>0, <2>1 DEF TypeOK
  <2>5. CASE k.data = NoMinutes
    BY <1>0, <1>1, <1>2, <2>0, <2>1, <2>5, CloseEffect
  <2>6. CASE k.data # NoMinutes
    <3>1. lastCompleted' = k.per /\ Range(completed)' = Range(completed) \cup {k}
      BY <1>0, <1>2, <2>0, <2>6, CloseEffect
    <3>2. ASSUME NEW j \in Range(completed)'
          PROVE  /\ j.data # NoMinutes /\ OverAfter(j.per)
                 /\ \A m \in Minute : j.data[m] > 0 => PeriodOf(m) = j.per
      BY <1>a, <2>3, <2>4, <2>6, <3>1
    <3> QED
      BY <2>3, <3>1, <3>2 DEF CompletedIsOver, Over, OverAfter
  <2> QED
    BY <2>5, <2>6
<1>3. ASSUME NEW c \in Call, UpdateBuilding(c) \/ BeginCall(c) \/ LoadBuilding(c)
      PROVE  CompletedIsOver'
  BY <1>1, <1>3 DEF UpdateBuilding, BeginCall, LoadBuilding, sideVars
<1>4. ASSUME NEW c \in Call, NEW p \in Period, VisitExpired(c, p) PROVE CompletedIsOver'
  BY <1>1, <1>4 DEF VisitExpired, sideVars
<1>5. CASE \/ WriterReceives \/ WriterTicks \/ WriterExits \/ StopCancels \/ StopCloses
           \/ StopReturns \/ ReaderMisses \/ UNCHANGED iaVars
  <2>1. UNCHANGED <<completed, lastCompleted, history>>
    BY <1>5 DEF WriterReceives, WriterTicks, WriterExits, StopCancels, StopCloses, StopReturns,
                ReaderMisses, iaVars, sideVars
  <2> QED
    BY <1>1, <2>1
<1>6. CASE HistoryReads
  <2>1. history \in Nat /\ history' = history + 1
    BY <1>0, <1>6, IntervalSizes DEF HistoryReads, TypeOK
  <2>2. history' # 0 /\ completed' = completed
    BY <1>6, <2>1 DEF HistoryReads
  <2> QED
    BY <1>a, <2>2 DEF CompletedIsOver, Over, OverAfter
<1>7. CASE HistoryWrites
  <2>1. history # 0 /\ history' = history /\ completed' = completed
    BY <1>b, <1>7 DEF HistoryWrites
  <2> QED
    BY <1>a, <2>1 DEF CompletedIsOver, Over, OverAfter
<1>8. CASE ReaderStores
  <2>1. /\ history' = history /\ completed' = completed
        /\ lastCompleted' \in {lastCompleted} \cup {k.per : k \in Range(completed)}
                              \cup histBatch \cup histRows
    BY <1>8 DEF ReaderStores
  <2>2. history' = 0 /\ lastCompleted' # NoPeriod => OverAfter(lastCompleted')
    BY <1>a, <1>b, <2>1
  <2> QED
    BY <1>a, <2>1, <2>2 DEF CompletedIsOver, Over, OverAfter
<1> QED
  BY <1>2, <1>3, <1>4, <1>5, <1>6, <1>7, <1>8, NextCases

\* The invariant holds always.
LEMMA IInvInvariant == Spec => []IInv
<1>1. Init => IInv
  <2> SUFFICES ASSUME Init PROVE IInv
    OBVIOUS
  <2>1. created = 0 /\ Cardinality(Loaded) \in Nat /\ Cardinality(Call) \in Nat
    BY LoadedFinite DEF Init
  <2>2. EnoughObjects
    BY <2>1 DEF EnoughObjects
  <2>3. building \in [Object -> Candle]
    BY NoMinutesType DEF Init
  <2>4. \A o \in Object, m \in Minute : building[o].data[m] = 0
    BY DEF Init, NoCandle, NoMinutes
  <2>5. completed \in Seq(Candle) /\ Range(completed) = {}
    BY DEF Init, Range
  <2>6. /\ buildingCandles \in [Period -> 0..created] /\ obj \in [Call -> 0..created]
        /\ created \in 0..Cardinality(Call)
        /\ \A p \in Period : buildingCandles[p] = 0
    BY <2>1 DEF Init
  <2>7. /\ batchChan \in 0..ChanCap /\ batch \in 0..(BatchSize - 1) /\ history \in 0..MaxHistory
    BY IntervalSizes DEF Init
  <2>8. TypeOK
    <3>1. \A o \in Object, m \in Minute : ~(building[o].data[m] > 0)
      BY <2>4
    <3>2. /\ lastCompleted \in Period \cup {NoPeriod}
          /\ at \in [Call -> {"new", "range", "lock", "update", "done"}]
          /\ todo \in [Call -> SUBSET Period] /\ histBatch \subseteq Period
          /\ histRows \subseteq Period
          /\ writer = "run" /\ stopper = "run" /\ reader = "idle"
      BY DEF Init
    <3>3. {chanClosed, cancelled, panicked} \subseteq BOOLEAN /\ overlap \in BOOLEAN
      BY DEF Init
    <3> QED
      BY <2>3, <2>5, <2>6, <2>7, <3>1, <3>2, <3>3 DEF TypeOK
  <2>9. HandsMatch
    BY DEF Init, HandsMatch
  <2>10. CompletedIsOver
    BY <2>5 DEF Init, CompletedIsOver
  <2> QED
    BY <2>2, <2>8, <2>9, <2>10 DEF IInv
<1>2. IInv /\ [Next]_iaVars => IInv'
  BY TypeStep, HandsMatchStep, CompletedIsOverStep DEF IInv
<1> QED
  BY <1>1, <1>2, PTL DEF Spec

\* Type correctness, for every interleaving of the calls: a building candle holds minutes
\* of its own period only, and no more of them are created than there are calls.
THEOREM TypeInvariant == Spec => [](TypeOK /\ EnoughObjects)
<1>1. IInv => TypeOK /\ EnoughObjects
  BY DEF IInv
<1> QED
  BY <1>1, IInvInvariant, PTL

\* closeExpiredIntervals completes a candle only after a 1m candle of a later period has
\* come in, however the calls overlap, and what GetLastCompletedCandle stores is of such a
\* period too unless buildHistoricalInterval has run.
THEOREM CompletedPeriodsAreOver == Spec => []CompletedIsOver
<1>1. IInv => CompletedIsOver
  BY DEF IInv
<1> QED
  BY <1>1, IInvInvariant, PTL

--------------------------------------------------------------------------------
\* While calls do not overlap, a call that runs is the last one: all calls that have
\* begun are earlier and done, and all completed periods are earlier than its own.
LEMMA RunningIsLast ==
    ASSUME IInv, OneAtATime, NEW c \in Call, at[c] \in {"range", "lock", "update"}
    PROVE  /\ \A d \in Call : d # c /\ at[d] # "new" => Earlier(d, c) /\ at[d] = "done"
           /\ \A d \in Call : at[d] # "new" => PeriodOf(d[1]) <= PeriodOf(c[1])
           /\ \A k \in Range(completed) : k.per < PeriodOf(c[1])
<1>1. \A d \in Call : d # c /\ at[d] # "new" => Earlier(d, c) /\ at[d] = "done"
  BY CallFacts DEF OneAtATime
<1>2. \A d \in Call : PeriodOf(d[1]) \in Nat
  BY CallFacts, PeriodFacts
<1>3. \A d \in Call : at[d] # "new" => PeriodOf(d[1]) <= PeriodOf(c[1])
  BY <1>1, <1>2, CallFacts
<1>4. ASSUME NEW k \in Range(completed) PROVE k.per < PeriodOf(c[1])
  <2>1. k.per \in Nat
    BY CompletedType, PeriodFacts DEF IInv
  <2>2. PICK d \in Call : at[d] # "new" /\ PeriodOf(d[1]) > k.per
    BY DEF IInv, CompletedIsOver, Over
  <2> QED
    BY <1>2, <1>3, <2>1, <2>2
<1> QED
  BY <1>1, <1>3, <1>4

\* A call that overtakes none leaves everything in order ...
LEMMA BeginOrderly ==
    ASSUME IInv, Orderly, NEW c \in Call, BeginCall(c), Overtaken(c) = {}
    PROVE  Orderly'
<1>1. /\ at[c] = "new"
      /\ \A d \in Call : /\ at'[d] = IF d = c THEN "range" ELSE at[d]
                         /\ todo'[d] = IF d = c THEN {p \in Period : Expired(p, c[1])} ELSE todo[d]
      /\ UNCHANGED <<buildingCandles, building, completed, obj>>
  BY BeginEffect DEF IInv
<1>2. \A b \in Call : Earlier(b, c) => at[b] = "done"
  BY DEF Overtaken
<1>3. OneAtATime'
  BY <1>1, <1>2 DEF Orderly, OneAtATime
<1>4. InHand'
  BY <1>1 DEF Orderly, InHand
<1>5. OneBuilding'
  <2> SUFFICES ASSUME NEW p \in Period, buildingCandles[p] # 0
               PROVE  /\ \A q \in Period : buildingCandles[q] # 0 => p = q
                      /\ \E d \in Call : at'[d] # "new" /\ PeriodOf(d[1]) = p
                      /\ \A d \in Call : at'[d] \in {"range", "lock"} /\ Expired(p, d[1]) =>
                            p \in todo'[d] \/ (at'[d] = "lock" /\ obj'[d] = buildingCandles[p])
                      /\ \/ building[buildingCandles[p]].data # NoMinutes
                         \/ \E d \in Call : at'[d] = "update" /\ PeriodOf(d[1]) = p
    BY <1>1 DEF OneBuilding
  <2>1. \A d \in Call : (at[d] # "new" => at'[d] # "new") /\ (at[d] = "update" => at'[d] = "update")
    BY <1>1
  <2>2. /\ \A q \in Period : buildingCandles[q] # 0 => p = q
        /\ \E d \in Call : at[d] # "new" /\ PeriodOf(d[1]) = p
        /\ \A d \in Call : at[d] \in {"range", "lock"} /\ Expired(p, d[1]) =>
              p \in todo[d] \/ (at[d] = "lock" /\ obj[d] = buildingCandles[p])
        /\ \/ building[buildingCandles[p]].data # NoMinutes
           \/ \E d \in Call : at[d] = "update" /\ PeriodOf(d[1]) = p
    BY DEF Orderly, OneBuilding
  <2>3. \A d \in Call : at'[d] \in {"range", "lock"} /\ Expired(p, d[1]) =>
              p \in todo'[d] \/ (at'[d] = "lock" /\ obj'[d] = buildingCandles[p])
    BY <1>1, <2>2
  <2> QED
    BY <2>1, <2>2, <2>3
<1>6. NothingLost' /\ InOrder' /\ Whole'
  <2>1. \A d \in Call : at'[d] = "done" => at[d] = "done"
    BY <1>1
  <2> QED
    BY <1>1, <2>1 DEF Orderly, NothingLost, InOrder, Whole
<1> QED
  BY <1>3, <1>4, <1>5, <1>6 DEF Orderly

\* ... and so does looking at a period that is over.
LEMMA VisitOrderly ==
    ASSUME IInv, Orderly, NEW c \in Call, NEW p \in Period, VisitExpired(c, p)
    PROVE  Orderly'
<1>1. /\ at[c] = "range"
      /\ \A d \in Call : /\ at'[d] = IF d = c /\ buildingCandles[p] # 0 THEN "lock" ELSE at[d]
                         /\ obj'[d] = IF d = c /\ buildingCandles[p] # 0 THEN buildingCandles[p]
                                      ELSE obj[d]
                         /\ todo'[d] = IF d = c THEN todo[d] \ {p} ELSE todo[d]
      /\ UNCHANGED <<buildingCandles, building, completed>>
  BY VisitEffect DEF IInv
<1>2. \A d \in Call : /\ at'[d] = "new" <=> at[d] = "new"
                      /\ at'[d] = "done" <=> at[d] = "done"
                      /\ at'[d] = "update" <=> at[d] = "update"
  BY <1>1
<1>3. OneAtATime'
  BY <1>2 DEF Orderly, OneAtATime
<1>4. InHand'
  <2>1. buildingCandles[p] # 0 => building[buildingCandles[p]].per = p
    BY DEF IInv, TypeOK
  <2>2. ASSUME NEW d \in Call
        PROVE  \/ at'[d] = at[d] /\ obj'[d] = obj[d]
               \/ at'[d] = "lock" /\ buildingCandles[p] # 0 /\ obj'[d] = buildingCandles[p]
    BY <1>1
  <2>3. ASSUME NEW d \in Call
        PROVE  /\ at'[d] = "lock" => buildingCandles[building[obj'[d]].per] = obj'[d]
               /\ at'[d] = "update" => buildingCandles[PeriodOf(d[1])] = obj'[d]
    BY <2>1, <2>2 DEF Orderly, InHand
  <2> QED
    BY <1>1, <2>3 DEF InHand
<1>5. OneBuilding'
  <2>1. ASSUME NEW r \in Period, buildingCandles[r] # 0, NEW d \in Call,
               at'[d] \in {"range", "lock"}, Expired(r, d[1])
        PROVE  r \in todo'[d] \/ (at'[d] = "lock" /\ obj'[d] = buildingCandles[r])
    <3>0. at[d] \in {"range", "lock"}
      BY <1>1, <2>1
    <3>1. r \in todo[d] \/ (at[d] = "lock" /\ obj[d] = buildingCandles[r])
      BY <2>1, <3>0 DEF Orderly, OneBuilding
    <3> QED
      BY <1>1, <2>1, <3>1
  <2> QED
    BY <1>1, <1>2, <2>1 DEF Orderly, OneBuilding
<1>6. NothingLost' /\ InOrder' /\ Whole'
  BY <1>1, <1>2 DEF Orderly, NothingLost, InOrder, Whole
<1> QED
  BY <1>3, <1>4, <1>5, <1>6 DEF Orderly

\* The building candle that is closed is the one of the map, it has data, and with it
\* nothing is being built any more.
LEMMA CloseOrderly ==
    ASSUME IInv, Orderly, NEW c \in Call, CloseExpired(c)
    PROVE  Orderly'
<1>0. PICK k : k = building[obj[c]]
  OBVIOUS
<1>1. /\ at[c] = "lock" /\ obj[c] \in 1..created /\ k.per \in Period /\ k \in Candle
      /\ \A d \in Call : at'[d] = IF d = c THEN "range" ELSE at[d]
      /\ UNCHANGED <<building, todo>>
  BY <1>0, CloseEffect DEF IInv
<1>2. \A d \in Call : d # c /\ at[d] # "new" => at[d] = "done"
  BY <1>1, RunningIsLast DEF Orderly
<1>3. buildingCandles[k.per] = obj[c] /\ buildingCandles[k.per] # 0
  BY <1>0, <1>1 DEF Orderly, InHand
<1>4. k.data # NoMinutes
  <2>1. ~\E d \in Call : at[d] = "update"
    BY <1>1, <1>2
  <2> QED
    BY <1>0, <1>1, <1>3, <2>1 DEF Orderly, OneBuilding
<1>5. /\ completed' = Append(completed, k) /\ Range(completed)' = Range(completed) \cup {k}
      /\ \A p \in Period : buildingCandles'[p] = IF p = k.per THEN 0 ELSE buildingCandles[p]
  BY <1>0, <1>4, CloseEffect DEF IInv
<1>6. \A p \in Period : buildingCandles'[p] = 0 /\ (buildingCandles[p] # 0 => p = k.per)
  BY <1>1, <1>3, <1>5 DEF Orderly, OneBuilding
<1>7. OneAtATime'
  BY <1>1 DEF Orderly, OneAtATime
<1>8. InHand' /\ OneBuilding'
  BY <1>1, <1>2, <1>6 DEF InHand, OneBuilding
<1>9. NothingLost'
  <2>1. ASSUME NEW d \in Call, at'[d] = "done"
        PROVE  \E j \in Range(completed)' : j.per = PeriodOf(d[1])
    <3>1. at[d] = "done" /\ PeriodOf(d[1]) \in Period
      BY <1>1, <2>1, CallFacts
    <3>2. CASE buildingCandles[PeriodOf(d[1])] = 0
      BY <1>5, <3>1, <3>2 DEF Orderly, NothingLost
    <3>3. CASE buildingCandles[PeriodOf(d[1])] # 0
      BY <1>5, <1>6, <3>1, <3>3
    <3> QED
      BY <3>2, <3>3
  <2> QED
    BY <1>6, <2>1 DEF NothingLost
<1>10. Whole'
  <2>1. ASSUME NEW d \in Call, at[d] = "done", PeriodOf(d[1]) = k.per
        PROVE  k.data[d[1]] >= d[2]
    BY <1>0, <1>1, <1>3, <2>1 DEF Orderly, NothingLost
  <2> QED
    BY <1>1, <1>5, <2>1 DEF Orderly, Whole
<1>11. InOrder'
  <2>1. \A j \in Range(completed) : j.per < k.per
    BY <1>1, <1>3 DEF Orderly, NothingLost
  <2>2. /\ DOMAIN completed = 1..Len(completed) /\ DOMAIN completed' = 1..(Len(completed) + 1)
        /\ \A i \in 1..Len(completed) : completed'[i] = completed[i]
        /\ completed'[Len(completed) + 1] = k
        /\ Len(completed) \in Nat
    BY <1>1, <1>5, CompletedType, RangeAppend DEF IInv
  <2>3. \A i \in 1..Len(completed) : completed[i].per < k.per
    BY <2>1, <2>2 DEF Range
  <2>4. ASSUME NEW i \in DOMAIN completed', NEW j \in DOMAIN completed', i < j
        PROVE  completed'[i].per < completed'[j].per
    <3>1. i \in 1..Len(completed) /\ (j \in 1..Len(completed) \/ j = Len(completed) + 1)
      BY <2>2, <2>4
    <3>2. CASE j \in 1..Len(completed)
      BY <2>2, <2>4, <3>1, <3>2 DEF Orderly, InOrder
    <3>3. CASE j = Len(completed) + 1
      BY <2>2, <2>3, <3>1, <3>3
    <3> QED
      BY <3>1, <3>2, <3>3
  <2> QED
    BY <2>4 DEF InOrder
<1> QED
  BY <1>7, <1>8, <1>9, <1>10, <1>11 DEF Orderly

\* A call that comes to its LoadOrStore has closed every other period, so the map holds
\* the building candle of its own period or none; none only at the first call for it.
LEMMA LoadOrderly ==
    ASSUME IInv, Orderly, NEW c \in Call, LoadBuilding(c)
    PROVE  Orderly'
<1>0. PICK q \in Period : q = PeriodOf(c[1])
  BY CallFacts
<1>1. /\ at[c] = "range" /\ todo[c] = {}
      /\ \A d \in Call : at'[d] = IF d = c THEN "update" ELSE at[d]
      /\ obj'[c] = buildingCandles'[q] /\ buildingCandles'[q] # 0
      /\ \A p \in Period \ {q} : buildingCandles'[p] = buildingCandles[p]
      /\ buildingCandles[q] # 0 => buildingCandles'[q] = buildingCandles[q]
      /\ \A o \in 1..created : building'[o] = building[o]
      /\ completed' = completed
  BY <1>0, LoadEffect DEF IInv
<1>2. /\ \A d \in Call : d # c /\ at[d] # "new" => at[d] = "done"
      /\ \A d \in Call : at[d] # "new" => PeriodOf(d[1]) <= q
      /\ \A k \in Range(completed) : k.per < q
  BY <1>0, <1>1, RunningIsLast DEF Orderly
<1>3. ASSUME NEW p \in Period, buildingCandles[p] # 0 PROVE p = q
  <2>1. p <= q
    BY <1>2, <1>3 DEF Orderly, OneBuilding
  <2>2. ~Expired(p, c[1])
    BY <1>1, <1>3 DEF Orderly, OneBuilding
  <2> QED
    <3>1. p \in Nat /\ q \in Nat /\ (Expired(p, c[1]) <=> q > p)
      BY <1>0, PeriodFacts, CallFacts
    <3> QED
      BY <2>1, <2>2, <3>1
<1>4. \A p \in Period : buildingCandles'[p] # 0 <=> p = q
  BY <1>1, <1>3
<1>5. OneAtATime'
  BY <1>1 DEF Orderly, OneAtATime
<1>6. InHand'
  BY <1>0, <1>1, <1>2 DEF InHand
<1>7. OneBuilding'
  <2>1. \A d \in Call : at'[d] \notin {"range", "lock"}
    BY <1>1, <1>2
  <2>2. at'[c] = "update" /\ at'[c] # "new" /\ PeriodOf(c[1]) = q
    BY <1>0, <1>1
  <2> QED
    BY <1>4, <2>1, <2>2 DEF OneBuilding
<1>8. NothingLost'
  <2>1. ASSUME NEW d \in Call, at'[d] = "done", PeriodOf(d[1]) = q
        PROVE  building'[buildingCandles'[q]].data[d[1]] >= d[2]
    <3>1. at[d] = "done"
      BY <1>1, <2>1
    <3>2. buildingCandles[q] # 0
      BY <1>2, <2>1, <3>1, CompletedType, PeriodFacts DEF Orderly, NothingLost, IInv
    <3>3. /\ buildingCandles'[q] = buildingCandles[q]
          /\ building'[buildingCandles[q]] = building[buildingCandles[q]]
      BY <1>1, <3>2, InHandIsObject DEF IInv
    <3>4. building[buildingCandles[q]].data[d[1]] >= d[2]
      BY <2>1, <3>1, <3>2 DEF Orderly, NothingLost
    <3> QED
      BY <3>3, <3>4
  <2>2. ASSUME NEW d \in Call, at'[d] = "done", buildingCandles'[PeriodOf(d[1])] = 0
        PROVE  \E k \in Range(completed) : k.per = PeriodOf(d[1])
    <3>1. at[d] = "done" /\ buildingCandles[PeriodOf(d[1])] = 0
      BY <1>1, <1>3, <1>4, <2>2, CallFacts
    <3> QED
      BY <3>1 DEF Orderly, NothingLost
  <2> QED
    BY <1>1, <1>2, <1>4, <2>1, <2>2 DEF NothingLost
<1>9. InOrder' /\ Whole'
  BY <1>1 DEF Orderly, InOrder, Whole
<1> QED
  BY <1>5, <1>6, <1>7, <1>8, <1>9 DEF Orderly

\* The 1m candle replaces an earlier version of its minute, never a later one.
LEMMA UpdateOrderly ==
    ASSUME IInv, Orderly, NEW c \in Call, UpdateBuilding(c)
    PROVE  Orderly'
<1>0. PICK q \in Period : q = PeriodOf(c[1])
  BY CallFacts
<1>1. /\ at[c] = "update"
      /\ \A d \in Call : at'[d] = IF d = c THEN "done" ELSE at[d]
      /\ UNCHANGED <<buildingCandles, completed, todo, obj>>
  BY DEF UpdateBuilding, IInv, TypeOK
<1>2. /\ \A d \in Call : d # c /\ at[d] # "new" => Earlier(d, c) /\ at[d] = "done"
      /\ \A k \in Range(completed) : k.per < q
  BY <1>0, <1>1, RunningIsLast DEF Orderly
<1>3. /\ buildingCandles[q] = obj[c] /\ obj[c] \in Object /\ obj[c] # 0
      /\ \A p \in Period : buildingCandles[p] # 0 => p = q
  <2>1. buildingCandles[q] = obj[c]
    BY <1>0, <1>1 DEF Orderly, InHand
  <2>2. obj[c] \in 1..created /\ obj[c] \in Object
    BY <1>1, InHandIsObject DEF IInv
  <2>3. obj[c] # 0
    BY <1>1 DEF IInv, HandsMatch
  <2> QED
    BY <2>1, <2>2, <2>3 DEF Orderly, OneBuilding
<1>4. \A m \in Minute : building'[obj[c]].data[m] =
                          IF m = c[1] THEN c[2] ELSE building[obj[c]].data[m]
  BY <1>3, UpdateEffect DEF IInv
<1>5. c[1] \in Minute /\ c[2] \in 1..MaxVersion /\ c[2] # 0
  BY CallFacts
<1>6. OneAtATime' /\ InHand'
  BY <1>1, <1>2 DEF Orderly, OneAtATime, InHand
<1>7. OneBuilding'
  <2>1. building'[obj[c]].data # NoMinutes
    BY <1>4, <1>5 DEF NoMinutes
  <2>2. \A d \in Call : at'[d] \notin {"range", "lock"}
    BY <1>1, <1>2
  <2> QED
    BY <1>0, <1>1, <1>3, <2>1, <2>2 DEF OneBuilding
<1>8. NothingLost'
  <2>1. ASSUME NEW d \in Call, at'[d] = "done", PeriodOf(d[1]) = q
        PROVE  building'[obj[c]].data[d[1]] >= d[2]
    <3>0. d[1] \in Minute /\ d[2] \in 1..MaxVersion
      BY CallFacts
    <3>1. CASE d = c
      BY <1>4, <1>5, <3>1
    <3>2. CASE d # c /\ d[1] = c[1]
      <4>1. Earlier(d, c)
        BY <1>1, <1>2, <2>1, <3>2
      <4>2. d[2] < c[2]
        <5>1. c[1] \in Nat
          BY <1>5, PeriodFacts
        <5> QED
          BY <3>2, <4>1, <5>1 DEF Earlier
      <4>3. building'[obj[c]].data[d[1]] = c[2]
        BY <1>4, <1>5, <3>2
      <4> QED
        BY <1>5, <3>0, <4>2, <4>3
    <3>3. CASE d # c /\ d[1] # c[1]
      <4>1. building[obj[c]].data[d[1]] >= d[2]
        BY <1>1, <1>3, <2>1, <3>3 DEF Orderly, NothingLost
      <4> QED
        BY <1>4, <3>0, <3>3, <4>1
    <3> QED
      BY <3>1, <3>2, <3>3
  <2>2. ASSUME NEW d \in Call, at'[d] = "done", buildingCandles'[PeriodOf(d[1])] = 0
        PROVE  \E k \in Range(completed) : k.per = PeriodOf(d[1])
    BY <1>0, <1>1, <1>3, <2>2 DEF Orderly, NothingLost
  <2> QED
    BY <1>1, <1>2, <1>3, <2>1, <2>2 DEF NothingLost
<1>9. InOrder'
  BY <1>1 DEF Orderly, InOrder
<1>10. Whole'
  <2>1. \A k \in Range(completed) : PeriodOf(c[1]) # k.per
    BY <1>0, <1>2, CompletedType, PeriodFacts DEF IInv
  <2> QED
    BY <1>1, <2>1 DEF Orderly, Whole
<1> QED
  BY <1>6, <1>7, <1>8, <1>9, <1>10 DEF Orderly

\* As long as no two calls have overlapped every step leaves everything in order.
LEMMA SerialStep == IInv /\ Serial /\ [Next]_iaVars => Serial'
<1> SUFFICES ASSUME IInv, Serial, [Next]_iaVars, ~overlap' PROVE Orderly'
  BY DEF Serial
<1>1. ASSUME NEW c \in Call, BeginCall(c) PROVE Orderly'
  <2>1. ~overlap /\ Overtaken(c) = {}
    BY <1>1 DEF BeginCall
  <2> QED
    BY <1>1, <2>1, BeginOrderly DEF Serial
<1>2. ASSUME NEW c \in Call, NEW p \in Period, VisitExpired(c, p) PROVE Orderly'
  BY <1>2, VisitOrderly DEF Serial, VisitExpired
<1>3. ASSUME NEW c \in Call, CloseExpired(c) PROVE Orderly'
  BY <1>3, CloseOrderly DEF Serial, CloseExpired
<1>4. ASSUME NEW c \in Call, LoadBuilding(c) PROVE Orderly'
  BY <1>4, LoadOrderly DEF Serial, LoadBuilding
<1>5. ASSUME NEW c \in Call, UpdateBuilding(c) PROVE Orderly'
  BY <1>5, UpdateOrderly DEF Serial, UpdateBuilding
<1>6. ASSUME UNCHANGED <<buildingCandles, created, building, completed, at, todo, obj, overlap>>
      PROVE Orderly'
  <2>1. OneAtATime' /\ InHand' /\ OneBuilding'
    BY <1>6 DEF Serial, Orderly, OneAtATime, InHand, OneBuilding
  <2>2. NothingLost' /\ InOrder' /\ Whole'
    BY <1>6 DEF Serial, Orderly, NothingLost, InOrder, Whole
  <2> QED
    BY <2>1, <2>2 DEF Orderly
<1> QED
  BY <1>1, <1>2, <1>3, <1>4, <1>5, <1>6, NextCases, CallsUntouched

\* As long as the calls of Process1mCandle do not overlap, what the comment at
\* interval_aggregator.go:278 says holds: periods are completed in order, each of them
\* once, and a completed candle misses no 1m candle that was processed.
THEOREM SerialCallsCompleteWhole == Spec => []CompletedIsWhole
<1>1. Init => Serial
  <2> SUFFICES ASSUME Init PROVE Orderly
    BY DEF Serial
  <2>1. /\ \A c \in Call : at[c] = "new" /\ PeriodOf(c[1]) \in Period
        /\ \A p \in Period : buildingCandles[p] = 0
        /\ completed = <<>>
    BY CallFacts DEF Init
  <2>2. DOMAIN completed = {} /\ Range(completed) = {}
    BY <2>1 DEF Range
  <2> QED
    BY <2>1, <2>2 DEF Orderly, OneAtATime, InHand, OneBuilding, NothingLost, InOrder, Whole
<1>2. Serial => CompletedIsWhole
  BY DEF Serial, Orderly, InOrder, Whole, CompletedIsWhole
<1> QED
  BY <1>1, <1>2, SerialStep, IInvInvariant, PTL DEF Spec

================================================================================

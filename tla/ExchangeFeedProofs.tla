--------------------------- MODULE ExchangeFeedProofs ---------------------------
(***************************************************************************)
(* Proofs about Subscriptions and ExchangeFeed, for any finite set of       *)
(* callers, any lists, any set of exchanges and any number of faults.       *)
(*                                                                          *)
(* The first part is about the registry alone (Spec).  The second shows     *)
(* that the managers implement the registry's specification (FeedSpec =>    *)
(* Spec): whatever they do, they only take signals, so everything proved of *)
(* the registry holds of the composition.                                   *)
(***************************************************************************)
EXTENDS ExchangeFeed, FiniteSetTheorems, TLAPS

--------------------------------------------------------------------------------
(* The registry.                                                              *)

\* The type invariant without the width of the counts, which follows from their
\* exactness.
Shape ==
    /\ subscriptions \in [Key -> Nat]
    /\ activeStreams \in [Symbol -> Nat]
    /\ reconnect \in 0..ChanCap
    /\ pc \in [Caller -> Location]
    /\ req \in [Caller -> Request \cup {<<>>}]
    /\ idx \in [Caller -> 1..MaxPairs]
    /\ left \in [Caller -> 0..NumExchanges]
    /\ startup \in 0..NumExchanges
    /\ \A c \in Caller :
        /\ pc[c] # "idle" => req[c] \in Request /\ idx[c] <= Len(req[c])
        /\ pc[c] \in {"serve", "done"} => idx[c] = 1
        /\ pc[c] = "signal" => left[c] > 0

\* A list has between one and MaxPairs pairs.
LEMMA RequestShape ==
    ASSUME NEW r \in Request
    PROVE  /\ r \in Seq(Key) /\ Len(r) \in 1..MaxPairs /\ DOMAIN r = 1..Len(r)
           /\ \A k \in 1..Len(r) : r[k] \in Key /\ r[k][1] \in Symbol
BY RequestsAreLists, SizesAreNat DEF Key

\* Every step is a step of a caller or the receipt of a signal.
LEMMA NextCases ==
    ASSUME Next
    PROVE  \/ \E c \in Caller, r \in Request : Arrive(c, r)
           \/ \E c \in Caller : CountInterval(c)
           \/ \E c \in Caller : CountStream(c)
           \/ \E c \in Caller : Signal(c)
           \/ \E c \in Caller : Disconnect(c)
           \/ \E c \in Caller : UncountInterval(c)
           \/ \E c \in Caller : UncountStream(c)
           \/ TriggerReconnect
           \/ TakeSignal
BY DEF Next, CallerStep

\* A caller that is not idle is at a pair of its list.
LEMMA AtPair ==
    ASSUME Shape, NEW c \in Caller, pc[c] # "idle"
    PROVE  /\ req[c] \in Request /\ Len(req[c]) \in 1..MaxPairs
           /\ DOMAIN req[c] = 1..Len(req[c])
           /\ idx[c] \in 1..Len(req[c])
           /\ KeyOf(c) \in Key /\ SymbolOf(c) \in Symbol
<1>1. req[c] \in Request /\ idx[c] <= Len(req[c]) /\ idx[c] \in 1..MaxPairs
  BY DEF Shape
<1>2. /\ Len(req[c]) \in 1..MaxPairs /\ DOMAIN req[c] = 1..Len(req[c])
      /\ \A k \in 1..Len(req[c]) : req[c][k] \in Key /\ req[c][k][1] \in Symbol
  BY <1>1, RequestShape
<1>3. idx[c] \in 1..Len(req[c])
  BY <1>1, <1>2, SizesAreNat
<1> QED
  BY <1>1, <1>2, <1>3 DEF KeyOf, SymbolOf

\* The index Advance moves to is one of the list.
LEMMA AdvanceIndex ==
    ASSUME NEW n \in 1..MaxPairs, NEW i \in 1..n
    PROVE  (IF i = n THEN 1 ELSE i + 1) \in 1..MaxPairs
           /\ (IF i = n THEN 1 ELSE i + 1) <= n
BY SizesAreNat

\* The shape is preserved by every action.
LEMMA ShapeStep == Shape /\ [Next]_vars => Shape'
<1> SUFFICES ASSUME Shape, [Next]_vars PROVE Shape'
  OBVIOUS
<1> USE SizesAreNat
<1>0. /\ subscriptions \in [Key -> Nat] /\ activeStreams \in [Symbol -> Nat]
      /\ reconnect \in 0..ChanCap /\ pc \in [Caller -> Location]
      /\ idx \in [Caller -> 1..MaxPairs] /\ left \in [Caller -> 0..NumExchanges]
      /\ startup \in 0..NumExchanges
  BY DEF Shape
<1>a. ASSUME NEW c \in Caller PROVE Subscribed(c) \in {"serve", "done"}
  BY DEF Subscribed
<1>1. ASSUME NEW c \in Caller, NEW r \in Request, Arrive(c, r) PROVE Shape'
  <2>1. Len(r) \in 1..MaxPairs
    BY RequestShape
  <2> QED
    BY <1>1, <2>1 DEF Arrive, Shape, Location
<1>2. ASSUME NEW c \in Caller, CountInterval(c) PROVE Shape'
  <2>1. KeyOf(c) \in Key /\ idx[c] <= Len(req[c])
    BY <1>2, AtPair DEF CountInterval
  <2> QED
    BY <1>0, <1>2, <2>1 DEF Shape, CountInterval, Retained, Location
<1>3. ASSUME NEW c \in Caller, CountStream(c) PROVE Shape'
  <2>1. /\ pc[c] = "add" /\ SymbolOf(c) \in Symbol /\ idx[c] \in 1..Len(req[c])
        /\ Len(req[c]) \in 1..MaxPairs
    BY <1>3, AtPair DEF CountStream
  <2>2. /\ activeStreams' \in [Symbol -> Nat] /\ subscriptions' = subscriptions
        /\ reconnect' = reconnect /\ req' = req /\ startup' = startup
    BY <1>0, <1>3, <2>1 DEF CountStream, Retained
  <2>3. CASE activeStreams[SymbolOf(c)] = 0 /\ NumExchanges > 0
    <3>1. /\ pc' = [pc EXCEPT ![c] = "signal"] /\ idx' = idx
          /\ left' = [left EXCEPT ![c] = NumExchanges]
      BY <1>3, <2>3 DEF CountStream
    <3>2. idx[c] <= Len(req[c])
      BY <2>1
    <3> QED
      BY <1>0, <2>1, <2>2, <2>3, <3>1, <3>2 DEF Location, Shape
  <2>4. CASE ~(activeStreams[SymbolOf(c)] = 0 /\ NumExchanges > 0)
    <3>1. Advance(c, "sub", Subscribed(c)) /\ left' = left
      BY <1>3, <2>4 DEF CountStream
    <3>2. /\ pc' \in [Caller -> Location] /\ idx' \in [Caller -> 1..MaxPairs]
          /\ \A d \in Caller : d # c => pc'[d] = pc[d] /\ idx'[d] = idx[d]
          /\ idx'[c] <= Len(req[c])
          /\ pc'[c] \in {"sub", "serve", "done"}
          /\ pc'[c] \in {"serve", "done"} => idx'[c] = 1
      <4>1. /\ (IF LastPair(c) THEN 1 ELSE idx[c] + 1) \in 1..MaxPairs
            /\ (IF LastPair(c) THEN 1 ELSE idx[c] + 1) <= Len(req[c])
        BY <2>1, AdvanceIndex DEF LastPair
      <4> QED
        BY <1>0, <1>a, <3>1, <4>1 DEF Advance, Location
    <3> QED
      BY <1>0, <2>1, <2>2, <3>1, <3>2 DEF Location, Shape
  <2> QED
    BY <2>3, <2>4
<1>4. ASSUME NEW c \in Caller, Signal(c) PROVE Shape'
  <2>1. /\ pc[c] = "signal" /\ idx[c] \in 1..Len(req[c]) /\ Len(req[c]) \in 1..MaxPairs
        /\ left[c] \in 1..NumExchanges /\ idx[c] <= Len(req[c])
    BY <1>0, <1>4, AtPair DEF Signal, Shape
  <2>2. /\ activeStreams' = activeStreams /\ subscriptions' = subscriptions
        /\ reconnect' \in 0..ChanCap /\ req' = req /\ startup' = startup
        /\ left' = [left EXCEPT ![c] = @ - 1]
    BY <1>0, <1>4 DEF Signal, Sent
  <2>3. CASE left[c] > 1
    BY <1>0, <1>4, <2>1, <2>2, <2>3 DEF Shape, Signal
  <2>4. CASE ~(left[c] > 1)
    <3>1. Advance(c, "sub", Subscribed(c))
      BY <1>4, <2>4 DEF Signal
    <3>2. /\ pc' \in [Caller -> Location] /\ idx' \in [Caller -> 1..MaxPairs]
          /\ \A d \in Caller : d # c => pc'[d] = pc[d] /\ idx'[d] = idx[d]
          /\ idx'[c] <= Len(req[c])
          /\ pc'[c] \in {"sub", "serve", "done"}
          /\ pc'[c] \in {"serve", "done"} => idx'[c] = 1
      <4>1. /\ (IF LastPair(c) THEN 1 ELSE idx[c] + 1) \in 1..MaxPairs
            /\ (IF LastPair(c) THEN 1 ELSE idx[c] + 1) <= Len(req[c])
        BY <2>1, AdvanceIndex DEF LastPair
      <4> QED
        BY <1>0, <1>a, <3>1, <4>1 DEF Advance, Location
    <3>3. /\ left' \in [Caller -> 0..NumExchanges]
          /\ \A d \in Caller : d # c => left'[d] = left[d]
      BY <1>0, <2>1, <2>2
    <3> QED
      BY <1>0, <2>1, <2>2, <3>2, <3>3 DEF Shape
  <2> QED
    BY <2>3, <2>4
<1>5. ASSUME NEW c \in Caller, Disconnect(c) PROVE Shape'
  <2>1. idx[c] <= Len(req[c])
    BY <1>5, AtPair DEF Disconnect
  <2> QED
    BY <1>0, <1>5, <2>1 DEF Shape, Disconnect, Location
<1>6. ASSUME NEW c \in Caller, UncountInterval(c) PROVE Shape'
  <2>1. KeyOf(c) \in Key /\ idx[c] <= Len(req[c])
    BY <1>6, AtPair DEF UncountInterval
  <2> QED
    BY <1>0, <1>6, <2>1 DEF Shape, UncountInterval, Released, Location
<1>7. ASSUME NEW c \in Caller, UncountStream(c) PROVE Shape'
  <2>1. /\ pc[c] = "drop" /\ SymbolOf(c) \in Symbol /\ idx[c] \in 1..Len(req[c])
        /\ Len(req[c]) \in 1..MaxPairs
    BY <1>7, AtPair DEF UncountStream
  <2>2. /\ activeStreams' \in [Symbol -> Nat] /\ subscriptions' = subscriptions
        /\ reconnect' = reconnect /\ req' = req /\ left' = left /\ startup' = startup
    BY <1>0, <1>7, <2>1 DEF UncountStream, Released
  <2>3. Advance(c, "unsub", "idle")
    BY <1>7 DEF UncountStream
  <2>4. /\ pc' \in [Caller -> Location] /\ idx' \in [Caller -> 1..MaxPairs]
        /\ \A d \in Caller : d # c => pc'[d] = pc[d] /\ idx'[d] = idx[d]
        /\ idx'[c] <= Len(req[c])
        /\ pc'[c] \in {"unsub", "idle"}
    <3>1. /\ (IF LastPair(c) THEN 1 ELSE idx[c] + 1) \in 1..MaxPairs
          /\ (IF LastPair(c) THEN 1 ELSE idx[c] + 1) <= Len(req[c])
      BY <2>1, AdvanceIndex DEF LastPair
    <3> QED
      BY <1>0, <2>3, <3>1 DEF Advance, Location
  <2> QED
    BY <1>0, <2>1, <2>2, <2>4 DEF Shape
<1>8. CASE TriggerReconnect \/ TakeSignal
  <2>1. /\ UNCHANGED <<subscriptions, activeStreams, pc, req, idx, left>>
        /\ reconnect' \in 0..ChanCap /\ startup' \in 0..NumExchanges
    BY <1>0, <1>8 DEF TriggerReconnect, TakeSignal, Sent
  <2> QED
    BY <2>1 DEF Shape
<1>9. CASE UNCHANGED vars
  BY <1>9 DEF vars, Shape
<1> QED
  BY <1>1, <1>2, <1>3, <1>4, <1>5, <1>6, <1>7, <1>8, <1>9, NextCases
--------------------------------------------------------------------------------
\* The first section of SubscribeToInterval adds one reference for the interval.
LEMMA CountIntervalHolders ==
    ASSUME Shape, NEW c \in Caller, CountInterval(c)
    PROVE  /\ \A key \in Key : IntervalHolders(key)' =
                IF key = KeyOf(c) THEN IntervalHolders(key) \cup {<<c, idx[c]>>}
                                  ELSE IntervalHolders(key)
           /\ <<c, idx[c]>> \in Slot /\ <<c, idx[c]>> \notin IntervalHolders(KeyOf(c))
           /\ \A s \in Symbol : StreamHolders(s)' = StreamHolders(s)
<1>1. /\ pc[c] = "sub" /\ idx[c] \in 1..Len(req[c]) /\ Len(req[c]) \in 1..MaxPairs
      /\ DOMAIN req[c] = 1..Len(req[c]) /\ idx[c] \in Nat
  BY AtPair DEF CountInterval
<1>2. /\ pc' = [pc EXCEPT ![c] = "add"] /\ req' = req /\ idx' = idx
      /\ pc \in [Caller -> Location] /\ idx \in [Caller -> 1..MaxPairs]
  BY DEF CountInterval, Shape
<1>3. ASSUME NEW d \in Caller, NEW k \in 1..MaxPairs
      PROVE  /\ \A key \in Key : IntervalHolder(d, k, key)' <=>
                  (IntervalHolder(d, k, key) \/ (d = c /\ k = idx[c] /\ key = KeyOf(c)))
             /\ \A s \in Symbol : StreamHolder(d, k, s)' <=> StreamHolder(d, k, s)
  BY <1>1, <1>2 DEF IntervalHolder, StreamHolder, IntervalCounted, StreamCounted, KeyOf
<1>4. <<c, idx[c]>> \in Slot /\ <<c, idx[c]>> \notin IntervalHolders(KeyOf(c))
  BY <1>1, <1>2 DEF Slot, IntervalHolders, IntervalHolder, IntervalCounted
<1>5. ASSUME NEW key \in Key
      PROVE  IntervalHolders(key)' =
                IF key = KeyOf(c) THEN IntervalHolders(key) \cup {<<c, idx[c]>>}
                                  ELSE IntervalHolders(key)
  BY <1>3, <1>4 DEF IntervalHolders, Slot
<1>6. ASSUME NEW s \in Symbol PROVE StreamHolders(s)' = StreamHolders(s)
  BY <1>3 DEF StreamHolders, Slot
<1> QED
  BY <1>4, <1>5, <1>6

\* The second section of SubscribeToInterval adds one reference to the stream.
LEMMA CountStreamHolders ==
    ASSUME Shape, NEW c \in Caller, CountStream(c)
    PROVE  /\ \A s \in Symbol : StreamHolders(s)' =
                IF s = SymbolOf(c) THEN StreamHolders(s) \cup {<<c, idx[c]>>}
                                   ELSE StreamHolders(s)
           /\ <<c, idx[c]>> \in Slot /\ <<c, idx[c]>> \notin StreamHolders(SymbolOf(c))
           /\ \A key \in Key : IntervalHolders(key)' = IntervalHolders(key)
<1>1. /\ pc[c] = "add" /\ idx[c] \in 1..Len(req[c]) /\ Len(req[c]) \in 1..MaxPairs
      /\ DOMAIN req[c] = 1..Len(req[c]) /\ idx[c] \in Nat
  BY AtPair DEF CountStream
<1>2. /\ req' = req /\ pc \in [Caller -> Location] /\ idx \in [Caller -> 1..MaxPairs]
      /\ \/ pc' = [pc EXCEPT ![c] = "signal"] /\ idx' = idx
         \/ /\ idx' = [idx EXCEPT ![c] = IF LastPair(c) THEN 1 ELSE @ + 1]
            /\ pc' = [pc EXCEPT ![c] = IF LastPair(c) THEN Subscribed(c) ELSE "sub"]
  BY DEF CountStream, Shape, Advance
<1>3. Subscribed(c) \in {"serve", "done"} /\ (LastPair(c) <=> idx[c] = Len(req[c]))
  BY DEF Subscribed, LastPair
<1>4. ASSUME NEW d \in Caller, NEW k \in 1..MaxPairs
      PROVE  /\ \A key \in Key : IntervalHolder(d, k, key)' <=> IntervalHolder(d, k, key)
             /\ \A s \in Symbol : StreamHolder(d, k, s)' <=>
                  (StreamHolder(d, k, s) \/ (d = c /\ k = idx[c] /\ s = SymbolOf(c)))
  <2>1. CASE d # c
    BY <1>2, <2>1 DEF IntervalHolder, StreamHolder, IntervalCounted, StreamCounted
  <2>2. CASE d = c
    BY <1>1, <1>2, <1>3, <2>2
    DEF IntervalHolder, StreamHolder, IntervalCounted, StreamCounted, SymbolOf
  <2> QED
    BY <2>1, <2>2
<1>5. <<c, idx[c]>> \in Slot /\ <<c, idx[c]>> \notin StreamHolders(SymbolOf(c))
  BY <1>1, <1>2 DEF Slot, StreamHolders, StreamHolder, StreamCounted
<1>6. ASSUME NEW s \in Symbol
      PROVE  StreamHolders(s)' =
                IF s = SymbolOf(c) THEN StreamHolders(s) \cup {<<c, idx[c]>>}
                                   ELSE StreamHolders(s)
  BY <1>4, <1>5 DEF StreamHolders, Slot
<1>7. ASSUME NEW key \in Key PROVE IntervalHolders(key)' = IntervalHolders(key)
  BY <1>4 DEF IntervalHolders, Slot
<1> QED
  BY <1>5, <1>6, <1>7

\* The first section of UnsubscribeFromInterval takes one reference away.
LEMMA UncountIntervalHolders ==
    ASSUME Shape, NEW c \in Caller, UncountInterval(c)
    PROVE  /\ \A key \in Key : IntervalHolders(key)' =
                IF key = KeyOf(c) THEN IntervalHolders(key) \ {<<c, idx[c]>>}
                                  ELSE IntervalHolders(key)
           /\ <<c, idx[c]>> \in IntervalHolders(KeyOf(c))
           /\ \A s \in Symbol : StreamHolders(s)' = StreamHolders(s)
<1>1. /\ pc[c] = "unsub" /\ idx[c] \in 1..Len(req[c]) /\ Len(req[c]) \in 1..MaxPairs
      /\ DOMAIN req[c] = 1..Len(req[c]) /\ idx[c] \in Nat
  BY AtPair DEF UncountInterval
<1>2. /\ pc' = [pc EXCEPT ![c] = "drop"] /\ req' = req /\ idx' = idx
      /\ pc \in [Caller -> Location] /\ idx \in [Caller -> 1..MaxPairs]
  BY DEF UncountInterval, Shape
<1>3. ASSUME NEW d \in Caller, NEW k \in 1..MaxPairs
      PROVE  /\ \A key \in Key : IntervalHolder(d, k, key)' <=>
                  (IntervalHolder(d, k, key) /\ ~(d = c /\ k = idx[c] /\ key = KeyOf(c)))
             /\ \A s \in Symbol : StreamHolder(d, k, s)' <=> StreamHolder(d, k, s)
  BY <1>1, <1>2 DEF IntervalHolder, StreamHolder, IntervalCounted, StreamCounted, KeyOf
<1>4. <<c, idx[c]>> \in IntervalHolders(KeyOf(c))
  BY <1>1, <1>2 DEF Slot, IntervalHolders, IntervalHolder, IntervalCounted, KeyOf
<1>5. ASSUME NEW key \in Key
      PROVE  IntervalHolders(key)' =
                IF key = KeyOf(c) THEN IntervalHolders(key) \ {<<c, idx[c]>>}
                                  ELSE IntervalHolders(key)
  BY <1>3, <1>4 DEF IntervalHolders, Slot
<1>6. ASSUME NEW s \in Symbol PROVE StreamHolders(s)' = StreamHolders(s)
  BY <1>3 DEF StreamHolders, Slot
<1> QED
  BY <1>4, <1>5, <1>6

\* The second section of UnsubscribeFromInterval takes one from the stream.
LEMMA UncountStreamHolders ==
    ASSUME Shape, NEW c \in Caller, UncountStream(c)
    PROVE  /\ \A s \in Symbol : StreamHolders(s)' =
                IF s = SymbolOf(c) THEN StreamHolders(s) \ {<<c, idx[c]>>}
                                   ELSE StreamHolders(s)
           /\ <<c, idx[c]>> \in StreamHolders(SymbolOf(c))
           /\ \A key \in Key : IntervalHolders(key)' = IntervalHolders(key)
<1>1. /\ pc[c] = "drop" /\ idx[c] \in 1..Len(req[c]) /\ Len(req[c]) \in 1..MaxPairs
      /\ DOMAIN req[c] = 1..Len(req[c]) /\ idx[c] \in Nat
  BY AtPair DEF UncountStream
<1>2. /\ req' = req /\ pc \in [Caller -> Location] /\ idx \in [Caller -> 1..MaxPairs]
      /\ idx' = [idx EXCEPT ![c] = IF LastPair(c) THEN 1 ELSE @ + 1]
      /\ pc' = [pc EXCEPT ![c] = IF LastPair(c) THEN "idle" ELSE "unsub"]
  BY DEF UncountStream, Shape, Advance
<1>3. LastPair(c) <=> idx[c] = Len(req[c])
  BY DEF LastPair
<1>4. ASSUME NEW d \in Caller, NEW k \in 1..MaxPairs
      PROVE  /\ \A key \in Key : IntervalHolder(d, k, key)' <=> IntervalHolder(d, k, key)
             /\ \A s \in Symbol : StreamHolder(d, k, s)' <=>
                  (StreamHolder(d, k, s) /\ ~(d = c /\ k = idx[c] /\ s = SymbolOf(c)))
  <2>1. CASE d # c
    BY <1>2, <2>1 DEF IntervalHolder, StreamHolder, IntervalCounted, StreamCounted
  <2>2. CASE d = c
    BY <1>1, <1>2, <1>3, <2>2
    DEF IntervalHolder, StreamHolder, IntervalCounted, StreamCounted, SymbolOf
  <2> QED
    BY <2>1, <2>2
<1>5. <<c, idx[c]>> \in StreamHolders(SymbolOf(c))
  BY <1>1, <1>2 DEF Slot, StreamHolders, StreamHolder, StreamCounted, SymbolOf
<1>6. ASSUME NEW s \in Symbol
      PROVE  StreamHolders(s)' =
                IF s = SymbolOf(c) THEN StreamHolders(s) \ {<<c, idx[c]>>}
                                   ELSE StreamHolders(s)
  BY <1>4, <1>5 DEF StreamHolders, Slot
<1>7. ASSUME NEW key \in Key PROVE IntervalHolders(key)' = IntervalHolders(key)
  BY <1>4 DEF IntervalHolders, Slot
<1> QED
  BY <1>5, <1>6, <1>7

\* Every other step leaves the references as they are.
LEMMA OtherHolders ==
    ASSUME Shape,
           \/ \E c \in Caller, r \in Request : Arrive(c, r)
           \/ \E c \in Caller : Signal(c) \/ Disconnect(c)
           \/ TriggerReconnect \/ TakeSignal \/ UNCHANGED vars
    PROVE  /\ \A key \in Key : IntervalHolders(key)' = IntervalHolders(key)
           /\ \A s \in Symbol : StreamHolders(s)' = StreamHolders(s)
<1> SUFFICES ASSUME NEW d \in Caller, NEW k \in 1..MaxPairs
             PROVE  /\ \A key \in Key : IntervalHolder(d, k, key)' <=> IntervalHolder(d, k, key)
                    /\ \A s \in Symbol : StreamHolder(d, k, s)' <=> StreamHolder(d, k, s)
  BY DEF IntervalHolders, StreamHolders, Slot
<1> USE DEF IntervalHolder, StreamHolder, IntervalCounted, StreamCounted
<1>0. pc \in [Caller -> Location] /\ idx \in [Caller -> 1..MaxPairs]
  BY DEF Shape
<1>1. ASSUME NEW c \in Caller, NEW r \in Request, Arrive(c, r)
      PROVE  /\ \A key \in Key : IntervalHolder(d, k, key)' <=> IntervalHolder(d, k, key)
             /\ \A s \in Symbol : StreamHolder(d, k, s)' <=> StreamHolder(d, k, s)
  <2>1. CASE d # c
    <3>1. pc'[d] = pc[d] /\ req'[d] = req[d] /\ idx'[d] = idx[d]
      BY <1>1, <2>1 DEF Arrive, Shape
    <3> QED
      BY <3>1
  <2>2. CASE d = c
    <3>1. pc[d] = "idle" /\ pc'[d] = "sub" /\ idx'[d] = 1
      BY <1>1, <2>2 DEF Arrive, Shape
    <3> QED
      BY <3>1
  <2> QED
    BY <2>1, <2>2
<1>2. ASSUME NEW c \in Caller, Signal(c)
      PROVE  /\ \A key \in Key : IntervalHolder(d, k, key)' <=> IntervalHolder(d, k, key)
             /\ \A s \in Symbol : StreamHolder(d, k, s)' <=> StreamHolder(d, k, s)
  <2>1. /\ pc[c] = "signal" /\ idx[c] \in 1..Len(req[c]) /\ Len(req[c]) \in 1..MaxPairs
        /\ DOMAIN req[c] = 1..Len(req[c])
    BY <1>2, AtPair DEF Signal
  <2>2. /\ req' = req
        /\ \/ UNCHANGED <<pc, idx>>
           \/ /\ idx' = [idx EXCEPT ![c] = IF LastPair(c) THEN 1 ELSE @ + 1]
              /\ pc' = [pc EXCEPT ![c] = IF LastPair(c) THEN Subscribed(c) ELSE "sub"]
    BY <1>2 DEF Signal, Advance
  <2>3. Subscribed(c) \in {"serve", "done"} /\ (LastPair(c) <=> idx[c] = Len(req[c]))
    BY DEF Subscribed, LastPair
  <2>4. CASE d # c
    BY <1>0, <2>2, <2>4
  <2>5. CASE d = c
    BY <1>0, <2>1, <2>2, <2>3, <2>5
  <2> QED
    BY <2>4, <2>5
<1>3. ASSUME NEW c \in Caller, Disconnect(c)
      PROVE  /\ \A key \in Key : IntervalHolder(d, k, key)' <=> IntervalHolder(d, k, key)
             /\ \A s \in Symbol : StreamHolder(d, k, s)' <=> StreamHolder(d, k, s)
  BY <1>0, <1>3 DEF Disconnect, Shape
<1>4. CASE TriggerReconnect \/ TakeSignal \/ UNCHANGED vars
  BY <1>4 DEF TriggerReconnect, TakeSignal, vars
<1> QED
  BY <1>1, <1>2, <1>3, <1>4

\* The references of one entry are finitely many, no more than there are slots.
LEMMA HoldersFinite ==
    /\ \A key : IsFiniteSet(IntervalHolders(key))
               /\ Cardinality(IntervalHolders(key)) \in 0..MaxInt32
    /\ \A s : IsFiniteSet(StreamHolders(s))
             /\ Cardinality(StreamHolders(s)) \in 0..MaxInt32
<1>1. IsFiniteSet(Caller)
  BY CallersFinite, FS_Union DEF Caller
<1>2. IsFiniteSet(1..MaxPairs)
  BY FS_Interval, SizesAreNat
<1>3. IsFiniteSet(Slot)
  BY <1>1, <1>2, FS_Product DEF Slot
<1>4. ASSUME NEW H \in SUBSET Slot
      PROVE  IsFiniteSet(H) /\ Cardinality(H) \in 0..MaxInt32
  <2>1. IsFiniteSet(H) /\ Cardinality(H) <= Cardinality(Slot)
    BY <1>3, <1>4, FS_Subset
  <2>2. Cardinality(H) \in Nat /\ Cardinality(Slot) \in Nat
    BY <1>3, <2>1, FS_CardinalityType
  <2>3. MaxInt32 \in Nat
    BY SMT DEF MaxInt32
  <2> QED
    BY <2>1, <2>2, <2>3, ReferencesFitInt32
<1> QED
  BY <1>4 DEF IntervalHolders, StreamHolders

--------------------------------------------------------------------------------
Exact == Shape /\ IntervalCountExact /\ StreamCountExact

\* Every action keeps both maps equal to the references held.
LEMMA ExactStep == Exact /\ [Next]_vars => Exact'
<1> SUFFICES ASSUME Shape, IntervalCountExact, StreamCountExact, [Next]_vars
             PROVE  IntervalCountExact' /\ StreamCountExact'
  BY ShapeStep DEF Exact
<1>0. subscriptions \in [Key -> Nat] /\ activeStreams \in [Symbol -> Nat]
  BY DEF Shape
<1>1. ASSUME NEW c \in Caller, CountInterval(c)
      PROVE  IntervalCountExact' /\ StreamCountExact'
  <2>1. /\ subscriptions' = [subscriptions EXCEPT ![KeyOf(c)] = @ + 1]
        /\ activeStreams' = activeStreams
    BY <1>1 DEF CountInterval, Retained
  <2>2. ASSUME NEW key \in Key PROVE subscriptions'[key] = Cardinality(IntervalHolders(key)')
    <3>1. CASE key = KeyOf(c)
      <4>1. Cardinality(IntervalHolders(key)') = Cardinality(IntervalHolders(key)) + 1
        BY <1>1, <3>1, CountIntervalHolders, HoldersFinite, FS_AddElement
      <4> QED
        BY <1>0, <2>1, <3>1, <4>1 DEF IntervalCountExact
    <3>2. CASE key # KeyOf(c)
      BY <1>0, <1>1, <2>1, <3>2, CountIntervalHolders DEF IntervalCountExact
    <3> QED
      BY <3>1, <3>2
  <2> QED
    BY <1>1, <2>1, <2>2, CountIntervalHolders DEF IntervalCountExact, StreamCountExact
<1>2. ASSUME NEW c \in Caller, CountStream(c)
      PROVE  IntervalCountExact' /\ StreamCountExact'
  <2>1. /\ activeStreams' = [activeStreams EXCEPT ![SymbolOf(c)] = @ + 1]
        /\ subscriptions' = subscriptions
    BY <1>2 DEF CountStream, Retained
  <2>2. ASSUME NEW s \in Symbol PROVE activeStreams'[s] = Cardinality(StreamHolders(s)')
    <3>1. CASE s = SymbolOf(c)
      <4>1. Cardinality(StreamHolders(s)') = Cardinality(StreamHolders(s)) + 1
        BY <1>2, <3>1, CountStreamHolders, HoldersFinite, FS_AddElement
      <4> QED
        BY <1>0, <2>1, <3>1, <4>1 DEF StreamCountExact
    <3>2. CASE s # SymbolOf(c)
      BY <1>0, <1>2, <2>1, <3>2, CountStreamHolders DEF StreamCountExact
    <3> QED
      BY <3>1, <3>2
  <2> QED
    BY <1>2, <2>1, <2>2, CountStreamHolders DEF IntervalCountExact, StreamCountExact
<1>3. ASSUME NEW c \in Caller, UncountInterval(c)
      PROVE  IntervalCountExact' /\ StreamCountExact'
  <2>1. /\ subscriptions' = [subscriptions EXCEPT ![KeyOf(c)] = Released(@)]
        /\ activeStreams' = activeStreams
    BY <1>3 DEF UncountInterval
  <2>2. ASSUME NEW key \in Key PROVE subscriptions'[key] = Cardinality(IntervalHolders(key)')
    <3>1. CASE key = KeyOf(c)
      <4>0. /\ IntervalHolders(key)' = IntervalHolders(key) \ {<<c, idx[c]>>}
            /\ <<c, idx[c]>> \in IntervalHolders(key) /\ IsFiniteSet(IntervalHolders(key))
        BY <1>3, <3>1, UncountIntervalHolders, HoldersFinite
      <4>1. /\ Cardinality(IntervalHolders(key)') = Cardinality(IntervalHolders(key)) - 1
            /\ IntervalHolders(key) # {}
        BY <4>0, FS_RemoveElement
      <4>2. Cardinality(IntervalHolders(key)) > 0
        BY <4>1, HoldersFinite, FS_EmptySet
      <4> QED
        BY <1>0, <2>1, <3>1, <4>1, <4>2 DEF IntervalCountExact, Released
    <3>2. CASE key # KeyOf(c)
      BY <1>0, <1>3, <2>1, <3>2, UncountIntervalHolders DEF IntervalCountExact
    <3> QED
      BY <3>1, <3>2
  <2> QED
    BY <1>3, <2>1, <2>2, UncountIntervalHolders DEF IntervalCountExact, StreamCountExact
<1>4. ASSUME NEW c \in Caller, UncountStream(c)
      PROVE  IntervalCountExact' /\ StreamCountExact'
  <2>1. /\ activeStreams' = [activeStreams EXCEPT ![SymbolOf(c)] = Released(@)]
        /\ subscriptions' = subscriptions
    BY <1>4 DEF UncountStream
  <2>2. ASSUME NEW s \in Symbol PROVE activeStreams'[s] = Cardinality(StreamHolders(s)')
    <3>1. CASE s = SymbolOf(c)
      <4>0. /\ StreamHolders(s)' = StreamHolders(s) \ {<<c, idx[c]>>}
            /\ <<c, idx[c]>> \in StreamHolders(s) /\ IsFiniteSet(StreamHolders(s))
        BY <1>4, <3>1, UncountStreamHolders, HoldersFinite
      <4>1. /\ Cardinality(StreamHolders(s)') = Cardinality(StreamHolders(s)) - 1
            /\ StreamHolders(s) # {}
        BY <4>0, FS_RemoveElement
      <4>2. Cardinality(StreamHolders(s)) > 0
        BY <4>1, HoldersFinite, FS_EmptySet
      <4> QED
        BY <1>0, <2>1, <3>1, <4>1, <4>2 DEF StreamCountExact, Released
    <3>2. CASE s # SymbolOf(c)
      BY <1>0, <1>4, <2>1, <3>2, UncountStreamHolders DEF StreamCountExact
    <3> QED
      BY <3>1, <3>2
  <2> QED
    BY <1>4, <2>1, <2>2, UncountStreamHolders DEF IntervalCountExact, StreamCountExact
<1>5. CASE \/ \E c \in Caller, r \in Request : Arrive(c, r)
           \/ \E c \in Caller : Signal(c) \/ Disconnect(c)
           \/ TriggerReconnect \/ TakeSignal \/ UNCHANGED vars
  <2>1. subscriptions' = subscriptions /\ activeStreams' = activeStreams
    BY <1>5 DEF Arrive, Signal, Disconnect, TriggerReconnect, TakeSignal, vars
  <2> QED
    BY <1>5, <2>1, OtherHolders DEF IntervalCountExact, StreamCountExact
<1> QED
  BY <1>1, <1>2, <1>3, <1>4, <1>5, NextCases

\* Nothing is held before the first request.
LEMMA ExactInit == Init => Exact
<1> SUFFICES ASSUME Init PROVE Exact
  OBVIOUS
<1>1. Shape
  BY SizesAreNat DEF Init, Shape, Location
<1>2. \A key \in Key : IntervalHolders(key) = {}
  BY DEF Init, IntervalHolders, IntervalHolder, Slot
<1>3. \A s \in Symbol : StreamHolders(s) = {}
  BY DEF Init, StreamHolders, StreamHolder, Slot
<1>4. IntervalCountExact
  BY <1>2, FS_EmptySet DEF Init, IntervalCountExact
<1>5. StreamCountExact
  BY <1>3, FS_EmptySet DEF Init, StreamCountExact
<1> QED
  BY <1>1, <1>4, <1>5 DEF Exact

\* The inductive invariant of the registry.
THEOREM ExactInvariant == Spec => []Exact
BY ExactInit, ExactStep, PTL DEF Spec

\* Type correctness: in particular no interleaving takes a count below 0, and
\* none takes it beyond int32 while the references fit.
THEOREM TypeCorrect == Spec => []TypeOK
<1>1. Exact => TypeOK
  <2> SUFFICES ASSUME Exact PROVE TypeOK
    OBVIOUS
  <2>1. Shape /\ IntervalCountExact /\ StreamCountExact
    BY DEF Exact
  <2>2. \A key \in Key : subscriptions[key] \in 0..MaxInt32
    BY <2>1, HoldersFinite DEF IntervalCountExact
  <2>3. \A s \in Symbol : activeStreams[s] \in 0..MaxInt32
    BY <2>1, HoldersFinite DEF StreamCountExact
  <2>4. /\ subscriptions \in [Key -> 0..MaxInt32]
        /\ activeStreams \in [Symbol -> 0..MaxInt32]
    BY <2>1, <2>2, <2>3 DEF Shape
  <2> QED
    BY <2>1, <2>4 DEF Shape, TypeOK
<1> QED
  BY <1>1, ExactInvariant, PTL

\* The interval counts are exact: each equals the number of references that
\* SubscribeToInterval took and UnsubscribeFromInterval has not given back.
THEOREM IntervalCountsAreExact == Spec => []IntervalCountExact
<1>1. Exact => IntervalCountExact
  BY DEF Exact
<1> QED
  BY <1>1, ExactInvariant, PTL

\* The stream counts are exact, over all intervals of a symbol together.
THEOREM StreamCountsAreExact == Spec => []StreamCountExact
<1>1. Exact => StreamCountExact
  BY DEF Exact
<1> QED
  BY <1>1, ExactInvariant, PTL

\* A client being served keeps the streams of its symbols alive.
THEOREM ServedStreamsAreTracked == Spec => []ServedStreamTracked
<1>1. Exact => ServedStreamTracked
  <2> SUFFICES ASSUME Exact, NEW c \in Stream, pc[c] = "serve", NEW k \in DOMAIN req[c]
               PROVE  activeStreams[req[c][k][1]] > 0
    BY DEF ServedStreamTracked
  <2>1. c \in Caller /\ Shape /\ StreamCountExact
    BY DEF Caller, Exact
  <2>2. /\ req[c] \in Request /\ Len(req[c]) \in 1..MaxPairs
        /\ DOMAIN req[c] = 1..Len(req[c])
    BY <2>1, AtPair
  <2>3. k \in 1..MaxPairs /\ req[c][k][1] \in Symbol
    BY <2>2, RequestShape, SizesAreNat
  <2>4. <<c, k>> \in StreamHolders(req[c][k][1])
    BY <2>1, <2>3 DEF StreamHolders, StreamHolder, StreamCounted, Slot
  <2>5. Cardinality(StreamHolders(req[c][k][1])) > 0
    BY <2>4, HoldersFinite, FS_EmptySet
  <2> QED
    BY <2>1, <2>3, <2>5 DEF StreamCountExact
<1> QED
  BY <1>1, ExactInvariant, PTL

\* Between the two lock sections of a call the maps may disagree, nowhere else.
THEOREM MapsStayTogether == Spec => []MapsAgree
<1>1. Exact => MapsAgree
  <2> SUFFICES ASSUME Exact, NEW s \in Symbol,
                      \A c \in Caller : pc[c] \in {"add", "drop"} => SymbolOf(c) # s
               PROVE  (activeStreams[s] > 0)
                        <=> (\E i \in Interval : subscriptions[<<s, i>>] > 0)
    BY DEF MapsAgree
  <2>0. Shape /\ IntervalCountExact /\ StreamCountExact
    BY DEF Exact
  <2>1. ASSUME NEW c \in Caller, NEW k \in 1..MaxPairs, k \in DOMAIN req[c], req[c][k][1] = s
        PROVE  StreamCounted(c, k) <=> IntervalCounted(c, k)
    <3>1. CASE pc[c] = "idle"
      BY <3>1 DEF StreamCounted, IntervalCounted
    <3>2. CASE pc[c] # "idle"
      <4>1. idx[c] \in 1..Len(req[c]) /\ Len(req[c]) \in Nat
        BY <2>0, <3>2, AtPair
      <4>2. pc[c] \in {"add", "drop"} => k # idx[c]
        BY <2>1 DEF SymbolOf
      <4>3. pc[c] \in Location /\ k \in Nat
        BY <2>0 DEF Shape
      <4> QED
        BY <4>1, <4>2, <4>3 DEF StreamCounted, IntervalCounted, Location
    <3> QED
      BY <3>1, <3>2
  <2>2. ASSUME NEW c \in Caller, NEW k \in 1..MaxPairs, k \in DOMAIN req[c], req[c][k][1] = s
        PROVE  \E i \in Interval : req[c][k] = <<s, i>>
    <3>1. req[c] \in Request \cup {<<>>}
      BY <2>0 DEF Shape
    <3>2. req[c] \in Request
      BY <2>2, <3>1
    <3>3. req[c][k] \in Key
      BY <2>2, <3>2, RequestShape
    <3> QED
      BY <2>2, <3>3 DEF Key
  <2>3. (StreamHolders(s) # {}) <=> (\E i \in Interval : IntervalHolders(<<s, i>>) # {})
    <3>1. ASSUME NEW h \in StreamHolders(s)
          PROVE  \E i \in Interval : IntervalHolders(<<s, i>>) # {}
      BY <2>1, <2>2 DEF StreamHolders, IntervalHolders, StreamHolder, IntervalHolder, Slot
    <3>2. ASSUME NEW i \in Interval, NEW h \in IntervalHolders(<<s, i>>)
          PROVE  StreamHolders(s) # {}
      BY <2>1 DEF StreamHolders, IntervalHolders, StreamHolder, IntervalHolder, Slot
    <3> QED
      BY <3>1, <3>2
  <2>4. (activeStreams[s] > 0) <=> (StreamHolders(s) # {})
    BY <2>0, HoldersFinite, FS_EmptySet DEF StreamCountExact
  <2>5. ASSUME NEW i \in Interval
        PROVE  (subscriptions[<<s, i>>] > 0) <=> (IntervalHolders(<<s, i>>) # {})
    <3>1. <<s, i>> \in Key
      BY DEF Key
    <3> QED
      BY <2>0, <3>1, HoldersFinite, FS_EmptySet DEF IntervalCountExact
  <2> QED
    BY <2>3, <2>4, <2>5
<1> QED
  BY <1>1, ExactInvariant, PTL

--------------------------------------------------------------------------------
(* The managers, and the registry with them.                                  *)

\* The types of the managers' own variables.
ManagerShape ==
    /\ mgr \in [Exchange -> {"select", "dial", "wait", "write", "listen"}]
    /\ conn \in [Exchange -> {"nil", "open", "quiet"}]
    /\ isHealthy \in [Exchange -> BOOLEAN]
    /\ isConnecting \in [Exchange -> BOOLEAN]
    /\ isSubscribed \in [Exchange -> BOOLEAN]
    /\ inBackoff \in [Exchange -> BOOLEAN]
    /\ justConnected \in [Exchange -> BOOLEAN]
    /\ fresh \in [Exchange -> BOOLEAN]
    /\ found \in [Exchange -> SUBSET Symbol]
    /\ sent \in [Exchange -> SUBSET Symbol]
    /\ locked \in [Exchange -> BOOLEAN]
    /\ faults \in 0..MaxFaults
    /\ pingers \in [Exchange -> [idle : Nat, current : Nat, closed : Nat]]
    /\ pingFailed \in [Exchange -> BOOLEAN]
    /\ crashed \in BOOLEAN

\* A manager past its dial has a connection, before it listens already.
DialedHasConnection ==
    \A e \in Exchange : mgr[e] \in {"wait", "write", "listen"} => conn[e] # "nil"

\* The inductive invariant of the managers.
FeedInv == ManagerShape /\ FlagsMatchConnection /\ DialedHasConnection /\ ListenerIsPinged

\* Every step is a step of the registry, or one of a manager.
LEMMA FeedNextCases ==
    ASSUME FeedNext
    PROVE  \/ UNCHANGED mgrVars
           \/ \E e \in Exchange :
                BeginConnect(e) /\ mgr[e] = "select"
           \/ \E e \in Exchange : DialSucceeds(e)
           \/ \E e \in Exchange : DialFails(e)
           \/ \E e \in Exchange : WaitTimesOut(e)
           \/ \E e \in Exchange : ReadStreams(e)
           \/ \E e \in Exchange : WriteSubscriptions(e)
           \/ \E e \in Exchange : WriteFails(e)
           \/ \E e \in Exchange : Message(e)
           \/ \E e \in Exchange : ReadFails(e)
           \/ \E e \in Exchange : GoQuiet(e)
           \/ \E e \in Exchange : PingTick(e)
           \/ \E e \in Exchange : PingSent(e)
           \/ \E e \in Exchange : PingFails(e)
           \/ \E e \in Exchange : WritesCollide(e)
           \/ \E e \in Exchange : BackoffEnds(e)
           \/ \E e \in Exchange : ConnectionAges(e)
           \/ \E e \in Exchange : MinuteWithoutMessage(e)
BY DEF FeedNext, ManagerStep, ReconnectSignal, HealthCheck

--------------------------------------------------------------------------------
\* A step of the composition is a step of the registry or leaves it alone.
LEMMA FeedStepIsRegistryStep == [FeedNext]_feedVars => [Next]_vars
<1> SUFFICES ASSUME [FeedNext]_feedVars PROVE [Next]_vars
  OBVIOUS
<1>1. CASE UNCHANGED feedVars
  BY <1>1 DEF feedVars
<1>2. CASE \E c \in Caller : CallerStep(c)
  BY <1>2 DEF Next
<1>3. CASE TriggerReconnect
  BY <1>3 DEF Next
<1>4. ASSUME NEW e \in Exchange, ManagerStep(e) PROVE [Next]_vars
  <2>1. CASE ReconnectSignal(e)
    BY <2>1 DEF Next, ReconnectSignal
  <2>2. CASE HealthCheck(e)
    BY <2>2 DEF HealthCheck
  <2>3. CASE DialSucceeds(e) \/ DialFails(e) \/ WaitTimesOut(e) \/ ReadStreams(e)
    BY <2>3 DEF DialSucceeds, DialFails, WaitTimesOut, ReadStreams
  <2>4. CASE WriteSubscriptions(e) \/ WriteFails(e) \/ Message(e) \/ ReadFails(e)
    BY <2>4 DEF WriteSubscriptions, WriteFails, Message, ReadFails
  <2>5. CASE GoQuiet(e) \/ PingTick(e) \/ PingSent(e) \/ PingFails(e) \/ WritesCollide(e)
    BY <2>5 DEF GoQuiet, PingTick, PingSent, PingFails, WritesCollide
  <2>6. CASE BackoffEnds(e) \/ ConnectionAges(e) \/ MinuteWithoutMessage(e)
    BY <2>6 DEF BackoffEnds, ConnectionAges, MinuteWithoutMessage
  <2> QED
    BY <1>4, <2>1, <2>2, <2>3, <2>4, <2>5, <2>6 DEF ManagerStep
<1> QED
  BY <1>1, <1>2, <1>3, <1>4 DEF FeedNext

\* The composition implements the registry on its own: composing it with the managers
\* adds no behaviour to SubscribeToInterval, UnsubscribeFromInterval and reconnectChan.
THEOREM FeedImplementsRegistry == FeedSpec => Spec
<1>1. FeedInit => Init
  BY DEF FeedInit
<1> QED
  BY <1>1, FeedStepIsRegistryStep, PTL DEF FeedSpec, Spec

\* So both maps count exactly the references held while the managers run, and
\* reconnectChan holds no more than its capacity.
THEOREM FeedCountsAreExact ==
    FeedSpec => [](TypeOK /\ IntervalCountExact /\ StreamCountExact)
BY FeedImplementsRegistry, TypeCorrect, IntervalCountsAreExact, StreamCountsAreExact, PTL

--------------------------------------------------------------------------------
\* Every step keeps the types.
LEMMA ManagerShapeStep == ManagerShape /\ [FeedNext]_feedVars => ManagerShape'
<1> SUFFICES ASSUME ManagerShape, [FeedNext]_feedVars PROVE ManagerShape'
  OBVIOUS
<1> USE FeedConstants DEF ManagerShape, pingVars
<1>1. ASSUME NEW e \in Exchange, BeginConnect(e) PROVE ManagerShape'
  <2>1. pingers' \in [Exchange -> [idle : Nat, current : Nat, closed : Nat]]
    <3>1. pingers[e] \in [idle : Nat, current : Nat, closed : Nat]
      OBVIOUS
    <3>2. pingers[e].closed + pingers[e].current \in Nat
      BY <3>1
    <3> QED
      BY <1>1, <3>1, <3>2 DEF BeginConnect
  <2> QED
    BY <1>1, <2>1 DEF BeginConnect
<1>2. ASSUME NEW e \in Exchange, DialSucceeds(e) PROVE ManagerShape'
  BY <1>2 DEF DialSucceeds
<1>3. ASSUME NEW e \in Exchange, DialFails(e) \/ WaitTimesOut(e) PROVE ManagerShape'
  <2>1. CASE DialFails(e)
    BY <2>1 DEF DialFails, AttemptFails, HandleConnectionError
  <2>2. CASE WaitTimesOut(e)
    BY <2>2 DEF WaitTimesOut, AttemptFails, HandleConnectionError
  <2> QED
    BY <1>3, <2>1, <2>2
<1>4. ASSUME NEW e \in Exchange, ReadStreams(e) PROVE ManagerShape'
  BY <1>4 DEF ReadStreams, TrackedStreams
<1>5. ASSUME NEW e \in Exchange, WriteSubscriptions(e) PROVE ManagerShape'
  BY <1>5 DEF WriteSubscriptions, StartPinger
<1>6. ASSUME NEW e \in Exchange, WriteFails(e) PROVE ManagerShape'
  <2>1. /\ mgr' = [mgr EXCEPT ![e] = "select"]
        /\ isConnecting' = [isConnecting EXCEPT ![e] = FALSE]
        /\ isHealthy' = [isHealthy EXCEPT ![e] = FALSE]
        /\ inBackoff' = [inBackoff EXCEPT ![e] = TRUE]
        /\ found' = [found EXCEPT ![e] = {}]
        /\ faults < MaxFaults /\ faults' = faults + 1
        /\ UNCHANGED <<conn, isSubscribed, justConnected, fresh, pingers, pingFailed, crashed>>
    BY <1>6 DEF WriteFails, AttemptFails, HandleConnectionError
  <2>2. sent' \in [Exchange -> SUBSET Symbol]
    BY <1>6 DEF WriteFails
  <2>3. locked' \in [Exchange -> BOOLEAN]
    BY <1>6 DEF WriteFails
  <2>4. /\ mgr' \in [Exchange -> {"select", "dial", "wait", "write", "listen"}]
        /\ isConnecting' \in [Exchange -> BOOLEAN] /\ isHealthy' \in [Exchange -> BOOLEAN]
        /\ inBackoff' \in [Exchange -> BOOLEAN]
    BY <2>1
  <2>5. found' \in [Exchange -> SUBSET Symbol]
    BY <2>1
  <2>6. faults' \in 0..MaxFaults
    BY <2>1
  <2> QED
    BY <2>1, <2>2, <2>3, <2>4, <2>5, <2>6
<1>7. ASSUME NEW e \in Exchange, Message(e) PROVE ManagerShape'
  BY <1>7 DEF Message
<1>8. ASSUME NEW e \in Exchange, ReadFails(e) PROVE ManagerShape'
  BY <1>8 DEF ReadFails, HandleConnectionError
<1>9. ASSUME NEW e \in Exchange, GoQuiet(e) PROVE ManagerShape'
  BY <1>9 DEF GoQuiet
<1>10. ASSUME NEW e \in Exchange, PingTick(e) PROVE ManagerShape'
  <2>1. pingers \in [Exchange -> [idle : Nat, current : Nat, closed : Nat]] /\ pingers[e].idle > 0
    BY <1>10 DEF PingTick
  <2>2. pingers[e].idle - 1 \in Nat /\ pingers[e].current + 1 \in Nat
    BY <2>1
  <2>3. \/ pingers' = [pingers EXCEPT ![e].idle = @ - 1]
        \/ pingers' = [pingers EXCEPT ![e].idle = @ - 1, ![e].current = @ + 1]
    BY <1>10 DEF PingTick
  <2>4. pingers' \in [Exchange -> [idle : Nat, current : Nat, closed : Nat]]
    <3> HIDE DEF ManagerShape
    <3>1. CASE pingers' = [pingers EXCEPT ![e].idle = @ - 1]
      BY <2>1, <2>2, <3>1
    <3>2. CASE pingers' = [pingers EXCEPT ![e].idle = @ - 1, ![e].current = @ + 1]
      BY <2>1, <2>2, <3>2
    <3> QED
      BY <2>3, <3>1, <3>2
  <2> QED
    BY <1>10, <2>4 DEF PingTick, connVars
<1>11. ASSUME NEW e \in Exchange, PingSent(e) PROVE ManagerShape'
  BY <1>11 DEF PingSent, connVars
<1>12. ASSUME NEW e \in Exchange, PingFails(e) PROVE ManagerShape'
  <2>1. pingers' \in [Exchange -> [idle : Nat, current : Nat, closed : Nat]]
    <3>0. pingers \in [Exchange -> [idle : Nat, current : Nat, closed : Nat]]
      OBVIOUS
    <3>1. \/ pingers[e].closed > 0 /\ pingers' = [pingers EXCEPT ![e].closed = @ - 1]
          \/ pingers[e].current > 0 /\ pingers' = [pingers EXCEPT ![e].current = @ - 1]
      BY <1>12 DEF PingFails
    <3>2. /\ pingers[e].closed > 0 => pingers[e].closed - 1 \in Nat
          /\ pingers[e].current > 0 => pingers[e].current - 1 \in Nat
      BY <3>0
    <3>3. CASE pingers[e].closed > 0 /\ pingers' = [pingers EXCEPT ![e].closed = @ - 1]
      BY <3>0, <3>2, <3>3
    <3>4. CASE pingers[e].current > 0 /\ pingers' = [pingers EXCEPT ![e].current = @ - 1]
      BY <3>0, <3>2, <3>4
    <3> QED
      BY <3>1, <3>3, <3>4
  <2>2. faults' \in 0..MaxFaults
    <3>1. faults' = faults \/ (faults < MaxFaults /\ faults' = faults + 1)
      BY <1>12 DEF PingFails
    <3> QED
      BY <3>1
  <2>3. pingFailed' = pingFailed \/ pingFailed' = [pingFailed EXCEPT ![e] = TRUE]
    BY <1>12 DEF PingFails
  <2> QED
    BY <1>12, <2>1, <2>2, <2>3 DEF PingFails
<1>13. ASSUME NEW e \in Exchange, WritesCollide(e) PROVE ManagerShape'
  BY <1>13 DEF WritesCollide, connVars
<1>14. ASSUME NEW e \in Exchange, BackoffEnds(e) PROVE ManagerShape'
  BY <1>14 DEF BackoffEnds
<1>15. ASSUME NEW e \in Exchange, ConnectionAges(e) PROVE ManagerShape'
  BY <1>15 DEF ConnectionAges
<1>16. ASSUME NEW e \in Exchange, MinuteWithoutMessage(e) PROVE ManagerShape'
  BY <1>16 DEF MinuteWithoutMessage
<1>17. CASE UNCHANGED mgrVars
  BY <1>17 DEF mgrVars, connVars
<1> QED
  BY <1>1, <1>2, <1>3, <1>4, <1>5, <1>6, <1>7, <1>8, <1>9, <1>10, <1>11, <1>12, <1>13,
     <1>14, <1>15, <1>16, <1>17, FeedNextCases DEF feedVars

\* Every step keeps the flags in agreement with the manager's position, and a manager
\* that waits, writes or listens keeps its connection.
LEMMA FlagsStep ==
    ManagerShape /\ FlagsMatchConnection /\ DialedHasConnection /\ [FeedNext]_feedVars
        => (FlagsMatchConnection /\ DialedHasConnection)'
<1> SUFFICES ASSUME ManagerShape, FlagsMatchConnection, DialedHasConnection,
                    [FeedNext]_feedVars
             PROVE  (FlagsMatchConnection /\ DialedHasConnection)'
  OBVIOUS
<1> USE DEF ManagerShape, FlagsMatchConnection, DialedHasConnection
<1>1. ASSUME NEW e \in Exchange, BeginConnect(e), mgr[e] = "select"
      PROVE  (FlagsMatchConnection /\ DialedHasConnection)'
  BY <1>1 DEF BeginConnect
<1>2. ASSUME NEW e \in Exchange, DialSucceeds(e)
      PROVE  (FlagsMatchConnection /\ DialedHasConnection)'
  BY <1>2 DEF DialSucceeds
<1>3. ASSUME NEW e \in Exchange, DialFails(e) \/ WaitTimesOut(e)
      PROVE  (FlagsMatchConnection /\ DialedHasConnection)'
  BY <1>3 DEF DialFails, WaitTimesOut, AttemptFails, HandleConnectionError
<1>4. ASSUME NEW e \in Exchange, ReadStreams(e)
      PROVE  (FlagsMatchConnection /\ DialedHasConnection)'
  BY <1>4 DEF ReadStreams
<1>5. ASSUME NEW e \in Exchange, WriteSubscriptions(e)
      PROVE  (FlagsMatchConnection /\ DialedHasConnection)'
  BY <1>5 DEF WriteSubscriptions
<1>6. ASSUME NEW e \in Exchange, WriteFails(e)
      PROVE  (FlagsMatchConnection /\ DialedHasConnection)'
  BY <1>6 DEF WriteFails, AttemptFails, HandleConnectionError
<1>7. ASSUME NEW e \in Exchange, ReadFails(e)
      PROVE  (FlagsMatchConnection /\ DialedHasConnection)'
  BY <1>7 DEF ReadFails, HandleConnectionError
<1>8. ASSUME NEW e \in Exchange, GoQuiet(e)
      PROVE  (FlagsMatchConnection /\ DialedHasConnection)'
  BY <1>8 DEF GoQuiet
<1>9. ASSUME UNCHANGED <<mgr, conn, isHealthy, isConnecting, isSubscribed, sent>>
      PROVE  (FlagsMatchConnection /\ DialedHasConnection)'
  BY <1>9
<1>10. ASSUME NEW e \in Exchange,
              \/ Message(e) \/ PingTick(e) \/ PingSent(e) \/ PingFails(e)
              \/ WritesCollide(e) \/ BackoffEnds(e) \/ ConnectionAges(e)
              \/ MinuteWithoutMessage(e)
       PROVE  UNCHANGED <<mgr, conn, isHealthy, isConnecting, isSubscribed, sent>>
  BY <1>10 DEF Message, PingTick, PingSent, PingFails, WritesCollide, BackoffEnds,
               ConnectionAges, MinuteWithoutMessage, connVars
<1>11. CASE UNCHANGED mgrVars
  BY <1>9, <1>11 DEF mgrVars, connVars
<1> QED
  BY <1>1, <1>2, <1>3, <1>4, <1>5, <1>6, <1>7, <1>8, <1>9, <1>10, <1>11, FeedNextCases
  DEF feedVars

\* Every step keeps a ping goroutine on a connection that is listened to and on which
\* no ping has failed.
LEMMA PingedStep ==
    /\ ManagerShape /\ FlagsMatchConnection /\ ListenerIsPinged /\ [FeedNext]_feedVars
    => ListenerIsPinged'
<1> SUFFICES ASSUME ManagerShape, FlagsMatchConnection, ListenerIsPinged,
                    [FeedNext]_feedVars
             PROVE  ListenerIsPinged'
  OBVIOUS
<1>0. /\ mgr \in [Exchange -> {"select", "dial", "wait", "write", "listen"}]
      /\ pingers \in [Exchange -> [idle : Nat, current : Nat, closed : Nat]]
      /\ pingFailed \in [Exchange -> BOOLEAN] /\ Pinged \subseteq Exchange
      /\ \A e \in Exchange : mgr[e] = "listen" => conn[e] # "nil"
  BY FeedConstants DEF ManagerShape, FlagsMatchConnection
<1>1. ASSUME NEW e \in Exchange, BeginConnect(e) PROVE ListenerIsPinged'
  BY <1>0, <1>1 DEF BeginConnect, ListenerIsPinged
<1>2. ASSUME NEW e \in Exchange, mgr' = [mgr EXCEPT ![e] = mgr'[e]], mgr'[e] # "listen",
             UNCHANGED <<pingers, pingFailed>>
      PROVE  ListenerIsPinged'
  BY <1>0, <1>2 DEF ListenerIsPinged
<1>3. ASSUME NEW e \in Exchange,
             \/ DialSucceeds(e) \/ DialFails(e) \/ WaitTimesOut(e) \/ ReadStreams(e)
             \/ WriteFails(e) \/ ReadFails(e)
      PROVE  ListenerIsPinged'
  BY <1>0, <1>2, <1>3
  DEF DialSucceeds, DialFails, WaitTimesOut, AttemptFails, ReadStreams, WriteFails, ReadFails,
      pingVars
<1>4. ASSUME NEW e \in Exchange, WriteSubscriptions(e) PROVE ListenerIsPinged'
  <2>1. ASSUME NEW d \in Pinged
        PROVE  IF d = e THEN pingers'[d].idle = pingers[d].idle + 1
                             /\ pingers'[d].current = pingers[d].current
               ELSE pingers'[d] = pingers[d] /\ mgr'[d] = mgr[d]
    BY <1>0, <1>4 DEF WriteSubscriptions, StartPinger
  <2>2. ASSUME NEW d \in Exchange
        PROVE  pingers[d].idle \in Nat /\ pingers[d].current \in Nat
    BY <1>0
  <2> QED
    BY <1>0, <1>4, <2>1, <2>2 DEF WriteSubscriptions, ListenerIsPinged
<1>5. ASSUME NEW e \in Exchange, PingTick(e) PROVE ListenerIsPinged'
  <2>1. UNCHANGED <<mgr, conn, pingFailed>>
    BY <1>5 DEF PingTick, connVars
  <2>2. ASSUME NEW d \in Exchange, conn[d] # "nil"
        PROVE  pingers'[d].idle + pingers'[d].current = pingers[d].idle + pingers[d].current
    BY <1>0, <1>5, <2>2 DEF PingTick
  <2> QED
    BY <1>0, <2>1, <2>2 DEF ListenerIsPinged
<1>6. ASSUME NEW e \in Exchange, PingSent(e) PROVE ListenerIsPinged'
  <2>1. UNCHANGED <<mgr, conn, pingFailed>>
    BY <1>6 DEF PingSent, connVars
  <2>2. ASSUME NEW d \in Exchange
        PROVE  pingers'[d].idle + pingers'[d].current = pingers[d].idle + pingers[d].current
    BY <1>0, <1>6 DEF PingSent
  <2> QED
    BY <1>0, <2>1, <2>2 DEF ListenerIsPinged
<1>7. ASSUME NEW e \in Exchange, PingFails(e) PROVE ListenerIsPinged'
  <2>1. ASSUME NEW d \in Exchange, ~pingFailed'[d]
        PROVE  /\ pingers'[d].idle = pingers[d].idle
               /\ pingers'[d].current = pingers[d].current
               /\ ~pingFailed[d]
    BY <1>0, <1>7, <2>1 DEF PingFails
  <2> QED
    BY <1>0, <1>7, <2>1 DEF PingFails, ListenerIsPinged
<1>8. ASSUME UNCHANGED <<mgr, pingers, pingFailed>> PROVE ListenerIsPinged'
  BY <1>8 DEF ListenerIsPinged
<1>9. ASSUME NEW e \in Exchange,
             \/ Message(e) \/ GoQuiet(e) \/ WritesCollide(e) \/ BackoffEnds(e)
             \/ ConnectionAges(e) \/ MinuteWithoutMessage(e)
      PROVE  UNCHANGED <<mgr, pingers, pingFailed>>
  BY <1>9 DEF Message, GoQuiet, WritesCollide, BackoffEnds, ConnectionAges,
              MinuteWithoutMessage, connVars, pingVars
<1>10. CASE UNCHANGED mgrVars
  BY <1>8, <1>10 DEF mgrVars, connVars, pingVars
<1> QED
  BY <1>1, <1>3, <1>4, <1>5, <1>6, <1>7, <1>8, <1>9, <1>10, FeedNextCases DEF feedVars

\* The managers' invariant holds at the start and is kept by every step.
LEMMA FeedInvariant == FeedSpec => []FeedInv
<1>1. FeedInit => FeedInv
  <2> SUFFICES ASSUME FeedInit PROVE FeedInv
    OBVIOUS
  <2>1. ManagerShape
    <3>1. [idle |-> 0, current |-> 0, closed |-> 0] \in [idle : Nat, current : Nat, closed : Nat]
      OBVIOUS
    <3>2. pingers \in [Exchange -> [idle : Nat, current : Nat, closed : Nat]]
      BY <3>1 DEF FeedInit
    <3>3. {} \in SUBSET Symbol /\ faults \in 0..MaxFaults
      BY FeedConstants DEF FeedInit
    <3>4. found \in [Exchange -> SUBSET Symbol] /\ sent \in [Exchange -> SUBSET Symbol]
      BY <3>3 DEF FeedInit
    <3>5. /\ {isHealthy, isConnecting, isSubscribed, inBackoff} \subseteq [Exchange -> BOOLEAN]
          /\ {justConnected, fresh, locked, pingFailed} \subseteq [Exchange -> BOOLEAN]
          /\ crashed \in BOOLEAN
      BY DEF FeedInit
    <3>6. /\ mgr \in [Exchange -> {"select", "dial", "wait", "write", "listen"}]
          /\ conn \in [Exchange -> {"nil", "open", "quiet"}]
      BY DEF FeedInit
    <3> QED
      BY <3>2, <3>3, <3>4, <3>5, <3>6 DEF ManagerShape
  <2>2. FlagsMatchConnection /\ DialedHasConnection
    <3>1. ASSUME NEW e \in Exchange
          PROVE  /\ mgr[e] = "select" /\ conn[e] = "nil" /\ sent[e] = {}
                 /\ isHealthy[e] = FALSE /\ isConnecting[e] = FALSE
      BY DEF FeedInit
    <3> QED
      BY <3>1 DEF FlagsMatchConnection, DialedHasConnection
  <2>3. ListenerIsPinged
    BY FeedConstants DEF FeedInit, ListenerIsPinged
  <2> QED
    BY <2>1, <2>2, <2>3 DEF FeedInv
<1>2. FeedInv /\ [FeedNext]_feedVars => FeedInv'
  BY ManagerShapeStep, FlagsStep, PingedStep DEF FeedInv
<1> QED
  BY <1>1, <1>2, PTL DEF FeedSpec

\* Type correctness of the composition: whatever faults, ticks and signals come in
\* whatever order, no count of ping goroutines is taken below 0.
THEOREM FeedTypeCorrect == FeedSpec => []FeedTypeOK
<1>1. TypeOK /\ FeedInv => FeedTypeOK
  BY DEF FeedInv, ManagerShape, FeedTypeOK
<1> QED
  BY <1>1, FeedInvariant, FeedCountsAreExact, PTL

\* The flags of manageExchangeConnection tell where its manager is: a manager in its
\* select is neither healthy nor connecting, so only the backoff skips a signal, and a
\* manager that listens has a connection and has subscribed on it.
THEOREM FlagsAreTrue == FeedSpec => []FlagsMatchConnection
<1>1. FeedInv => FlagsMatchConnection
  BY DEF FeedInv
<1> QED
  BY <1>1, FeedInvariant, PTL

\* A connection that is listened to has a sendPeriodicPing goroutine that serves it,
\* unless a ping failed on it, however late the goroutines of earlier connections end.
THEOREM ListenersArePinged == FeedSpec => []ListenerIsPinged
<1>1. FeedInv => ListenerIsPinged
  BY DEF FeedInv
<1> QED
  BY <1>1, FeedInvariant, PTL

================================================================================

-------------------------- MODULE FetchedListsProofs ---------------------------
(* Proofs about the two services that replace a list from outside while others *)
(* work through copies of it.                                                  *)
(*                                                                             *)
(* SymbolManager: for any finite set of requests that force a refresh, any     *)
(* lists (with repetitions too), any strategy and any sizes.                   *)
(* ProxyDial: for any proxies and texts, any managers and number of faults.    *)
EXTENDS SymbolManager, ProxyDial, FiniteSetTheorems, TLAPS

Location == {"wait", "idle", "get", "fetch", "put", "check", "call", "mark", "done"}

\* A goroutine at one of these has something in its list.
Holding == {"put", "check", "call", "mark"}

\* What the variables are, and that the fetcher's own goroutine never runs
\* refreshAndSubscribe.
Shape ==
    /\ backend \in Lists
    /\ symbols \in Seq(Symbol) \ {<<>>}
    /\ subscribed \subseteq Symbol
    /\ refs \in [Symbol -> Nat]
    /\ pc \in [Fetcher -> Location]
    /\ todo \in [Fetcher -> Seq(Symbol)]
    /\ \A g \in Fetcher : pc[g] \in Holding => todo[g] # <<>>
    /\ pc["auto"] \notin {"get", "check", "call", "mark"}

\* Every list that is subscribed from has only symbols that were listed; the fetcher's own
\* list, which starts as the curated one, is used only after a fetch has replaced it.
OnlyListed ==
    /\ ToSet(backend) \subseteq ever
    /\ fresh => ToSet(symbols) \subseteq ever
    /\ \A g \in Fetcher : pc[g] \in Holding => ToSet(todo[g]) \subseteq ever
    /\ subscribed \subseteq ever

\* The refreshers about to subscribe a symbol they have seen unmarked, and those that have
\* subscribed it and not marked it yet.
Calling(s) == {g \in Refresher : pc[g] = "call" /\ Head(todo[g]) = s}
Marking(s) == {g \in Refresher : pc[g] = "mark" /\ Head(todo[g]) = s}

\* Until a symbol is marked its references are those of the refreshers about to mark it;
\* from then on only refreshers that were at the call already can add to them.
Accounted ==
    \A s \in Symbol :
        IF s \in subscribed
        THEN refs[s] > 0 /\ refs[s] + Cardinality(Calling(s)) <= Cardinality(Refresher)
        ELSE refs[s] = Cardinality(Marking(s))

--------------------------------------------------------------------------------
\* A set of positions has an n-th smallest member for every n up to its size: the number
\* of members up to a member is a one-to-one map onto 1..Cardinality(P).
LEMMA NthExists ==
    ASSUME NEW P \in SUBSET Nat, IsFiniteSet(P), NEW n \in 1..Cardinality(P)
    PROVE  Nth(P, n) \in P
<1> DEFINE Upto(i) == {k \in P : k <= i}
           f == [i \in P |-> Cardinality(Upto(i))]
<1>1. Cardinality(P) \in Nat
  BY FS_CardinalityType
<1>2. ASSUME NEW i \in P
      PROVE  IsFiniteSet(Upto(i)) /\ Cardinality(Upto(i)) \in 1..Cardinality(P)
  <2>1. Upto(i) \in SUBSET P /\ Upto(i) # {}
    OBVIOUS
  <2>2. IsFiniteSet(Upto(i)) /\ Cardinality(Upto(i)) <= Cardinality(P)
    BY <2>1, FS_Subset
  <2>3. Cardinality(Upto(i)) \in Nat /\ Cardinality(Upto(i)) # 0
    BY <2>1, <2>2, FS_CardinalityType, FS_EmptySet
  <2> QED
    BY <1>1, <2>2, <2>3
<1>3. ASSUME NEW i \in P, NEW j \in P, i < j
      PROVE  Cardinality(Upto(i)) # Cardinality(Upto(j))
  <2>1. \A k \in P : k \in Nat
    OBVIOUS
  <2>2. \A k \in P : k <= i => k <= j
    BY <1>3, <2>1
  <2>3. j <= j /\ ~(j <= i)
    BY <1>3, <2>1
  <2>4. Upto(i) \in SUBSET Upto(j) /\ j \in Upto(j) /\ j \notin Upto(i)
    BY <2>2, <2>3
  <2>5. IsFiniteSet(Upto(j))
    BY <1>2
  <2>6. Cardinality(Upto(j)) = Cardinality(Upto(i)) => Upto(j) = Upto(i)
    BY <2>4, <2>5, FS_Subset
  <2> QED
    BY <2>4, <2>6
<1>4. f \in Injection(P, 1..Cardinality(P))
  <2>1. f \in [P -> 1..Cardinality(P)]
    BY <1>2
  <2>2. ASSUME NEW i \in P, NEW j \in P, f[i] = f[j]
        PROVE  i = j
    <3>1. i \in Nat /\ j \in Nat
      OBVIOUS
    <3>2. f[i] = Cardinality(Upto(i)) /\ f[j] = Cardinality(Upto(j))
      OBVIOUS
    <3>3. ~(i < j) /\ ~(j < i)
      BY <1>3, <2>2, <3>2
    <3> QED
      BY <3>1, <3>3
  <2> QED
    BY <2>1, <2>2 DEF Injection, IsInjective
<1>5. IsFiniteSet(1..Cardinality(P)) /\ Cardinality(1..Cardinality(P)) = Cardinality(P)
  BY <1>1, FS_Interval
<1>6. f \in Surjection(P, 1..Cardinality(P))
  BY <1>4, <1>5, FS_Injection
<1>7. PICK m \in P : f[m] = n
  BY <1>6 DEF Surjection
<1>8. \E i \in P : Cardinality(Upto(i)) = n
  BY <1>7
<1> QED
  BY <1>8 DEF Nth

\* What is kept of a list is a list of entries of the list; when the last one is kept, it
\* stays the last.
LEMMA KeptFacts ==
    ASSUME NEW S, NEW l \in Seq(S), NEW P \in SUBSET (DOMAIN l)
    PROVE  /\ Kept(l, P) \in Seq(S) /\ Len(Kept(l, P)) = Cardinality(P)
           /\ DOMAIN Kept(l, P) = 1..Cardinality(P)
           /\ \A n \in DOMAIN Kept(l, P) : \E i \in P : Kept(l, P)[n] = l[i]
           /\ Len(l) \in P => /\ Len(Kept(l, P)) > 0
                             /\ Kept(l, P)[Len(Kept(l, P))] = l[Len(l)]
<1>1. DOMAIN l = 1..Len(l) /\ Len(l) \in Nat
  OBVIOUS
<1>2. P \in SUBSET Nat /\ \A i \in P : i <= Len(l)
  BY <1>1
<1>3. IsFiniteSet(P) /\ Cardinality(P) \in Nat
  <2>1. IsFiniteSet(1..Len(l))
    BY <1>1, FS_Interval
  <2>2. IsFiniteSet(P)
    BY <1>1, <2>1, FS_Subset
  <2> QED
    BY <2>2, FS_CardinalityType
<1>4. \A n \in 1..Cardinality(P) : Nth(P, n) \in P
  BY <1>2, <1>3, NthExists
<1>5. Kept(l, P) = [n \in 1..Cardinality(P) |-> l[Nth(P, n)]]
  BY DEF Kept
<1>6. \A n \in 1..Cardinality(P) : l[Nth(P, n)] \in S
  BY <1>4
<1>7. /\ Kept(l, P) \in Seq(S) /\ Len(Kept(l, P)) = Cardinality(P)
      /\ DOMAIN Kept(l, P) = 1..Cardinality(P)
  BY <1>3, <1>5, <1>6
<1>8. \A n \in DOMAIN Kept(l, P) : \E i \in P : Kept(l, P)[n] = l[i]
  BY <1>4, <1>5, <1>7
<1>9. ASSUME Len(l) \in P
      PROVE  Cardinality(P) > 0 /\ Nth(P, Cardinality(P)) = Len(l)
  <2> DEFINE Upto(i) == {k \in P : k <= i}
  <2>1. Cardinality(P) # 0
    BY <1>3, <1>9, FS_EmptySet
  <2>2. Upto(Len(l)) = P
    BY <1>2
  <2>3. Nth(P, Cardinality(P)) \in P /\ Cardinality(Upto(Nth(P, Cardinality(P)))) = Cardinality(P)
    <3>1. \E i \in P : Cardinality(Upto(i)) = Cardinality(P)
      BY <1>9, <2>2
    <3> QED
      BY <3>1 DEF Nth
  <2>4. Upto(Nth(P, Cardinality(P))) = P
    <3>1. Upto(Nth(P, Cardinality(P))) \in SUBSET P
      OBVIOUS
    <3> QED
      BY <1>3, <2>3, <3>1, FS_Subset
  <2>5. Len(l) <= Nth(P, Cardinality(P))
    BY <1>9, <2>4
  <2> QED
    BY <1>1, <1>2, <1>3, <2>1, <2>3, <2>5
<1> QED
  BY <1>3, <1>5, <1>7, <1>8, <1>9

\* getPopularSymbols answers with symbols of the list it is given.
LEMMA PopularIsListed ==
    ASSUME NEW l \in Seq(Symbol)
    PROVE  PopularOf(l) \in Seq(Symbol) /\ ToSet(PopularOf(l)) \subseteq ToSet(l)
<1>1. Popular \in Seq(Symbol) /\ Listed(l) \in SUBSET (DOMAIN Popular)
  BY SymbolLists DEF Listed
<1>2. /\ PopularOf(l) \in Seq(Symbol)
      /\ \A n \in DOMAIN PopularOf(l) : \E i \in Listed(l) : PopularOf(l)[n] = Popular[i]
  BY <1>1, KeptFacts DEF PopularOf
<1>3. \A n \in DOMAIN PopularOf(l) : PopularOf(l)[n] \in ToSet(l)
  BY <1>2 DEF Listed
<1> QED
  BY <1>2, <1>3 DEF ToSet

\* applyStrategy picks from the list it is given.
LEMMA StrategyPicks ==
    ASSUME NEW l \in Seq(Symbol)
    PROVE  ApplyStrategy(l) \in Seq(Symbol) /\ ToSet(ApplyStrategy(l)) \subseteq ToSet(l)
<1>1. ASSUME NEW n \in Nat
      PROVE  Top(l, n) \in Seq(Symbol) /\ ToSet(Top(l, n)) \subseteq ToSet(l)
  BY DEF Top, ToSet
<1>2. /\ Top(l, MaxSymbols) \in Seq(Symbol) /\ ToSet(Top(l, MaxSymbols)) \subseteq ToSet(l)
      /\ Top(l, FallbackTop) \in Seq(Symbol) /\ ToSet(Top(l, FallbackTop)) \subseteq ToSet(l)
  BY <1>1, SymbolSizes
<1>3. ApplyStrategy(l) \in {l, PopularOf(l), Top(l, MaxSymbols), Top(l, FallbackTop)}
  BY Zenon DEF ApplyStrategy
<1> QED
  BY <1>2, <1>3, PopularIsListed

--------------------------------------------------------------------------------
\* Every step is a step of a goroutine, a change of the backend's list or the end of the
\* cached list's time.
LEMMA NextCases ==
    ASSUME Next
    PROVE  \/ \E g \in Fetcher : \/ GetSymbols(g) \/ FetchAnswered(g) \/ FetchFails(g)
                                 \/ StoreSymbols(g) \/ Check(g) \/ Subscribe(g) \/ Mark(g)
                                 \/ Tick(g) \/ ForceRefresh(g)
           \/ \E l \in Lists : BackendChanges(l)
           \/ CacheAges
BY Zenon DEF Next, Step, Fetcher, Refresher

\* A goroutine goes on to w with the list t.
Moves(g, w, t) ==
    /\ pc' = [pc EXCEPT ![g] = w]
    /\ todo' = [todo EXCEPT ![g] = t]

\* What a goroutine's step has to establish of its new position and list.
MayMove(g, w, t) ==
    /\ w \in Location /\ t \in Seq(Symbol)
    /\ w \in Holding => t # <<>> /\ ToSet(t) \subseteq ever
    /\ g = "auto" => w \notin {"get", "check", "call", "mark"}

\* A goroutine's move that establishes this keeps the shape and the lists.
LEMMA Moved ==
    ASSUME Shape, OnlyListed, NEW g \in Fetcher, NEW w, NEW t,
           Moves(g, w, t), MayMove(g, w, t),
           backend' = backend, ever' = ever,
           symbols' \in Seq(Symbol) \ {<<>>},
           fresh' => ToSet(symbols') \subseteq ever,
           subscribed' \subseteq Symbol, subscribed' \subseteq ever,
           refs' \in [Symbol -> Nat]
    PROVE  Shape' /\ OnlyListed'
<1>1. /\ pc' \in [Fetcher -> Location] /\ todo' \in [Fetcher -> Seq(Symbol)]
      /\ pc'[g] = w /\ todo'[g] = t
      /\ \A h \in Fetcher \ {g} : pc'[h] = pc[h] /\ todo'[h] = todo[h]
  BY DEF Moves, MayMove, Shape
<1>2. \A h \in Fetcher : pc'[h] \in Holding => todo'[h] # <<>> /\ ToSet(todo'[h]) \subseteq ever
  BY <1>1 DEF MayMove, Shape, OnlyListed
<1>3. pc'["auto"] \notin {"get", "check", "call", "mark"}
  BY <1>1 DEF MayMove, Shape, Fetcher
<1>4. ToSet(backend)' = ToSet(backend) /\ ToSet(symbols)' = ToSet(symbols')
  BY DEF ToSet
<1>5. Shape'
  BY <1>1, <1>2, <1>3 DEF Shape
<1>6. \A h \in Fetcher : ToSet(todo[h])' = ToSet(todo'[h])
  BY DEF ToSet
<1>7. OnlyListed'
  BY <1>2, <1>4, <1>6 DEF OnlyListed
<1> QED
  BY <1>5, <1>7

\* refreshAndSubscribe has returned.
LEMMA LeaveMoves ==
    ASSUME NEW g \in Fetcher, Leave(g)
    PROVE  \E w \in {"done", "idle"} : pc' = [pc EXCEPT ![g] = w]
BY DEF Leave

\* The loop begins, over symbols of the list it is given, or there is nothing to do.
LEMMA BeginLoopMoves ==
    ASSUME NEW g \in Refresher, NEW l \in Seq(Symbol) \ {<<>>}, BeginLoop(g, l),
           ToSet(l) \subseteq ever
    PROVE  \E w \in {"done", "idle", "check"}, t \in Seq(Symbol) :
              Moves(g, w, t) /\ MayMove(g, w, t)
<1> DEFINE t == ApplyStrategy(l)
<1>1. t \in Seq(Symbol) /\ ToSet(t) \subseteq ever
  BY StrategyPicks
<1>2. g \in Fetcher /\ g # "auto"
  BY RefreshersDistinct DEF Refresher, Fetcher
<1>3. /\ todo' = [todo EXCEPT ![g] = t]
      /\ IF t = <<>> THEN Leave(g) ELSE ToPc(g, "check")
  BY DEF BeginLoop
<1> HIDE DEF t
<1>4. \E w \in {"done", "idle", "check"} :
          pc' = [pc EXCEPT ![g] = w] /\ (w = "check" => t # <<>>)
  BY <1>2, <1>3, LeaveMoves DEF ToPc
<1> QED
  BY <1>1, <1>2, <1>3, <1>4 DEF Moves, MayMove, Location, Holding

\* The loop goes to the rest of its list, if there is one.
LEMMA NextSymbolMoves ==
    ASSUME Shape, OnlyListed, NEW g \in Fetcher, pc[g] \in {"check", "mark"}, NextSymbol(g)
    PROVE  \E w \in {"done", "idle", "check"}, t \in Seq(Symbol) :
              Moves(g, w, t) /\ MayMove(g, w, t)
<1> DEFINE t == Tail(todo[g])
<1>1. /\ todo[g] \in Seq(Symbol) /\ todo[g] # <<>> /\ ToSet(todo[g]) \subseteq ever
      /\ g # "auto"
  BY DEF Shape, OnlyListed, Holding
<1>2. /\ t \in Seq(Symbol) /\ (Len(todo[g]) # 1 => t # <<>>)
      /\ ToSet(t) \subseteq ToSet(todo[g])
  <2>1. /\ t \in Seq(Symbol) /\ Len(t) = Len(todo[g]) - 1 /\ Len(todo[g]) \in Nat \ {0}
        /\ \A i \in 1..Len(t) : t[i] = todo[g][i + 1]
    BY <1>1
  <2>2. DOMAIN t = 1..Len(t) /\ DOMAIN todo[g] = 1..Len(todo[g])
    BY <1>1, <2>1
  <2> HIDE DEF t
  <2>3. ASSUME NEW i \in 1..Len(t)
        PROVE  i + 1 \in DOMAIN todo[g] /\ t[i] = todo[g][i + 1]
    BY <2>1, <2>2
  <2>4. ToSet(t) \subseteq ToSet(todo[g])
    BY <2>2, <2>3 DEF ToSet
  <2>5. t = <<>> => Len(t) = 0
    OBVIOUS
  <2> QED
    BY <2>1, <2>4, <2>5
<1>3. /\ todo' = [todo EXCEPT ![g] = t]
      /\ IF Len(todo[g]) = 1 THEN Leave(g) ELSE ToPc(g, "check")
  BY DEF NextSymbol
<1> HIDE DEF t
<1>4. \E w \in {"done", "idle", "check"} :
          pc' = [pc EXCEPT ![g] = w] /\ (w = "check" => t # <<>>)
  BY <1>2, <1>3, LeaveMoves DEF ToPc
<1> QED
  BY <1>1, <1>2, <1>3, <1>4 DEF Moves, MayMove, Location, Holding

\* The curated list is never subscribed from: a goroutine gets the fetcher's list only
\* when it is fresh, and it is fresh only after a fetch.
LEMMA ListedStep ==
    ASSUME Shape, OnlyListed, Next
    PROVE  Shape' /\ OnlyListed'
<1>1. ASSUME NEW g \in Fetcher, GetSymbols(g)
      PROVE  Shape' /\ OnlyListed'
  <2>1. g \in Refresher
    BY <1>1 DEF GetSymbols, Shape, Fetcher
  <2>2. CASE fresh /\ symbols # <<>>
    <3>1. BeginLoop(g, symbols)
      BY <1>1, <2>2 DEF GetSymbols
    <3>2. PICK w \in {"done", "idle", "check"}, t \in Seq(Symbol) :
              Moves(g, w, t) /\ MayMove(g, w, t)
      BY <2>1, <2>2, <3>1, BeginLoopMoves DEF Shape, OnlyListed
    <3> QED
      BY <1>1, <3>2, Moved DEF GetSymbols, Shape, OnlyListed
  <2>3. CASE ~(fresh /\ symbols # <<>>)
    <3>1. Moves(g, "fetch", todo[g])
      BY <1>1, <2>3 DEF GetSymbols, ToPc, Moves, Shape
    <3>2. MayMove(g, "fetch", todo[g])
      BY DEF MayMove, Shape, Location, Holding
    <3> QED
      BY <1>1, <3>1, <3>2, Moved DEF GetSymbols, Shape, OnlyListed
  <2> QED
    BY <2>2, <2>3
<1>2. ASSUME NEW g \in Fetcher, FetchAnswered(g)
      PROVE  Shape' /\ OnlyListed'
  <2>1. Moves(g, "put", backend)
    BY <1>2 DEF FetchAnswered, ToPc, Moves
  <2>2. MayMove(g, "put", backend)
    BY SymbolLists DEF MayMove, Shape, OnlyListed, Location, Holding
  <2> QED
    BY <1>2, <2>1, <2>2, Moved DEF FetchAnswered, Shape, OnlyListed
<1>3. ASSUME NEW g \in Fetcher, FetchFails(g)
      PROVE  Shape' /\ OnlyListed'
  <2>1. PICK w \in {"done", "idle"} : pc' = [pc EXCEPT ![g] = w]
    BY <1>3, LeaveMoves DEF FetchFails
  <2>2. Moves(g, w, todo[g])
    BY <1>3, <2>1 DEF FetchFails, Moves, Shape
  <2>3. MayMove(g, w, todo[g])
    BY DEF MayMove, Shape, Location, Holding
  <2> QED
    BY <1>3, <2>2, <2>3, Moved DEF FetchFails, Shape, OnlyListed
<1>4. ASSUME NEW g \in Fetcher, StoreSymbols(g)
      PROVE  Shape' /\ OnlyListed'
  <2>1. todo[g] \in Seq(Symbol) \ {<<>>} /\ ToSet(todo[g]) \subseteq ever
    BY <1>4 DEF StoreSymbols, Shape, OnlyListed, Holding
  <2>2. \E w, t : Moves(g, w, t) /\ MayMove(g, w, t)
    <3>1. CASE g = "auto"
      <4>1. Moves(g, "idle", todo[g])
        BY <1>4, <3>1 DEF StoreSymbols, ToPc, Moves, Shape
      <4>2. MayMove(g, "idle", todo[g])
        BY DEF MayMove, Shape, Location, Holding
      <4> QED
        BY <4>1, <4>2
    <3>2. CASE g # "auto"
      <4>1. g \in Refresher /\ BeginLoop(g, todo[g])
        BY <1>4, <3>2 DEF StoreSymbols, Fetcher
      <4> QED
        BY <2>1, <4>1, BeginLoopMoves
    <3> QED
      BY <3>1, <3>2
  <2>3. PICK w, t : Moves(g, w, t) /\ MayMove(g, w, t)
    BY <2>2
  <2> QED
    BY <1>4, <2>1, <2>3, Moved DEF StoreSymbols, Shape, OnlyListed
<1>5. ASSUME NEW g \in Fetcher, Check(g)
      PROVE  Shape' /\ OnlyListed'
  <2>1. CASE Head(todo[g]) \in subscribed
    <3>1. PICK w \in {"done", "idle", "check"}, t \in Seq(Symbol) :
              Moves(g, w, t) /\ MayMove(g, w, t)
      BY <1>5, <2>1, NextSymbolMoves DEF Check
    <3> QED
      BY <1>5, <3>1, Moved DEF Check, Shape, OnlyListed
  <2>2. CASE Head(todo[g]) \notin subscribed
    <3>1. Moves(g, "call", todo[g])
      BY <1>5, <2>2 DEF Check, ToPc, Moves, Shape
    <3>2. MayMove(g, "call", todo[g])
      BY <1>5 DEF Check, MayMove, Shape, OnlyListed, Location, Holding
    <3> QED
      BY <1>5, <3>1, <3>2, Moved DEF Check, Shape, OnlyListed
  <2> QED
    BY <2>1, <2>2
<1>6. ASSUME NEW g \in Fetcher, Subscribe(g)
      PROVE  Shape' /\ OnlyListed'
  <2>1. Moves(g, "mark", todo[g])
    BY <1>6 DEF Subscribe, ToPc, Moves, Shape
  <2>2. MayMove(g, "mark", todo[g])
    BY <1>6 DEF Subscribe, MayMove, Shape, OnlyListed, Location, Holding
  <2>3. refs' \in [Symbol -> Nat]
    <3>1. refs' = [refs EXCEPT ![Head(todo[g])] = @ + 1] /\ refs \in [Symbol -> Nat]
      BY <1>6 DEF Subscribe, Shape
    <3>2. PICK s \in Symbol : s = Head(todo[g])
      BY <1>6 DEF Subscribe, Shape, Holding
    <3>3. refs' = [refs EXCEPT ![s] = refs[s] + 1]
      BY <3>1, <3>2
    <3>4. refs[s] + 1 \in Nat
      BY <3>1
    <3> QED
      BY <3>1, <3>3, <3>4
  <2> QED
    BY <1>6, <2>1, <2>2, <2>3, Moved DEF Subscribe, Shape, OnlyListed
<1>7. ASSUME NEW g \in Fetcher, Mark(g)
      PROVE  Shape' /\ OnlyListed'
  <2>1. PICK w \in {"done", "idle", "check"}, t \in Seq(Symbol) :
            Moves(g, w, t) /\ MayMove(g, w, t)
    BY <1>7, NextSymbolMoves DEF Mark
  <2>2. Head(todo[g]) \in Symbol /\ Head(todo[g]) \in ever
    <3>1. todo[g] \in Seq(Symbol) /\ todo[g] # <<>> /\ ToSet(todo[g]) \subseteq ever
      BY <1>7 DEF Mark, Shape, OnlyListed, Holding
    <3>2. Head(todo[g]) \in Symbol /\ Head(todo[g]) = todo[g][1] /\ 1 \in DOMAIN todo[g]
      BY <3>1
    <3> QED
      BY <3>1, <3>2 DEF ToSet
  <2>3. subscribed' = subscribed \cup {Head(todo[g])}
    BY <1>7 DEF Mark
  <2>4. subscribed' \subseteq Symbol /\ subscribed' \subseteq ever
    BY <2>2, <2>3 DEF Shape, OnlyListed
  <2> QED
    BY <1>7, <2>1, <2>4, Moved DEF Mark, Shape, OnlyListed
<1>8. ASSUME NEW g \in Fetcher, Tick(g) \/ ForceRefresh(g)
      PROVE  Shape' /\ OnlyListed'
  <2>1. PICK w \in {"fetch", "get"} : pc' = [pc EXCEPT ![g] = w] /\ (g = "auto" => w = "fetch")
    BY <1>8, RefreshersDistinct DEF Tick, ForceRefresh, ToPc
  <2>2. Moves(g, w, todo[g])
    BY <1>8, <2>1 DEF Tick, ForceRefresh, Moves, Shape
  <2>3. MayMove(g, w, todo[g])
    BY <2>1 DEF MayMove, Shape, Location, Holding
  <2>4. UNCHANGED <<backend, symbols, fresh, subscribed, refs, ever>>
    BY <1>8 DEF Tick, ForceRefresh
  <2> QED
    BY <2>2, <2>3, <2>4, Moved DEF Shape, OnlyListed
<1>9. ASSUME NEW l \in Lists, BackendChanges(l)
      PROVE  Shape' /\ OnlyListed'
  <2>1. ToSet(backend)' = ToSet(l) /\ ever' = ever \cup ToSet(l)
    BY <1>9 DEF BackendChanges, ToSet
  <2>2. Shape'
    BY <1>9 DEF BackendChanges, Shape
  <2>3. /\ ToSet(symbols)' = ToSet(symbols)
        /\ \A g \in Fetcher : ToSet(todo[g])' = ToSet(todo[g]) /\ pc'[g] = pc[g]
    BY <1>9 DEF BackendChanges, ToSet
  <2>4. OnlyListed'
    BY <1>9, <2>1, <2>3 DEF BackendChanges, OnlyListed
  <2> QED
    BY <2>2, <2>4
<1>10. ASSUME CacheAges
       PROVE  Shape' /\ OnlyListed'
  BY <1>10 DEF CacheAges, Shape, OnlyListed, ToSet
<1> QED
  BY <1>1, <1>2, <1>3, <1>4, <1>5, <1>6, <1>7, <1>8, <1>9, <1>10, NextCases

--------------------------------------------------------------------------------
\* The sets that Accounted counts are finite, and no refresher is in two of them.
LEMMA Countable ==
    ASSUME NEW s \in Symbol
    PROVE  /\ IsFiniteSet(Refresher) /\ Cardinality(Refresher) \in Nat
           /\ IsFiniteSet(Calling(s)) /\ Cardinality(Calling(s)) \in Nat
           /\ IsFiniteSet(Marking(s)) /\ Cardinality(Marking(s)) \in Nat
           /\ Cardinality(Marking(s)) <= Cardinality(Refresher)
           /\ Cardinality(Calling(s)) + Cardinality(Marking(s)) <= Cardinality(Refresher)
<1>1. IsFiniteSet(Refresher)
  <2>1. IsFiniteSet(Forced \cup {"manager"})
    BY RefreshersDistinct, FS_AddElement
  <2>2. Refresher = Forced \cup {"manager"}
    BY DEF Refresher
  <2> QED
    BY <2>1, <2>2
<1>2. /\ Calling(s) \in SUBSET Refresher /\ Marking(s) \in SUBSET Refresher
      /\ Calling(s) \cap Marking(s) = {} /\ Calling(s) \cup Marking(s) \in SUBSET Refresher
  BY DEF Calling, Marking
<1>3. /\ IsFiniteSet(Calling(s)) /\ IsFiniteSet(Marking(s))
      /\ Cardinality(Marking(s)) <= Cardinality(Refresher)
      /\ Cardinality(Calling(s) \cup Marking(s)) <= Cardinality(Refresher)
  BY <1>1, <1>2, FS_Subset
<1>4. /\ Cardinality(Refresher) \in Nat /\ Cardinality(Calling(s)) \in Nat
      /\ Cardinality(Marking(s)) \in Nat
  BY <1>1, <1>3, FS_CardinalityType
<1>5. Cardinality(Calling(s) \cup Marking(s))
        = Cardinality(Calling(s)) + Cardinality(Marking(s)) - Cardinality({})
  BY <1>2, <1>3, FS_Union
<1> QED
  BY <1>1, <1>3, <1>4, <1>5, FS_EmptySet

\* A move takes the refresher out of the set it was in and puts it where it now is.
LEMMA Recounted ==
    ASSUME Shape, NEW g \in Refresher, NEW w, NEW t, Moves(g, w, t), NEW s \in Symbol
    PROVE  /\ Calling(s)' = (Calling(s) \ {g}) \cup {h \in {g} : w = "call" /\ Head(t) = s}
           /\ Marking(s)' = (Marking(s) \ {g}) \cup {h \in {g} : w = "mark" /\ Head(t) = s}
<1>1. /\ pc'[g] = w /\ todo'[g] = t
      /\ \A h \in Refresher \ {g} : pc'[h] = pc[h] /\ todo'[h] = todo[h]
  BY DEF Moves, Shape, Fetcher
<1> QED
  BY <1>1 DEF Calling, Marking

\* Moves elsewhere leave the account as it is.
LEMMA QuietMove ==
    ASSUME Shape, Accounted, NEW g \in Fetcher, NEW w, NEW t, Moves(g, w, t),
           pc[g] \notin {"call", "mark"}, w \notin {"call", "mark"},
           refs' = refs, subscribed' = subscribed
    PROVE  Accounted'
<1>1. ASSUME NEW s \in Symbol
      PROVE  Calling(s)' = Calling(s) /\ Marking(s)' = Marking(s)
  <2>1. CASE g \in Refresher
    <3>1. g \notin Calling(s) /\ g \notin Marking(s)
      BY DEF Calling, Marking
    <3> QED
      BY <2>1, <3>1, Recounted
  <2>2. CASE g \notin Refresher
    <3>1. \A h \in Refresher : pc'[h] = pc[h] /\ todo'[h] = todo[h]
      BY <2>2 DEF Moves, Shape, Fetcher
    <3> QED
      BY <3>1 DEF Calling, Marking
  <2> QED
    BY <2>1, <2>2
<1> QED
  BY <1>1 DEF Accounted

\* Only refreshers check, subscribe and mark.
LEMMA IsRefresher ==
    ASSUME Shape, NEW g \in Fetcher, pc[g] \in {"check", "call", "mark"}
    PROVE  /\ g \in Refresher
           /\ Head(todo[g]) \in Symbol
BY DEF Shape, Fetcher, Holding

\* A refresher finds a symbol unmarked: it may subscribe it, whatever happens in between.
LEMMA CheckStep ==
    ASSUME Shape, OnlyListed, Accounted, NEW g \in Fetcher, Check(g)
    PROVE  Accounted'
<1>1. refs' = refs /\ subscribed' = subscribed /\ pc[g] = "check" /\ g \in Refresher
  BY IsRefresher DEF Check
<1>2. CASE Head(todo[g]) \in subscribed
  <2>1. PICK w \in {"done", "idle", "check"}, t \in Seq(Symbol) : Moves(g, w, t)
    BY <1>2, NextSymbolMoves DEF Check
  <2> QED
    BY <1>1, <2>1, QuietMove
<1>3. CASE Head(todo[g]) \notin subscribed
  <2>1. Moves(g, "call", todo[g])
    BY <1>3 DEF Check, ToPc, Moves, Shape
  <2>2. ASSUME NEW s \in Symbol
        PROVE  /\ Marking(s)' = Marking(s)
               /\ s \in subscribed => Calling(s)' = Calling(s)
    <3>1. g \notin Calling(s) /\ g \notin Marking(s)
      BY <1>1 DEF Calling, Marking
    <3> QED
      BY <1>1, <1>3, <2>1, <3>1, Recounted
  <2> QED
    BY <1>1, <2>2 DEF Accounted
<1> QED
  BY <1>2, <1>3

\* SubscribeToInterval: the reference is the one the refresher was entitled to.
LEMMA SubscribeStep ==
    ASSUME Shape, Accounted, NEW g \in Fetcher, Subscribe(g)
    PROVE  Accounted'
<1>1. g \in Refresher /\ pc[g] = "call" /\ Moves(g, "mark", todo[g])
  BY IsRefresher DEF Subscribe, ToPc, Moves, Shape
<1>2. PICK q \in Symbol : q = Head(todo[g])
  BY <1>1, IsRefresher
<1>3. /\ subscribed' = subscribed
      /\ \A s \in Symbol : refs'[s] = IF s = q THEN refs[s] + 1 ELSE refs[s]
  BY <1>2 DEF Subscribe, Shape
<1>4. ASSUME NEW s \in Symbol
      PROVE  IF s \in subscribed
             THEN /\ refs'[s] > 0
                  /\ refs'[s] + Cardinality(Calling(s)') <= Cardinality(Refresher)
             ELSE refs'[s] = Cardinality(Marking(s)')
  <2>1. refs[s] \in Nat
    BY DEF Shape
  <2>2. CASE s # q
    <3>1. g \notin Calling(s) /\ g \notin Marking(s)
      BY <1>1, <1>2, <2>2 DEF Calling, Marking
    <3>2. Calling(s)' = Calling(s) /\ Marking(s)' = Marking(s)
      BY <1>1, <1>2, <2>2, <3>1, Recounted
    <3> QED
      BY <1>3, <2>2, <3>2 DEF Accounted
  <2>3. CASE s = q
    <3>1. g \in Calling(s) /\ g \notin Marking(s)
      BY <1>1, <1>2, <2>3 DEF Calling, Marking
    <3>2. Calling(s)' = Calling(s) \ {g} /\ Marking(s)' = Marking(s) \cup {g}
      BY <1>1, <1>2, <2>3, <3>1, Recounted
    <3>3. /\ Cardinality(Calling(s)') = Cardinality(Calling(s)) - 1
          /\ Cardinality(Marking(s)') = Cardinality(Marking(s)) + 1
      <4>1. IsFiniteSet(Calling(s)) /\ IsFiniteSet(Marking(s))
        BY Countable
      <4>2. Cardinality(Calling(s) \ {g}) = Cardinality(Calling(s)) - 1
        BY <3>1, <4>1, FS_RemoveElement
      <4>3. Cardinality(Marking(s) \cup {g}) = Cardinality(Marking(s)) + 1
        BY <3>1, <4>1, FS_AddElement
      <4> QED
        BY <3>2, <4>2, <4>3
    <3>4. /\ Cardinality(Calling(s)) \in Nat /\ Cardinality(Marking(s)) \in Nat
          /\ Cardinality(Refresher) \in Nat
      BY Countable
    <3>5. refs'[s] = refs[s] + 1
      BY <1>3, <2>3
    <3>6. CASE s \in subscribed
      <4>1. refs[s] + Cardinality(Calling(s)) <= Cardinality(Refresher)
        BY <3>6 DEF Accounted
      <4> QED
        BY <2>1, <3>3, <3>4, <3>5, <3>6, <4>1
    <3>7. CASE s \notin subscribed
      <4>1. refs[s] = Cardinality(Marking(s))
        BY <3>7 DEF Accounted
      <4> QED
        BY <3>3, <3>5, <3>7, <4>1
    <3> QED
      BY <3>6, <3>7
  <2> QED
    BY <2>2, <2>3
<1> QED
  BY <1>3, <1>4 DEF Accounted

\* The mark: the account of the symbol is closed to all but those already at the call.
LEMMA MarkStep ==
    ASSUME Shape, OnlyListed, Accounted, NEW g \in Fetcher, Mark(g)
    PROVE  Accounted'
<1>1. g \in Refresher /\ pc[g] = "mark" /\ refs' = refs
  BY IsRefresher DEF Mark
<1>2. PICK q \in Symbol : q = Head(todo[g])
  BY <1>1, IsRefresher
<1>3. PICK w \in {"done", "idle", "check"}, t \in Seq(Symbol) : Moves(g, w, t)
  BY <1>1, NextSymbolMoves DEF Mark
<1>4. subscribed' = subscribed \cup {q}
  BY <1>2 DEF Mark
<1>5. ASSUME NEW s \in Symbol
      PROVE  IF s \in subscribed'
             THEN /\ refs[s] > 0
                  /\ refs[s] + Cardinality(Calling(s)') <= Cardinality(Refresher)
             ELSE refs[s] = Cardinality(Marking(s)')
  <2>1. g \notin Calling(s) /\ (g \in Marking(s) <=> s = q)
    BY <1>1, <1>2 DEF Calling, Marking
  <2>2. Calling(s)' = Calling(s) /\ Marking(s)' = Marking(s) \ {g}
    <3>1. w # "call" /\ w # "mark"
      BY <1>3
    <3>2. /\ Calling(s)' = (Calling(s) \ {g}) \cup {h \in {g} : w = "call" /\ Head(t) = s}
          /\ Marking(s)' = (Marking(s) \ {g}) \cup {h \in {g} : w = "mark" /\ Head(t) = s}
      BY <1>1, <1>3, Recounted
    <3> QED
      BY <2>1, <3>1, <3>2
  <2>3. CASE s # q \/ s \in subscribed
    <3>1. s \in subscribed' <=> s \in subscribed
      BY <1>4, <2>3
    <3>2. s \notin subscribed => Marking(s)' = Marking(s)
      BY <2>1, <2>2, <2>3
    <3> QED
      BY <2>2, <3>1, <3>2 DEF Accounted
  <2>4. CASE s = q /\ s \notin subscribed
    <3>1. refs[s] = Cardinality(Marking(s)) /\ Marking(s) # {}
      BY <2>1, <2>4 DEF Accounted
    <3>2. /\ Cardinality(Marking(s)) \in Nat /\ IsFiniteSet(Marking(s))
          /\ Cardinality(Calling(s)) \in Nat /\ Cardinality(Refresher) \in Nat
          /\ Cardinality(Calling(s)) + Cardinality(Marking(s)) <= Cardinality(Refresher)
      BY Countable
    <3>3. Cardinality(Marking(s)) # 0
      BY <3>1, <3>2, FS_EmptySet
    <3>4. refs[s] > 0 /\ refs[s] + Cardinality(Calling(s)) <= Cardinality(Refresher)
      BY <3>1, <3>2, <3>3
    <3> QED
      BY <1>4, <2>2, <2>4, <3>4
  <2> QED
    BY <2>3, <2>4
<1> QED
  BY <1>1, <1>5 DEF Accounted

\* The account is kept by every step.
LEMMA AccountedStep ==
    ASSUME Shape, OnlyListed, Accounted, Next
    PROVE  Accounted'
<1>1. ASSUME NEW g \in Fetcher, GetSymbols(g)
      PROVE  Accounted'
  <2>1. g \in Refresher
    BY <1>1 DEF GetSymbols, Shape, Fetcher
  <2>2. \E w \in {"done", "idle", "check", "fetch"} : \E t : Moves(g, w, t)
    <3>1. CASE fresh /\ symbols # <<>>
      BY <1>1, <2>1, <3>1, BeginLoopMoves DEF GetSymbols, Shape, OnlyListed
    <3>2. CASE ~(fresh /\ symbols # <<>>)
      <4>1. Moves(g, "fetch", todo[g])
        BY <1>1, <3>2 DEF GetSymbols, ToPc, Moves, Shape
      <4> QED
        BY <4>1
    <3> QED
      BY <3>1, <3>2
  <2> QED
    BY <1>1, <2>2, QuietMove DEF GetSymbols
<1>2. ASSUME NEW g \in Fetcher, FetchAnswered(g)
      PROVE  Accounted'
  <2>1. Moves(g, "put", backend)
    BY <1>2 DEF FetchAnswered, ToPc, Moves
  <2> QED
    BY <1>2, <2>1, QuietMove DEF FetchAnswered
<1>3. ASSUME NEW g \in Fetcher, FetchFails(g)
      PROVE  Accounted'
  <2>1. PICK w \in {"done", "idle"} : pc' = [pc EXCEPT ![g] = w]
    BY <1>3, LeaveMoves DEF FetchFails
  <2>2. Moves(g, w, todo[g])
    BY <1>3, <2>1 DEF FetchFails, Moves, Shape
  <2> QED
    BY <1>3, <2>2, QuietMove DEF FetchFails
<1>4. ASSUME NEW g \in Fetcher, StoreSymbols(g)
      PROVE  Accounted'
  <2>1. todo[g] \in Seq(Symbol) \ {<<>>} /\ ToSet(todo[g]) \subseteq ever
    BY <1>4 DEF StoreSymbols, Shape, OnlyListed, Holding
  <2>2. \E w \in {"done", "idle", "check"} : \E t : Moves(g, w, t)
    <3>1. CASE g = "auto"
      <4>1. Moves(g, "idle", todo[g])
        BY <1>4, <3>1 DEF StoreSymbols, ToPc, Moves, Shape
      <4> QED
        BY <4>1
    <3>2. CASE g # "auto"
      <4>1. g \in Refresher /\ BeginLoop(g, todo[g])
        BY <1>4, <3>2 DEF StoreSymbols, Fetcher
      <4> QED
        BY <2>1, <4>1, BeginLoopMoves
    <3> QED
      BY <3>1, <3>2
  <2> QED
    BY <1>4, <2>2, QuietMove DEF StoreSymbols
<1>5. ASSUME NEW g \in Fetcher, Tick(g) \/ ForceRefresh(g)
      PROVE  Accounted'
  <2>1. PICK w \in {"fetch", "get"} : pc' = [pc EXCEPT ![g] = w]
    BY <1>5 DEF Tick, ForceRefresh, ToPc
  <2>2. Moves(g, w, todo[g])
    BY <1>5, <2>1 DEF Tick, ForceRefresh, Moves, Shape
  <2>3. refs' = refs /\ subscribed' = subscribed /\ pc[g] \in {"idle", "wait"}
    BY <1>5 DEF Tick, ForceRefresh
  <2> QED
    BY <2>2, <2>3, QuietMove
<1>6. ASSUME UNCHANGED <<pc, todo, refs, subscribed>>
      PROVE  Accounted'
  BY <1>6 DEF Accounted, Calling, Marking
<1>7. (\E l \in Lists : BackendChanges(l)) \/ CacheAges => Accounted'
  BY <1>6 DEF BackendChanges, CacheAges
<1> QED
  BY <1>1, <1>2, <1>3, <1>4, <1>5, <1>7, CheckStep, SubscribeStep, MarkStep, NextCases

--------------------------------------------------------------------------------
\* Nothing is subscribed yet, and nobody holds a list.
LEMMA InitHolds ==
    ASSUME Init
    PROVE  Shape /\ OnlyListed /\ Accounted
<1>1. Shape
  BY SymbolLists DEF Init, Shape, Location, Holding, Fetcher
<1>2. OnlyListed
  BY DEF Init, OnlyListed, Holding
<1>3. ASSUME NEW s \in Symbol
      PROVE  s \notin subscribed /\ refs[s] = Cardinality(Marking(s))
  <2>1. Marking(s) = {}
    BY DEF Init, Marking, Refresher, Fetcher
  <2> QED
    BY <2>1, FS_EmptySet DEF Init
<1> QED
  BY <1>1, <1>2, <1>3 DEF Accounted

\* The three parts together are inductive.
LEMMA Inductive == Spec => [](Shape /\ OnlyListed /\ Accounted)
<1>1. Shape /\ OnlyListed /\ Accounted /\ [Next]_smVars => (Shape /\ OnlyListed /\ Accounted)'
  <2>1. CASE Next
    BY <2>1, ListedStep, AccountedStep
  <2>2. CASE UNCHANGED smVars
    BY <2>2 DEF smVars, Shape, OnlyListed, Accounted, Calling, Marking, ToSet
  <2> QED
    BY <2>1, <2>2
<1> QED
  BY <1>1, InitHolds, PTL DEF Spec

\* refreshAndSubscribe: failed fetches, a stale cache and the built-in list notwithstanding,
\* only symbols the backend has listed are ever subscribed, with every strategy.
THEOREM OnlyListedIsSubscribed == Spec => []SubscribedWasListed
<1>1. OnlyListed => SubscribedWasListed
  BY DEF OnlyListed, SubscribedWasListed
<1> QED
  BY <1>1, Inductive, PTL

\* refreshAndSubscribe overlapping with itself: check, call and mark are three steps under
\* no common lock, and still a symbol never has more references than there are refreshers,
\* and none that its holder does not mark.
THEOREM ReferencesStayBounded == Spec => []ReferencesBounded
<1>1. Shape /\ Accounted => ReferencesBounded
  <2> SUFFICES ASSUME Shape, Accounted, NEW s \in Symbol
               PROVE  /\ refs[s] <= Cardinality(Refresher)
                      /\ refs[s] > 0 <=> s \in subscribed \/ Marking(s) # {}
    BY DEF ReferencesBounded, Marking
  <2>1. refs[s] \in Nat
    BY DEF Shape
  <2>2. /\ Cardinality(Refresher) \in Nat /\ Cardinality(Calling(s)) \in Nat
        /\ Cardinality(Marking(s)) \in Nat /\ IsFiniteSet(Marking(s))
        /\ Cardinality(Marking(s)) <= Cardinality(Refresher)
    BY Countable
  <2>3. CASE s \in subscribed
    BY <2>1, <2>2, <2>3 DEF Accounted
  <2>4. CASE s \notin subscribed
    <3>1. refs[s] = Cardinality(Marking(s))
      BY <2>4 DEF Accounted
    <3>2. Cardinality(Marking(s)) = 0 <=> Marking(s) = {}
      BY <2>2, FS_EmptySet
    <3> QED
      BY <2>2, <2>4, <3>1, <3>2
  <2> QED
    BY <2>3, <2>4
<1> QED
  BY <1>1, Inductive, PTL

--------------------------------------------------------------------------------
\* ProxyDial: the direct connection is the last entry of a list.
EndsDirect(l) == Len(l) > 0 /\ l[Len(l)] = Direct

\* Every list that is stored, fetched or dialled from ends with the direct connection, and a
\* dial begins at its front.
FallbackLast ==
    /\ EndsDirect(proxyList)
    /\ update # <<>> => EndsDirect(update)
    /\ \A x \in Exchange : stage[x] \in {"copied", "dial"} => EndsDirect(list[x])
    /\ \A x \in Exchange : stage[x] = "copied" => at[x] = 1

\* An entry about to be marked has connected, as itself or directly.
MarkedConnected == \A x \in Exchange : stage[x] = "mark" => Via(Current(x)) \in used

DialInv == DialTypes /\ FallbackLast /\ MarkedConnected /\ FailedTriedDirect /\ WorkingHasConnected

\* parseProxyList appends the direct connection to whatever the text has.
LEMMA ParsedEndsDirect ==
    ASSUME NEW text \in Fetched
    PROVE  ParseProxyList(text) \in Seq(Entry) /\ EndsDirect(ParseProxyList(text))
<1> DEFINE kept == Kept(text, {i \in DOMAIN text : text[i] # Direct})
<1>1. kept \in Seq(Entry)
  BY FetchedAreTexts, KeptFacts DEF Entry
<1>2. ParseProxyList(text) = Append(kept, Direct) /\ Direct \in Entry
  BY DEF ParseProxyList, Entry
<1> HIDE DEF kept
<1> QED
  BY <1>1, <1>2 DEF EndsDirect

\* Moving the working proxy to the front leaves the direct connection at the end.
LEMMA WorkingFirstEndsDirect ==
    ASSUME NEW l \in Seq(Entry), EndsDirect(l), workingProxy \in Entry
    PROVE  WorkingFirst(l) \in Seq(Entry) /\ EndsDirect(WorkingFirst(l))
<1>1. CASE workingProxy = Direct
  BY <1>1 DEF WorkingFirst
<1>2. CASE workingProxy # Direct
  <2> DEFINE kept == Kept(l, {i \in DOMAIN l : l[i] # workingProxy})
  <2>1. Len(l) \in {i \in DOMAIN l : l[i] # workingProxy}
    BY <1>2 DEF EndsDirect
  <2>2. kept \in Seq(Entry) /\ Len(kept) > 0 /\ kept[Len(kept)] = Direct
    BY <2>1, KeptFacts DEF EndsDirect
  <2>3. WorkingFirst(l) = <<workingProxy>> \o kept
    BY <1>2 DEF WorkingFirst
  <2> HIDE DEF kept
  <2>4. /\ <<workingProxy>> \in Seq(Entry) /\ Len(<<workingProxy>>) = 1
        /\ WorkingFirst(l) \in Seq(Entry) /\ Len(WorkingFirst(l)) = Len(kept) + 1
    BY <2>2, <2>3
  <2>5. WorkingFirst(l)[Len(kept) + 1] = kept[Len(kept)]
    BY <2>2, <2>3, <2>4
  <2> QED
    BY <2>2, <2>4, <2>5 DEF EndsDirect
<1> QED
  BY <1>1, <1>2

\* An attempt that fails: the next entry, or the end of the dial.
LEMMA AttemptFails ==
    ASSUME DialInv, NEW x \in Exchange, stage[x] = "dial",
           NEW stop \in BOOLEAN, stop => Current(x) = Direct, GiveUpOrNext(x, stop)
    PROVE  DialInv'
<1>1. /\ at[x] \in 1..Len(list[x]) /\ list[x] \in Seq(Entry) /\ Current(x) \in Entry
      /\ Len(list[x]) \in Nat
  BY DEF DialInv, DialTypes, Current
<1>2. Via(Current(x)) \in Entry
  BY <1>1 DEF Via, Entry
<1>3. /\ UNCHANGED <<proxyList, workingProxy, update, list, used>>
      /\ tried' = [tried EXCEPT ![x] = @ \cup {Via(Current(x))}]
      /\ faults' = [faults EXCEPT ![x] = @ + 1] /\ faults[x] < MaxFaults
  BY DEF GiveUpOrNext
<1>4. tried' \in [Exchange -> SUBSET Entry] /\ faults' \in [Exchange -> 0..MaxFaults]
  <2>1. faults[x] + 1 \in 0..MaxFaults
    BY <1>3, ProxySets DEF DialInv, DialTypes
  <2> QED
    BY <1>2, <1>3, <2>1 DEF DialInv, DialTypes
<1>5. CASE stop \/ at[x] = Len(list[x])
  <2>1. at' = at /\ stage' = [stage EXCEPT ![x] = "failed"]
    BY <1>5 DEF GiveUpOrNext
  <2>2. \A y \in Exchange : stage'[y] = IF y = x THEN "failed" ELSE stage[y]
    BY <2>1 DEF DialInv, DialTypes
  <2>3. Current(x) = Direct
    BY <1>5 DEF DialInv, FallbackLast, EndsDirect, Current
  <2>4. Direct \in tried'[x]
    BY <1>3, <2>3, ProxySets DEF Via, DialInv, DialTypes
  <2>5. \A y \in Exchange : tried[y] \subseteq tried'[y]
    BY <1>3 DEF DialInv, DialTypes
  <2>6. DialTypes'
    BY <1>3, <1>4, <2>1, <2>2 DEF DialInv, DialTypes
  <2>7. FallbackLast' /\ MarkedConnected' /\ WorkingHasConnected'
    BY <1>3, <2>1, <2>2 DEF DialInv, FallbackLast, MarkedConnected, WorkingHasConnected, Current
  <2>8. FailedTriedDirect'
    BY <2>2, <2>4, <2>5 DEF DialInv, FailedTriedDirect
  <2> QED
    BY <2>6, <2>7, <2>8 DEF DialInv
<1>6. CASE ~(stop \/ at[x] = Len(list[x]))
  <2>1. at' = [at EXCEPT ![x] = @ + 1] /\ stage' = stage
    BY <1>6 DEF GiveUpOrNext
  <2>2. \A y \in Exchange : at'[y] = IF y = x THEN at[x] + 1 ELSE at[y]
    BY <2>1 DEF DialInv, DialTypes
  <2>3. at[x] + 1 \in 1..Len(list[x]) /\ at[x] + 1 \in Nat \ {0}
    BY <1>1, <1>6
  <2>4. at' \in [Exchange -> Nat \ {0}]
    BY <2>1, <2>3 DEF DialInv, DialTypes
  <2>5. \A y \in Exchange : stage'[y] \in {"dial", "mark"} => at'[y] \in 1..Len(list'[y])
    BY <1>3, <2>1, <2>2, <2>3 DEF DialInv, DialTypes
  <2>6. DialTypes'
    BY <1>3, <1>4, <2>1, <2>4, <2>5 DEF DialInv, DialTypes
  <2>7. \A y \in Exchange : tried[y] \subseteq tried'[y]
    BY <1>3 DEF DialInv, DialTypes
  <2>8. FallbackLast' /\ WorkingHasConnected' /\ FailedTriedDirect'
    BY <1>3, <2>1, <2>7 DEF DialInv, FallbackLast, WorkingHasConnected, FailedTriedDirect
  <2>9. MarkedConnected'
    BY <1>3, <2>1, <2>2 DEF DialInv, MarkedConnected, Current
  <2> QED
    BY <2>6, <2>8, <2>9 DEF DialInv
<1> QED
  BY <1>5, <1>6

\* Every step of the updater and of the managers keeps the invariant.
LEMMA DialStep == DialInv /\ [DialNext]_pdVars => DialInv'
<1> SUFFICES ASSUME DialInv, [DialNext]_pdVars PROVE DialInv'
  OBVIOUS
<1> USE DEF DialInv
<1>1. ASSUME NEW text \in Fetched, FetchProxies(text) PROVE DialInv'
  <2>1. /\ update' = ParseProxyList(text) /\ update' \in Seq(Entry) /\ EndsDirect(update')
        /\ UNCHANGED <<proxyList, workingProxy, stage, list, at, tried, used, faults>>
    BY <1>1, ParsedEndsDirect DEF FetchProxies
  <2>2. DialTypes'
    BY <2>1 DEF DialTypes
  <2>3. FallbackLast'
    BY <2>1 DEF FallbackLast, EndsDirect
  <2>4. MarkedConnected' /\ FailedTriedDirect' /\ WorkingHasConnected'
    BY <2>1 DEF MarkedConnected, FailedTriedDirect, WorkingHasConnected, Current
  <2> QED
    BY <2>2, <2>3, <2>4
<1>2. CASE StoreProxies
  <2>1. /\ update # <<>> /\ proxyList' = update /\ update' = <<>>
        /\ UNCHANGED <<workingProxy, stage, list, at, tried, used, faults>>
    BY <1>2 DEF StoreProxies
  <2>2. DialTypes'
    BY <2>1 DEF DialTypes
  <2>3. FallbackLast'
    BY <2>1 DEF FallbackLast, EndsDirect
  <2>4. MarkedConnected' /\ FailedTriedDirect' /\ WorkingHasConnected'
    BY <2>1 DEF MarkedConnected, FailedTriedDirect, WorkingHasConnected, Current
  <2> QED
    BY <2>2, <2>3, <2>4
<1>3. ASSUME NEW x \in Exchange, CopyList(x) PROVE DialInv'
  <2>1. /\ list' = [list EXCEPT ![x] = proxyList] /\ at' = [at EXCEPT ![x] = 1]
        /\ tried' = [tried EXCEPT ![x] = {}] /\ stage' = [stage EXCEPT ![x] = "copied"]
        /\ UNCHANGED <<proxyList, workingProxy, update, used, faults>>
    BY <1>3 DEF CopyList
  <2>2. \A y \in Exchange : /\ stage'[y] = IF y = x THEN "copied" ELSE stage[y]
                            /\ list'[y] = IF y = x THEN proxyList ELSE list[y]
                            /\ at'[y] = IF y = x THEN 1 ELSE at[y]
                            /\ tried'[y] = IF y = x THEN {} ELSE tried[y]
    BY <2>1 DEF DialTypes
  <2>3. /\ list' \in [Exchange -> Seq(Entry)] /\ at' \in [Exchange -> Nat \ {0}]
        /\ tried' \in [Exchange -> SUBSET Entry]
        /\ stage' \in [Exchange -> {"idle", "copied", "dial", "mark", "connected", "failed"}]
    BY <2>1 DEF DialTypes
  <2>4. DialTypes'
    BY <2>1, <2>2, <2>3 DEF DialTypes
  <2>5. FallbackLast'
    BY <2>1, <2>2 DEF FallbackLast, EndsDirect
  <2>6. MarkedConnected' /\ FailedTriedDirect' /\ WorkingHasConnected'
    BY <2>1, <2>2 DEF MarkedConnected, FailedTriedDirect, WorkingHasConnected, Current
  <2> QED
    BY <2>4, <2>5, <2>6
<1>4. ASSUME NEW x \in Exchange, ReadWorking(x) PROVE DialInv'
  <2>1. /\ stage[x] = "copied" /\ list' = [list EXCEPT ![x] = WorkingFirst(list[x])]
        /\ stage' = [stage EXCEPT ![x] = "dial"]
        /\ UNCHANGED <<proxyList, workingProxy, update, at, tried, used, faults>>
    BY <1>4 DEF ReadWorking
  <2>2. WorkingFirst(list[x]) \in Seq(Entry) /\ EndsDirect(WorkingFirst(list[x]))
    BY <2>1, WorkingFirstEndsDirect DEF DialTypes, FallbackLast
  <2>3. \A y \in Exchange : /\ stage'[y] = IF y = x THEN "dial" ELSE stage[y]
                            /\ list'[y] = IF y = x THEN WorkingFirst(list[x]) ELSE list[y]
    BY <2>1 DEF DialTypes
  <2>4. list' \in [Exchange -> Seq(Entry)]
        /\ stage' \in [Exchange -> {"idle", "copied", "dial", "mark", "connected", "failed"}]
    BY <2>1, <2>2 DEF DialTypes
  <2>5. at[x] \in 1..Len(WorkingFirst(list[x]))
    BY <2>1, <2>2 DEF FallbackLast, EndsDirect
  <2>6. \A y \in Exchange : stage'[y] \in {"dial", "mark"} => at'[y] \in 1..Len(list'[y])
    BY <2>1, <2>3, <2>5 DEF DialTypes
  <2>7. DialTypes'
    BY <2>1, <2>4, <2>6 DEF DialTypes
  <2>8. FallbackLast'
    BY <2>1, <2>2, <2>3 DEF FallbackLast, EndsDirect
  <2>9. MarkedConnected' /\ FailedTriedDirect' /\ WorkingHasConnected'
    BY <2>1, <2>3 DEF MarkedConnected, FailedTriedDirect, WorkingHasConnected, Current
  <2> QED
    BY <2>7, <2>8, <2>9
<1>5. ASSUME NEW x \in Exchange, DialSucceeds(x) PROVE DialInv'
  <2>1. /\ stage[x] = "dial" /\ used' = used \cup {Via(Current(x))}
        /\ stage' = [stage EXCEPT ![x] = "mark"]
        /\ UNCHANGED <<proxyList, workingProxy, update, list, at, tried, faults>>
    BY <1>5 DEF DialSucceeds
  <2>2. \A y \in Exchange : stage'[y] = IF y = x THEN "mark" ELSE stage[y]
    BY <2>1 DEF DialTypes
  <2>3. Via(Current(x)) \in Entry
    BY <2>1 DEF DialTypes, Current, Via, Entry
  <2>4. used' \subseteq Entry
    BY <2>1, <2>3 DEF DialTypes
  <2>5. stage' \in [Exchange -> {"idle", "copied", "dial", "mark", "connected", "failed"}]
    BY <2>1 DEF DialTypes
  <2>6. DialTypes'
    BY <2>1, <2>2, <2>4, <2>5 DEF DialTypes
  <2>7. FallbackLast' /\ FailedTriedDirect' /\ WorkingHasConnected'
    BY <2>1, <2>2 DEF FallbackLast, EndsDirect, FailedTriedDirect, WorkingHasConnected
  <2>8. MarkedConnected'
    BY <2>1, <2>2 DEF MarkedConnected, Current
  <2> QED
    BY <2>6, <2>7, <2>8
<1>6. ASSUME NEW x \in Exchange, Forbidden(x) PROVE DialInv'
  BY <1>6, AttemptFails DEF Forbidden
<1>7. ASSUME NEW x \in Exchange, OtherError(x) PROVE DialInv'
  BY <1>7, AttemptFails DEF OtherError
<1>8. ASSUME NEW x \in Exchange, MarkWorking(x) PROVE DialInv'
  <2>1. /\ stage[x] = "mark" /\ stage' = [stage EXCEPT ![x] = "connected"]
        /\ workingProxy' = IF Current(x) = Direct THEN workingProxy ELSE Current(x)
        /\ UNCHANGED <<proxyList, update, list, at, tried, used, faults>>
    BY <1>8 DEF MarkWorking
  <2>2. \A y \in Exchange : stage'[y] = IF y = x THEN "connected" ELSE stage[y]
    BY <2>1 DEF DialTypes
  <2>3. Current(x) \in Entry /\ Via(Current(x)) \in used
    BY <2>1 DEF DialTypes, Current, MarkedConnected
  <2>4. DialTypes'
    BY <2>1, <2>2, <2>3 DEF DialTypes
  <2>5. FallbackLast' /\ FailedTriedDirect' /\ MarkedConnected'
    BY <2>1, <2>2 DEF FallbackLast, EndsDirect, FailedTriedDirect, MarkedConnected, Current
  <2>6. WorkingHasConnected'
    BY <2>1, <2>3 DEF WorkingHasConnected, Via
  <2> QED
    BY <2>4, <2>5, <2>6
<1>9. ASSUME NEW x \in Exchange, DialAgain(x) PROVE DialInv'
  <2>1. /\ stage' = [stage EXCEPT ![x] = "idle"]
        /\ UNCHANGED <<proxyList, workingProxy, update, list, at, tried, used, faults>>
    BY <1>9 DEF DialAgain
  <2>2. \A y \in Exchange : stage'[y] = IF y = x THEN "idle" ELSE stage[y]
    BY <2>1 DEF DialTypes
  <2>3. DialTypes'
    BY <2>1, <2>2 DEF DialTypes
  <2>4. FallbackLast' /\ FailedTriedDirect' /\ MarkedConnected' /\ WorkingHasConnected'
    BY <2>1, <2>2 DEF FallbackLast, EndsDirect, FailedTriedDirect, MarkedConnected, Current,
                      WorkingHasConnected
  <2> QED
    BY <2>3, <2>4
<1>10. CASE UNCHANGED pdVars
  BY <1>10 DEF pdVars, DialTypes, FallbackLast, EndsDirect, FailedTriedDirect, MarkedConnected,
               Current, WorkingHasConnected
<1> QED
  BY <1>1, <1>2, <1>3, <1>4, <1>5, <1>6, <1>7, <1>8, <1>9, <1>10 DEF DialNext, Dialling

\* The invariant holds always.
LEMMA DialInductive == DialSpec => []DialInv
<1>1. DialInit => DialInv
  <2> SUFFICES ASSUME DialInit PROVE DialInv
    OBVIOUS
  <2>1. DialTypes
    BY ProxySets DEF DialInit, DialTypes, Entry
  <2>2. FallbackLast
    BY DEF DialInit, FallbackLast, EndsDirect
  <2>3. MarkedConnected /\ FailedTriedDirect /\ WorkingHasConnected
    BY DEF DialInit, MarkedConnected, FailedTriedDirect, WorkingHasConnected
  <2> QED
    BY <2>1, <2>2, <2>3 DEF DialInv
<1> QED
  BY <1>1, DialStep, PTL DEF DialSpec

\* dialWithProxy: with any lists stored and any proxies marked while it goes along, and any
\* number of managers, a dial does not fail before the direct connection has been tried.
THEOREM DialsFallBackToDirect == DialSpec => []FailedTriedDirect
BY DialInductive, PTL DEF DialInv

\* SetWorkingProxy: the shared working proxy is one some manager has connected through, or
\* one that url.Parse rejects and that a direct connection was taken for.
THEOREM WorkingProxyConnected == DialSpec => []WorkingHasConnected
BY DialInductive, PTL DEF DialInv
================================================================================

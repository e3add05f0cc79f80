--------------------------- MODULE PriceStatsProofs ---------------------------
(* Proofs about PriceStats, for a buffer of any size, any set of calls and     *)
(* readers and any rows in the database.                                       *)
EXTENDS PriceStats, WellFoundedInduction, TLAPS

\* What the objects are made of.
Shape ==
    /\ stats \in Object \cup {None}
    /\ hist \in [Object -> Seq(Candle)]
    /\ at \in [Call -> {"new", "loaded", "done"}]
    /\ obj \in [Call -> Object \cup {None}]
    /\ arg \in [Call -> Candle \cup {NoCandle}]
    /\ body = [o \in Object |-> body[o]]
    /\ \A o \in Object : body[o].ring \in [Slot -> Candle \cup {NoCandle}]
    /\ \A c \in Call : at[c] = "loaded" => obj[c] \in Object /\ arg[c] \in Candle

\* An object that warmupSymbol built is seen by others only with rows in it.
WarmHasRows ==
    /\ stats \in Reader => hist[stats] # <<>>
    /\ \A c \in Call : obj[c] \in Reader => hist[obj[c]] # <<>>

\* RingIsWindow and WarmedOpenIsOldest, of one object and what was put into it.
FirstOf(h) == IF Len(h) > Size THEN Len(h) - Size + 1 ELSE 1
IsWindow(b, h) ==
    /\ b.nextIndex = Len(h) % Size
    /\ b.isFull <=> Len(h) >= Size
    /\ \A k \in FirstOf(h)..Len(h) : b.ring[(k - 1) % Size] = h[k]
    /\ \A i \in Slot : i >= Len(h) => b.ring[i] = NoCandle
OpensOldest(b, h) == b.open24h = h[FirstOf(h)]

\* VolumeIsWindowVolume, by the totals of everything put into the object.
HasVolume(b, h) ==
    /\ b.volume24h \in Int
    /\ TotalVolume(h)[Len(h)] = TotalVolume(h)[FirstOf(h) - 1] + b.volume24h

--------------------------------------------------------------------------------
\* The order of the numbers.
Less == {ss \in Nat \X Nat : ss[1] < ss[2]}

\* A set of numbers that is not empty has a least one: the induction of the lemmas on totals.
LEMMA LeastNumber ==
    ASSUME NEW T, T \subseteq Nat, T # {}
    PROVE  \E x \in T : \A y \in T : x <= y
<1>1. OpToRel(<, Nat) = Less
  BY Zenon DEF OpToRel, Less
<1>2. \E x \in T : \A y \in T : <<y, x>> \notin Less
  BY <1>1, NatLessThanWellFounded, WFMin, Zenon
<1>3. \A x, y \in Nat : <<y, x>> \in Less <=> y < x
  BY DEF Less
<1>4. PICK x \in T : \A y \in T : <<y, x>> \notin Less
  BY <1>2
<1>5. ASSUME NEW y \in T PROVE x <= y
  <2>1. x \in Nat /\ y \in Nat
    OBVIOUS
  <2>2. ~(y < x)
    BY <1>3, <1>4, <2>1, Zenon
  <2> QED
    BY <2>1, <2>2
<1> QED
  BY <1>5

\* A function that totals up the first m volumes of s.
Totals(f, s, m) ==
    f \in [0..m -> Nat] /\ f[0] = 0 /\ \A n \in 1..m : f[n] = f[n - 1] + s[n].vol

\* Totals can be computed, one candle after the other.
LEMMA TotalsExist ==
    ASSUME NEW s \in Seq(Candle)
    PROVE  \A m \in 0..Len(s) : \E f : Totals(f, s, m)
<1> DEFINE Bad == {m \in 0..Len(s) : ~\E f : Totals(f, s, m)}
<1>0. ASSUME NEW n \in 1..Len(s) PROVE s[n].vol \in Nat
  <2>1. s[n] \in Candle
    OBVIOUS
  <2> QED
    BY <2>1, StatsSizes DEF Candle
<1> SUFFICES ASSUME Bad # {} PROVE FALSE
  OBVIOUS
<1>4. Bad \subseteq Nat
  OBVIOUS
<1>5. \E m \in Bad : \A y \in Bad : m <= y
  <2> HIDE DEF Bad
  <2> QED
    BY <1>4, LeastNumber
<1>1. PICK m \in Bad : \A y \in Bad : m <= y
  BY <1>5
<1>2. CASE m = 0
  <2>1. Totals([n \in 0..0 |-> 0], s, 0)
    BY DEF Totals
  <2> QED
    BY <1>1, <1>2, <2>1
<1>3. CASE m # 0
  <2>1. m \in 1..Len(s) /\ m - 1 \in 0..Len(s) /\ ~(m <= m - 1)
    BY <1>1, <1>3
  <2>2. PICK f : Totals(f, s, m - 1)
    BY <1>1, <2>1
  <2> DEFINE g == [n \in 0..m |-> IF n = m THEN f[m - 1] + s[m].vol ELSE f[n]]
  <2>3. f[m - 1] \in Nat /\ s[m].vol \in Nat /\ \A n \in 0..m : n # m => f[n] \in Nat
    BY <1>0, <2>1, <2>2 DEF Totals
  <2>4. g \in [0..m -> Nat] /\ g[0] = 0
    BY <2>1, <2>2, <2>3 DEF Totals
  <2>5. ASSUME NEW n \in 1..m PROVE g[n] = g[n - 1] + s[n].vol
    BY <2>1, <2>2 DEF Totals
  <2>6. Totals(g, s, m)
    BY <2>4, <2>5 DEF Totals
  <2> QED
    BY <1>1, <2>6
<1> QED
  BY <1>2, <1>3

\* The recursive function of warmupSymbol's loop computes them.
LEMMA TotalVolumeTotals ==
    ASSUME NEW s \in Seq(Candle)
    PROVE  Totals(TotalVolume(s), s, Len(s))
<1> DEFINE IsTotal(f) == f = [n \in 0..Len(s) |-> IF n = 0 THEN 0 ELSE f[n - 1] + s[n].vol]
<1>1. TotalVolume(s) = CHOOSE f : IsTotal(f)
  BY DEF TotalVolume
<1>2. PICK f : Totals(f, s, Len(s))
  BY TotalsExist
<1>3. IsTotal(f)
  BY <1>2 DEF Totals
<1>4. IsTotal(TotalVolume(s))
  BY <1>1, <1>3
<1> DEFINE t == TotalVolume(s)
<1>5. /\ DOMAIN t = 0..Len(s) /\ t = [n \in 0..Len(s) |-> t[n]] /\ t[0] = 0
      /\ \A n \in 1..Len(s) : t[n] = t[n - 1] + s[n].vol
  BY <1>4
<1> HIDE DEF t, IsTotal
<1> DEFINE Bad == {n \in 0..Len(s) : t[n] \notin Nat}
<1>6. ASSUME Bad # {} PROVE FALSE
  <2>1. PICK m \in Bad : \A y \in Bad : m <= y
    <3>1. Bad \subseteq Nat
      OBVIOUS
    <3> HIDE DEF Bad
    <3> QED
      BY <1>6, <3>1, LeastNumber
  <2>2. m \in 0..Len(s) /\ t[m] \notin Nat
    BY <2>1
  <2>3. m \in 1..Len(s) /\ m - 1 \in 0..Len(s) /\ ~(m <= m - 1)
    <3>1. m # 0
      BY <1>5, <2>2
    <3> HIDE DEF Bad
    <3> QED
      BY <2>2, <3>1
  <2>4. t[m - 1] \in Nat
    BY <2>1, <2>3
  <2>5. s[m] \in Candle
    BY <2>3
  <2>6. s[m].vol \in Nat
    BY <2>5, StatsSizes DEF Candle
  <2>7. t[m] \in Nat
    <3>1. t[m] = t[m - 1] + s[m].vol
      BY <1>5, <2>3, Zenon
    <3> QED
      BY <2>4, <2>6, <3>1
  <2> QED
    BY <2>2, <2>7
<1>7. t \in [0..Len(s) -> Nat]
  BY <1>5, <1>6
<1> QED
  BY <1>5, <1>7 DEF Totals, t

\* Where a sequence repeats a stretch of another, its totals are the other's from there on.
LEMMA TotalsShift ==
    ASSUME NEW s \in Seq(Candle), NEW u \in Seq(Candle), NEW d \in Nat, NEW m \in Nat,
           d + m <= Len(s), m <= Len(u), \A i \in 1..m : u[i] = s[d + i]
    PROVE  TotalVolume(s)[d + m] = TotalVolume(s)[d] + TotalVolume(u)[m]
<1> DEFINE t == TotalVolume(s)
           v == TotalVolume(u)
           Bad == {n \in 0..m : t[d + n] # t[d] + v[n]}
<1>1. Totals(t, s, Len(s)) /\ Totals(v, u, Len(u))
  BY TotalVolumeTotals
<1> HIDE DEF t, v
<1>2. /\ t \in [0..Len(s) -> Nat] /\ v \in [0..Len(u) -> Nat] /\ v[0] = 0
      /\ \A n \in 1..Len(s) : t[n] = t[n - 1] + s[n].vol
      /\ \A n \in 1..Len(u) : v[n] = v[n - 1] + u[n].vol
  BY <1>1 DEF Totals
<1>3. Len(s) \in Nat /\ Len(u) \in Nat
  OBVIOUS
<1>4. ASSUME Bad # {} PROVE FALSE
  <2>1. PICK n \in Bad : \A y \in Bad : n <= y
    <3>1. Bad \subseteq Nat
      OBVIOUS
    <3> HIDE DEF Bad
    <3> QED
      BY <1>4, <3>1, LeastNumber
  <2>2. n \in 0..m /\ t[d + n] # t[d] + v[n]
    BY <2>1
  <2>3. n # 0
    <3>1. d \in 0..Len(s) /\ d + 0 = d
      BY <1>3
    <3>2. t[d] \in Nat
      BY <1>2, <3>1, Zenon
    <3>3. t[d + 0] = t[d] + v[0]
      BY <1>2, <3>1, <3>2
    <3> QED
      BY <2>2, <3>3, Zenon
  <2>4. /\ n \in 1..m /\ n - 1 \in 0..m /\ ~(n <= n - 1)
        /\ n \in 1..Len(u) /\ d + n \in 1..Len(s) /\ (d + n) - 1 = d + (n - 1)
    <3> HIDE DEF Bad
    <3> QED
      BY <1>3, <2>2, <2>3
  <2>5. t[d + (n - 1)] = t[d] + v[n - 1]
    BY <2>1, <2>4
  <2>6. /\ t[d + n] = t[d + (n - 1)] + s[d + n].vol
        /\ v[n] = v[n - 1] + u[n].vol
        /\ u[n] = s[d + n]
    BY <1>2, <2>4, Zenon
  <2>7. u[n] \in Candle
    BY <2>4
  <2>8. u[n].vol \in Nat
    BY <2>7, StatsSizes DEF Candle
  <2>9. t[d] \in Nat /\ v[n - 1] \in Nat
    <3>1. d \in 0..Len(s) /\ n - 1 \in 0..Len(u)
      BY <1>3, <2>4
    <3> HIDE DEF Bad
    <3> QED
      BY <1>2, <3>1
  <2>10. t[d + n] = (t[d] + v[n - 1]) + u[n].vol
    BY <2>5, <2>6, Zenon
  <2>11. t[d] + v[n] = t[d] + (v[n - 1] + u[n].vol)
    BY <2>6, Zenon
  <2>12. (t[d] + v[n - 1]) + u[n].vol = t[d] + (v[n - 1] + u[n].vol)
    BY <2>8, <2>9
  <2> QED
    BY <2>2, <2>10, <2>11, <2>12, Zenon
<1>5. m \in 0..m
  OBVIOUS
<1>6. t[d + m] = t[d] + v[m]
  BY <1>4, <1>5
<1> QED
  BY <1>6 DEF t, v

\* The totals of a sequence with one candle more.
LEMMA TotalsAppend ==
    ASSUME NEW h \in Seq(Candle), NEW k \in Candle
    PROVE  /\ \A n \in 0..Len(h) : TotalVolume(Append(h, k))[n] = TotalVolume(h)[n]
           /\ TotalVolume(Append(h, k))[Len(h) + 1] = TotalVolume(h)[Len(h)] + k.vol
<1> DEFINE a == Append(h, k)
<1>1. /\ a \in Seq(Candle) /\ Len(a) = Len(h) + 1 /\ Len(h) \in Nat
      /\ a[Len(h) + 1] = k /\ \A i \in 1..Len(h) : a[i] = h[i]
  OBVIOUS
<1> HIDE DEF a
<1>2. Totals(TotalVolume(a), a, Len(a)) /\ Totals(TotalVolume(h), h, Len(h))
  BY <1>1, TotalVolumeTotals
<1>3. ASSUME NEW n \in 0..Len(h) PROVE TotalVolume(a)[n] = TotalVolume(h)[n]
  <2>1. n \in Nat /\ 0 + n <= Len(h) /\ n <= Len(a) /\ 0 + n = n
    BY <1>1
  <2>2. \A i \in 1..n : a[i] = h[0 + i]
    BY <1>1
  <2>3. TotalVolume(h)[0 + n] = TotalVolume(h)[0] + TotalVolume(a)[n]
    BY <1>1, <2>1, <2>2, TotalsShift
  <2>4. n \in 0..Len(a)
    BY <1>1, <2>1
  <2>5. TotalVolume(h)[0] = 0 /\ TotalVolume(a)[n] \in Nat
    BY <1>2, <2>4 DEF Totals
  <2> QED
    BY <2>1, <2>3, <2>5
<1>4. TotalVolume(a)[Len(h) + 1] = TotalVolume(a)[Len(h)] + k.vol
  <2>1. Len(h) + 1 \in 1..Len(a) /\ (Len(h) + 1) - 1 = Len(h)
    BY <1>1
  <2> QED
    BY <1>1, <1>2, <2>1 DEF Totals
<1>5. Len(h) \in 0..Len(h)
  BY <1>1
<1> QED
  BY <1>3, <1>4, <1>5 DEF a

\* The volume of a stretch at the end of a sequence, by its totals.
LEMMA VolumeOfEnd ==
    ASSUME NEW h \in Seq(Candle), NEW f \in 1..(Len(h) + 1)
    PROVE  TotalVolume(h)[Len(h)]
             = TotalVolume(h)[f - 1] + VolumeOf(SubSeq(h, f, Len(h)))
<1> DEFINE u == SubSeq(h, f, Len(h))
           m == Len(h) - f + 1
<1>1. Len(h) \in Nat /\ f \in Nat /\ f - 1 \in Nat /\ m \in Nat /\ (f - 1) + m = Len(h)
  OBVIOUS
<1>2. u \in Seq(Candle) /\ Len(u) = m
  BY <1>1
<1>3. \A i \in 1..m : u[i] = h[(f - 1) + i]
  BY <1>1
<1> HIDE DEF u, m
<1>4. TotalVolume(h)[(f - 1) + m] = TotalVolume(h)[f - 1] + TotalVolume(u)[m]
  <2>1. (f - 1) + m <= Len(h) /\ m <= Len(u)
    BY <1>1, <1>2
  <2> DEFINE d == f - 1
  <2> HIDE DEF d
  <2>2. /\ u \in Seq(Candle) /\ d \in Nat /\ m \in Nat
        /\ d + m <= Len(h) /\ m <= Len(u) /\ \A i \in 1..m : u[i] = h[d + i]
    BY <1>1, <1>2, <1>3, <2>1 DEF d
  <2>3. TotalVolume(h)[d + m] = TotalVolume(h)[d] + TotalVolume(u)[m]
    BY <2>2, TotalsShift, Zenon
  <2> QED
    BY <2>3 DEF d
<1> QED
  BY <1>1, <1>2, <1>4 DEF VolumeOf, u

--------------------------------------------------------------------------------
\* A number is a multiple of Size and its remainder, in one way only.
LEMMA Remainder ==
    ASSUME NEW n \in Nat
    PROVE  n % Size \in Slot /\ \E q \in Int : n = Size * q + (n % Size)
<1>1. n % Size \in 0..(Size - 1) /\ n = Size * (n \div Size) + (n % Size) /\ n \div Size \in Int
  BY StatsSizes
<1> QED
  BY <1>1 DEF Slot

\* There is no other remainder.
LEMMA RemainderUnique ==
    ASSUME NEW n \in Nat, NEW q \in Int, NEW r \in Slot, n = Size * q + r
    PROVE  n % Size = r
<1>1. PICK p \in Int : n = Size * p + (n % Size)
  BY Remainder
<1>2. n % Size \in Slot
  BY Remainder
<1>3. PICK s \in Slot : s = n % Size
  BY <1>2
<1>4. Size * q + r = Size * p + s
  BY <1>1, <1>3
<1>5. r = s
  BY <1>4, StatsSizes DEF Slot
<1> QED
  BY <1>3, <1>5

\* The index after the next put, the index of the oldest candle of a full buffer, and the
\* indices below Size.
LEMMA RemainderNext ==
    ASSUME NEW n \in Nat
    PROVE  ((n % Size) + 1) % Size = (n + 1) % Size
<1>1. PICK q \in Int : n = Size * q + (n % Size)
  BY Remainder
<1>2. PICK r \in Slot : r = n % Size
  BY Remainder
<1>3. CASE r + 1 < Size
  <2>1. r + 1 \in Slot /\ n + 1 = Size * q + (r + 1) /\ r + 1 = Size * 0 + (r + 1)
    BY <1>1, <1>2, <1>3, StatsSizes DEF Slot
  <2>2. (n + 1) % Size = r + 1
    BY <2>1, RemainderUnique
  <2>3. r + 1 \in Nat
    BY DEF Slot
  <2>4. (r + 1) % Size = r + 1
    BY <2>1, <2>3, RemainderUnique
  <2> QED
    BY <1>2, <2>2, <2>4
<1>4. CASE r + 1 = Size
  <2>1. n + 1 = Size * (q + 1) + 0 /\ r + 1 = Size * 1 + 0 /\ 0 \in Slot
    BY <1>1, <1>2, <1>4, StatsSizes DEF Slot
  <2>2. (n + 1) % Size = 0
    BY <2>1, RemainderUnique
  <2>3. r + 1 \in Nat
    BY DEF Slot
  <2>4. (r + 1) % Size = 0
    BY <2>1, <2>3, RemainderUnique
  <2> QED
    BY <1>2, <2>2, <2>4
<1> QED
  BY <1>3, <1>4, StatsSizes DEF Slot

\* The slot of the candle that is Size puts old.
LEMMA RemainderBefore ==
    ASSUME NEW n \in Nat, n >= Size
    PROVE  (n - Size) % Size = n % Size
<1>1. PICK q \in Int : n = Size * q + (n % Size)
  BY Remainder
<1>2. PICK r \in Slot : r = n % Size
  BY Remainder
<1>3. n - Size \in Nat /\ q - 1 \in Int
  BY StatsSizes
<1>4. n - Size = Size * (q - 1) + r
  BY <1>1, <1>2, StatsSizes DEF Slot
<1>5. (n - Size) % Size = r
  BY <1>3, <1>4, RemainderUnique
<1> QED
  BY <1>2, <1>5

\* Before the buffer wraps, slots are counted from 0.
LEMMA RemainderSmall ==
    ASSUME NEW n \in Slot
    PROVE  n % Size = n
BY StatsSizes DEF Slot

\* Two indices less than Size apart have different slots.
LEMMA SlotsDiffer ==
    ASSUME NEW m \in Nat, NEW n \in Nat, m < n, n - m < Size
    PROVE  m % Size # n % Size
<1>1. PICK p \in Int, q \in Int : m = Size * p + (m % Size) /\ n = Size * q + (n % Size)
  BY Remainder
<1>2. PICK r \in Slot : r = m % Size
  BY Remainder
<1>3. SUFFICES ASSUME n % Size = r
               PROVE  FALSE
  BY <1>2
<1>4. n - m = Size * (q - p)
  BY <1>1, <1>2, <1>3, StatsSizes DEF Slot
<1>5. PICK d \in Int : d = q - p
  OBVIOUS
<1>6. d <= 0 => Size * d <= 0
  BY StatsSizes
<1>7. d >= 1 => Size * d >= Size
  BY StatsSizes
<1> QED
  BY <1>4, <1>5, <1>6, <1>7, StatsSizes

--------------------------------------------------------------------------------
\* The fields of an object after a put.
LEMMA PutFields ==
    ASSUME NEW b, NEW k, NEW i, i = b.nextIndex, NEW next, next = (i + 1) % Size
    PROVE  /\ Put(b, k).ring = [b.ring EXCEPT ![i] = k]
           /\ Put(b, k).nextIndex = next
           /\ Put(b, k).isFull <=> b.isFull \/ next = 0
           /\ Put(b, k).open24h = IF Put(b, k).ring[next] # NoCandle
                                  THEN Put(b, k).ring[next] ELSE b.open24h
<1>1. next = NextSlot(b.nextIndex)
  BY DEF NextSlot
<1>2. Put(b, k).ring = [b.ring EXCEPT ![i] = k] /\ Put(b, k).nextIndex = next
  BY <1>1 DEF Put
<1>3. Put(b, k).isFull <=> b.isFull \/ next = 0
  BY <1>1 DEF Put
<1>4. Put(b, k).open24h = IF [b.ring EXCEPT ![i] = k][next] # NoCandle
                          THEN [b.ring EXCEPT ![i] = k][next] ELSE b.open24h
  BY <1>1 DEF Put
<1> QED
  BY <1>2, <1>3, <1>4

\* A candle is not nil.
LEMMA CandleIsSome == NoCandle \notin Candle
BY StatsSizes DEF Candle, NoCandle

\* Put slides the window by one candle.
LEMMA PutSlides ==
    ASSUME NEW b, NEW h \in Seq(Candle), NEW k \in Candle,
           b.ring \in [Slot -> Candle \cup {NoCandle}], IsWindow(b, h)
    PROVE  /\ IsWindow(Put(b, k), Append(h, k))
           /\ Put(b, k).ring \in [Slot -> Candle \cup {NoCandle}]
<1>1. PICK n \in Nat : n = Len(h)
  OBVIOUS
<1>2. /\ Append(h, k) \in Seq(Candle) /\ Len(Append(h, k)) = n + 1
      /\ Append(h, k)[n + 1] = k
      /\ \A i \in 1..n : Append(h, k)[i] = h[i]
  BY <1>1
<1>3. n % Size \in Slot /\ b.nextIndex = n % Size
  BY <1>1, Remainder DEF IsWindow
<1>4. /\ Put(b, k).ring = [b.ring EXCEPT ![n % Size] = k]
      /\ Put(b, k).nextIndex = (n + 1) % Size
      /\ Put(b, k).isFull <=> b.isFull \/ (n + 1) % Size = 0
  <2>1. (n + 1) % Size = ((n % Size) + 1) % Size
    BY RemainderNext
  <2> QED
    BY <1>3, <2>1, PutFields
<1>5. /\ Put(b, k).ring \in [Slot -> Candle \cup {NoCandle}]
      /\ \A i \in Slot : Put(b, k).ring[i] = IF i = n % Size THEN k ELSE b.ring[i]
  BY <1>3, <1>4
<1>6. Put(b, k).isFull <=> n + 1 >= Size
  <2>1. b.isFull <=> n >= Size
    BY <1>1 DEF IsWindow
  <2>2. CASE n >= Size
    BY <1>4, <2>1, <2>2, StatsSizes
  <2>3. CASE n + 1 < Size
    <3>1. n + 1 \in Slot
      BY <2>3, StatsSizes DEF Slot
    <3>2. (n + 1) % Size = n + 1
      BY <3>1, RemainderSmall
    <3> QED
      BY <1>4, <2>1, <2>3, <3>2, StatsSizes
  <2>4. CASE n + 1 = Size
    <3>1. n + 1 = Size * 1 + 0 /\ 0 \in Slot
      BY <2>4, StatsSizes DEF Slot
    <3>2. (n + 1) % Size = 0
      BY <3>1, RemainderUnique
    <3> QED
      BY <1>4, <2>4, <3>2, StatsSizes
  <2> QED
    BY <2>2, <2>3, <2>4, StatsSizes
<1>7. ASSUME NEW i \in FirstOf(Append(h, k))..Len(Append(h, k))
      PROVE  Put(b, k).ring[(i - 1) % Size] = Append(h, k)[i]
  <2>1. i \in 1..(n + 1) /\ n + 1 - i < Size
    BY <1>2, StatsSizes DEF FirstOf
  <2>2. CASE i = n + 1
    BY <1>2, <1>3, <1>5, <2>2
  <2>3. CASE i # n + 1
    <3>1. i - 1 \in Nat /\ i \in 1..n /\ i - 1 < n /\ n - (i - 1) < Size
      BY <2>1, <2>3
    <3>2. (i - 1) % Size # n % Size /\ (i - 1) % Size \in Slot
      BY <3>1, SlotsDiffer, Remainder
    <3>3. i \in FirstOf(h)..Len(h)
      BY <1>1, <3>1, StatsSizes DEF FirstOf
    <3>4. b.ring[(i - 1) % Size] = h[i]
      BY <3>3 DEF IsWindow
    <3> QED
      BY <1>2, <1>5, <3>1, <3>2, <3>4
  <2> QED
    BY <2>2, <2>3
<1>8. ASSUME NEW i \in Slot, i >= Len(Append(h, k))
      PROVE  Put(b, k).ring[i] = NoCandle
  <2>1. n \in Slot /\ i # n /\ i >= n
    BY <1>2, <1>8, StatsSizes DEF Slot
  <2>2. n % Size = n
    BY <2>1, RemainderSmall
  <2>3. b.ring[i] = NoCandle
    BY <1>1, <2>1 DEF IsWindow
  <2> QED
    BY <1>5, <2>1, <2>2, <2>3
<1> QED
  BY <1>2, <1>4, <1>5, <1>6, <1>7, <1>8 DEF IsWindow

\* ... and open24h with it, once there is a candle in the buffer.
LEMMA PutSlidesOpen ==
    ASSUME NEW b, NEW h \in Seq(Candle), NEW k \in Candle, h # <<>>,
           b.ring \in [Slot -> Candle \cup {NoCandle}], IsWindow(b, h), OpensOldest(b, h)
    PROVE  OpensOldest(Put(b, k), Append(h, k))
<1>1. PICK n \in Nat \ {0} : n = Len(h)
  OBVIOUS
<1>2. PICK g : g = Append(h, k)
  OBVIOUS
<1>3. g \in Seq(Candle) /\ Len(g) = n + 1 /\ \A i \in 1..n : g[i] = h[i]
  BY <1>1, <1>2
<1>4. PICK x \in Slot : x = (n + 1) % Size
  BY Remainder
<1>5. Put(b, k).open24h
        = IF Put(b, k).ring[x] # NoCandle THEN Put(b, k).ring[x] ELSE b.open24h
  <2>1. b.nextIndex = n % Size
    BY <1>1 DEF IsWindow
  <2>2. x = NextSlot(b.nextIndex)
    BY <1>4, <2>1, RemainderNext DEF NextSlot
  <2> QED
    BY <2>2 DEF Put
<1>6. IsWindow(Put(b, k), g)
  BY <1>2, PutSlides
<1>7. CASE n + 1 < Size
  <2>1. x = n + 1
    BY <1>4, <1>7, RemainderSmall, StatsSizes DEF Slot
  <2>2. Put(b, k).ring[x] = NoCandle
    BY <1>3, <1>6, <2>1 DEF IsWindow
  <2>3. FirstOf(g) = 1 /\ FirstOf(h) = 1
    BY <1>1, <1>3, <1>7, StatsSizes DEF FirstOf
  <2> QED
    BY <1>2, <1>3, <1>5, <2>2, <2>3 DEF OpensOldest
<1>8. CASE n + 1 >= Size
  <2>1. PICK f \in 1..(n + 1) : f = n + 2 - Size
    BY <1>8, StatsSizes
  <2>2. FirstOf(g) = f
    BY <1>3, <1>8, <2>1, StatsSizes DEF FirstOf
  <2>3. f - 1 = (n + 1) - Size
    BY <2>1, StatsSizes
  <2>4. (f - 1) % Size = x
    BY <1>4, <1>8, <2>3, RemainderBefore
  <2>5. f \in FirstOf(g)..Len(g)
    BY <1>3, <2>1, <2>2
  <2>6. Put(b, k).ring[x] = g[f]
    BY <1>6, <2>4, <2>5 DEF IsWindow
  <2>7. g[f] \in Candle
    BY <1>3, <2>1
  <2> QED
    BY <1>2, <1>5, <2>2, <2>6, <2>7, CandleIsSome DEF OpensOldest
<1> QED
  BY <1>7, <1>8, StatsSizes

\* ... and the volume: the candle that leaves is the one whose slot is taken, or none.
LEMMA PutSlidesVolume ==
    ASSUME NEW b, NEW h \in Seq(Candle), NEW k \in Candle,
           IsWindow(b, h), HasVolume(b, h)
    PROVE  HasVolume(Put(b, k), Append(h, k))
<1> DEFINE a == Append(h, k)
           t == TotalVolume(h)
           w == TotalVolume(a)
           v == b.volume24h
<1>1. PICK n \in Nat : n = Len(h)
  OBVIOUS
<1>2. Len(a) = n + 1 /\ Size \in Nat /\ Size >= 1
  BY <1>1, StatsSizes
<1>3. k.vol \in Nat
  BY StatsSizes DEF Candle
<1>4. w[n + 1] = t[n] + k.vol /\ \A i \in 0..n : w[i] = t[i]
  BY <1>1, TotalsAppend
<1>5. t \in [0..n -> Nat] /\ \A i \in 1..n : t[i] = t[i - 1] + h[i].vol
  <2>1. Totals(t, h, n)
    BY <1>1, TotalVolumeTotals
  <2> HIDE DEF t
  <2> QED
    BY <2>1 DEF Totals
<1>6. Put(b, k).volume24h = (v - b.ring[n % Size].vol) + k.vol
  <2>1. b.nextIndex = n % Size
    BY <1>1 DEF IsWindow
  <2>2. Put(b, k).volume24h = (v - b.ring[b.nextIndex].vol) + k.vol
    BY DEF Put, VolumeAfter
  <2> QED
    BY <2>1, <2>2
<1>7. v \in Int /\ t[n] = t[FirstOf(h) - 1] + v
  BY <1>1 DEF HasVolume
<1> HIDE DEF a, t, w, v
<1>8. CASE n < Size
  <2>1. n \in Slot /\ FirstOf(h) = 1 /\ FirstOf(a) = 1
    BY <1>1, <1>2, <1>8 DEF Slot, FirstOf
  <2>2. n % Size = n
    BY <2>1, RemainderSmall
  <2>3. b.ring[n] = NoCandle
    BY <1>1, <2>1 DEF IsWindow
  <2>4. b.ring[n % Size].vol = 0
    BY <2>2, <2>3 DEF NoCandle
  <2>5. Put(b, k).volume24h = v + k.vol /\ Put(b, k).volume24h \in Int
    BY <1>3, <1>6, <1>7, <2>4
  <2>6. t[0] \in Nat /\ w[0] = t[0] /\ t[n] = t[0] + v
    BY <1>4, <1>5, <1>7, <2>1
  <2>7. w[n + 1] = w[0] + Put(b, k).volume24h
    BY <1>3, <1>4, <1>7, <2>5, <2>6
  <2>8. FirstOf(a) - 1 = 0
    BY <2>1
  <2> QED
    BY <1>2, <2>5, <2>7, <2>8 DEF HasVolume, a, w
<1>9. CASE n >= Size
  <2> DEFINE f == n - Size + 1
  <2>1. /\ f \in 1..n /\ f - 1 \in 0..n /\ f \in 0..n /\ f - 1 \in Nat
        /\ FirstOf(h) = f /\ FirstOf(a) - 1 = f /\ f - 1 = n - Size
    BY <1>1, <1>2, <1>9 DEF FirstOf
  <2> HIDE DEF f
  <2>2. n % Size = (f - 1) % Size
    BY <1>9, <2>1, RemainderBefore
  <2>3. f \in FirstOf(h)..Len(h)
    BY <1>1, <2>1
  <2>4. b.ring[n % Size] = h[f]
    BY <2>2, <2>3 DEF IsWindow
  <2>5. h[f] \in Candle
    BY <1>1, <2>1
  <2>6. h[f].vol \in Nat
    BY <2>5, StatsSizes DEF Candle
  <2>7. t[f] = t[f - 1] + h[f].vol /\ t[f - 1] \in Nat /\ w[f] = t[f]
    BY <1>4, <1>5, <2>1
  <2>8. Put(b, k).volume24h = (v - h[f].vol) + k.vol /\ Put(b, k).volume24h \in Int
    BY <1>3, <1>6, <1>7, <2>4, <2>6
  <2>9. t[n] = t[f - 1] + v
    BY <1>7, <2>1
  <2>10. w[n + 1] = w[f] + Put(b, k).volume24h
    <3>1. t[f - 1] \in Int /\ h[f].vol \in Int /\ v \in Int /\ k.vol \in Int
      BY <1>3, <1>7, <2>6, <2>7
    <3>2. w[n + 1] = (t[f - 1] + v) + k.vol
      BY <1>4, <2>9
    <3>3. w[f] + Put(b, k).volume24h = (t[f - 1] + h[f].vol) + ((v - h[f].vol) + k.vol)
      BY <2>7, <2>8
    <3>4. (t[f - 1] + v) + k.vol = (t[f - 1] + h[f].vol) + ((v - h[f].vol) + k.vol)
      BY <3>1
    <3> QED
      BY <3>2, <3>3, <3>4, Zenon
  <2>11. w[Len(a)] = w[FirstOf(a) - 1] + Put(b, k).volume24h
    BY <1>2, <2>1, <2>10
  <2> QED
    BY <2>8, <2>11 DEF HasVolume, a, w
<1> QED
  BY <1>2, <1>8, <1>9

\* The object warmupSymbol builds is the window of its rows.
LEMMA WarmedIsWindow ==
    ASSUME NEW rows \in Rows, rows # <<>>
    PROVE  /\ rows \in Seq(Candle)
           /\ IsWindow(Warmed(rows), rows) /\ OpensOldest(Warmed(rows), rows)
           /\ HasVolume(Warmed(rows), rows)
           /\ Warmed(rows).ring \in [Slot -> Candle \cup {NoCandle}]
<1>1. rows \in Seq(Candle) /\ Len(rows) \in 1..Size
  BY RowsAreLimited, StatsSizes
<1>2. PICK n \in 1..Size : n = Len(rows)
  BY <1>1
<1>3. /\ Warmed(rows).ring = [i \in Slot |-> IF i < n THEN rows[i + 1] ELSE NoCandle]
      /\ Warmed(rows).nextIndex = n % Size
      /\ Warmed(rows).isFull = (n >= Size)
      /\ Warmed(rows).open24h = rows[1]
      /\ Warmed(rows).volume24h = VolumeOf(rows)
  BY <1>2 DEF Warmed
<1>4. FirstOf(rows) = 1
  BY <1>2, StatsSizes DEF FirstOf
<1>5. Warmed(rows).ring \in [Slot -> Candle \cup {NoCandle}]
  <2>1. ASSUME NEW i \in Slot, i < n
        PROVE  rows[i + 1] \in Candle
    BY <1>1, <1>2, <2>1 DEF Slot
  <2> QED
    BY <1>3, <2>1
<1>6. ASSUME NEW k \in 1..n
      PROVE  Warmed(rows).ring[(k - 1) % Size] = rows[k]
  <2>1. k - 1 \in Slot /\ k - 1 < n /\ (k - 1) + 1 = k
    BY StatsSizes DEF Slot
  <2>2. (k - 1) % Size = k - 1
    BY <2>1, RemainderSmall
  <2> QED
    BY <1>3, <2>1, <2>2
<1>7. ASSUME NEW i \in Slot, i >= n
      PROVE  Warmed(rows).ring[i] = NoCandle
  <2>1. ~(i < n)
    BY <1>7 DEF Slot
  <2> QED
    BY <1>3, <2>1
<1>8. HasVolume(Warmed(rows), rows)
  <2>1. /\ TotalVolume(rows)[0] = 0 /\ TotalVolume(rows)[n] \in Nat
        /\ VolumeOf(rows) = TotalVolume(rows)[n]
    BY <1>1, <1>2, TotalVolumeTotals DEF Totals, VolumeOf
  <2> QED
    BY <1>2, <1>3, <1>4, <2>1 DEF HasVolume
<1> QED
  BY <1>1, <1>2, <1>3, <1>4, <1>5, <1>6, <1>7, <1>8 DEF IsWindow, OpensOldest

--------------------------------------------------------------------------------
\* The invariant that is inductive.
IInv ==
    /\ Shape
    /\ WarmHasRows
    /\ \A o \in Object : IsWindow(body[o], hist[o]) /\ HasVolume(body[o], hist[o])
    /\ \A r \in Reader : hist[r] # <<>> => OpensOldest(body[r], hist[r])

\* Empty objects are windows of nothing.
LEMMA InitHolds ==
    ASSUME Init
    PROVE  IInv
<1>1. Size \in Nat \ {0} /\ \A i \in Slot : i \in Nat
  BY StatsSizes DEF Slot
<1>2. ASSUME NEW o \in Object
      PROVE  /\ hist[o] = <<>> /\ body[o].ring = [i \in Slot |-> NoCandle]
             /\ body[o].nextIndex = 0 /\ ~body[o].isFull /\ body[o].volume24h = 0
  BY DEF Init, Empty
<1>3. Shape
  <2>1. body = [o \in Object |-> body[o]]
    BY DEF Init
  <2>2. /\ stats \in Object \cup {None} /\ hist \in [Object -> Seq(Candle)]
        /\ at \in [Call -> {"new", "loaded", "done"}]
        /\ obj \in [Call -> Object \cup {None}] /\ arg \in [Call -> Candle \cup {NoCandle}]
        /\ \A c \in Call : at[c] # "loaded"
    BY DEF Init
  <2> QED
    BY <1>2, <2>1, <2>2 DEF Shape
<1>4. WarmHasRows
  BY ObjectsDistinct DEF Init, WarmHasRows
<1>5. 0 \in Slot
  BY <1>1 DEF Slot
<1>6. 0 % Size = 0
  BY <1>5, RemainderSmall
<1>7. ASSUME NEW o \in Object
      PROVE  IsWindow(body[o], hist[o]) /\ HasVolume(body[o], hist[o])
  <2>1. Len(hist[o]) = 0 /\ hist[o] \in Seq(Candle)
    BY <1>2, Len(<<>>) = 0, <<>> \in Seq(Candle)
  <2>2. FirstOf(hist[o])..Len(hist[o]) = {}
    BY <1>1, <2>1 DEF FirstOf
  <2>3. IsWindow(body[o], hist[o])
    BY <1>1, <1>2, <1>6, <2>1, <2>2 DEF IsWindow
  <2>4. TotalVolume(hist[o])[0] = 0 /\ FirstOf(hist[o]) - 1 = 0
    BY <1>1, <2>1, TotalVolumeTotals DEF Totals, FirstOf
  <2>5. HasVolume(body[o], hist[o])
    BY <1>2, <2>1, <2>4 DEF HasVolume
  <2> QED
    BY <2>3, <2>5
<1>8. \A r \in Reader : hist[r] = <<>>
  BY <1>2 DEF Object
<1> QED
  BY <1>3, <1>4, <1>7, <1>8 DEF IInv

\* LoadOrStore gives a call an object that is in the map: one with rows, if it is a reader's.
LEMMA LoadStatsStep ==
    ASSUME IInv, NEW c \in Call, NEW k \in Candle, LoadStats(c, k)
    PROVE  IInv'
<1>1. /\ stats' = IF stats = None THEN "first" ELSE stats
      /\ obj' = [obj EXCEPT ![c] = stats'] /\ arg' = [arg EXCEPT ![c] = k]
      /\ at' = [at EXCEPT ![c] = "loaded"]
      /\ body' = body /\ hist' = hist
  BY DEF LoadStats
<1>2. stats' \in Object /\ (stats' \in Reader => stats' = stats)
  BY <1>1, ObjectsDistinct DEF IInv, Shape, Object
<1>3. Shape'
  BY <1>1, <1>2 DEF IInv, Shape
<1>4. WarmHasRows'
  BY <1>1, <1>2 DEF IInv, Shape, WarmHasRows
<1> QED
  BY <1>1, <1>3, <1>4 DEF IInv

\* A put keeps the object it is made on a window, whichever object that is by now.
LEMMA ProcessCandleStep ==
    ASSUME IInv, NEW c \in Call, ProcessCandle(c)
    PROVE  IInv'
<1>1. PICK q \in Object : q = obj[c]
  BY DEF IInv, Shape, ProcessCandle
<1>2. PICK k \in Candle : k = arg[c]
  BY DEF IInv, Shape, ProcessCandle
<1>3. /\ body' = [body EXCEPT ![q] = Put(body[q], k)]
      /\ hist' = [hist EXCEPT ![q] = Append(hist[q], k)]
      /\ at' = [at EXCEPT ![c] = "done"]
      /\ UNCHANGED <<stats, obj, arg>>
  BY <1>1, <1>2 DEF ProcessCandle
<1>4. /\ hist[q] \in Seq(Candle) /\ body[q].ring \in [Slot -> Candle \cup {NoCandle}]
      /\ IsWindow(body[q], hist[q]) /\ HasVolume(body[q], hist[q])
  BY DEF IInv, Shape
<1>5. /\ IsWindow(Put(body[q], k), Append(hist[q], k))
      /\ HasVolume(Put(body[q], k), Append(hist[q], k))
      /\ Put(body[q], k).ring \in [Slot -> Candle \cup {NoCandle}]
  BY <1>4, PutSlides, PutSlidesVolume
<1>6. Append(hist[q], k) \in Seq(Candle) /\ Append(hist[q], k) # <<>>
  BY <1>4
<1>7. \A o \in Object : /\ body'[o] = IF o = q THEN Put(body[q], k) ELSE body[o]
                        /\ hist'[o] = IF o = q THEN Append(hist[q], k) ELSE hist[o]
  BY <1>3 DEF IInv, Shape
<1>8. Shape'
  <2>1. body' = [o \in Object |-> body'[o]]
    BY <1>3 DEF IInv, Shape
  <2>2. hist' \in [Object -> Seq(Candle)]
    BY <1>3, <1>6 DEF IInv, Shape
  <2>3. \A o \in Object : body'[o].ring \in [Slot -> Candle \cup {NoCandle}]
    BY <1>5, <1>7 DEF IInv, Shape
  <2> QED
    BY <1>3, <2>1, <2>2, <2>3 DEF IInv, Shape
<1>9. WarmHasRows'
  BY <1>3, <1>6, <1>7 DEF IInv, WarmHasRows, Object
<1>10. \A o \in Object : IsWindow(body'[o], hist'[o]) /\ HasVolume(body'[o], hist'[o])
  BY <1>5, <1>7 DEF IInv
<1>11. ASSUME NEW r \in Reader, hist'[r] # <<>>
       PROVE  OpensOldest(body'[r], hist'[r])
  <2>1. r \in Object
    BY DEF Object
  <2>2. CASE r # q
    BY <1>7, <1>11, <2>1, <2>2 DEF IInv
  <2>3. CASE r = q
    <3>1. hist[q] # <<>>
      BY <1>1, <2>3 DEF IInv, WarmHasRows
    <3>2. OpensOldest(body[q], hist[q])
      BY <2>3, <3>1 DEF IInv
    <3>3. OpensOldest(Put(body[q], k), Append(hist[q], k))
      BY <1>4, <3>1, <3>2, PutSlidesOpen
    <3> QED
      BY <1>7, <2>1, <2>3, <3>3
  <2> QED
    BY <2>2, <2>3
<1> QED
  BY <1>8, <1>9, <1>10, <1>11 DEF IInv

\* warmupSymbol replaces the map's object by one that is a window of its own rows.
LEMMA WarmupSymbolStep ==
    ASSUME IInv, NEW r \in Reader, NEW rows \in Rows, WarmupSymbol(r, rows)
    PROVE  IInv'
<1>1. CASE rows = <<>>
  <2>1. UNCHANGED <<stats, body, hist, at, obj, arg>>
    BY <1>1 DEF WarmupSymbol
  <2> QED
    BY <2>1 DEF IInv, Shape, WarmHasRows
<1>2. CASE rows # <<>>
  <2>1. /\ body' = [body EXCEPT ![r] = Warmed(rows)] /\ hist' = [hist EXCEPT ![r] = rows]
        /\ stats' = r /\ UNCHANGED <<at, obj, arg>>
    BY <1>2 DEF WarmupSymbol
  <2>2. /\ rows \in Seq(Candle) /\ IsWindow(Warmed(rows), rows)
        /\ OpensOldest(Warmed(rows), rows) /\ HasVolume(Warmed(rows), rows)
        /\ Warmed(rows).ring \in [Slot -> Candle \cup {NoCandle}]
    BY <1>2, WarmedIsWindow
  <2>3. r \in Object /\ Reader \subseteq Object
    BY DEF Object
  <2>4. \A o \in Object : /\ body'[o] = IF o = r THEN Warmed(rows) ELSE body[o]
                          /\ hist'[o] = IF o = r THEN rows ELSE hist[o]
    BY <2>1, <2>3 DEF IInv, Shape
  <2>5. Shape'
    <3>1. body' = [o \in Object |-> body'[o]]
      BY <2>1 DEF IInv, Shape
    <3>2. hist' \in [Object -> Seq(Candle)]
      BY <2>1, <2>2 DEF IInv, Shape
    <3>3. \A o \in Object : body'[o].ring \in [Slot -> Candle \cup {NoCandle}]
      BY <2>2, <2>4 DEF IInv, Shape
    <3> QED
      BY <2>1, <2>3, <3>1, <3>2, <3>3 DEF IInv, Shape
  <2>6. WarmHasRows'
    BY <1>2, <2>1, <2>3, <2>4 DEF IInv, WarmHasRows
  <2>7. \A o \in Object : IsWindow(body'[o], hist'[o]) /\ HasVolume(body'[o], hist'[o])
    BY <2>2, <2>4 DEF IInv
  <2>8. \A s \in Reader : hist'[s] # <<>> => OpensOldest(body'[s], hist'[s])
    BY <2>2, <2>3, <2>4 DEF IInv
  <2> QED
    BY <2>5, <2>6, <2>7, <2>8 DEF IInv
<1> QED
  BY <1>1, <1>2

\* The invariant holds always.
LEMMA Inductive == Spec => []IInv
<1>1. ASSUME IInv, Next
      PROVE  IInv'
  <2>1. ASSUME NEW r \in Reader, ReaderFindsCold(r)
        PROVE  IInv'
    BY <1>1, <2>1 DEF ReaderFindsCold, IInv, Shape, WarmHasRows
  <2> QED
    BY <1>1, <2>1, LoadStatsStep, ProcessCandleStep, WarmupSymbolStep DEF Next
<1>2. ASSUME IInv, UNCHANGED psVars
      PROVE  IInv'
  BY <1>2 DEF psVars, IInv, Shape, WarmHasRows
<1> QED
  BY <1>1, <1>2, InitHolds, PTL DEF Spec

\* ProcessCandle and warmupSymbol: for a buffer of any size, however calls overlap and
\* whichever object they write to, each object holds the last Size candles put into it,
\* each in its slot, with nextIndex and isFull to match.
THEOREM RingStaysWindow == Spec => []RingIsWindow
<1>1. IInv => RingIsWindow
  BY DEF IInv, IsWindow, RingIsWindow, Window, First, FirstOf
<1> QED
  BY <1>1, Inductive, PTL

\* ProcessCandle and warmupSymbol: the volume kept by adding and subtracting is that of the
\* candles in the window, for a buffer of any size and any order of the calls.
THEOREM VolumeStaysWindowVolume == Spec => []VolumeIsWindowVolume
<1>1. IInv => VolumeIsWindowVolume
  <2> SUFFICES ASSUME IInv, NEW o \in Object
               PROVE  body[o].volume24h = VolumeOf(SubSeq(hist[o], First(o), Len(hist[o])))
    BY DEF VolumeIsWindowVolume
  <2> DEFINE h == hist[o]
             f == FirstOf(h)
             u == SubSeq(h, f, Len(h))
  <2>1. h \in Seq(Candle) /\ Len(h) \in Nat /\ HasVolume(body[o], h)
    BY DEF IInv, Shape
  <2>2. f \in 1..(Len(h) + 1) /\ f = First(o) /\ f - 1 \in 0..Len(h)
    BY <2>1, StatsSizes DEF First, FirstOf
  <2>3. TotalVolume(h)[Len(h)] = TotalVolume(h)[f - 1] + VolumeOf(u)
    <3> HIDE DEF f
    <3> QED
      BY <2>1, <2>2, VolumeOfEnd
  <2>4. u \in Seq(Candle)
    BY <2>1, <2>2
  <2>5. VolumeOf(u) \in Nat
    <3> HIDE DEF u
    <3> QED
      BY <2>4, TotalVolumeTotals DEF Totals, VolumeOf
  <2>6. TotalVolume(h)[f - 1] \in Nat
    BY <2>1, <2>2, TotalVolumeTotals DEF Totals
  <2>7. /\ body[o].volume24h \in Int
        /\ TotalVolume(h)[Len(h)] = TotalVolume(h)[f - 1] + body[o].volume24h
    BY <2>1 DEF HasVolume
  <2> HIDE DEF f, h, u
  <2>8. body[o].volume24h = VolumeOf(u)
    BY <2>3, <2>5, <2>6, <2>7
  <2> QED
    BY <2>2, <2>8 DEF f, h, u
<1> QED
  BY <1>1, Inductive, PTL

\* Get24hStats: the 24h open of a symbol that was warmed up is the open of the oldest
\* candle in its window, before and after the buffer wraps.
THEOREM WarmedOpenStaysOldest == Spec => []WarmedOpenIsOldest
<1>1. IInv => WarmedOpenIsOldest
  BY DEF IInv, OpensOldest, WarmedOpenIsOldest, First, FirstOf
<1> QED
  BY <1>1, Inductive, PTL
================================================================================

--------------------------- MODULE ExchangeWireProofs ---------------------------
(***************************************************************************)
(* What the clock of the interval aggregator computes, for every minute and *)
(* every fixed offset from UTC; that it holds of the live candles, which    *)
(* are in UTC or in the server's zone; what the string operations make of a *)
(* symbol on the way to an exchange and back; and that the batches ask for  *)
(* every stream.                                                            *)
(***************************************************************************)
EXTENDS ExchangeWire, FiniteSetTheorems, SequenceTheorems, TLAPS

\* Every interval of intervalToDuration has a length.
LEMMA DurationPositive ==
    \A i \in Intervals : intervalToDuration(i) \in Int /\ intervalToDuration(i) > 0
  BY DEF intervalToDuration, Intervals, Intraday, Day

\* The cases of getIntervalOpenTime.
LEMMA OpenIntraday ==
    ASSUME NEW t, NEW zone, NEW i \in Intraday
    PROVE  getIntervalOpenTime(t, zone, i) = (t + zone) - ((t + zone) % intervalToDuration(i)) - zone
<1>1. i # "3d" /\ i # "1w" /\ i # "1M"
  BY DEF Intraday
<1> QED
  BY <1>1, Zenon DEF getIntervalOpenTime

\* Three days are counted from the epoch, on UTC.
LEMMA OpenThreeDays ==
    ASSUME NEW t, NEW zone
    PROVE  getIntervalOpenTime(t, zone, "3d") = (((t \div Day) \div 3) * 3) * Day
  BY Zenon DEF getIntervalOpenTime, Intraday

\* A week begins on its Monday, in the candle's location.
LEMMA OpenWeek ==
    ASSUME NEW t, NEW zone
    PROVE  getIntervalOpenTime(t, zone, "1w")
             = (((t + zone) \div Day) - DaysBack((t + zone) \div Day)) * Day - zone
  BY Zenon DEF getIntervalOpenTime, Intraday

\* A week goes back to a Monday: the day DaysBack leads to is a multiple of seven days
\* away from the first Monday.
LEMMA DaysBackIsRemainder == \A d \in Int : DaysBack(d) = (d + 3) % 7
  BY DEF DaysBack, Weekday

\* Truncating to a multiple.
LEMMA Truncation ==
    ASSUME NEW x \in Int, NEW d \in Int, d > 0
    PROVE  x - (x % d) \in Int /\ x - (x % d) <= x /\ x < x - (x % d) + d
  OBVIOUS

\* A truncated number is a multiple.
LEMMA TruncationIsMultiple ==
    ASSUME NEW x \in Int, NEW d \in Int, d > 0
    PROVE  x - (x % d) = d * (x \div d) /\ x \div d \in Int
  OBVIOUS

\* Different multiples of a length are at least that length apart.
LEMMA MultiplesApart ==
    ASSUME NEW d \in Int, d > 0, NEW m \in Int, NEW n \in Int, m < n
    PROVE  d * m + d <= d * n
<1>1. d * (n - m - 1) >= 0
  OBVIOUS
<1> QED
  BY <1>1

\* Two numbers truncated to a multiple are equal or at least that far apart.
LEMMA TruncationTiles ==
    ASSUME NEW x \in Int, NEW y \in Int, NEW d \in Int, d > 0
    PROVE  \/ x - (x % d) = y - (y % d)
           \/ x - (x % d) + d <= y - (y % d)
           \/ y - (y % d) + d <= x - (x % d)
<1> DEFINE a == x \div d
           b == y \div d
<1>1. /\ x - (x % d) = d * a /\ y - (y % d) = d * b
      /\ a \in Int /\ b \in Int
  BY TruncationIsMultiple
<1> HIDE DEF a, b
<1>2. CASE a = b
  BY <1>1, <1>2
<1>3. CASE a < b
  BY <1>1, <1>3, MultiplesApart
<1>4. CASE b < a
  BY <1>1, <1>4, MultiplesApart
<1> QED
  BY <1>1, <1>2, <1>3, <1>4

\* Moving by a multiple moves the truncated number as far.
LEMMA TruncationMoves ==
    ASSUME NEW x \in Int, NEW z \in Int, NEW d \in Int, d > 0, z % d = 0
    PROVE  (x + z) - ((x + z) % d) = x - (x % d) + z
<1> DEFINE p == (x + z) - ((x + z) % d)
           q == x - (x % d)
           a == (x + z) \div d
           b == x \div d
           c == z \div d
<1>1. p = d * a /\ q = d * b /\ z = d * c
  BY TruncationIsMultiple
<1>2. a \in Int /\ b \in Int /\ c \in Int
  BY TruncationIsMultiple
<1>3. p \in Int /\ p <= x + z /\ x + z < p + d /\ q \in Int /\ q <= x /\ x < q + d
  BY Truncation
<1> HIDE DEF p, q, a, b, c
<1>4. q + z = d * (b + c) /\ b + c \in Int
  BY <1>1, <1>2
<1>5. ~(a < b + c)
  BY <1>1, <1>2, <1>3, <1>4, MultiplesApart
<1>6. ~(b + c < a)
  BY <1>1, <1>2, <1>3, <1>4, MultiplesApart
<1>7. a = b + c
  BY <1>2, <1>5, <1>6
<1>8. p = q + z
  BY <1>1, <1>4, <1>7
<1> QED
  BY <1>8 DEF p, q

\* Periods of every interval but the month are truncations: of the local clock, for
\* three days of UTC, for weeks with Monday, four days after the epoch, as the first day.
Shift(zone, i) == IF i = "3d" THEN 0 ELSE IF i = "1w" THEN zone + 3 * Day ELSE zone

\* But for the month, an open time is the shifted minute truncated to the length.
LEMMA OpenIsTruncation ==
    ASSUME NEW t \in Int, NEW zone \in Int, NEW i \in Intervals \ {"1M"}
    PROVE  LET x == t + Shift(zone, i)
           IN getIntervalOpenTime(t, zone, i) = x - (x % intervalToDuration(i)) - Shift(zone, i)
<1>1. CASE i \in Intraday
  <2>1. Shift(zone, i) = zone
    BY <1>1 DEF Shift, Intraday
  <2> QED
    BY <1>1, <2>1, OpenIntraday
<1>2. CASE i = "3d"
  <2>1. Shift(zone, i) = 0 /\ intervalToDuration(i) = 4320
    BY <1>2 DEF Shift, intervalToDuration, Day
  <2>2. (((t \div 1440) \div 3) * 3) * 1440 = t - (t % 4320)
    OBVIOUS
  <2> QED
    BY <1>2, <2>1, <2>2, OpenThreeDays DEF Day
<1>3. CASE i = "1w"
  <2>1. Shift(zone, i) = zone + 4320 /\ intervalToDuration(i) = 10080
    BY <1>3 DEF Shift, intervalToDuration, Day
  <2>2. ASSUME NEW l \in Int
        PROVE  ((l \div 1440) - (((l \div 1440) + 3) % 7)) * 1440
                 = (l + 4320) - ((l + 4320) % 10080) - 4320
    OBVIOUS
  <2>3. getIntervalOpenTime(t, zone, i)
          = (((t + zone) \div 1440) - ((((t + zone) \div 1440) + 3) % 7)) * 1440 - zone
    BY <1>3, OpenWeek, DaysBackIsRemainder DEF Day
  <2> QED
    BY <2>1, <2>2, <2>3
<1> QED
  BY <1>1, <1>2, <1>3 DEF Intervals

\* The shift is a number of minutes.
LEMMA ShiftInt == ASSUME NEW zone \in Int, NEW i PROVE Shift(zone, i) \in Int
  BY DEF Shift, Day

\* A minute lies in the period getIntervalOpenTime files it under, before its close.
THEOREM PeriodHoldsItsMinute ==
    ASSUME NEW t \in Int, NEW zone \in Int, NEW i \in Intervals \ {"1M"}
    PROVE  getIntervalOpenTime(t, zone, i) <= t /\ t < CloseTime(t, zone, i)
<1> DEFINE x == t + Shift(zone, i)
           d == intervalToDuration(i)
<1>1. x \in Int /\ Shift(zone, i) \in Int /\ d \in Int /\ d > 0
  BY ShiftInt, DurationPositive
<1>2. x - (x % d) \in Int /\ x - (x % d) <= x /\ x < x - (x % d) + d
  BY <1>1, Truncation
<1>3. getIntervalOpenTime(t, zone, i) = x - (x % d) - Shift(zone, i)
  BY OpenIsTruncation
<1> HIDE DEF d
<1> QED
  BY <1>1, <1>2, <1>3 DEF CloseTime, d

\* The periods of two minutes of the same location are the same or do not overlap: no
\* minute is counted in two periods of an interval.
THEOREM PeriodsAreDisjoint ==
    ASSUME NEW t \in Int, NEW u \in Int, NEW zone \in Int, NEW i \in Intervals \ {"1M"}
    PROVE  \/ getIntervalOpenTime(t, zone, i) = getIntervalOpenTime(u, zone, i)
           \/ CloseTime(t, zone, i) <= getIntervalOpenTime(u, zone, i)
           \/ CloseTime(u, zone, i) <= getIntervalOpenTime(t, zone, i)
<1> DEFINE x == t + Shift(zone, i)
           y == u + Shift(zone, i)
           d == intervalToDuration(i)
<1>1. x \in Int /\ y \in Int /\ Shift(zone, i) \in Int /\ d \in Int /\ d > 0
  BY ShiftInt, DurationPositive
<1>2. x - (x % d) \in Int /\ y - (y % d) \in Int
  BY <1>1, Truncation
<1>3. getIntervalOpenTime(t, zone, i) = x - (x % d) - Shift(zone, i)
  BY OpenIsTruncation
<1>4. getIntervalOpenTime(u, zone, i) = y - (y % d) - Shift(zone, i)
  BY OpenIsTruncation
<1>5. \/ x - (x % d) = y - (y % d)
      \/ x - (x % d) + d <= y - (y % d)
      \/ y - (y % d) + d <= x - (x % d)
  BY <1>1, TruncationTiles
<1> QED
  BY <1>1, <1>2, <1>3, <1>4, <1>5 DEF CloseTime

\* The location of a candle's time does not matter to an interval that divides the
\* offset of that location, nor to three days.
THEOREM PeriodsIgnoreZone ==
    ASSUME NEW t \in Int, NEW zone \in Int, NEW i \in Intervals \ {"1M"},
           i = "3d" \/ zone % intervalToDuration(i) = 0
    PROVE  getIntervalOpenTime(t, zone, i) = getIntervalOpenTime(t, 0, i)
<1> DEFINE d == intervalToDuration(i)
<1>1. d \in Int /\ d > 0
  BY DurationPositive
<1>2. CASE i = "3d"
  BY <1>2, OpenThreeDays
<1>3. CASE i # "3d"
  <2>1. zone % d = 0
    BY <1>3
  <2>2. ASSUME NEW k \in Int, Shift(zone, i) = k + zone, Shift(0, i) = k
        PROVE  getIntervalOpenTime(t, zone, i) = getIntervalOpenTime(t, 0, i)
    <3>1. getIntervalOpenTime(t, 0, i) = (t + k) - ((t + k) % d) - k
      BY <2>2, OpenIsTruncation
    <3>2. getIntervalOpenTime(t, zone, i)
            = ((t + k) + zone) - (((t + k) + zone) % d) - (k + zone)
      <4>1. t + (k + zone) = (t + k) + zone
        BY <2>2
      <4> QED
        BY <2>2, <4>1, OpenIsTruncation
    <3>3. ((t + k) + zone) - (((t + k) + zone) % d) = (t + k) - ((t + k) % d) + zone
      <4>1. t + k \in Int
        BY <2>2
      <4> HIDE DEF d
      <4> QED
        BY <1>1, <2>1, <4>1, TruncationMoves
    <3>4. (t + k) - ((t + k) % d) \in Int
      BY <1>1, <2>2, Truncation
    <3> QED
      BY <2>2, <3>1, <3>2, <3>3, <3>4
  <2>3. CASE i = "1w"
    BY <2>2, <2>3 DEF Shift, Day
  <2>4. CASE i # "1w"
    BY <1>3, <2>2, <2>4 DEF Shift, Day
  <2> QED
    BY <2>3, <2>4
<1> QED
  BY <1>2, <1>3

--------------------------------------------------------------------------------
\* The year that YearOf looks for exists and is found.
LEMMA YearExists ==
    ASSUME NEW d \in Int, d >= -1
    PROVE  /\ YearOf(d) \in Int
           /\ YearStart(YearOf(d)) <= d /\ d < YearStart(YearOf(d) + 1)
<1> DEFINE n == (4 * d + 2) \div 1461
           y == 1970 + n
           P(x) == YearStart(x) <= d /\ d < YearStart(x + 1)
           S == (1969 + (d \div 366))..(1971 + (d \div 365))
<1>1. n \in Int /\ 1461 * n <= 4 * d + 2 /\ 4 * d + 2 < 1461 * n + 1461
  OBVIOUS
<1>2. /\ d \div 366 \in Int /\ d \div 365 \in Int /\ d \div 366 >= -1 /\ d \div 365 >= -1
      /\ 366 * (d \div 366) <= d /\ d < 365 * (d \div 365) + 365
  OBVIOUS
<1> HIDE DEF n
<1>3. y \in S
  BY <1>1, <1>2
<1>4. P(y)
  BY <1>1 DEF YearStart
<1>5. YearOf(d) = CHOOSE x \in S : P(x)
  BY DEF YearOf
<1>6. S \subseteq Int
  BY <1>2
<1> HIDE DEF S, P, y
<1>7. YearOf(d) \in S /\ P(YearOf(d))
  BY <1>3, <1>4, <1>5, Zenon
<1> QED
  BY <1>6, <1>7 DEF P

\* The days of a common year before each month.
LEMMA MonthTable ==
    /\ DaysBefore[1] = 0 /\ DaysBefore[2] = 31 /\ DaysBefore[3] = 59 /\ DaysBefore[4] = 90
    /\ DaysBefore[5] = 120 /\ DaysBefore[6] = 151 /\ DaysBefore[7] = 181 /\ DaysBefore[8] = 212
    /\ DaysBefore[9] = 243 /\ DaysBefore[10] = 273 /\ DaysBefore[11] = 304 /\ DaysBefore[12] = 334
BY DEF DaysBefore

\* So does the month, and it begins on the day or before.
LEMMA MonthExists ==
    ASSUME NEW d \in Int, d >= -1
    PROVE  FirstOfMonth(d) \in Int /\ FirstOfMonth(d) <= d
<1> DEFINE y == YearOf(d)
           After(k) == IF k = 12 THEN YearStart(y + 1) ELSE MonthStart(y, k + 1)
           P(k) == MonthStart(y, k) <= d /\ d < After(k)
           m == CHOOSE k \in 1..12 : P(k)
<1>1. y \in Int /\ YearStart(y) <= d /\ d < YearStart(y + 1)
  BY YearExists
<1> HIDE DEF y
<1>2. YearStart(y) \in Int /\ YearStart(y + 1) \in Int
  BY <1>1 DEF YearStart
<1>3. \A k \in 1..12 : MonthStart(y, k) \in Int
  BY <1>2, MonthTable DEF MonthStart
<1>4. MonthStart(y, 1) = YearStart(y)
  BY <1>2, MonthTable DEF MonthStart
<1>5. \E k \in 1..12 : P(k)
  <2> SUFFICES ASSUME \A k \in 1..12 : ~P(k) PROVE FALSE
    OBVIOUS
  <2>1. MonthStart(y, 1) <= d
    BY <1>1, <1>4
  <2>2. \A k \in 1..11 : MonthStart(y, k) <= d => MonthStart(y, k + 1) <= d
    BY <1>3
  <2>3. MonthStart(y, 2) <= d /\ MonthStart(y, 3) <= d /\ MonthStart(y, 4) <= d
    BY <2>1, <2>2
  <2>4. MonthStart(y, 5) <= d /\ MonthStart(y, 6) <= d /\ MonthStart(y, 7) <= d
    BY <2>2, <2>3
  <2>5. MonthStart(y, 8) <= d /\ MonthStart(y, 9) <= d /\ MonthStart(y, 10) <= d
    BY <2>2, <2>4
  <2>6. MonthStart(y, 11) <= d /\ MonthStart(y, 12) <= d
    BY <2>2, <2>5
  <2> QED
    BY <1>1, <2>6
<1>6. FirstOfMonth(d) = MonthStart(y, m)
  BY DEF FirstOfMonth, y
<1> HIDE DEF P, m
<1>7. m \in 1..12 /\ P(m)
  BY <1>5, Zenon DEF m
<1> QED
  BY <1>3, <1>6, <1>7 DEF P

\* A month opens on the midnight its first day begins with, in the candle's location.
LEMMA OpenMonth ==
    ASSUME NEW t, NEW zone
    PROVE  getIntervalOpenTime(t, zone, "1M") = FirstOfMonth((t + zone) \div Day) * Day - zone
  BY Zenon DEF getIntervalOpenTime, Intraday

\* A minute lies in its month and, but for the 31st, before the close that
\* intervalToDuration's 30 days give the month.  The day before the epoch is the first
\* that the location of a minute after the epoch can lead to.
THEOREM MonthHoldsItsMinute ==
    ASSUME NEW t \in Nat, NEW zone \in -720..840
    PROVE  /\ getIntervalOpenTime(t, zone, "1M") \in Int
           /\ getIntervalOpenTime(t, zone, "1M") <= t
           /\ t < CloseTime(t, zone, "1M") \/ ThirtyFirst(t, zone)
<1> DEFINE day == (t + zone) \div 1440
<1>1. /\ day \in Int /\ day >= -1 /\ zone \in Int
      /\ day * 1440 <= t + zone /\ t + zone < day * 1440 + 1440
  OBVIOUS
<1> HIDE DEF day
<1>2. FirstOfMonth(day) \in Int /\ FirstOfMonth(day) <= day
  BY <1>1, MonthExists
<1>3. /\ getIntervalOpenTime(t, zone, "1M") = FirstOfMonth(day) * 1440 - zone
      /\ CloseTime(t, zone, "1M") = FirstOfMonth(day) * 1440 - zone + 43200
      /\ ThirtyFirst(t, zone) <=> day - FirstOfMonth(day) >= 30
  BY <1>1, <1>2, OpenMonth DEF day, CloseTime, intervalToDuration, ThirtyFirst, Day
<1> QED
  BY <1>1, <1>2, <1>3

--------------------------------------------------------------------------------
\* The inductive invariant: times and locations of the live candles, and that messages
\* come from an exchange that was subscribed to.
Located(lives) == \A l \in lives : l.open \in Nat /\ l.zone \in {0, ServerZone}
LocatedInv == Located(live) /\ (at \in {"write", "listen"} => ex \in Exchange)

\* processXMessage gives a candle the location of the server or of UTC.
LEMMA DecodedLocated ==
    ASSUME NEW n, NEW m \in Minute, ex \in Exchange
    PROVE  Decoded(ex, n, m).open = m /\ Decoded(ex, n, m).zone \in {0, ServerZone}
<1>1. \A text, int, z : CandleOf(text, int, m, z).open = m /\ CandleOf(text, int, m, z).zone = z
  BY DEF CandleOf
<1>2. CASE ex = "Binance"
  BY <1>1, <1>2, Zenon DEF Decoded, processBinanceMessage
<1>3. CASE ex = "Kraken"
  BY <1>1, <1>3, Zenon DEF Decoded, processKrakenMessage
<1>4. CASE ex = "Coinbase"
  BY <1>1, <1>4, Zenon DEF Decoded, processCoinbaseMessage
<1>5. CASE ex = "Bybit"
  BY <1>1, <1>5, Zenon DEF Decoded, processBybitMessage
<1>6. CASE ex = "OKX"
  BY <1>1, <1>6, Zenon DEF Decoded, processOKXMessage
<1>7. CASE ex = "Gate.io"
  BY <1>1, <1>7, Zenon DEF Decoded, processGateIOMessage
<1> QED
  BY <1>2, <1>3, <1>4, <1>5, <1>6, <1>7 DEF Exchange

\* LoadOrStore adds no candle but the one it is given, so they stay located.
LEMMA LoadOrStoreLocated ==
    ASSUME NEW lives, Located(lives), NEW c, NEW s,
           c.open \in Nat, c.zone \in {0, ServerZone}
    PROVE  Located(LoadOrStore(lives, c, s))
  BY DEF Located, LoadOrStore

\* All live candles are so located, always.
LEMMA LocatedInvariant == Spec => []LocatedInv
<1>1. Init => LocatedInv
  BY DEF Init, LocatedInv, Located
<1>2. LocatedInv /\ [Next]_wireVars => LocatedInv'
  <2> SUFFICES ASSUME LocatedInv, [Next]_wireVars PROVE LocatedInv'
    OBVIOUS
  <2> USE DEF LocatedInv
  <2>1. ASSUME NEW e \in Exchange, Subscribe(e) PROVE LocatedInv'
    BY <2>1 DEF Subscribe, Located
  <2>2. CASE WriteBatch \/ WriteFails \/ SubscribeReturns \/ Leave
    BY <2>2 DEF WriteBatch, WriteFails, SubscribeReturns, Leave, Located
  <2>3. ASSUME NEW s \in Symbol, NEW a \in Minute, NEW b \in Minute, Message(s, a, b)
        PROVE  LocatedInv'
    <3>1. ex \in Exchange /\ UNCHANGED <<ex, at>>
      BY <2>3 DEF Message
    <3>2. PICK n : live' = LET one == LoadOrStore(live, Decoded(ex, n, a), s)
                           IN IF ex \in TakesAll THEN LoadOrStore(one, Decoded(ex, n, b), s)
                              ELSE one
      BY <2>3 DEF Message
    <3>3. a \in Nat /\ b \in Nat
      BY WireConstants
    <3>4. Located(LoadOrStore(live, Decoded(ex, n, a), s))
      BY <3>1, <3>3, DecodedLocated, LoadOrStoreLocated
    <3>5. Located(LoadOrStore(LoadOrStore(live, Decoded(ex, n, a), s), Decoded(ex, n, b), s))
      BY <3>1, <3>3, <3>4, DecodedLocated, LoadOrStoreLocated
    <3>6. Located(live')
      BY <3>2, <3>4, <3>5
    <3> QED
      BY <3>1, <3>6 DEF Located
  <2>4. CASE UNCHANGED wireVars
    BY <2>4 DEF wireVars, Located
  <2> QED
    BY <2>1, <2>2, <2>3, <2>4 DEF Next
<1> QED
  BY <1>1, <1>2, PTL DEF Spec

\* Whichever exchange creates a live candle, and whatever the zone of the server, an
\* interval that divides the server's offset has the same periods as in UTC.
THEOREM PeriodsAreZoneNeutral == Spec => []ZoneNeutral
<1>1. Located(live) => ZoneNeutral
  <2> SUFFICES ASSUME Located(live), NEW l \in live, NEW i \in Intervals,
                      i = "3d" \/ ServerZone % intervalToDuration(i) = 0
               PROVE  getIntervalOpenTime(l.open, l.zone, i) = getIntervalOpenTime(l.open, 0, i)
    BY DEF ZoneNeutral
  <2>1. l.open \in Int /\ l.zone \in {0, ServerZone} /\ ServerZone \in Int
    BY WireConstants DEF Located
  <2>2. CASE l.zone = 0
    BY <2>2
  <2>3. CASE l.zone = ServerZone /\ i # "1M"
    BY <2>1, <2>3, PeriodsIgnoreZone
  <2>4. CASE l.zone = ServerZone /\ i = "1M"
    <3>1. intervalToDuration(i) = 43200
      BY <2>4 DEF intervalToDuration, Day
    <3>2. ServerZone \in -720..840 /\ ServerZone % 43200 = 0
      BY <2>4, <3>1, WireConstants
    <3>3. ServerZone = 0
      BY <3>2, SMTT(30)
    <3> QED
      BY <2>4, <3>3
  <2> QED
    BY <2>1, <2>2, <2>3, <2>4
<1> QED
  BY <1>1, LocatedInvariant, PTL DEF LocatedInv

\* Whichever exchange creates a live candle, its minute lies in each of the periods it is
\* counted in and periods of one location do not overlap; for months with the exceptions
\* PeriodsTile names.
THEOREM LivePeriodsTile == Spec => []PeriodsTile
<1>1. Located(live) => PeriodsTile
  <2> SUFFICES ASSUME Located(live), NEW l \in live, NEW k \in live, NEW i \in Intervals
               PROVE  /\ getIntervalOpenTime(l.open, l.zone, i) <= l.open
                      /\ \/ l.open < CloseTime(l.open, l.zone, i)
                         \/ i = "1M" /\ ThirtyFirst(l.open, l.zone)
                      /\ \/ l.zone # k.zone
                         \/ getIntervalOpenTime(l.open, l.zone, i)
                              = getIntervalOpenTime(k.open, k.zone, i)
                         \/ i = "1M"
                         \/ CloseTime(l.open, l.zone, i) <= getIntervalOpenTime(k.open, k.zone, i)
                         \/ CloseTime(k.open, k.zone, i) <= getIntervalOpenTime(l.open, l.zone, i)
    BY DEF PeriodsTile
  <2>1. /\ l.open \in Nat /\ k.open \in Nat
        /\ l.zone \in -720..840 /\ k.zone \in -720..840
        /\ l.zone \in Int /\ k.zone \in Int
    <3>1. /\ l.open \in Nat /\ k.open \in Nat
          /\ l.zone \in {0, ServerZone} /\ k.zone \in {0, ServerZone}
      BY DEF Located
    <3>2. ServerZone \in -720..840
      BY WireConstants
    <3>3. \A z \in {0, ServerZone} : z \in -720..840 /\ z \in Int
      BY <3>2
    <3>4. l.zone \in -720..840 /\ l.zone \in Int
      BY <3>1, <3>3
    <3>5. k.zone \in -720..840 /\ k.zone \in Int
      BY <3>1, <3>3
    <3> QED
      BY <3>1, <3>4, <3>5
  <2>2. CASE i = "1M"
    <3>1. /\ getIntervalOpenTime(l.open, l.zone, i) \in Int
          /\ getIntervalOpenTime(l.open, l.zone, i) <= l.open
          /\ l.open < CloseTime(l.open, l.zone, i) \/ ThirtyFirst(l.open, l.zone)
      <4> DEFINE Zones == -720..840
                 MonthHolds(t, z) ==
                   /\ getIntervalOpenTime(t, z, "1M") \in Int
                   /\ getIntervalOpenTime(t, z, "1M") <= t
                   /\ t < CloseTime(t, z, "1M") \/ ThirtyFirst(t, z)
      <4>1. l.open \in Nat /\ l.zone \in Zones
        BY <2>1
      <4>2. \A t \in Nat, z \in Zones : MonthHolds(t, z)
        BY MonthHoldsItsMinute, Zenon
      <4> HIDE DEF Zones, MonthHolds
      <4>3. MonthHolds(l.open, l.zone)
        BY <4>1, <4>2
      <4> QED
        BY <2>2, <4>3 DEF MonthHolds
    <3> QED
      BY <2>2, <3>1
  <2>3. CASE i # "1M"
    <3>0. i \in Intervals \ {"1M"} /\ l.open \in Int /\ k.open \in Int
      BY <2>1, <2>3
    <3>1. /\ getIntervalOpenTime(l.open, l.zone, i) <= l.open
          /\ l.open < CloseTime(l.open, l.zone, i)
      BY <2>1, <3>0, PeriodHoldsItsMinute
    <3>2. l.zone = k.zone =>
            \/ getIntervalOpenTime(l.open, l.zone, i) = getIntervalOpenTime(k.open, k.zone, i)
            \/ CloseTime(l.open, l.zone, i) <= getIntervalOpenTime(k.open, k.zone, i)
            \/ CloseTime(k.open, k.zone, i) <= getIntervalOpenTime(l.open, l.zone, i)
      BY <2>1, <3>0, PeriodsAreDisjoint
    <3> QED
      BY <3>1, <3>2
  <2> QED
    BY <2>2, <2>3
<1> QED
  BY <1>1, LocatedInvariant, PTL DEF LocatedInv

--------------------------------------------------------------------------------
\* The pairs of one number with 1..m.
LEMMA Column ==
    ASSUME NEW i, NEW m \in Nat
    PROVE  IsFiniteSet({i} \X (1..m)) /\ Cardinality({i} \X (1..m)) = m
<1>1. IsFiniteSet({i}) /\ Cardinality({i}) = 1
  BY FS_Singleton
<1>2. IsFiniteSet(1..m) /\ Cardinality(1..m) = m
  BY FS_Interval
<1> DEFINE S == {i}
           T == 1..m
<1> HIDE DEF S, T
<1>3. IsFiniteSet(S \X T) /\ Cardinality(S \X T) = Cardinality(S) * Cardinality(T)
  BY <1>1, <1>2, FS_Product DEF S, T
<1>4. Cardinality(S) * Cardinality(T) = m
  BY <1>1, <1>2 DEF S, T
<1> QED
  BY <1>3, <1>4 DEF S, T

\* Keeping a front part of a list.
LEMMA KeptFront ==
    ASSUME NEW l, NEW m \in Nat
    PROVE  Kept(l, 1..m) = [n \in 1..m |-> l[n]]
<1>1. Cardinality(1..m) = m
  BY FS_Interval
<1>2. ASSUME NEW n \in 1..m PROVE Nth(1..m, n) = n
  <2>1. ASSUME NEW i \in 1..m PROVE Cardinality({k \in 1..m : k <= i}) = i
    <3>1. {k \in 1..m : k <= i} = 1..i
      OBVIOUS
    <3>2. Cardinality(1..i) = i
      BY FS_Interval
    <3> QED
      BY <3>1, <3>2, Zenon
  <2>2. \A i \in 1..m : (Cardinality({k \in 1..m : k <= i}) = n) <=> i = n
    BY <2>1
  <2> QED
    BY <2>2 DEF Nth
<1> QED
  BY <1>1, <1>2 DEF Kept

\* The letters that LettersAt counts.
LettersIn(ps, D) == {x \in D \X (1..3) : x[2] <= Letters(ps[x[1]])}

\* A piece has a letter and no more than three.
LEMMA SomeLetters == \A p : Letters(p) \in 1..3
BY DEF Letters

\* The letters of some of the pieces are finitely many.
LEMMA LettersFinite ==
    ASSUME NEW ps, NEW a \in Nat, NEW b \in Nat
    PROVE  IsFiniteSet(LettersIn(ps, a..b)) /\ Cardinality(LettersIn(ps, a..b)) \in Nat
<1>1. IsFiniteSet(a..b) /\ IsFiniteSet(1..3)
  <2>1. a \in Int /\ b \in Int /\ 1 \in Int /\ 3 \in Int
    OBVIOUS
  <2> QED
    BY <2>1, FS_Interval, Zenon
<1>2. IsFiniteSet((a..b) \X (1..3))
  BY <1>1, FS_Product
<1>3. LettersIn(ps, a..b) \in SUBSET ((a..b) \X (1..3))
  BY DEF LettersIn
<1>4. IsFiniteSet(LettersIn(ps, a..b))
  BY <1>2, <1>3, FS_Subset
<1>5. \A S : IsFiniteSet(S) => Cardinality(S) \in Nat
  BY FS_CardinalityType
<1> QED
  BY <1>4, <1>5, Zenon

\* A longer end of a symbol has more letters.
LEMMA LongerEnd ==
    ASSUME NEW ps, NEW j \in Nat, NEW k \in Nat, NEW b \in Nat, j < k, k <= b
    PROVE  LettersAt(ps, (k + 1)..b) < LettersAt(ps, (j + 1)..b)
<1> DEFINE S == LettersIn(ps, (j + 1)..b)
           T == LettersIn(ps, (k + 1)..b)
<1>1. IsFiniteSet(S) /\ Cardinality(S) \in Nat /\ Cardinality(T) \in Nat
  BY LettersFinite
<1>2. T \in SUBSET S
  BY DEF LettersIn
<1>3. <<k, 1>> \in S /\ <<k, 1>> \notin T
  BY SomeLetters DEF LettersIn
<1>4. Cardinality(T) <= Cardinality(S) /\ Cardinality(T) # Cardinality(S)
  BY <1>1, <1>2, <1>3, FS_Subset
<1>5. LettersAt(ps, (k + 1)..b) = Cardinality(T) /\ LettersAt(ps, (j + 1)..b) = Cardinality(S)
  BY DEF LettersAt, LettersIn
<1> QED
  BY <1>1, <1>4, <1>5

\* A symbol is cut where exactly n letters are left.
LEMMA CutAt ==
    ASSUME NEW ps \in Seq(Piece), NEW k \in 1..(Len(ps) - 1), NEW n \in Nat,
           LettersAt(ps, (k + 1)..Len(ps)) = n
    PROVE  CutPair(ps, n) = <<SubSeq(ps, 1, k), SubSeq(ps, k + 1, Len(ps))>>
<1> DEFINE cuts == {j \in 1..(Len(ps) - 1) : LettersAt(ps, (j + 1)..Len(ps)) = n}
<1>1. Len(ps) \in Nat /\ k \in Nat /\ DOMAIN ps = 1..Len(ps) /\ (0 + 1)..Len(ps) = 1..Len(ps)
  OBVIOUS
<1>2. \A j \in cuts : j = k
  <2>1. SUFFICES ASSUME NEW j \in 1..(Len(ps) - 1), j # k
                 PROVE  LettersAt(ps, (j + 1)..Len(ps)) # n
    OBVIOUS
  <2>2. j \in Nat /\ (j < k \/ k < j)
    BY <1>1, <2>1
  <2>3. /\ j < k => n < LettersAt(ps, (j + 1)..Len(ps))
        /\ k < j => LettersAt(ps, (j + 1)..Len(ps)) < n
    BY <1>1, <2>2, LongerEnd
  <2> QED
    BY <2>2, <2>3
<1>3. k \in cuts
  OBVIOUS
<1>4. n < LettersAt(ps, DOMAIN ps)
  <2>1. LettersAt(ps, (k + 1)..Len(ps)) < LettersAt(ps, (0 + 1)..Len(ps))
    BY <1>1, LongerEnd
  <2> QED
    BY <1>1, <2>1, Zenon
<1>5. (CHOOSE c \in cuts : TRUE) = k
  BY <1>2, <1>3
<1>6. ~(LettersAt(ps, DOMAIN ps) <= n)
  <2>1. LettersAt(ps, DOMAIN ps) \in Nat
    <3>1. LettersAt(ps, DOMAIN ps) = Cardinality(LettersIn(ps, 1..Len(ps)))
      BY <1>1, Zenon DEF LettersAt, LettersIn
    <3> QED
      BY <1>1, <3>1, LettersFinite
  <2> QED
    BY <1>4, <2>1
<1> QED
  BY <1>3, <1>5, <1>6, Zenon DEF CutPair

\* Two parts are cut apart where the second has n letters.
LEMMA CutConcat ==
    ASSUME NEW c \in Seq(Piece), c # <<>>, NEW u \in Seq(Piece), u # <<>>,
           NEW ps, ps = c \o u, NEW n \in Nat, LettersAt(ps, (Len(c) + 1)..Len(ps)) = n
    PROVE  CutPair(ps, n) = <<c, u>>
<1> DEFINE b == Len(c)
           d == Len(u)
<1>1. b \in Nat /\ d \in Nat /\ b >= 1 /\ d >= 1
  OBVIOUS
<1>2. ps \in Seq(Piece) /\ Len(ps) = b + d
  BY ConcatProperties
<1>3. CutPair(ps, n) = <<SubSeq(ps, 1, b), SubSeq(ps, b + 1, b + d)>>
  <2>1. b \in 1..(Len(ps) - 1)
    BY <1>1, <1>2
  <2>2. CutPair(ps, n) = <<SubSeq(ps, 1, b), SubSeq(ps, b + 1, Len(ps))>>
    BY <1>2, <2>1, CutAt
  <2> QED
    BY <1>2, <2>2
<1>4. SubSeq(ps, 1, b) = c
  <2>1. 1 \in 1..Len(c) /\ b \in 1..Len(c)
    BY <1>1
  <2>2. SubSeq(c \o u, 1, b) = SubSeq(c, 1, b)
    BY <2>1, SubSeqOfConcat1, Zenon
  <2> QED
    BY <2>2, SubSeqFull
<1>5. SubSeq(ps, b + 1, b + d) = u
  <2>1. /\ b + 1 \in (Len(c) + 1)..(Len(c) + Len(u))
        /\ b + d \in (Len(c) + 1)..(Len(c) + Len(u))
    BY <1>1
  <2>2. SubSeq(c \o u, b + 1, b + d) = SubSeq(u, (b + 1) - Len(c), (b + d) - Len(c))
    BY <2>1, SubSeqOfConcat2, Zenon
  <2>3. (b + 1) - Len(c) = 1 /\ (b + d) - Len(c) = Len(u)
    BY <1>1
  <2>4. SubSeq(u, 1, Len(u)) = u
    BY SubSeqFull
  <2> QED
    BY <2>2, <2>3, <2>4, Zenon
<1> QED
  BY <1>3, <1>4, <1>5, Zenon

--------------------------------------------------------------------------------
\* The quote of a pair in USDT.
Usdt == <<"USD", "T">>

\* What a symbol in USDT is made of.
LEMMA TetherPieces ==
    ASSUME NEW s \in Symbol, Tether(s), NEW ps, ps = Pieces(s), NEW b \in Nat, b = Len(s.base)
    PROVE  /\ b >= 1 /\ ps \in Seq(Piece) /\ Len(ps) = b + 2
           /\ \A i \in 1..b : ps[i] = s.base[i]
           /\ ps[b + 1] = "USD" /\ ps[b + 2] = "T"
           /\ ps = s.base \o Usdt
<1>1. s.base \in Seq(Piece) /\ s.base # <<>> /\ s.quote = Usdt
  BY WireSymbols DEF Tether, Usdt
<1>2. Usdt \in Seq(Piece) /\ Len(Usdt) = 2 /\ Usdt[1] = "USD" /\ Usdt[2] = "T"
  <2>1. "USD" \in Piece /\ "T" \in Piece
    BY WireSymbols
  <2>2. <<"USD", "T">> \in Seq(Piece)
    BY <2>1
  <2> QED
    BY <2>2 DEF Usdt
<1>3. b >= 1
  BY <1>1
<1>4. ps = s.base \o Usdt
  BY <1>1 DEF Pieces
<1> DEFINE u == Usdt
           c == s.base
<1> HIDE DEF u, c
<1>5. ps = c \o u /\ c \in Seq(Piece) /\ u \in Seq(Piece) /\ Len(u) = 2 /\ Len(c) = b
  BY <1>1, <1>2, <1>4 DEF u, c
<1>6. /\ ps \in Seq(Piece) /\ Len(ps) = b + 2
      /\ \A i \in 1..b : ps[i] = c[i]
      /\ ps[b + 1] = u[1] /\ ps[b + 2] = u[2]
  <2>1. /\ ps \in Seq(Piece) /\ Len(ps) = b + 2
        /\ \A i \in 1..(b + 2) : ps[i] = IF i <= b THEN c[i] ELSE u[i - b]
    <3>1. /\ c \o u \in Seq(Piece) /\ Len(c \o u) = Len(c) + Len(u)
          /\ \A i \in 1..(Len(c) + Len(u)) :
                 (c \o u)[i] = IF i <= Len(c) THEN c[i] ELSE u[i - Len(c)]
      BY <1>5, ConcatProperties, Zenon
    <3> QED
      BY <1>5, <3>1, Zenon
  <2>2. b + 1 \in 1..(b + 2) /\ b + 2 \in 1..(b + 2) /\ (b + 1) - b = 1 /\ (b + 2) - b = 2
    OBVIOUS
  <2> QED
    BY <2>1, <2>2
<1> QED
  BY <1>2, <1>3, <1>4, <1>6 DEF u, c

\* The letters of the last piece, and of the last two.
LEMMA LastLetters ==
    ASSUME NEW ps, NEW k \in Nat
    PROVE  /\ LettersAt(ps, k..k) = Letters(ps[k])
           /\ LettersAt(ps, k..(k + 1)) = Letters(ps[k]) + Letters(ps[k + 1])
<1> DEFINE A == {k} \X (1..Letters(ps[k]))
           B == {k + 1} \X (1..Letters(ps[k + 1]))
<1>1. Letters(ps[k]) \in 1..3 /\ Letters(ps[k + 1]) \in 1..3
  BY SomeLetters
<1>2. LettersIn(ps, k..k) = A
  BY <1>1 DEF LettersIn
<1>3. LettersIn(ps, k..(k + 1)) = A \cup B
  BY <1>1 DEF LettersIn
<1>4. A \cap B = {}
  OBVIOUS
<1>5. /\ IsFiniteSet(A) /\ Cardinality(A) = Letters(ps[k])
      /\ IsFiniteSet(B) /\ Cardinality(B) = Letters(ps[k + 1])
  <2>1. Letters(ps[k]) \in Nat /\ Letters(ps[k + 1]) \in Nat
    BY <1>1
  <2> QED
    BY <2>1, Column
<1> HIDE DEF A, B
<1>6. Cardinality(A \cup B) = Letters(ps[k]) + Letters(ps[k + 1])
  <2>1. Cardinality(A \cup B) = Cardinality(A) + Cardinality(B) - Cardinality(A \cap B)
    BY <1>5, FS_Union
  <2>2. Cardinality(A \cap B) = 0
    BY <1>4, FS_EmptySet
  <2> QED
    BY <1>1, <1>5, <2>1, <2>2
<1> QED
  BY <1>2, <1>3, <1>5, <1>6 DEF LettersAt, LettersIn

\* Kraken's name of USDT.
LEMMA UsdOfUsdt == UsdtToUsd(Usdt) = <<"USD">>
<1>1. Len(Usdt) = 2 /\ DOMAIN Usdt = 1..2 /\ Usdt[1] = "USD" /\ Usdt[2] = "T"
  BY DEF Usdt
<1>2. TethersIn(Usdt) = {2}
  BY <1>1 DEF TethersIn
<1>3. DOMAIN Usdt \ TethersIn(Usdt) = 1..1
  BY <1>1, <1>2
<1>4. UsdtToUsd(Usdt) = [n \in 1..1 |-> Usdt[n]]
  BY <1>3, KeptFront DEF UsdtToUsd
<1> QED
  BY <1>1, <1>4

\* subscribeX: a pair in USDT is asked for under the name the exchange lists it by.
LEMMA TetherListed ==
    ASSUME NEW s \in Symbol, Tether(s), NEW e \in Exchange
    PROVE  NameFor(e, s).pair = Listed(e, s)
<1> DEFINE ps == Pieces(s)
           b == Len(s.base)
           usd == <<"USD">>
<1>1. s.base \in Seq(Piece) /\ s.base # <<>> /\ s.quote = Usdt /\ b \in Nat
  BY WireSymbols DEF Tether, Usdt
<1>2. /\ b >= 1 /\ ps \in Seq(Piece) /\ Len(ps) = b + 2
      /\ \A i \in 1..b : ps[i] = s.base[i]
      /\ ps[b + 1] = "USD" /\ ps[b + 2] = "T"
      /\ ps = s.base \o Usdt
  BY <1>1, TetherPieces
<1>3. "USD" \in Piece /\ "T" \in Piece
  BY WireSymbols
<1>4. Usdt \in Seq(Piece) /\ Usdt # <<>> /\ usd \in Seq(Piece) /\ usd # <<>> /\ Len(usd) = 1
      /\ usd[1] = "USD"
  BY <1>3 DEF Usdt
<1> HIDE DEF ps, b, usd
<1>5. CutPair(ps, 4) = <<s.base, s.quote>>
  <2>1. LettersAt(ps, (b + 1)..(b + 2)) = 4
    <3>1. LettersAt(ps, (b + 1)..((b + 1) + 1)) = Letters(ps[b + 1]) + Letters(ps[(b + 1) + 1])
      <4>1. b + 1 \in Nat
        BY <1>1
      <4> QED
        BY <4>1, LastLetters, Zenon
    <3>2. (b + 1) + 1 = b + 2
      BY <1>1
    <3>3. Letters(ps[b + 1]) = 3 /\ Letters(ps[b + 2]) = 1
      BY <1>2 DEF Letters
    <3>4. LettersAt(ps, (b + 1)..(b + 2)) = 3 + 1
      BY <3>1, <3>2, <3>3, Zenon
    <3> QED
      BY <3>4
  <2>2. LettersAt(ps, (Len(s.base) + 1)..Len(ps)) = 4
    BY <1>2, <2>1 DEF b
  <2>3. 4 \in Nat
    OBVIOUS
  <2>4. CutPair(ps, 4) = <<s.base, Usdt>>
    BY <1>1, <1>2, <1>4, <2>2, <2>3, CutConcat, ZenonT(30)
  <2> QED
    BY <1>1, <2>4, Zenon
<1>6. UsdtToUsd(ps) = s.base \o usd
  <2>1. DOMAIN ps = 1..(b + 2)
    BY <1>2
  <2>2. TethersIn(ps) = {b + 2}
    <3>1. b + 2 \in TethersIn(ps)
      <4>1. b + 2 \in 2..Len(ps) /\ (b + 2) - 1 = b + 1
        BY <1>1, <1>2
      <4> QED
        BY <1>2, <4>1 DEF TethersIn
    <3>2. ASSUME NEW i \in TethersIn(ps) PROVE i = b + 2
      <4>1. i \in 2..(b + 2) /\ ps[i] = "T" /\ ps[i - 1] = "USD"
        BY <1>2 DEF TethersIn
      <4>2. i # b + 1
        BY <1>2, <4>1
      <4>3. ASSUME i <= b PROVE FALSE
        <5>1. i \in 2..Len(s.base) /\ i \in 1..b /\ i - 1 \in 1..b
          BY <1>1, <4>1, <4>3 DEF b
        <5>2. i \in TethersIn(s.base)
          BY <1>2, <4>1, <5>1 DEF TethersIn
        <5> QED
          BY <5>2 DEF Tether
      <4> QED
        BY <1>1, <4>1, <4>2, <4>3
    <3> QED
      BY <3>1, <3>2
  <2>3. DOMAIN ps \ TethersIn(ps) = 1..(b + 1) /\ b + 1 \in Nat
    BY <1>1, <2>1, <2>2
  <2>4. UsdtToUsd(ps) = [n \in 1..(b + 1) |-> ps[n]]
    BY <2>3, KeptFront DEF UsdtToUsd
  <2>5. /\ s.base \o usd \in Seq(Piece) /\ Len(s.base \o usd) = b + 1
        /\ \A i \in 1..(b + 1) : (s.base \o usd)[i] = ps[i]
    <3>1. /\ s.base \o usd \in Seq(Piece) /\ Len(s.base \o usd) = Len(s.base) + Len(usd)
          /\ \A i \in 1..(Len(s.base) + Len(usd)) :
                 (s.base \o usd)[i] = IF i <= Len(s.base) THEN s.base[i] ELSE usd[i - Len(s.base)]
      BY <1>1, <1>4, ConcatProperties, Zenon
    <3>2. ASSUME NEW i \in 1..(b + 1) PROVE (s.base \o usd)[i] = ps[i]
      <4>1. CASE i <= b
        BY <1>1, <1>2, <1>4, <3>1, <4>1 DEF b
      <4>2. CASE i = b + 1
        <5>1. i \in 1..(Len(s.base) + Len(usd)) /\ ~(i <= Len(s.base)) /\ i - Len(s.base) = 1
          BY <1>1, <1>4, <4>2 DEF b
        <5> QED
          BY <1>2, <1>4, <3>1, <4>2, <5>1
      <4>3. i <= b \/ i = b + 1
        BY <1>1
      <4> QED
        BY <4>1, <4>2, <4>3, Zenon
    <3> QED
      BY <1>4, <3>1, <3>2 DEF b
  <2>6. UsdtToUsd(ps) \in Seq(Piece) /\ Len(UsdtToUsd(ps)) = b + 1
        /\ \A i \in 1..(b + 1) : UsdtToUsd(ps)[i] = ps[i]
    <3>1. \A n \in 1..(b + 1) : ps[n] \in Piece
      BY <1>1, <1>2
    <3> QED
      BY <2>3, <2>4, <3>1
  <2> QED
    BY <2>5, <2>6, SeqEqual
<1>7. CutPair(UsdtToUsd(ps), 3) = <<s.base, UsdtToUsd(s.quote)>>
  <2> DEFINE qs == s.base \o usd
  <2>1. Len(qs) = b + 1 /\ qs[b + 1] = "USD"
    <3>1. /\ Len(qs) = Len(s.base) + Len(usd)
          /\ \A i \in 1..(Len(s.base) + Len(usd)) :
                 qs[i] = IF i <= Len(s.base) THEN s.base[i] ELSE usd[i - Len(s.base)]
      BY <1>1, <1>4, ConcatProperties, Zenon
    <3>2. /\ b + 1 \in 1..(Len(s.base) + Len(usd)) /\ ~(b + 1 <= Len(s.base))
          /\ (b + 1) - Len(s.base) = 1
      BY <1>1, <1>4 DEF b
    <3> QED
      BY <1>4, <3>1, <3>2 DEF b
  <2> HIDE DEF qs
  <2>2. LettersAt(qs, (b + 1)..(b + 1)) = Letters(qs[b + 1])
    BY <1>1, LastLetters
  <2>3. LettersAt(qs, (Len(s.base) + 1)..Len(qs)) = 3
    BY <2>1, <2>2 DEF b, Letters
  <2>4. CutPair(qs, 3) = <<s.base, usd>>
    <3>1. 3 \in Nat
      OBVIOUS
    <3> QED
      BY <1>1, <1>4, <2>3, <3>1, CutConcat, Zenon DEF qs
  <2> QED
    BY <1>1, <1>6, <2>4, UsdOfUsdt DEF qs, usd
<1> DEFINE k == StreamKey(s)
<1>8. k.pieces = ps /\ ToLower(k).pieces = ps
  BY DEF StreamKey, ToLower, Text, ps
<1> HIDE DEF k
<1>9. \A p, c, i : Name(p, c, i).pair = p
  BY DEF Name
<1>10. CASE e \in {"Binance", "Bybit"}
  BY <1>8, <1>9, <1>10 DEF NameFor, Listed, binanceName, bybitName, k, ps
<1>11. CASE e = "Kraken"
  BY <1>7, <1>8, <1>9, <1>11 DEF NameFor, Listed, krakenName, k
<1>12. CASE e \in {"Coinbase", "OKX", "Gate.io"}
  BY <1>5, <1>8, <1>9, <1>12 DEF NameFor, Listed, coinbaseName, okxName, gateName, k
<1> QED
  BY <1>10, <1>11, <1>12 DEF Exchange

--------------------------------------------------------------------------------
\* Kraken's handler, the way back: without a USD nothing is replaced.
LEMMA NoUsdToReplace ==
    ASSUME NEW ps \in Seq(Piece), \A i \in 1..Len(ps) : ps[i] # "USD"
    PROVE  UsdToUsdt(ps) = ps
<1>1. Len(ps) \in Nat /\ DOMAIN ps = 1..Len(ps)
  OBVIOUS
<1>2. ASSUME NEW n \in Int, n <= Len(ps) PROVE Cardinality(UsdIn(ps, n)) = 0
  <2>1. UsdIn(ps, n) = {}
    BY <1>1, <1>2 DEF UsdIn
  <2> QED
    BY <2>1, FS_EmptySet, Zenon
<1>3. \A i \in 1..Len(ps) : MovedTo(ps, i) = i
  <2>1. SUFFICES ASSUME NEW i \in 1..Len(ps) PROVE MovedTo(ps, i) = i
    OBVIOUS
  <2>2. i \in Int /\ i - 1 \in Int /\ i - 1 <= Len(ps) /\ i + 0 = i
    BY <1>1
  <2>3. Cardinality(UsdIn(ps, i - 1)) = 0
    BY <1>2, <2>2, Zenon
  <2> QED
    BY <2>2, <2>3 DEF MovedTo
<1>4. Len(ps) + Cardinality(UsdIn(ps, Len(ps))) = Len(ps)
  <2>1. Cardinality(UsdIn(ps, Len(ps))) = 0
    BY <1>1, <1>2
  <2> QED
    BY <1>1, <2>1
<1>5. ASSUME NEW n \in 1..Len(ps)
      PROVE  /\ \E i \in 1..Len(ps) : MovedTo(ps, i) = n
             /\ (CHOOSE i \in 1..Len(ps) : MovedTo(ps, i) = n) = n
  BY <1>3, Zenon
<1>6. UsdToUsdt(ps) = [n \in 1..Len(ps) |-> ps[n]]
  BY <1>1, <1>4, <1>5, Zenon DEF UsdToUsdt
<1> QED
  BY <1>1, <1>6

\* Nor is anything left out without one.
LEMMA NoTetherToReplace ==
    ASSUME NEW ps \in Seq(Piece), \A i \in 1..Len(ps) : ps[i] # "USD"
    PROVE  UsdtToUsd(ps) = ps
<1>1. Len(ps) \in Nat /\ DOMAIN ps = 1..Len(ps)
  OBVIOUS
<1>2. TethersIn(ps) = {}
  BY <1>1 DEF TethersIn
<1>3. DOMAIN ps \ TethersIn(ps) = 1..Len(ps)
  BY <1>1, <1>2
<1>4. UsdtToUsd(ps) = [n \in 1..Len(ps) |-> ps[n]]
  BY <1>1, <1>3, KeptFront DEF UsdtToUsd
<1> QED
  BY <1>1, <1>4

\* A USD at the end alone becomes USDT.
LEMMA LastUsdReplaced ==
    ASSUME NEW c \in Seq(Piece), \A i \in 1..Len(c) : c[i] # "USD"
    PROVE  UsdToUsdt(c \o <<"USD">>) = c \o Usdt
<1> DEFINE b == Len(c)
           u == <<"USD">>
           ps == c \o u
           qs == c \o Usdt
<1>1. b \in Nat /\ u \in Seq(Piece) /\ Len(u) = 1 /\ u[1] = "USD"
  BY WireSymbols
<1>2. Usdt \in Seq(Piece) /\ Len(Usdt) = 2 /\ Usdt[1] = "USD" /\ Usdt[2] = "T"
  <2>1. "USD" \in Piece /\ "T" \in Piece
    BY WireSymbols
  <2> QED
    BY <2>1 DEF Usdt
<1> HIDE DEF u
<1>3. /\ ps \in Seq(Piece) /\ Len(ps) = b + 1
      /\ \A i \in 1..b : ps[i] = c[i]
      /\ ps[b + 1] = "USD"
  <2>1. /\ c \o u \in Seq(Piece) /\ Len(c \o u) = Len(c) + Len(u)
        /\ \A i \in 1..(Len(c) + Len(u)) :
               (c \o u)[i] = IF i <= Len(c) THEN c[i] ELSE u[i - Len(c)]
    BY <1>1, ConcatProperties, Zenon
  <2> HIDE DEF ps
  <2>2. /\ ps \in Seq(Piece) /\ Len(ps) = b + 1
        /\ \A i \in 1..(b + 1) : ps[i] = IF i <= b THEN c[i] ELSE u[i - b]
    BY <1>1, <2>1, Zenon DEF ps
  <2>3. b + 1 \in 1..(b + 1) /\ (b + 1) - b = 1
    BY <1>1
  <2> HIDE DEF b
  <2> QED
    BY <1>1, <2>2, <2>3
<1>4. /\ qs \in Seq(Piece) /\ Len(qs) = b + 2
      /\ \A i \in 1..b : qs[i] = c[i]
      /\ qs[b + 1] = "USD" /\ qs[b + 2] = "T"
  <2> DEFINE v == Usdt
  <2> HIDE DEF v
  <2>1. /\ c \o v \in Seq(Piece) /\ Len(c \o v) = Len(c) + Len(v)
        /\ \A i \in 1..(Len(c) + Len(v)) :
               (c \o v)[i] = IF i <= Len(c) THEN c[i] ELSE v[i - Len(c)]
    BY <1>2, ConcatProperties, Zenon DEF v
  <2>2. qs = c \o v /\ Len(v) = 2 /\ v[1] = "USD" /\ v[2] = "T"
    BY <1>2 DEF v
  <2> HIDE DEF qs
  <2>3. /\ qs \in Seq(Piece) /\ Len(qs) = b + 2
        /\ \A i \in 1..(b + 2) : qs[i] = IF i <= b THEN c[i] ELSE v[i - b]
    BY <2>1, <2>2, Zenon
  <2>4. b + 1 \in 1..(b + 2) /\ b + 2 \in 1..(b + 2) /\ (b + 1) - b = 1 /\ (b + 2) - b = 2
    BY <1>1
  <2> HIDE DEF b, ps
  <2>5. qs[b + 1] = v[1]
    BY <1>1, <2>3, <2>4
  <2>6. qs[b + 2] = v[2]
    BY <1>1, <2>3, <2>4
  <2>7. \A i \in 1..b : qs[i] = c[i]
    BY <1>1, <2>3
  <2> QED
    BY <2>2, <2>3, <2>5, <2>6, <2>7, Zenon
<1>5. \A i \in 1..b : c[i] # "USD"
  OBVIOUS
<1>6. DOMAIN ps = 1..(b + 1)
  BY <1>3
<1> HIDE DEF ps, qs, b
<1>7. ASSUME NEW n \in Int, n <= b PROVE Cardinality(UsdIn(ps, n)) = 0
  <2>1. UsdIn(ps, n) = {}
    BY <1>1, <1>3, <1>5, <1>7 DEF UsdIn
  <2> QED
    BY <2>1, FS_EmptySet, Zenon
<1>8. \A i \in 1..(b + 1) : MovedTo(ps, i) = i
  <2>1. SUFFICES ASSUME NEW i \in 1..(b + 1) PROVE MovedTo(ps, i) = i
    OBVIOUS
  <2>2. i \in Int /\ i - 1 \in Int /\ i - 1 <= b /\ i + 0 = i
    BY <1>1
  <2>3. Cardinality(UsdIn(ps, i - 1)) = 0
    BY <1>7, <2>2, Zenon
  <2> QED
    BY <2>2, <2>3 DEF MovedTo
<1>9. Len(ps) + Cardinality(UsdIn(ps, Len(ps))) = b + 2
  <2>1. UsdIn(ps, b + 1) = {b + 1}
    BY <1>1, <1>3, <1>5 DEF UsdIn
  <2>2. Cardinality({b + 1}) = 1
    BY FS_Singleton, Zenon
  <2>3. Cardinality(UsdIn(ps, Len(ps))) = 1
    BY <1>3, <2>1, <2>2, Zenon
  <2> QED
    BY <1>1, <1>3, <2>3
<1>10. ASSUME NEW n \in 1..(b + 1)
       PROVE  /\ \E i \in DOMAIN ps : MovedTo(ps, i) = n
              /\ (CHOOSE i \in DOMAIN ps : MovedTo(ps, i) = n) = n
  BY <1>6, <1>8, Zenon
<1>11. ~ \E i \in DOMAIN ps : MovedTo(ps, i) = b + 2
  BY <1>1, <1>6, <1>8
<1>12. UsdToUsdt(ps) = [n \in 1..(b + 2) |-> IF n <= b + 1 THEN ps[n] ELSE "T"]
  <2>1. UsdToUsdt(ps) = [n \in 1..(b + 2) |->
                            IF \E i \in DOMAIN ps : MovedTo(ps, i) = n
                            THEN ps[CHOOSE i \in DOMAIN ps : MovedTo(ps, i) = n] ELSE "T"]
    BY <1>9, Zenon DEF UsdToUsdt
  <2>2. ASSUME NEW n \in 1..(b + 2)
        PROVE  (IF \E i \in DOMAIN ps : MovedTo(ps, i) = n
                THEN ps[CHOOSE i \in DOMAIN ps : MovedTo(ps, i) = n] ELSE "T")
                 = IF n <= b + 1 THEN ps[n] ELSE "T"
    <3>1. (n \in 1..(b + 1) /\ n <= b + 1) \/ (n = b + 2 /\ ~(n <= b + 1))
      BY <1>1
    <3> QED
      BY <1>10, <1>11, <3>1, Zenon
  <2> QED
    BY <2>1, <2>2, Zenon
<1>13. qs = [n \in 1..(b + 2) |-> IF n <= b + 1 THEN ps[n] ELSE "T"]
  <2>1. qs = [n \in 1..(b + 2) |-> qs[n]]
    BY <1>4
  <2>2. ASSUME NEW n \in 1..(b + 2) PROVE qs[n] = IF n <= b + 1 THEN ps[n] ELSE "T"
    <3>1. n \in 1..b \/ n = b + 1 \/ n = b + 2
      BY <1>1
    <3> QED
      BY <1>1, <1>3, <1>4, <3>1
  <2> QED
    BY <2>1, <2>2, Zenon
<1> QED
  BY <1>12, <1>13 DEF ps, qs, u

--------------------------------------------------------------------------------
\* A table gives the default or the second part of an entry.
LEMMA LookupGives ==
    \A t, k, d : \/ Lookup(t, k, d) = d
                \/ \E e \in t : e[1] = k /\ Lookup(t, k, d) = e[2]
BY Zenon DEF Lookup

\* Kraken's two tables bring the stream's interval back.
LEMMA KrakenInterval == krakenInterval(convertIntervalToKraken("1m")) = "1m"
<1>1. convertIntervalToKraken("1m") = "1"
  BY LookupGives DEF convertIntervalToKraken
<1> QED
  BY <1>1, LookupGives DEF krakenInterval

\* So do Coinbase's, by way of the granularity it answers with.
LEMMA CoinbaseInterval == coinbaseInterval(convertIntervalToCoinbase("1m")) = "1m"
<1>1. convertIntervalToCoinbase("1m") = "ONE_MINUTE"
  BY LookupGives DEF convertIntervalToCoinbase
<1>2. granularity("ONE_MINUTE") = "60"
  BY LookupGives DEF granularity
<1> QED
  BY <1>1, <1>2, LookupGives DEF coinbaseInterval

\* Bybit's.
LEMMA BybitInterval == bybitInterval(convertIntervalToBybit("1m")) = "1m"
<1>1. convertIntervalToBybit("1m") = "1"
  BY LookupGives DEF convertIntervalToBybit
<1> QED
  BY <1>1, LookupGives DEF bybitInterval

\* OKX's.
LEMMA OKXInterval == okxInterval(convertIntervalToOKX("1m")) = "1m"
<1>1. convertIntervalToOKX("1m") = "candle1m"
  BY LookupGives DEF convertIntervalToOKX
<1> QED
  BY <1>1, LookupGives DEF okxInterval

\* And Gate.io's.
LEMMA GateInterval == convertGateIOIntervalToStandard(convertIntervalToGateIO("1m")) = "1m"
BY DEF convertGateIOIntervalToStandard, convertIntervalToGateIO, SameNames

\* A candle found or created for the reports of a symbol.
Filed(symbol, s) ==
    \/ symbol = Text(Pieces(s), "upper")
    \/ /\ StrayUsd(s)
       /\ symbol = Text(UsdToUsdt(s.base \o UsdtToUsd(s.quote)), "upper")

\* Kraken's pair is made the symbol again, but for a stray USD.
LEMMA KrakenSymbol ==
    ASSUME NEW s \in Symbol
    PROVE  Filed(Text(UsdToUsdt(s.base \o UsdtToUsd(s.quote)), "upper"), s)
<1> DEFINE c == s.base
           q == s.quote
<1>1. c \in Seq(Piece) /\ q \in Seq(Piece)
  BY WireSymbols
<1>2. CASE StrayUsd(s)
  BY <1>2 DEF Filed
<1>3. CASE ~StrayUsd(s)
  <2>1. \A i \in 1..Len(c) : c[i] # "USD"
    <3>1. \A i \in 1..Len(c) : c[i] \in Range(c)
      BY <1>1 DEF Range
    <3> QED
      BY <1>3, <3>1 DEF StrayUsd
  <2>2. CASE q = Usdt
    <3>1. UsdToUsdt(c \o UsdtToUsd(q)) = c \o q
      BY <1>1, <2>1, <2>2, UsdOfUsdt, LastUsdReplaced, Zenon
    <3> QED
      BY <3>1, Zenon DEF Filed, Pieces
  <2>3. CASE q # Usdt
    <3>1. \A i \in 1..Len(q) : q[i] # "USD"
      <4>1. \A i \in 1..Len(q) : q[i] \in Range(q)
        BY <1>1 DEF Range
      <4> QED
        BY <1>3, <2>3, <4>1 DEF StrayUsd, Usdt
    <3>2. UsdtToUsd(q) = q
      BY <1>1, <3>1, NoTetherToReplace
    <3>3. /\ c \o q \in Seq(Piece) /\ Len(c \o q) = Len(c) + Len(q)
          /\ \A i \in 1..(Len(c) + Len(q)) :
                 (c \o q)[i] = IF i <= Len(c) THEN c[i] ELSE q[i - Len(c)]
      BY <1>1, ConcatProperties, Zenon
    <3> DEFINE ps == c \o q
    <3> HIDE DEF ps
    <3>4. /\ ps \in Seq(Piece) /\ Len(ps) = Len(c) + Len(q)
          /\ \A i \in 1..(Len(c) + Len(q)) : ps[i] = IF i <= Len(c) THEN c[i] ELSE q[i - Len(c)]
      BY <3>3, Zenon DEF ps
    <3> HIDE DEF c, q
    <3>5. ASSUME NEW i \in 1..Len(ps) PROVE ps[i] # "USD"
      <4>1. Len(c) \in Nat /\ Len(q) \in Nat /\ i \in 1..(Len(c) + Len(q))
        BY <1>1, <3>4
      <4>2. CASE i <= Len(c)
        BY <2>1, <3>4, <4>1, <4>2
      <4>3. CASE ~(i <= Len(c))
        <5>1. i - Len(c) \in 1..Len(q)
          BY <4>1, <4>3
        <5> QED
          BY <3>1, <3>4, <4>1, <4>3, <5>1
      <4> QED
        BY <4>2, <4>3
    <3>6. UsdToUsdt(ps) = ps
      BY <3>4, <3>5, NoUsdToReplace
    <3>7. UsdToUsdt(c \o UsdtToUsd(q)) = c \o q
      BY <3>2, <3>6, Zenon DEF ps
    <3> QED
      BY <3>7, Zenon DEF Filed, Pieces, c, q
  <2> QED
    BY <2>2, <2>3
<1> QED
  BY <1>2, <1>3

\* What a handler makes of the name of a stream it was asked for.
LEMMA DecodedFiled ==
    ASSUME NEW r, NEW s \in Symbol, NEW e \in Exchange, NEW m,
           NameFor(e, r).pair = Listed(e, s)
    PROVE  /\ Decoded(e, NameFor(e, r), m).interval = StreamInterval
           /\ Filed(Decoded(e, NameFor(e, r), m).symbol, s)
           /\ Decoded(e, NameFor(e, r), m).open = m
<1> DEFINE n == NameFor(e, r)
           k == StreamKey(r)
<1>1. /\ e = "Binance" => n = binanceName(k)
      /\ e = "Kraken" => n = krakenName(k)
      /\ e = "Coinbase" => n = coinbaseName(k)
      /\ e = "Bybit" => n = bybitName(k)
      /\ e = "OKX" => n = okxName(k)
      /\ e = "Gate.io" => n = gateName(k)
  BY DEF NameFor
<1>2. /\ e = "Binance" => n.int = "1m"
      /\ e = "Kraken" => n.case = "upper" /\ n.int = convertIntervalToKraken("1m")
      /\ e = "Coinbase" => n.case = "upper" /\ n.int = convertIntervalToCoinbase("1m")
      /\ e = "Bybit" => n.case = "upper" /\ n.int = convertIntervalToBybit("1m")
      /\ e = "OKX" => n.case = "upper" /\ n.int = convertIntervalToOKX("1m")
      /\ e = "Gate.io" => n.case = "upper" /\ n.int = convertIntervalToGateIO("1m")
  <2>1. ToUpper(k).case = "upper" /\ StreamInterval = "1m"
    BY DEF ToUpper, Text, StreamInterval
  <2>2. \A p, c, i : Name(p, c, i).case = c /\ Name(p, c, i).int = i
    BY DEF Name
  <2>3. /\ e = "Binance" => n.int = StreamInterval
        /\ e = "Kraken" =>
             n.case = ToUpper(k).case /\ n.int = convertIntervalToKraken(StreamInterval)
        /\ e = "Coinbase" =>
             n.case = ToUpper(k).case /\ n.int = convertIntervalToCoinbase(StreamInterval)
        /\ e = "Bybit" =>
             n.case = ToUpper(k).case /\ n.int = convertIntervalToBybit(StreamInterval)
        /\ e = "OKX" => n.case = ToUpper(k).case /\ n.int = convertIntervalToOKX(StreamInterval)
        /\ e = "Gate.io" =>
             n.case = ToUpper(k).case /\ n.int = convertIntervalToGateIO(StreamInterval)
    <3> HIDE DEF n, k
    <3>1. e = "Binance" => n.int = StreamInterval
      BY <1>1, <2>2 DEF binanceName
    <3>2. e = "Kraken" => n.case = ToUpper(k).case /\ n.int = convertIntervalToKraken(StreamInterval)
      BY <1>1, <2>2 DEF krakenName
    <3>3. e = "Coinbase" =>
             n.case = ToUpper(k).case /\ n.int = convertIntervalToCoinbase(StreamInterval)
      BY <1>1, <2>2 DEF coinbaseName
    <3>4. e = "Bybit" => n.case = ToUpper(k).case /\ n.int = convertIntervalToBybit(StreamInterval)
      BY <1>1, <2>2 DEF bybitName
    <3>5. e = "OKX" => n.case = ToUpper(k).case /\ n.int = convertIntervalToOKX(StreamInterval)
      BY <1>1, <2>2 DEF okxName
    <3>6. e = "Gate.io" =>
             n.case = ToUpper(k).case /\ n.int = convertIntervalToGateIO(StreamInterval)
      BY <1>1, <2>2 DEF gateName
    <3> QED
      BY <3>1, <3>2, <3>3, <3>4, <3>5, <3>6, Zenon
  <2> HIDE DEF n, k
  <2> QED
    BY <2>1, <2>3, Zenon
<1> DEFINE pair == n.pair
<1>3. pair = Listed(e, s)
  OBVIOUS
<1>4. s.base \in Seq(Piece) /\ s.quote \in Seq(Piece) /\ Pieces(s) \in Seq(Piece)
  <2>1. s.base \in Seq(Piece) /\ s.quote \in Seq(Piece)
    BY WireSymbols
  <2> QED
    BY <2>1, ConcatProperties, Zenon DEF Pieces
<1> HIDE DEF n, k, pair
<1>5. /\ e \in {"Binance", "Bybit"} => Joined(n).pieces = Pieces(s)
      /\ e = "Kraken" => Joined(n).pieces = s.base \o UsdtToUsd(s.quote)
      /\ e \in {"Coinbase", "OKX", "Gate.io"} => Joined(n).pieces = Pieces(s)
  <2>1. Joined(n).pieces = pair[1] \o pair[2]
    BY DEF Joined, Text, pair
  <2>2. Pieces(s) \o <<>> = Pieces(s)
    BY <1>4, ConcatEmptySeq
  <2> DEFINE bs == s.base
             qs == s.quote
             ks == UsdtToUsd(qs)
             ps == Pieces(s)
             none == <<>>
  <2>3. ps \o none = ps /\ ps = bs \o qs
    BY <2>2 DEF Pieces
  <2>4. /\ e \in {"Binance", "Bybit"} => pair = <<ps, none>>
        /\ e = "Kraken" => pair = <<bs, ks>>
        /\ e \in {"Coinbase", "OKX", "Gate.io"} => pair = <<bs, qs>>
    BY <1>3 DEF Listed
  <2> HIDE DEF bs, qs, ks, ps, none
  <2>5. /\ e \in {"Binance", "Bybit"} => pair[1] = ps /\ pair[2] = none
        /\ e = "Kraken" => pair[1] = bs /\ pair[2] = ks
        /\ e \in {"Coinbase", "OKX", "Gate.io"} => pair[1] = bs /\ pair[2] = qs
    BY <2>4
  <2> QED
    BY <2>1, <2>3, <2>5, Zenon DEF bs, qs, ks, ps
<1>6. Joined(n).case = n.case /\ Joined(n) = Text(Joined(n).pieces, n.case)
  BY DEF Joined, Text
<1>7. \A t, i, z : /\ CandleOf(t, i, m, z).symbol = t /\ CandleOf(t, i, m, z).interval = i
                  /\ CandleOf(t, i, m, z).open = m
  BY DEF CandleOf
<1>8. CASE e = "Binance"
  <2>1. Decoded(e, n, m) = CandleOf(ToUpper(Joined(n)), n.int, m, 0)
    BY <1>8 DEF Decoded, processBinanceMessage
  <2>2. ToUpper(Joined(n)) = Text(Pieces(s), "upper")
    BY <1>5, <1>8 DEF ToUpper
  <2>3. /\ Decoded(e, n, m).interval = "1m" /\ Decoded(e, n, m).open = m
        /\ Decoded(e, n, m).symbol = Text(Pieces(s), "upper")
    BY <1>2, <1>8, <2>1, <2>2 DEF CandleOf
  <2> QED
    BY <2>3 DEF Filed, StreamInterval, n
<1>9. CASE e = "Kraken"
  <2>1. Decoded(e, n, m)
          = CandleOf(Text(UsdToUsdt(Joined(n).pieces), n.case), krakenInterval(n.int), m, ServerZone)
    BY <1>9 DEF Decoded, processKrakenMessage
  <2>2. Text(UsdToUsdt(Joined(n).pieces), n.case)
          = Text(UsdToUsdt(s.base \o UsdtToUsd(s.quote)), "upper")
    BY <1>2, <1>5, <1>9, Zenon
  <2>3. krakenInterval(n.int) = "1m"
    BY <1>2, <1>9, KrakenInterval, Zenon
  <2>4. /\ Decoded(e, n, m).interval = "1m" /\ Decoded(e, n, m).open = m
        /\ Decoded(e, n, m).symbol = Text(UsdToUsdt(s.base \o UsdtToUsd(s.quote)), "upper")
    BY <2>1, <2>2, <2>3 DEF CandleOf
  <2>5. Filed(Decoded(e, n, m).symbol, s)
    BY <2>4, KrakenSymbol, Zenon
  <2> QED
    BY <2>4, <2>5 DEF StreamInterval, n
<1>10. CASE e \in {"Coinbase", "Bybit", "OKX", "Gate.io"}
  <2>1. Decoded(e, n, m).symbol = Joined(n) /\ Decoded(e, n, m).open = m
    BY <1>7, <1>10 DEF Decoded, processCoinbaseMessage, processBybitMessage,
                       processOKXMessage, processGateIOMessage
  <2>2. Joined(n) = Text(Pieces(s), "upper")
    <3>1. n.case = "upper" /\ Joined(n).pieces = Pieces(s)
      BY <1>2, <1>5, <1>10
    <3> QED
      BY <1>6, <3>1, Zenon
  <2>3. Decoded(e, n, m).interval = "1m"
    <3>1. CASE e = "Coinbase"
      BY <1>2, <1>7, <3>1, CoinbaseInterval DEF Decoded, processCoinbaseMessage
    <3>2. CASE e = "Bybit"
      BY <1>2, <1>7, <3>2, BybitInterval DEF Decoded, processBybitMessage
    <3>3. CASE e = "OKX"
      BY <1>2, <1>7, <3>3, OKXInterval DEF Decoded, processOKXMessage
    <3>4. CASE e = "Gate.io"
      BY <1>2, <1>7, <3>4, GateInterval DEF Decoded, processGateIOMessage
    <3> QED
      BY <1>10, <3>1, <3>2, <3>3, <3>4
  <2> QED
    BY <2>1, <2>2, <2>3, Zenon DEF Filed, StreamInterval, n
<1> QED
  BY <1>8, <1>9, <1>10 DEF Exchange

--------------------------------------------------------------------------------
\* The inductive invariant of the subscription: the names are those of the tracked
\* symbols, each of them, one for one; the batches written are the first `next` of them.
AskedNames == IF ex \in Exchange THEN {NameFor(ex, s) : s \in tracked} ELSE {}
Positioned(q) == UNION {{b} \X DOMAIN q[b] : b \in DOMAIN q}
WireTypes ==
    /\ tracked \subseteq Symbol
    /\ at \in {"idle", "write", "listen", "failed"}
    /\ args \in Seq(AskedNames)
    /\ sent \in Seq(Seq(AskedNames))
    /\ next \in 0..Len(args)
Stage ==
    /\ at = "idle" => args = <<>> /\ sent = <<>>
    /\ at # "idle" => /\ ex \in Exchange
                      /\ Len(args) = Cardinality(tracked)
                      /\ \A s \in tracked : \E i \in 1..Len(args) : args[i] = NameFor(ex, s)
    /\ at = "listen" => next = Len(args)
Counted ==
    /\ \A b \in 1..Len(sent) : Len(sent[b]) \in 1..BatchLimit[ex]
    /\ IsFiniteSet(Positioned(sent))
    /\ Cardinality(Positioned(sent)) = next
    /\ \A i \in 1..next : \E b \in 1..Len(sent) : \E j \in 1..Len(sent[b]) : sent[b][j] = args[i]
WireInv == WireTypes /\ Stage /\ Counted

\* The order a map is ranged over in meets each key.
LEMMA EachKeyOnce ==
    ASSUME NEW S, IsFiniteSet(S), NEW order \in SetToSeqs(S)
    PROVE  /\ Cardinality(S) \in Nat
           /\ order \in [1..Cardinality(S) -> S]
           /\ \A x \in S : \E i \in 1..Cardinality(S) : order[i] = x
<1> DEFINE n == Cardinality(S)
           D == 1..n
<1>1. n \in Nat
  BY FS_CardinalityType
<1>2. order \in [D -> S] /\ \A i, j \in D : i # j => order[i] # order[j]
  BY DEF SetToSeqs
<1>3. IsFiniteSet(D) /\ Cardinality(D) = n
  BY <1>1, FS_Interval
<1> HIDE DEF n, D
<1>4. order \in Injection(D, S)
  BY <1>2 DEF Injection, IsInjective
<1>5. order \in Surjection(D, S)
  BY <1>3, <1>4, FS_Injection DEF n
<1> QED
  BY <1>1, <1>2, <1>5 DEF Surjection, D, n

\* A batch adds its names to those written.
LEMMA BatchAdds ==
    ASSUME NEW N, NEW q \in Seq(Seq(N)), NEW v \in Seq(N), IsFiniteSet(Positioned(q))
    PROVE  /\ IsFiniteSet(Positioned(Append(q, v)))
           /\ Cardinality(Positioned(Append(q, v))) = Cardinality(Positioned(q)) + Len(v)
<1> DEFINE w == Append(q, v)
           m == Len(q)
           C == {m + 1} \X (1..Len(v))
           P == Positioned(q)
<1>1. m \in Nat /\ Len(v) \in Nat /\ DOMAIN q = 1..m /\ DOMAIN v = 1..Len(v)
  OBVIOUS
<1>2. /\ w \in Seq(Seq(N)) /\ Len(w) = m + 1
      /\ \A i \in 1..m : w[i] = q[i]
      /\ w[m + 1] = v
  BY AppendProperties
<1>3. DOMAIN w = 1..(m + 1)
  BY <1>2
<1> HIDE DEF w, m
<1>4. Positioned(w) = P \cup C
  <2>1. 1..(m + 1) = (1..m) \cup {m + 1}
    BY <1>1
  <2>2. \A b \in 1..m : {b} \X DOMAIN w[b] = {b} \X DOMAIN q[b]
    BY <1>2
  <2>3. {m + 1} \X DOMAIN w[m + 1] = C
    BY <1>1, <1>2
  <2>4. \A x : x \in Positioned(w) <=> \E b \in 1..(m + 1) : x \in {b} \X DOMAIN w[b]
    BY <1>3, Zenon DEF Positioned
  <2>5. \A x : x \in P <=> \E b \in 1..m : x \in {b} \X DOMAIN q[b]
    BY <1>1, Zenon DEF Positioned
  <2> HIDE DEF C, P
  <2>6. ASSUME NEW x PROVE x \in Positioned(w) <=> x \in P \cup C
    <3>1. (\E b \in 1..(m + 1) : x \in {b} \X DOMAIN w[b])
            <=> (\E b \in 1..m : x \in {b} \X DOMAIN w[b]) \/ x \in C
      BY <2>1, <2>3, Zenon
    <3>2. (\E b \in 1..m : x \in {b} \X DOMAIN w[b])
            <=> (\E b \in 1..m : x \in {b} \X DOMAIN q[b])
      BY <2>2, Zenon
    <3> QED
      BY <2>4, <2>5, <3>1, <3>2, Zenon
  <2> QED
    BY <2>6
<1>5. IsFiniteSet(C) /\ Cardinality(C) = Len(v)
  BY <1>1, Column
<1>6. P \cap C = {}
  <2>1. \A x \in P : x[1] \in 1..m
    BY <1>1 DEF Positioned
  <2>2. \A x \in C : x[1] = m + 1
    OBVIOUS
  <2> QED
    BY <1>1, <2>1, <2>2
<1>7. IsFiniteSet(P) /\ Cardinality(P) \in Nat
  BY FS_CardinalityType, Zenon
<1> HIDE DEF C, P
<1>8. Cardinality(P \cap C) = 0
  BY <1>6, FS_EmptySet, Zenon
<1>9. /\ IsFiniteSet(P \cup C)
      /\ Cardinality(P \cup C) = Cardinality(P) + Cardinality(C) - Cardinality(P \cap C)
  BY <1>5, <1>7, FS_Union
<1>10. Cardinality(P \cup C) = Cardinality(P) + Len(v)
  BY <1>1, <1>5, <1>7, <1>8, <1>9
<1> QED
  BY <1>4, <1>9, <1>10, Zenon DEF w, P

\* No batch holds no name.
LEMMA NothingWritten == IsFiniteSet(Positioned(<<>>)) /\ Cardinality(Positioned(<<>>)) = 0
<1>1. Positioned(<<>>) = {}
  BY DEF Positioned
<1> QED
  BY <1>1, FS_EmptySet, Zenon

\* Nothing is asked for before the first connection.
LEMMA WireInitially == Init => WireInv
<1> SUFFICES ASSUME Init PROVE WireInv
  OBVIOUS
<1>1. tracked \subseteq Symbol /\ at = "idle" /\ args = <<>> /\ sent = <<>> /\ next = 0
  BY DEF Init
<1>2. Len(args) = 0 /\ Len(sent) = 0
  BY <1>1
<1>3. WireTypes
  BY <1>1, <1>2 DEF WireTypes
<1>4. Stage
  BY <1>1 DEF Stage
<1>5. IsFiniteSet(Positioned(sent)) /\ Cardinality(Positioned(sent)) = next
  BY <1>1, NothingWritten, Zenon
<1>6. Counted
  BY <1>1, <1>2, <1>5 DEF Counted
<1> QED
  BY <1>3, <1>4, <1>6 DEF WireInv

\* subscribeX lists the name of each tracked symbol.
LEMMA WireSubscribes ==
    ASSUME WireInv, NEW e \in Exchange, Subscribe(e)
    PROVE  WireInv'
<1> DEFINE n == Cardinality(tracked)
<1>1. /\ tracked' = tracked /\ ex' = e /\ next' = 0 /\ sent' = <<>>
      /\ at' = IF tracked = {} THEN "listen" ELSE "write"
  BY DEF Subscribe
<1>2. IsFiniteSet(tracked) /\ tracked \subseteq Symbol
  <2>1. tracked \in SUBSET Symbol
    BY DEF WireInv, WireTypes
  <2> QED
    BY <2>1, WireSymbols, FS_Subset
<1>3. PICK order \in SetToSeqs(tracked) : args' = [i \in DOMAIN order |-> NameFor(e, order[i])]
  BY DEF Subscribe
<1>4. /\ n \in Nat /\ order \in [1..n -> tracked]
      /\ \A s \in tracked : \E i \in 1..n : order[i] = s
  BY <1>2, EachKeyOnce
<1>5. args' = [i \in 1..n |-> NameFor(e, order[i])]
  BY <1>3, <1>4
<1> DEFINE N == {NameFor(e, s) : s \in tracked}
<1>6. AskedNames' = N
  BY <1>1 DEF AskedNames
<1>7. args' \in Seq(N) /\ Len(args') = n
  <2>1. \A i \in 1..n : NameFor(e, order[i]) \in N
    BY <1>4
  <2> HIDE DEF N, n
  <2> QED
    BY <1>4, <1>5, <2>1
<1>8. ASSUME NEW s \in tracked PROVE \E i \in 1..n : args'[i] = NameFor(e, s)
  <2>1. PICK i \in 1..n : order[i] = s
    BY <1>4
  <2>2. args'[i] = NameFor(e, s)
    BY <1>5, <2>1
  <2> QED
    BY <2>2
<1>9. Len(sent') = 0
  BY <1>1
<1>10. at' = "listen" => n = 0
  BY <1>1, FS_EmptySet
<1> HIDE DEF N, n
<1>11. WireTypes'
  <2>1. sent' \in Seq(Seq(N))
    BY <1>1
  <2>2. at' \in {"idle", "write", "listen", "failed"} /\ next' \in 0..Len(args')
    BY <1>1, <1>4, <1>7
  <2> QED
    BY <1>1, <1>2, <1>6, <1>7, <2>1, <2>2, Zenon DEF WireTypes
<1>12. Stage'
  <2>1. at' # "idle"
    BY <1>1
  <2>2. \A s \in tracked : \E i \in 1..Len(args') : args'[i] = NameFor(e, s)
    BY <1>7, <1>8, Zenon
  <2>3. at' = "listen" => next' = Len(args')
    BY <1>1, <1>7, <1>10
  <2> QED
    BY <1>1, <1>7, <2>1, <2>2, <2>3, Zenon DEF Stage, n
<1>13. Counted'
  <2>1. IsFiniteSet(Positioned(sent')) /\ Cardinality(Positioned(sent')) = next'
    BY <1>1, NothingWritten, Zenon
  <2>2. 1..Len(sent') = {} /\ 1..next' = {}
    BY <1>1, <1>9
  <2> QED
    BY <2>1, <2>2, Zenon DEF Counted
<1> QED
  BY <1>11, <1>12, <1>13 DEF WireInv

\* A batch is the names from next on, up to the limit.
LEMMA BatchBounds ==
    ASSUME WireInv, at = "write", next < Len(args)
    PROVE  /\ BatchEnd(next) \in (next + 1)..Len(args)
           /\ BatchEnd(next) - next \in 1..BatchLimit[ex]
<1>1. ex \in Exchange /\ next \in Nat /\ Len(args) \in Nat
  BY DEF WireInv, WireTypes, Stage
<1>2. BatchLimit[ex] \in Nat \ {0}
  BY <1>1, WireConstants
<1> QED
  BY <1>1, <1>2 DEF BatchEnd

\* Writing a batch.
LEMMA WireWrites ==
    ASSUME WireInv, WriteBatch
    PROVE  WireInv'
<1> DEFINE e == BatchEnd(next)
           v == SubSeq(args, next + 1, e)
           N == AskedNames
           m == Len(sent)
<1>1. /\ at = "write" /\ next < Len(args)
      /\ sent' = Append(sent, v) /\ next' = e
      /\ UNCHANGED <<tracked, ex, at, args>>
  BY DEF WriteBatch, AfterBatch
<1>2. e \in (next + 1)..Len(args) /\ e - next \in 1..BatchLimit[ex]
  BY <1>1, BatchBounds
<1>3. /\ args \in Seq(N) /\ sent \in Seq(Seq(N)) /\ next \in 0..Len(args)
      /\ tracked \subseteq Symbol /\ Len(args) \in Nat /\ next \in Nat /\ m \in Nat
  BY DEF WireInv, WireTypes
<1>4. AskedNames' = N
  BY <1>1 DEF AskedNames
<1> HIDE DEF e, N
<1>5. /\ v \in Seq(N) /\ Len(v) = e - next
      /\ \A j \in 1..(e - next) : v[j] = args[next + j]
  <2>1. next + 1 \in Int /\ e \in Int /\ next + 1 <= e
    BY <1>2, <1>3
  <2>2. \A i \in (next + 1)..e : args[i] \in N
    BY <1>2, <1>3
  <2>3. /\ v \in Seq(N)
        /\ Len(v) = IF next + 1 <= e THEN e - (next + 1) + 1 ELSE 0
        /\ \A i \in 1..(e - (next + 1) + 1) : v[i] = args[(next + 1) + i - 1]
    BY <2>1, <2>2, SubSeqProperties
  <2>4. /\ e - (next + 1) + 1 = e - next
        /\ \A i \in 1..(e - next) : (next + 1) + i - 1 = next + i
    BY <1>3, <2>1
  <2> HIDE DEF v
  <2>5. \A j \in 1..(e - next) : v[j] = args[next + j]
    BY <2>3, <2>4, Zenon
  <2> QED
    BY <2>1, <2>3, <2>4, <2>5, Zenon
<1> HIDE DEF v
<1>6. /\ sent' \in Seq(Seq(N)) /\ Len(sent') = m + 1
      /\ \A b \in 1..m : sent'[b] = sent[b]
      /\ sent'[m + 1] = v
  BY <1>1, <1>3, <1>5, AppendProperties
<1>7. WireTypes'
  <2>1. next' \in 0..Len(args)
    BY <1>1, <1>2, <1>3
  <2>2. at' \in {"idle", "write", "listen", "failed"}
    BY <1>1
  <2> QED
    BY <1>1, <1>3, <1>4, <1>6, <2>1, <2>2 DEF WireTypes
<1>8. Stage'
  BY <1>1 DEF WireInv, Stage
<1>9. Counted'
  <2>1. ASSUME NEW b \in 1..(m + 1) PROVE Len(sent'[b]) \in 1..BatchLimit[ex]
    <3>1. b \in 1..m \/ b = m + 1
      BY <1>3
    <3>2. \A c \in 1..m : Len(sent[c]) \in 1..BatchLimit[ex]
      BY DEF WireInv, Counted
    <3> QED
      BY <1>2, <1>5, <1>6, <3>1, <3>2
  <2>2. IsFiniteSet(Positioned(sent')) /\ Cardinality(Positioned(sent')) = next'
    <3>1. IsFiniteSet(Positioned(sent)) /\ Cardinality(Positioned(sent)) = next
      BY DEF WireInv, Counted
    <3>2. /\ IsFiniteSet(Positioned(Append(sent, v)))
          /\ Cardinality(Positioned(Append(sent, v))) = Cardinality(Positioned(sent)) + Len(v)
      BY <1>3, <1>5, <3>1, BatchAdds
    <3>3. next + (e - next) = e
      BY <1>2, <1>3
    <3> QED
      BY <1>1, <1>5, <3>1, <3>2, <3>3, Zenon
  <2>3. ASSUME NEW i \in 1..e
        PROVE  \E b \in 1..(m + 1) : \E j \in 1..Len(sent'[b]) : sent'[b][j] = args[i]
    <3>1. CASE i \in 1..next
      <4>1. PICK b \in 1..m : \E j \in 1..Len(sent[b]) : sent[b][j] = args[i]
        BY <3>1 DEF WireInv, Counted
      <4>2. b \in 1..(m + 1) /\ sent'[b] = sent[b]
        BY <1>3, <1>6
      <4> QED
        BY <4>1, <4>2, Zenon
    <3>2. CASE ~(i \in 1..next)
      <4>1. i - next \in 1..(e - next) /\ next + (i - next) = i
        BY <1>2, <1>3, <3>2
      <4>2. v[i - next] = args[i] /\ i - next \in 1..Len(v)
        BY <1>5, <4>1, Zenon
      <4>3. m + 1 \in 1..(m + 1)
        BY <1>3
      <4> QED
        BY <1>6, <4>2, <4>3, Zenon
    <3> QED
      BY <3>1, <3>2
  <2>4. \A b \in 1..Len(sent') : Len(sent'[b]) \in 1..BatchLimit[ex']
    BY <1>1, <1>6, <2>1
  <2>5. \A i \in 1..next' : \E b \in 1..Len(sent') : \E j \in 1..Len(sent'[b]) :
            sent'[b][j] = args'[i]
    <3>1. next' = e /\ Len(sent') = m + 1 /\ args' = args
      BY <1>1, <1>6
    <3> QED
      BY <2>3, <3>1, Zenon
  <2> QED
    BY <2>2, <2>4, <2>5 DEF Counted
<1> QED
  BY <1>7, <1>8, <1>9 DEF WireInv

\* A message, a failure and the end of a subscription write nothing more.
LEMMA WireKeeps ==
    ASSUME WireInv, UNCHANGED <<tracked, ex, args, next, sent>>,
           at # "idle", at' \in {"listen", "failed"},
           at' = "listen" => next = Len(args)
    PROVE  WireInv'
<1>1. AskedNames' = AskedNames
  BY DEF AskedNames
<1>2. WireTypes'
  BY <1>1 DEF WireInv, WireTypes
<1>3. Stage'
  BY DEF WireInv, Stage
<1>4. Counted'
  BY DEF WireInv, Counted
<1> QED
  BY <1>2, <1>3, <1>4 DEF WireInv

\* The manager closes the connection.
LEMMA WireLeaves ==
    ASSUME WireInv, Leave
    PROVE  WireInv'
<1>1. at' = "idle" /\ args' = <<>> /\ sent' = <<>> /\ next' = 0 /\ tracked' = tracked
  BY DEF Leave
<1>2. Len(args') = 0 /\ Len(sent') = 0
  BY <1>1
<1>3. WireTypes'
  BY <1>1, <1>2 DEF WireInv, WireTypes
<1>4. Stage'
  BY <1>1 DEF Stage
<1>5. IsFiniteSet(Positioned(sent')) /\ Cardinality(Positioned(sent')) = next'
  BY <1>1, NothingWritten, Zenon
<1>6. Counted'
  <2>1. 1..Len(sent') = {} /\ 1..next' = {}
    BY <1>1, <1>2
  <2> QED
    BY <1>5, <2>1, Zenon DEF Counted
<1> QED
  BY <1>3, <1>4, <1>6 DEF WireInv

\* The invariant of the subscription, always.
LEMMA WireInvariant == Spec => []WireInv
<1>1. WireInv /\ [Next]_wireVars => WireInv'
  <2> SUFFICES ASSUME WireInv, [Next]_wireVars PROVE WireInv'
    OBVIOUS
  <2>1. ASSUME NEW e \in Exchange, Subscribe(e) PROVE WireInv'
    BY <2>1, WireSubscribes
  <2>2. CASE WriteBatch
    BY <2>2, WireWrites
  <2>3. CASE WriteFails
    BY <2>3, WireKeeps DEF WriteFails
  <2>4. CASE SubscribeReturns
    <3>1. next = Len(args)
      BY <2>4 DEF SubscribeReturns, WireInv, WireTypes
    <3> QED
      BY <2>4, <3>1, WireKeeps DEF SubscribeReturns
  <2>5. ASSUME NEW s \in Symbol, NEW a \in Minute, NEW b \in Minute, Message(s, a, b)
        PROVE  WireInv'
    <3>1. at = "listen" /\ UNCHANGED <<tracked, ex, at, args, next, sent>>
      BY <2>5 DEF Message
    <3>2. next = Len(args)
      BY <3>1 DEF WireInv, Stage
    <3>3. at # "idle" /\ at' \in {"listen", "failed"}
      BY <3>1
    <3> QED
      BY <3>1, <3>2, <3>3, WireKeeps, Zenon
  <2>6. CASE Leave
    BY <2>6, WireLeaves
  <2>7. CASE UNCHANGED wireVars
    BY <2>7 DEF wireVars, WireInv, WireTypes, Stage, Counted, AskedNames
  <2> QED
    BY <2>1, <2>2, <2>3, <2>4, <2>5, <2>6, <2>7 DEF Next
<1> QED
  BY <1>1, WireInitially, PTL DEF Spec

\* When a subscribe function has returned, every tracked symbol has been asked for, once,
\* in requests within the exchange's limit, and a pair in USDT under its listed name.
THEOREM StreamsAllAsked == Spec => []EveryStreamAsked
<1>1. WireInv => EveryStreamAsked
  <2> SUFFICES ASSUME WireInv PROVE EveryStreamAsked
    OBVIOUS
  <2>1. DOMAIN sent = 1..Len(sent) /\ \A b \in 1..Len(sent) : DOMAIN sent[b] = 1..Len(sent[b])
    BY DEF WireInv, WireTypes
  <2>2. \A batch \in Range(sent) : Len(batch) \in 1..BatchLimit[ex]
    BY <2>1 DEF WireInv, Counted, Range
  <2>3. ASSUME at = "listen" PROVE Cardinality(Positioned(sent)) = Cardinality(tracked)
    BY <2>3 DEF WireInv, Stage, Counted
  <2>4. ASSUME at = "listen", NEW s \in tracked, Tether(s)
        PROVE  \E batch \in Range(sent) : \E n \in Range(batch) : n.pair = Listed(ex, s)
    <3>1. s \in Symbol /\ ex \in Exchange /\ next = Len(args)
      BY <2>4 DEF WireInv, WireTypes, Stage
    <3>2. PICK i \in 1..Len(args) : args[i] = NameFor(ex, s)
      BY <2>4 DEF WireInv, Stage
    <3>3. PICK b \in 1..Len(sent) : \E j \in 1..Len(sent[b]) : sent[b][j] = args[i]
      BY <3>1, <3>2 DEF WireInv, Counted
    <3>4. PICK j \in 1..Len(sent[b]) : sent[b][j] = args[i]
      BY <3>3
    <3>5. sent[b] \in Range(sent) /\ sent[b][j] \in Range(sent[b])
      BY <2>1, <3>3, <3>4, Zenon DEF Range
    <3>6. NameFor(ex, s).pair = Listed(ex, s)
      BY <2>4, <3>1, TetherListed
    <3> QED
      BY <3>2, <3>4, <3>5, <3>6, Zenon
  <2> QED
    BY <2>2, <2>3, <2>4, Zenon DEF EveryStreamAsked, Positioned
<1> QED
  BY <1>1, WireInvariant, PTL

\* What the runs' property says of all live candles, with the two ways of Filed.
FiledAll(lives) == \A l \in lives : l.interval = StreamInterval /\ Filed(l.symbol, l.of)
FiledInv == FiledAll(live)

\* Whatever the exchange, a live candle stands under the stream's interval and the symbol
\* the exchange reported; but for a USD that Kraken's way back makes a USDT.
THEOREM CandlesFiledUnderTheirStream == Spec => []FiledUnderItsStream
<1>1. Init => FiledInv
  BY DEF Init, FiledInv, FiledAll
<1>2. ASSUME NEW lives, FiledAll(lives), NEW c, NEW s,
             c.interval = StreamInterval, Filed(c.symbol, s)
      PROVE  FiledAll(LoadOrStore(lives, c, s))
  BY <1>2 DEF LoadOrStore, FiledAll
<1>3. FiledInv /\ WireInv /\ [Next]_wireVars => FiledInv'
  <2> SUFFICES ASSUME FiledAll(live), WireInv, [Next]_wireVars PROVE FiledAll(live')
    BY DEF FiledInv
  <2>1. ASSUME NEW s \in Symbol, NEW a \in Minute, NEW b \in Minute, Message(s, a, b)
        PROVE  FiledAll(live')
    <3>1. PICK n \in UNION {Range(batch) : batch \in Range(sent)} :
             /\ n.pair = Listed(ex, s)
             /\ live' = LET one == LoadOrStore(live, Decoded(ex, n, a), s)
                        IN IF ex \in TakesAll THEN LoadOrStore(one, Decoded(ex, n, b), s)
                           ELSE one
      BY <2>1 DEF Message
    <3>2. ex \in Exchange
      BY <2>1 DEF Message, WireInv, Stage
    <3>3. n \in AskedNames
      BY <3>1 DEF WireInv, WireTypes, Range
    <3>4. PICK r \in tracked : n = NameFor(ex, r)
      BY <3>2, <3>3 DEF AskedNames
    <3>5. \A m : /\ Decoded(ex, n, m).interval = StreamInterval
                 /\ Filed(Decoded(ex, n, m).symbol, s)
      BY <3>1, <3>2, <3>4, DecodedFiled
    <3>6. FiledAll(LoadOrStore(live, Decoded(ex, n, a), s))
      BY <1>2, <3>5, Zenon
    <3>7. FiledAll(LoadOrStore(LoadOrStore(live, Decoded(ex, n, a), s), Decoded(ex, n, b), s))
      BY <1>2, <3>5, <3>6, Zenon
    <3> QED
      BY <3>1, <3>6, <3>7, Zenon
  <2>2. CASE UNCHANGED live
    BY <2>2
  <2>3. ASSUME NEW e \in Exchange, Subscribe(e) PROVE UNCHANGED live
    BY <2>3 DEF Subscribe
  <2> QED
    BY <2>1, <2>2, <2>3
       DEF Next, WriteBatch, WriteFails, SubscribeReturns, Leave, wireVars
<1>4. FiledInv => FiledUnderItsStream
  BY Zenon DEF FiledInv, FiledAll, FiledUnderItsStream, Filed
<1> QED
  BY <1>1, <1>3, <1>4, WireInvariant, PTL DEF Spec
================================================================================

----------------------------- MODULE IntervalClock -----------------------------
(***************************************************************************)
(* Which period of an interval a moment belongs to: getIntervalOpenTime and *)
(* intervalToDuration of the interval aggregator.                           *)
(*                                                                          *)
(* A moment is a number of minutes since the Unix epoch.  A Go time also    *)
(* carries a location; here it is a fixed offset of its clock from UTC in   *)
(* minutes, without daylight saving time.  Truncating the minute of the     *)
(* hour or the hour of the day to a multiple is truncating the local clock, *)
(* since every such length divides the hour or the day.                     *)
(***************************************************************************)
EXTENDS Integers

Day == 1440

\* The intervals built from 1m candles, and their lengths in minutes.
Intraday == {"3m", "5m", "15m", "30m", "1h", "2h", "4h", "6h", "8h", "12h", "1d"}
Intervals == Intraday \cup {"3d", "1w", "1M"}

\* intervalToDuration: a month counts as 30 days.
intervalToDuration(i) ==
    IF i = "3m" THEN 3 ELSE IF i = "5m" THEN 5 ELSE IF i = "15m" THEN 15 ELSE
    IF i = "30m" THEN 30 ELSE IF i = "1h" THEN 60 ELSE IF i = "2h" THEN 120 ELSE
    IF i = "4h" THEN 240 ELSE IF i = "6h" THEN 360 ELSE IF i = "8h" THEN 480 ELSE
    IF i = "12h" THEN 720 ELSE IF i = "1d" THEN Day ELSE IF i = "3d" THEN 3 * Day ELSE
    IF i = "1w" THEN 7 * Day ELSE IF i = "1M" THEN 30 * Day ELSE 1

\* The calendar of Go's time package for the years 1970 to 2099: the days since
\* the epoch on which months begin.
IsLeap(y) == y % 4 = 0
YearStart(y) == 365 * (y - 1970) + ((y - 1969) \div 4)
DaysBefore == <<0, 31, 59, 90, 120, 151, 181, 212, 243, 273, 304, 334>>
MonthStart(y, m) ==
    YearStart(y) + DaysBefore[m] + (IF IsLeap(y) /\ m > 2 THEN 1 ELSE 0)

\* The year of a day: 1461 days are four years of which the third is a leap year.
YearOf(d) ==
    CHOOSE y \in (1969 + (d \div 366))..(1971 + (d \div 365)) :
        YearStart(y) <= d /\ d < YearStart(y + 1)
FirstOfMonth(d) ==
    LET y == YearOf(d)
        m == CHOOSE k \in 1..12 :
                /\ MonthStart(y, k) <= d
                /\ d < IF k = 12 THEN YearStart(y + 1) ELSE MonthStart(y, k + 1)
    IN MonthStart(y, m)

\* Days back to Monday; the epoch was a Thursday.  Go counts Sunday as 0.
Weekday(d) == (d + 4) % 7
DaysBackFromSunday(d) == Weekday(d) - 1     \* mutant: Sunday stays 0
DaysBack(d) == IF Weekday(d) = 0 THEN 6 ELSE Weekday(d) - 1

\* Mutant: the truncated clock is read as UTC.
getIntervalOpenTimeShifted(t, zone, i) == (t + zone) - ((t + zone) % intervalToDuration(i))

\* The first minute of the period of interval i that holds minute t.
getIntervalOpenTime(t, zone, i) ==
    LET local == t + zone
        day == local \div Day
    IN CASE i \in Intraday -> local - (local % intervalToDuration(i)) - zone
         [] i = "3d" -> (((t \div Day) \div 3) * 3) * Day
         [] i = "1w" -> (day - DaysBack(day)) * Day - zone
         [] i = "1M" -> FirstOfMonth(day) * Day - zone
         [] OTHER -> t

\* updateIntervalCandle gives a period this close time.
CloseTime(t, zone, i) == getIntervalOpenTime(t, zone, i) + intervalToDuration(i)
================================================================================

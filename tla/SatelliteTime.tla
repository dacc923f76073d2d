---------------------------- MODULE SatelliteTime ----------------------------
(***************************************************************************)
(* The time scales of the satellites ("SatelliteUtils/utils.cpp" and its   *)
(* callers): the epoch of an element set, read from the file as a year and *)
(* a day of the year; Julian dates; the days since 1950 of the deep space  *)
(* model.  Times are minutes: an epoch is read to a tenth of a day, and    *)
(* the seconds of a request count as minutes.  C++ division truncates      *)
(* towards zero; where \div would not, the case is written out.            *)
(***************************************************************************)
EXTENDS Integers, Sequences, FiniteSets

DayMinutes == 1440

\* dmounth: the days of a common year up to the end of each month
DaysToEnd == <<31, 59, 90, 120, 151, 181, 212, 243, 273, 304, 334, 365>>

(* Mutation, used by no specification: the leap day counted from March on. *)
WychKdFromMarch(year, month) ==
  IF year % 4 = 0 /\ month > 2 /\ year % 1000 # 0 /\ year % 400 # 0
    THEN DaysToEnd[month] + 1 ELSE DaysToEnd[month]

\* Days from the start of the year to the end of a month
WychKd(year, month) ==
  IF year % 4 = 0 /\ month > 1 /\ year % 1000 # 0 /\ year % 400 # 0
    THEN DaysToEnd[month] + 1 ELSE DaysToEnd[month]

\* DurData, date part: day n counted from the start of `year`, n reaching into
\* the next years, as a date.  There is no month for day 366 of a year WychKd
\* takes for a common one: the code reads past its table.
MonthKnown(year, n) == n <= WychKd(year, 12)

DurData[year \in Nat, n \in Nat] ==
  LET length == IF year % 4 = 0 THEN 366 ELSE 365 IN
  IF n > length THEN DurData[year + 1, n - length]
  ELSE LET month == CHOOSE m \in 1 .. 12 : n <= WychKd(year, m) /\ \A k \in 1 .. m - 1 : n > WychKd(year, k)
       IN [year |-> year, month |-> month, day |-> IF month = 1 THEN n ELSE n - WychKd(year, month - 1)]

\* Julian_date at noon: Fliegel and Van Flandern
JulianDay(date) ==
  LET j == IF date.month <= 2 THEN -1 ELSE 0
      y == date.year + j
  IN date.day - 32075 + (1461 * (y + 4800)) \div 4 + (367 * (date.month - 2 - 12 * j)) \div 12
       - (3 * ((y + 4900) \div 100)) \div 4

\* Julian_date in minutes from the noon of 1 January 1970
JulianMinutes(date, minutes) == (JulianDay(date) - 2440588) * DayMinutes - DayMinutes \div 2 + minutes

\* toGmst's days50 for day n of a year, `jy` being counted from 1900
Days50(year, n) ==
  LET jy == year - 1900
      leap == IF jy < 70 THEN -((72 - jy) \div 4) ELSE IF jy = 70 THEN 0 ELSE (jy - 69) \div 4
  IN (jy - 70) * 365 + 7305 + leap + n

\* parse_keo: two digits of year, the day and the tenths of a day of an epoch
EpochYear(yy) == IF yy >= 57 THEN 1900 + yy ELSE 2000 + yy
EpochMinutes(e) == JulianMinutes(DurData[EpochYear(e.yy), e.day], e.tenths * (DayMinutes \div 10))

\* process_request: the seconds of the minute are divided by 60, not by 3600.
RequestMinutes(date, clock) == JulianMinutes(date, clock.hour * 60 + clock.min + clock.sec)

-----------------------------------------------------------------------------
(* gmtime of the C library: the civil date of a day of a year *)

IsLeap(year) == year % 4 = 0 /\ (year % 100 # 0 \/ year % 400 = 0)
MonthLength(year, m) == CASE m = 2 -> (IF IsLeap(year) THEN 29 ELSE 28)
                          [] m \in {4, 6, 9, 11} -> 30
                          [] OTHER -> 31

Gmtime[year \in Nat, month \in 1 .. 12, n \in Int] ==
  IF n < 1 THEN IF month = 1 THEN Gmtime[year - 1, 12, n + 31]
                             ELSE Gmtime[year, month - 1, n + MonthLength(year, month - 1)]
  ELSE IF n > MonthLength(year, month)
         THEN IF month = 12 THEN Gmtime[year + 1, 1, n - 31]
                            ELSE Gmtime[year, month + 1, n - MonthLength(year, month)]
         ELSE [year |-> year, month |-> month, day |-> n]
=============================================================================

------------------------------- MODULE Periods -------------------------------
(***************************************************************************)
(* The calendar buckets of a report (services/periods.py).  A day is its   *)
(* proleptic Gregorian ordinal, as date.toordinal counts it: 1 is the      *)
(* first of January of year 1.  Everything here is a pure function.        *)
(***************************************************************************)
EXTENDS Integers, FiniteSetsExt, SequencesExt

Granularities == {"day", "week", "month", "quarter", "year"}

-----------------------------------------------------------------------------
(* Python's calendar                                                       *)

IsLeap(y) == y % 4 = 0 /\ (y % 100 # 0 \/ y % 400 = 0)
DaysInMonth(y, m) ==
  CASE m \in {4, 6, 9, 11} -> 30
    [] m = 2               -> IF IsLeap(y) THEN 29 ELSE 28
    [] OTHER               -> 31

DaysBefore(y, m) ==
  <<0, 31, 59, 90, 120, 151, 181, 212, 243, 273, 304, 334>>[m] + IF m > 2 /\ IsLeap(y) THEN 1 ELSE 0

DaysBeforeYear(y) == 365 * (y - 1) + (y - 1) \div 4 - (y - 1) \div 100 + (y - 1) \div 400
Ordinal(y, m, d)  == DaysBeforeYear(y) + DaysBefore(y, m) + d

Year(day)        == CHOOSE y \in (day \div 366)..(day \div 365 + 1) :
                      DaysBeforeYear(y) < day /\ day <= DaysBeforeYear(y + 1)
MonthOf(y, rest) == CHOOSE m \in 1..12 : DaysBefore(y, m) < rest /\ rest <= DaysBefore(y, m) + DaysInMonth(y, m)
Month(day)       == MonthOf(Year(day), day - DaysBeforeYear(Year(day)))
Weekday(day) == (day + 6) % 7   \* Monday is 0

-----------------------------------------------------------------------------
(* Periods                                                                 *)

PeriodStart(day, granularity) ==
  CASE granularity = "day"     -> day
    [] granularity = "week"    -> day - Weekday(day)
    [] granularity = "month"   -> Ordinal(Year(day), Month(day), 1)
    [] granularity = "quarter" -> Ordinal(Year(day), ((Month(day) - 1) \div 3) * 3 + 1, 1)
    [] granularity = "year"    -> Ordinal(Year(day), 1, 1)

PeriodLength_Common(first, granularity) ==
  CASE granularity = "day"     -> 1
    [] granularity = "week"    -> 7
    [] granularity = "month"   -> DaysInMonth(2001, Month(first))
    [] granularity = "quarter" -> DaysInMonth(2001, Month(first)) + DaysInMonth(2001, Month(first) + 1)
                                    + DaysInMonth(2001, Month(first) + 2)
    [] granularity = "year"    -> IF IsLeap(2001) THEN 366 ELSE 365

PeriodLength(first, granularity) ==
  CASE granularity = "day"     -> 1
    [] granularity = "week"    -> 7
    [] granularity = "month"   -> DaysInMonth(Year(first), Month(first))
    [] granularity = "quarter" -> DaysInMonth(Year(first), Month(first)) + DaysInMonth(Year(first), Month(first) + 1)
                                    + DaysInMonth(Year(first), Month(first) + 2)
    [] granularity = "year"    -> IF IsLeap(Year(first)) THEN 366 ELSE 365

PeriodEnd(day, granularity) ==
  PeriodStart(day, granularity) + PeriodLength(PeriodStart(day, granularity), granularity) - 1

\* the first of the month so many months on
FirstAfter(y, m, months) == Ordinal(y + (m + months - 1) \div 12, ((m + months - 1) % 12) + 1, 1)

\* the period after the one that starts here
Advance(first, granularity) ==
  CASE granularity = "day"     -> first + 1
    [] granularity = "week"    -> first + 7
    [] granularity = "month"   -> FirstAfter(Year(first), Month(first), 1)
    [] granularity = "quarter" -> FirstAfter(Year(first), Month(first), 3)
    [] granularity = "year"    -> Ordinal(Year(first) + 1, 1, 1)

\* "auto": the finest that stays within its ceiling
AutoCeilings == <<[pick |-> "day", days |-> 45], [pick |-> "week", days |-> 120],
                  [pick |-> "month", days |-> 1095], [pick |-> "quarter", days |-> 3650]>>
Resolve(granularity, start, end) ==
  LET fit == {i \in 1..4 : end - start + 1 <= AutoCeilings[i].days} IN
  IF granularity # "auto" THEN granularity
  ELSE IF fit # {} THEN AutoCeilings[Min(fit)].pick ELSE "year"

Shortest(granularity) ==
  CASE granularity = "day"     -> 1
    [] granularity = "week"    -> 7
    [] granularity = "month"   -> 28
    [] granularity = "quarter" -> 90
    [] granularity = "year"    -> 365

\* Where the cursor is as it walks the window, one period at a time.
Walk(start, granularity, most) ==
  LET cursor[k \in 1..most] == IF k = 1 THEN PeriodStart(start, granularity)
                               ELSE CHOOSE next \in {Advance(last, granularity) : last \in {cursor[k - 1]}} : TRUE
  IN cursor

\* The periods from the one that holds start to the one that holds end.
Cursors(start, end, granularity) ==
  LET most == (end - start) \div Shortest(granularity) + 2
      walk == Walk(start, granularity, most)
  IN [k \in {i \in 1..most : walk[i] <= end} |-> walk[k]]

Clipped(cursors, start, end, granularity) ==
  [i \in DOMAIN cursors |-> [start  |-> Max({cursors[i], start}),
                             end    |-> Min({PeriodEnd(cursors[i], granularity), end}),
                             period |-> cursors[i]]]

\* [start, end] cut into calendar periods, clipped at both ends.
Buckets(start, end, granularity) ==
  IF end < start THEN <<>> ELSE Clipped(Cursors(start, end, granularity), start, end, granularity)
-----------------------------------------------------------------------------
\* The buckets of a window cut it without a gap or an overlap, each within one
\* period, so two bars never hold one day; an inverted window has none; and an
\* "auto" chart stays readable up to its last ceiling (docstring of resolve).
CutsWithoutRest(start, end, granularity) ==
  \A g \in {Resolve(granularity, start, end)}, b \in {Buckets(start, end, Resolve(granularity, start, end))} :
    IF end < start THEN b = <<>>
    ELSE /\ b # <<>> /\ b[1].start = start /\ b[Len(b)].end = end
         /\ \A k \in DOMAIN b :
              /\ b[k].start <= b[k].end
              /\ k > 1 => b[k].start = b[k - 1].end + 1
              /\ PeriodStart(b[k].start, g) = b[k].period /\ PeriodStart(b[k].end, g) = b[k].period
         /\ granularity = "auto" /\ end - start < 3650 => Len(b) <= 50
=============================================================================

------------------------------ MODULE Calendar ------------------------------
(***************************************************************************)
(* Days and what repeats on them: shared/recurrence (the rules of          *)
(* recurring settings and saving plans) and the periods of budgets and     *)
(* saving goals.  A day is the number of days since 1 January 2023, a      *)
(* Sunday; the calendar is the real one from then on (until 2099).         *)
(***************************************************************************)
EXTENDS Integers, FiniteSets

Leap(y) == y % 4 = 0
BeforeMonth == <<0, 31, 59, 90, 120, 151, 181, 212, 243, 273, 304, 334, 365>>
NewYear(y) == 365 * (y - 2023) + (y - 2021) \div 4
MonthStart(y, m) == NewYear(y) + BeforeMonth[m] + (IF Leap(y) /\ m > 2 THEN 1 ELSE 0)

\* time.Date: months and days past the end roll over.
Day(y, m, d) == MonthStart(y + (m - 1) \div 12, ((m - 1) % 12) + 1) + d - 1
LastDay(y, m) == Day(y, m + 1, 1) - Day(y, m, 1)

YearOf(n)  == LET y == 2023 + n \div 366 IN IF NewYear(y + 1) <= n THEN y + 1 ELSE y
MonthOf(n) == LET y == YearOf(n)
                  m == (n - NewYear(y)) \div 32 + 1
              IN IF Day(y, m + 1, 1) <= n THEN m + 1 ELSE m
DomOf(n)   == n - Day(YearOf(n), MonthOf(n), 1) + 1
IsoWeekday(n) == ((n + 6) % 7) + 1

Least(a, b) == IF a < b THEN a ELSE b
Most(a, b)  == IF a > b THEN a ELSE b
CeilDiv(a, b) == (a + b - 1) \div b

\* A month day past a short month's end is the month's last.
Clamped(y, m, dom) == Day(y, m, Least(dom, LastDay(y, m)))
AddDate(n, years, months) == Day(YearOf(n) + years, MonthOf(n) + months, DomOf(n))
AddMonths(n, months) == Clamped(YearOf(n), MonthOf(n) + months, DomOf(n))
MonthsBetween(a, b) == (YearOf(b) - YearOf(a)) * 12 + MonthOf(b) - MonthOf(a)

\* nthWeekday: none in a month without a fifth one.
NthWeekday(y, m, nth, weekday) ==
  LET days == {n \in Day(y, m, 1)..(Day(y, m + 1, 1) - 1) : IsoWeekday(n) = weekday}
  IN IF nth = -1 THEN {n \in days : \A o \in days : o <= n}
     ELSE {n \in days : Cardinality({o \in days : o <= n}) = nth}

-----------------------------------------------------------------------------
(* Periods: budgets/period.go, saving_goals/period.go.                     *)

\* nthStart, periodStart: the first day of the k-th period.
NthStart(freq, interval, anchor, k) ==
  LET n == k * interval IN
  CASE freq = "daily"   -> anchor + n
    [] freq = "weekly"  -> anchor + 7 * n
    [] freq = "monthly" -> Clamped(YearOf(anchor), MonthOf(anchor) + n, DomOf(anchor))
    [] freq = "yearly"  -> Clamped(YearOf(anchor) + n, MonthOf(anchor), DomOf(anchor))

\* The period a day is guessed to be in, by the calendar.
GuessedPeriod(freq, interval, anchor, day) ==
  IF day <= anchor THEN 0
  ELSE CASE freq = "daily"   -> (day - anchor) \div interval
         [] freq = "weekly"  -> (day - anchor) \div (7 * interval)
         [] freq = "yearly"  -> (YearOf(day) - YearOf(anchor)) \div interval
         [] freq = "monthly" -> MonthsBetween(anchor, day) \div interval

\* periodAt: a guess by the calendar, then down and up to the period that holds the day.
PeriodAt(freq, interval, anchor, day) ==
  LET guess == GuessedPeriod(freq, interval, anchor, day)
      down == {k \in 0..guess : k = 0 \/ NthStart(freq, interval, anchor, k) <= day}
      from == CHOOSE k \in down : \A o \in down : o <= k
  IN IF day <= anchor THEN 0
     ELSE CHOOSE k \in from..(from + 2) :
            /\ NthStart(freq, interval, anchor, k + 1) > day
            /\ \A o \in from..(k - 1) : NthStart(freq, interval, anchor, o + 1) <= day

-----------------------------------------------------------------------------
(* Rules: [freq, interval, weekdays, dom, nth, weekday, dates, start,      *)
(* endKind, endDate, endCount, gaps, until].  dom 0 is the start's day,    *)
(* nth 0 the monthly mode "day"; a weekday is listed once.                 *)

InGap(r, d) == \E g \in r.gaps : g.from <= d /\ d < g.to

\* The dates of the k-th step of the walk.
Step(r, k) ==
  LET y == YearOf(r.start)
      m == MonthOf(r.start)
      weekStart == r.start - (IsoWeekday(r.start) - 1)
      weekdays == IF r.weekdays = {} THEN {IsoWeekday(r.start)} ELSE r.weekdays
  IN CASE r.freq = "daily"  -> {r.start + k * r.interval}
       [] r.freq = "weekly" -> {weekStart + 7 * r.interval * k + w - 1 : w \in weekdays}
       [] r.freq = "monthly" ->
            IF r.nth # 0 THEN LET n == m - 1 + k * r.interval
                              IN NthWeekday(y + n \div 12, (n % 12) + 1, r.nth, r.weekday)
            ELSE {Clamped(y, m + k * r.interval, IF r.dom = 0 THEN DomOf(r.start) ELSE r.dom)}
       [] r.freq = "yearly" -> {Clamped(y + k * r.interval, m, DomOf(r.start))}
       [] r.freq = "dates"  -> r.dates

\* A number of steps that reach the day from the start.
Enough(r, day) ==
  LET least == CASE r.freq = "daily" -> 1 [] r.freq = "weekly" -> 7 [] r.freq = "monthly" -> 28 [] OTHER -> 365
  IN IF r.freq = "dates" \/ day < r.start THEN 0 ELSE (day - r.start) \div (least * r.interval) + 1

Firsts(days, n) == {d \in days : Cardinality({e \in days : e < d}) < n}

\* Occurrences: walked from the start, the end not looked at; limit 0 is none.
Occurrences(r, until, limit) ==
  LET days == {d \in UNION {Step(r, k) : k \in 0..Enough(r, until)} : r.start <= d /\ d <= until /\ ~InGap(r, d)}
  IN IF limit = 0 THEN days ELSE Firsts(days, limit)

\* MaxEnd: two years, and the time spent in gaps (disjoint ones: each starts after the last).
MaxEnd(r) == AddDate(r.start, 2, 0) + Cardinality(UNION {g.from..(g.to - 1) : g \in r.gaps})

HorizonSpan(r, from) == IF r.freq \in {"daily", "weekly"} THEN AddDate(from, 0, 3) ELSE AddDate(from, 1, 0)

Last(days) == CHOOSE d \in days : \A e \in days : e <= d

\* Limits: how far the rule goes, or refused.
Limits(r, today) ==
  CASE r.freq = "dates" ->
         LET occ == Occurrences(r, MaxEnd(r), 0) IN
         IF occ = {} \/ \E d \in r.dates : d > MaxEnd(r) \/ d < r.start THEN {}
         ELSE {[r EXCEPT !.endKind = "none", !.until = Last(occ)]}
    [] r.freq # "dates" /\ r.endKind = "date" ->
         IF r.endDate < r.start \/ r.endDate > MaxEnd(r) \/ Occurrences(r, r.endDate, 0) = {} THEN {}
         ELSE {[r EXCEPT !.until = r.endDate]}
    [] r.freq # "dates" /\ r.endKind = "count" ->
         LET occ == Occurrences(r, MaxEnd(r), r.endCount) IN
         IF Cardinality(occ) < r.endCount THEN {} ELSE {[r EXCEPT !.until = Last(occ)]}
    [] OTHER -> {[r EXCEPT !.until = Most(HorizonSpan(r, Most(today, r.start)), @)]}

Ends(r) == r.endKind \in {"date", "count"}

\* Within: the walk up to the end.
Within(r, until) == Occurrences(r, IF Ends(r) THEN Least(r.until, until) ELSE until, 0)

\* endCap of a rule that Limits has seen.
EndCap(r, to) == IF Ends(r) THEN Least(r.until, to) ELSE to

\* Mutant: a week too far.
Jump_Week(r, lo) == IF r.freq = "weekly" THEN CeilDiv(Most(lo - r.start, 0), 7 * r.interval) ELSE 0

\* Between: the first step that can hold the window.
Jump(r, lo) ==
  CASE r.freq = "daily"  -> CeilDiv(lo - r.start, r.interval)
    [] r.freq = "weekly" -> LET skip == lo - (r.start - (IsoWeekday(r.start) - 1)) - 6
                            IN IF skip > 0 THEN CeilDiv(skip, 7 * r.interval) ELSE 0
    [] r.freq = "monthly" -> CeilDiv(MonthsBetween(r.start, lo), r.interval)
    [] r.freq = "yearly" -> CeilDiv(YearOf(lo) - YearOf(r.start), r.interval)
    [] r.freq = "dates"  -> 0

Between(r, from, to) ==
  LET lo == Most(from, r.start)
      hi == EndCap(r, to)
  IN IF lo > hi THEN {}
     ELSE {d \in UNION {Step(r, k) : k \in Jump(r, lo)..(Jump(r, lo) + Enough(r, r.start + hi - lo) + 1)} :
             lo <= d /\ d <= hi /\ ~InGap(r, d)}

\* Recurring dates of a rule are those of the walk, whatever window is asked: the jump to
\* the window misses none and the cut keeps none outside (Between: "It is Within(to) cut to
\* the window").
BetweenIsWithinCut(r, from, to) == Between(r, from, to) = {d \in Within(r, to) : from <= d}

\* Periods tile the days from the anchor on: the one found for a day holds it, and each
\* ends where the next begins (periodAt, nthStart).
PeriodHolds(freq, interval, anchor, day) ==
  LET k == PeriodAt(freq, interval, anchor, day)
  IN /\ NthStart(freq, interval, anchor, k) < NthStart(freq, interval, anchor, k + 1)
     /\ day < NthStart(freq, interval, anchor, k + 1)
     /\ day >= anchor => NthStart(freq, interval, anchor, k) <= day
=============================================================================

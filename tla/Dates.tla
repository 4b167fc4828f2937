-------------------------------- MODULE Dates --------------------------------
(***************************************************************************)
(* The periods a planner names, "last month", as the reporting skill makes *)
(* ranges of days of them (skills/xas-reporting/dates.py), and theorems    *)
(* about them for every date and every moment.                             *)
(*                                                                         *)
(* A range is half-open, in day numbers of the calendar; moments are       *)
(* seconds, counted in UTC from the beginning of day 0.  Years have no end *)
(* here: Python's stop at 9999, and the arithmetic raises beyond.          *)
(***************************************************************************)
EXTENDS Integers, TLAPS

-----------------------------------------------------------------------------
(* Python's calendar.                                                      *)

Leap(y) == y % 4 = 0 /\ (y % 100 # 0 \/ y % 400 = 0)

Length(y, m) ==
  CASE m = 2 -> IF Leap(y) THEN 29 ELSE 28
    [] m \in {4, 6, 9, 11} -> 30
    [] OTHER -> 31

date == {d \in [year : Int, month : 1..12, day : 1..31] : d.day <= Length(d.year, d.month)}

\* The days of a year before its months.
Before(y, m) ==
  (CASE m = 1 -> 0 [] m = 2 -> 31 [] m = 3 -> 59 [] m = 4 -> 90 [] m = 5 -> 120 [] m = 6 -> 151
     [] m = 7 -> 181 [] m = 8 -> 212 [] m = 9 -> 243 [] m = 10 -> 273 [] m = 11 -> 304
     [] OTHER -> 334)
  + (IF m > 2 /\ Leap(y) THEN 1 ELSE 0)

YearBefore(y) == 365 * (y - 1) + ((y - 1) \div 4) - ((y - 1) \div 100) + ((y - 1) \div 400)

\* Day 1 was a Monday, which is weekday 0.
Ordinal(d) == YearBefore(d.year) + Before(d.year, d.month) + d.day

FromOrdinal(n) == CHOOSE d \in date : Ordinal(d) = n

weekday(n) == (n - 1) % 7

-----------------------------------------------------------------------------
(* dates.py.                                                               *)

TENANT_TZ == 3 * 3600

WEEK_START == 0

\* The dealership's day at a moment.
today(now) == (now + TENANT_TZ) \div 86400

week_start(n) == n - ((weekday(n) - WEEK_START) % 7)

month_start(d) == [d EXCEPT !.day = 1]

next_month(d) == month_start(FromOrdinal(Ordinal(month_start(d)) + 32))

NewYear(y) == [year |-> y, month |-> 1, day |-> 1]

Range(start, end) == <<start, end>>

Start(range) == range[1]
End(range)   == range[2]

None == <<>>

\* resolve, by the words; "last <count> days" has a count.
resolve(words, count, d) ==
  LET n == Ordinal(d)
  IN  CASE words = "today" -> Range(n, n + 1)
        [] words = "yesterday" -> Range(n - 1, n)
        [] words = "this week" -> Range(week_start(n), week_start(n) + 7)
        [] words = "last week" -> Range(week_start(n) - 7, week_start(n) - 7 + 7)
        [] words = "this month" ->
             Range(Ordinal(month_start(d)), Ordinal(next_month(month_start(d))))
        [] words = "last month" ->
             Range(Ordinal(month_start(FromOrdinal(Ordinal(month_start(d)) - 1))),
                   Ordinal(month_start(d)))
        [] words = "this year" -> Range(Ordinal(NewYear(d.year)), Ordinal(NewYear(d.year + 1)))
        [] words = "last year" -> Range(Ordinal(NewYear(d.year - 1)), Ordinal(NewYear(d.year)))
        [] words = "last days" /\ count >= 1 -> Range(n - (count - 1), n + 1)
        [] OTHER -> None

\* Local midnight on a day.
as_utc(n) == n * 86400 - TENANT_TZ

-----------------------------------------------------------------------------
(* The calendar.                                                           *)

Successor(y, m) ==
  IF m = 12 THEN NewYear(y + 1) ELSE [year |-> y, month |-> m + 1, day |-> 1]

\* One more year is a day more of its fours, and so on.
LEMMA Quotients ==
  ASSUME NEW y \in Int
  PROVE  /\ (y \div 4) - ((y - 1) \div 4) = IF y % 4 = 0 THEN 1 ELSE 0
         /\ (y \div 100) - ((y - 1) \div 100) = IF y % 100 = 0 THEN 1 ELSE 0
         /\ (y \div 400) - ((y - 1) \div 400) = IF y % 400 = 0 THEN 1 ELSE 0
         /\ (y % 400 = 0 => y % 100 = 0) /\ (y % 100 = 0 => y % 4 = 0)
  OBVIOUS

LEMMA YearNumber ==
  ASSUME NEW y \in Int
  PROVE  YearBefore(y) \in Int
  BY DEF YearBefore

LEMMA YearLength ==
  ASSUME NEW y \in Int
  PROVE  YearBefore(y + 1) = YearBefore(y) + IF Leap(y) THEN 366 ELSE 365
  BY Quotients DEF YearBefore, Leap

LEMMA YearsGrow ==
  ASSUME NEW y \in Int, NEW z \in Int, y < z
  PROVE  YearBefore(y + 1) <= YearBefore(z)
<1> DEFINE a == y
           b == z - 1
<1>1. a \in Int /\ b \in Int /\ a <= b
  OBVIOUS
<1>2. a \div 4 <= b \div 4 /\ a \div 400 <= b \div 400
  BY <1>1
<1>3. (b \div 100) - (a \div 100) <= b - a
  BY <1>1
<1> QED
  BY <1>1, <1>2, <1>3 DEF YearBefore

LEMMA MonthLength ==
  ASSUME NEW y \in Int, NEW m \in 1..12
  PROVE  /\ Length(y, m) \in 28..31
         /\ m < 12 => Before(y, m + 1) = Before(y, m) + Length(y, m)
         /\ Before(y, m) \in Nat
  BY DEF Before, Length

LEMMA December ==
  ASSUME NEW y \in Int
  PROVE  /\ Before(y, 12) + 31 = (IF Leap(y) THEN 366 ELSE 365)
         /\ Length(y, 12) = 31 /\ Before(y, 12) \in Nat
  BY DEF Before, Length

LEMMA MonthsGrow ==
  ASSUME NEW y \in Int, NEW m \in 1..12, NEW k \in 1..12, m < k
  PROVE  Before(y, m) + Length(y, m) <= Before(y, k)
  BY DEF Before, Length

LEMMA WithinYear ==
  ASSUME NEW a \in date
  PROVE  Before(a.year, a.month) + a.day <= IF Leap(a.year) THEN 366 ELSE 365
<1>1. /\ a.year \in Int /\ a.month \in 1..12 /\ a.day \in 1..31
      /\ a.day <= Length(a.year, a.month)
  BY DEF date
<1>2. /\ Length(a.year, a.month) \in 28..31 /\ Before(a.year, a.month) \in Nat
      /\ Before(a.year, 12) + 31 = IF Leap(a.year) THEN 366 ELSE 365
      /\ Before(a.year, 12) \in Nat
  <2>1. Length(a.year, a.month) \in 28..31 /\ Before(a.year, a.month) \in Nat
    BY <1>1, MonthLength
  <2>2. /\ Before(a.year, 12) + 31 = IF Leap(a.year) THEN 366 ELSE 365
        /\ Before(a.year, 12) \in Nat
    BY <1>1, December
  <2> QED BY <2>1, <2>2
<1>3. CASE a.month = 12
  <2>1. Length(a.year, 12) = 31
    BY <1>1, December
  <2> QED BY <1>1, <1>2, <1>3, <2>1
<1>4. CASE a.month < 12
  <2>1. Before(a.year, a.month) + Length(a.year, a.month) <= Before(a.year, 12)
    BY <1>1, <1>4, MonthsGrow
  <2> QED BY <1>1, <1>2, <2>1
<1> QED
  BY <1>1, <1>3, <1>4

\* A day has one number and a number one day.
LEMMA OrdinalInjective ==
  ASSUME NEW d \in date, NEW e \in date, Ordinal(d) = Ordinal(e)
  PROVE  d = e
<1>1. ASSUME NEW a \in date
      PROVE  /\ a \in [year : Int, month : 1..12, day : 1..31]
             /\ a.year \in Int /\ a.month \in 1..12 /\ a.day \in 1..31
             /\ a.day <= Length(a.year, a.month)
             /\ YearBefore(a.year) \in Int /\ Before(a.year, a.month) \in Nat
             /\ Length(a.year, a.month) \in 28..31
  <2>1. /\ a \in [year : Int, month : 1..12, day : 1..31]
        /\ a.year \in Int /\ a.month \in 1..12 /\ a.day \in 1..31
        /\ a.day <= Length(a.year, a.month)
    BY DEF date
  <2>2. YearBefore(a.year) \in Int
    BY <2>1 DEF YearBefore
  <2> QED BY <2>1, <2>2, MonthLength
<1>2. ASSUME NEW a \in date
      PROVE  Before(a.year, a.month) + a.day <= IF Leap(a.year) THEN 366 ELSE 365
  BY WithinYear
<1>3. ASSUME NEW a \in date, NEW b \in date, a.year < b.year PROVE Ordinal(a) < Ordinal(b)
  <2>1. Ordinal(a) <= YearBefore(a.year + 1)
    BY <1>1, <1>2, YearLength DEF Ordinal
  <2>2. YearBefore(a.year + 1) <= YearBefore(b.year)
    BY <1>1, <1>3, YearsGrow
  <2>3. Ordinal(b) > YearBefore(b.year)
    BY <1>1 DEF Ordinal
  <2>4. Ordinal(a) \in Int /\ Ordinal(b) \in Int /\ YearBefore(a.year + 1) \in Int
        /\ YearBefore(b.year) \in Int
    BY <1>1, YearLength DEF Ordinal
  <2> QED BY <2>1, <2>2, <2>3, <2>4
<1>4. ASSUME NEW a \in date, NEW b \in date, a.year = b.year, a.month < b.month
      PROVE  Ordinal(a) < Ordinal(b)
  <2>1. Before(a.year, a.month) + Length(a.year, a.month) <= Before(b.year, b.month)
    BY <1>1, <1>4, MonthsGrow
  <2> QED BY <1>1, <1>4, <2>1 DEF Ordinal
<1>5. d.year = e.year /\ d.month = e.month
  <2>1. Ordinal(d) \in Int
    BY <1>1 DEF Ordinal
  <2>2. d.year = e.year
    BY <1>1, <1>3, <2>1
  <2> QED BY <1>1, <1>4, <2>1, <2>2
<1>6. d.day = e.day
  BY <1>1, <1>5 DEF Ordinal
<1> QED
  BY <1>1, <1>5, <1>6

LEMMA FromOrdinalIs ==
  ASSUME NEW d \in date
  PROVE  FromOrdinal(Ordinal(d)) = d
<1> DEFINE e == FromOrdinal(Ordinal(d))
<1>1. e \in date /\ Ordinal(e) = Ordinal(d)
  BY DEF FromOrdinal
<1> QED
  BY <1>1, OrdinalInjective

Day(y, m, k) == [year |-> y, month |-> m, day |-> k]

LEMMA DayIs ==
  ASSUME NEW y \in Int, NEW m \in 1..12, NEW k \in 1..31, k <= Length(y, m)
  PROVE  /\ Day(y, m, k) \in date
         /\ Ordinal(Day(y, m, k)) = Ordinal(Day(y, m, 1)) + k - 1
         /\ Ordinal(Day(y, m, k)) \in Int
         /\ month_start(Day(y, m, k)) = Day(y, m, 1)
<1>1. Before(y, m) \in Nat /\ YearBefore(y) \in Int
  BY MonthLength, YearNumber
<1>2. Day(y, m, k) \in date
  BY DEF Day, date
<1> QED
  BY <1>1, <1>2 DEF Day, Ordinal, month_start

LEMMA FirstIs ==
  ASSUME NEW y \in Int, NEW m \in 1..12
  PROVE  /\ Day(y, m, 1) \in date
         /\ Ordinal(Day(y, m, 1)) \in Int
         /\ month_start(Day(y, m, 1)) = Day(y, m, 1)
<1>1. 1 \in 1..31 /\ 1 <= Length(y, m)
  <2>1. Length(y, m) \in 28..31
    BY MonthLength
  <2> QED BY <2>1
<1> QED
  BY <1>1, DayIs

LEMMA DateIsDay ==
  ASSUME NEW d \in date
  PROVE  /\ d = Day(d.year, d.month, d.day)
         /\ d.year \in Int /\ d.month \in 1..12 /\ d.day \in 1..31
         /\ d.day <= Length(d.year, d.month)
  BY DEF date, Day

LEMMA SuccessorIs ==
  ASSUME NEW y \in Int, NEW m \in 1..12
  PROVE  Ordinal(Successor(y, m)) = Ordinal(Day(y, m, 1)) + Length(y, m)
<1>1. Before(y, m) \in Nat /\ YearBefore(y) \in Int /\ Length(y, m) \in 28..31
  BY MonthLength, YearNumber
<1>2. CASE m = 12
  <2>1. Before(y + 1, 1) = 0
    BY DEF Before
  <2>2. Ordinal(Successor(y, m)) = YearBefore(y + 1) + 1
    <3>1. YearBefore(y + 1) \in Int
      BY DEF YearBefore
    <3> QED BY <1>2, <2>1, <3>1 DEF Successor, NewYear, Ordinal
  <2>3. Before(y, m) + Length(y, m) = IF Leap(y) THEN 366 ELSE 365
    BY <1>2, December
  <2> QED BY <1>1, <2>2, <2>3, YearLength DEF Day, Ordinal
<1>3. CASE m < 12
  <2>1. Before(y, m + 1) = Before(y, m) + Length(y, m)
    BY <1>3, MonthLength
  <2> QED BY <1>1, <1>3, <2>1 DEF Successor, Day, Ordinal
<1> QED
  BY <1>2, <1>3

\* The day before a month begins, and the month it ends.
LEMMA EveIs ==
  ASSUME NEW y \in Int, NEW m \in 1..12
  PROVE  \E z \in Int, k \in 1..12 :
           LET e == Day(z, k, Length(z, k))
           IN  /\ Successor(z, k) = Day(y, m, 1)
               /\ e \in date
               /\ Ordinal(e) = Ordinal(Day(y, m, 1)) - 1
               /\ month_start(e) = Day(z, k, 1)
<1>1. \E z \in Int, k \in 1..12 : Successor(z, k) = Day(y, m, 1)
  <2>1. CASE m = 1
    <3>1. Successor(y - 1, 12) = Day(y, m, 1)
      BY <2>1 DEF Successor, NewYear, Day
    <3> QED BY <2>1, <3>1
  <2>2. CASE m > 1
    <3>1. Successor(y, m - 1) = Day(y, m, 1) /\ m - 1 \in 1..12
      BY <2>2 DEF Successor, NewYear, Day
    <3> QED BY <2>2, <3>1
  <2> QED BY <2>1, <2>2
<1>2. PICK z \in Int, k \in 1..12 : Successor(z, k) = Day(y, m, 1)
  BY <1>1
<1>3. Length(z, k) \in 28..31
  BY MonthLength
<1>4. /\ Day(z, k, Length(z, k)) \in date
      /\ Ordinal(Day(z, k, Length(z, k))) = Ordinal(Day(z, k, 1)) + Length(z, k) - 1
      /\ month_start(Day(z, k, Length(z, k))) = Day(z, k, 1)
  <2>1. Length(z, k) \in 1..31 /\ Length(z, k) <= Length(z, k)
    BY <1>3
  <2> QED BY <2>1, DayIs
<1>5. Ordinal(Day(y, m, 1)) = Ordinal(Day(z, k, 1)) + Length(z, k)
  BY <1>2, SuccessorIs
<1>6. Ordinal(Day(z, k, 1)) \in Int
  BY <1>3, DayIs
<1>7. Ordinal(Day(z, k, Length(z, k))) = Ordinal(Day(y, m, 1)) - 1
  BY <1>3, <1>4, <1>5, <1>6
<1> QED
  BY <1>2, <1>4, <1>7

LEMMA NewYearsEve ==
  ASSUME NEW y \in Int
  PROVE  \E e \in date : e.year = y - 1 /\ Ordinal(e) = Ordinal(Day(y, 1, 1)) - 1
<1> DEFINE e == Day(y - 1, 12, 31)
<1>1. e \in date /\ e.year = y - 1
  BY December DEF Day, date
<1>2. /\ Ordinal(e) = YearBefore(y - 1) + Before(y - 1, 12) + 31
      /\ Ordinal(Day(y, 1, 1)) = YearBefore(y) + 1
  BY YearNumber DEF Day, Ordinal, Before
<1>3. YearBefore(y) = YearBefore(y - 1) + (Before(y - 1, 12) + 31)
  <2>1. y - 1 \in Int /\ y - 1 + 1 = y
    OBVIOUS
  <2> QED BY <2>1, YearLength, December
<1>4. YearBefore(y - 1) \in Int /\ Before(y - 1, 12) \in Int
  BY YearNumber, December
<1> HIDE DEF e
<1> QED
  BY <1>1, <1>2, <1>3, <1>4

LEMMA WeekIs ==
  ASSUME NEW n \in Int
  PROVE  /\ week_start(n) \in Int /\ week_start(n) <= n /\ n < week_start(n) + 7
         /\ weekday(week_start(n)) = 0
         /\ week_start(week_start(n) - 1) = week_start(n) - 7
  BY DEF week_start, weekday, WEEK_START

-----------------------------------------------------------------------------
(* The theorems.                                                           *)

\* dates.py:55 "32 days clears every month length": whatever the month, in leap
\* years too, 32 days from its first lie in the next one and in no later.
THEOREM NextMonthIsNext ==
  ASSUME NEW d \in date
  PROVE  next_month(d) = Successor(d.year, d.month)
<1> DEFINE y == d.year
           m == d.month
           s == Successor(y, m)
           k == 33 - Length(y, m)
<1>1. y \in Int /\ m \in 1..12 /\ month_start(d) = Day(y, m, 1)
  BY DateIsDay DEF month_start, Day
<1>2. Length(y, m) \in 28..31 /\ k \in 2..5
  <2>1. Length(y, m) \in 28..31
    BY <1>1, MonthLength
  <2> QED BY <2>1
<1>3. /\ s = Day(s.year, s.month, 1)
      /\ s.year \in Int /\ s.month \in 1..12
  BY <1>1 DEF Successor, NewYear, Day
<1>4. Length(s.year, s.month) \in 28..31
  BY <1>3, MonthLength
<1> DEFINE e == Day(s.year, s.month, k)
<1>5. /\ e \in date
      /\ Ordinal(e) = Ordinal(s) + k - 1
      /\ month_start(e) = s
  <2>1. k \in 1..31 /\ k <= Length(s.year, s.month)
    <3> HIDE DEF k
    <3> QED BY <1>2, <1>4
  <2> HIDE DEF s, k
  <2>2. /\ Day(s.year, s.month, k) \in date
        /\ Ordinal(Day(s.year, s.month, k)) = Ordinal(Day(s.year, s.month, 1)) + k - 1
        /\ month_start(Day(s.year, s.month, k)) = Day(s.year, s.month, 1)
    BY <1>3, <2>1, DayIs
  <2> QED BY <1>3, <2>2
<1>6. Ordinal(month_start(d)) \in Int
      /\ Ordinal(s) = Ordinal(month_start(d)) + Length(y, m)
  <2>1. Ordinal(Day(y, m, 1)) \in Int
    BY <1>1, FirstIs
  <2> QED BY <1>1, <2>1, SuccessorIs
<1>7. Ordinal(e) = Ordinal(month_start(d)) + 32
  BY <1>2, <1>5, <1>6
<1> HIDE DEF e
<1>8. FromOrdinal(Ordinal(month_start(d)) + 32) = e
  BY <1>5, <1>7, FromOrdinalIs
<1> QED
  BY <1>5, <1>8 DEF next_month

LEMMA RangeIs ==
  ASSUME NEW a, NEW b
  PROVE  Start(Range(a, b)) = a /\ End(Range(a, b)) = b
  BY DEF Range, Start, End

FirstOf(d) == Ordinal(Day(d.year, d.month, 1))

LEMMA ResolveIs ==
  ASSUME NEW c \in Int, NEW d \in date
  PROVE  /\ Ordinal(d) \in Int
         /\ resolve("today", c, d) = Range(Ordinal(d), Ordinal(d) + 1)
         /\ resolve("yesterday", c, d) = Range(Ordinal(d) - 1, Ordinal(d))
         /\ resolve("this week", c, d) = Range(week_start(Ordinal(d)), week_start(Ordinal(d)) + 7)
         /\ resolve("last week", c, d) = Range(week_start(Ordinal(d)) - 7, week_start(Ordinal(d)))
         /\ resolve("this month", c, d) = Range(FirstOf(d), FirstOf(d) + Length(d.year, d.month))
         /\ resolve("last month", c, d) =
              Range(Ordinal(month_start(FromOrdinal(FirstOf(d) - 1))), FirstOf(d))
         /\ resolve("this year", c, d) =
              Range(Ordinal(Day(d.year, 1, 1)), Ordinal(Day(d.year + 1, 1, 1)))
         /\ resolve("last year", c, d) =
              Range(Ordinal(Day(d.year - 1, 1, 1)), Ordinal(Day(d.year, 1, 1)))
         /\ c >= 1 => resolve("last days", c, d) = Range(Ordinal(d) - (c - 1), Ordinal(d) + 1)
<1> DEFINE init == Day(d.year, d.month, 1)
<1>1. /\ d = Day(d.year, d.month, d.day)
      /\ d.year \in Int /\ d.month \in 1..12 /\ d.day \in 1..31
      /\ d.day <= Length(d.year, d.month)
  BY DateIsDay
<1>2. Ordinal(d) \in Int /\ month_start(d) = init
  BY <1>1, DayIs
<1>3. /\ init \in date /\ month_start(init) = init
      /\ init.year = d.year /\ init.month = d.month
  <2>1. init \in date /\ month_start(init) = init
    BY <1>1, FirstIs
  <2> QED BY <2>1 DEF Day
<1>4. Ordinal(next_month(init)) = Ordinal(init) + Length(d.year, d.month)
  BY <1>1, <1>3, NextMonthIsNext, SuccessorIs
<1>5. week_start(Ordinal(d)) - 7 + 7 = week_start(Ordinal(d))
  BY <1>2, WeekIs
<1>6. \A y : NewYear(y) = Day(y, 1, 1)
  BY DEF NewYear, Day
<1> HIDE DEF init
<1>7. /\ resolve("this month", c, d) = Range(Ordinal(init), Ordinal(next_month(init)))
      /\ resolve("last month", c, d) =
           Range(Ordinal(month_start(FromOrdinal(Ordinal(init) - 1))), Ordinal(init))
  BY <1>2 DEF resolve
<1>8. /\ resolve("today", c, d) = Range(Ordinal(d), Ordinal(d) + 1)
      /\ resolve("yesterday", c, d) = Range(Ordinal(d) - 1, Ordinal(d))
      /\ resolve("this week", c, d) = Range(week_start(Ordinal(d)), week_start(Ordinal(d)) + 7)
      /\ resolve("last week", c, d) =
           Range(week_start(Ordinal(d)) - 7, week_start(Ordinal(d)) - 7 + 7)
  BY DEF resolve
<1>9. /\ resolve("this year", c, d) =
           Range(Ordinal(NewYear(d.year)), Ordinal(NewYear(d.year + 1)))
      /\ resolve("last year", c, d) =
           Range(Ordinal(NewYear(d.year - 1)), Ordinal(NewYear(d.year)))
      /\ c >= 1 => resolve("last days", c, d) = Range(Ordinal(d) - (c - 1), Ordinal(d) + 1)
  BY DEF resolve
<1> QED
  BY <1>2, <1>4, <1>5, <1>6, <1>7, <1>8, <1>9 DEF init, FirstOf

\* What "last" means of a period: it ends where this one begins, and it is what
\* "this" was on the day before.
Ends(last, this, c, d, e) ==
  /\ End(resolve(last, c, d)) = Start(resolve(this, c, d))
  /\ Ordinal(e) = End(resolve(last, c, d)) - 1 => resolve(this, c, e) = resolve(last, c, d)

Continues(last, this) == \A d \in date, e \in date, c \in Int : Ends(last, this, c, d, e)

\* test_dates.py:52 "consecutive periods share a boundary instant and nothing is
\* counted twice", and nothing is left out: days, weeks, months of any length and
\* years tile the calendar, the last one being this one of the day before.
THEOREM PeriodsTile ==
  /\ Continues("yesterday", "today")
  /\ Continues("last week", "this week")
  /\ Continues("last month", "this month")
  /\ Continues("last year", "this year")
<1> SUFFICES ASSUME NEW d \in date, NEW c \in Int, NEW e \in date
             PROVE  /\ Ends("yesterday", "today", c, d, e)
                    /\ Ends("last week", "this week", c, d, e)
                    /\ Ends("last month", "this month", c, d, e)
                    /\ Ends("last year", "this year", c, d, e)
  BY DEF Continues
<1>1. /\ d.year \in Int /\ d.month \in 1..12 /\ Ordinal(d) \in Int
      /\ e.year \in Int /\ e.month \in 1..12 /\ Ordinal(e) \in Int
  BY DateIsDay, ResolveIs
<1>2. Ends("yesterday", "today", c, d, e)
  <2>1. /\ resolve("yesterday", c, d) = Range(Ordinal(d) - 1, Ordinal(d))
        /\ resolve("today", c, d) = Range(Ordinal(d), Ordinal(d) + 1)
        /\ resolve("today", c, e) = Range(Ordinal(e), Ordinal(e) + 1)
    BY ResolveIs
  <2> QED BY <1>1, <2>1, RangeIs DEF Ends
<1>3. Ends("last week", "this week", c, d, e)
  <2>1. /\ week_start(Ordinal(d)) \in Int
        /\ week_start(week_start(Ordinal(d)) - 1) = week_start(Ordinal(d)) - 7
    BY <1>1, WeekIs
  <2>2. /\ resolve("last week", c, d) = Range(week_start(Ordinal(d)) - 7, week_start(Ordinal(d)))
        /\ resolve("this week", c, d) = Range(week_start(Ordinal(d)), week_start(Ordinal(d)) + 7)
        /\ resolve("this week", c, e) = Range(week_start(Ordinal(e)), week_start(Ordinal(e)) + 7)
    BY ResolveIs
  <2>3. /\ End(resolve("last week", c, d)) = week_start(Ordinal(d))
        /\ Start(resolve("this week", c, d)) = week_start(Ordinal(d))
    BY <2>2, RangeIs, Zenon
  <2>4. Ordinal(e) = week_start(Ordinal(d)) - 1 =>
          /\ week_start(Ordinal(e)) = week_start(Ordinal(d)) - 7
          /\ week_start(Ordinal(e)) + 7 = week_start(Ordinal(d))
    BY <2>1
  <2> QED BY <2>2, <2>3, <2>4 DEF Ends
<1>4. Ends("last month", "this month", c, d, e)
  <2>1. PICK z \in Int, k \in 1..12 :
          LET eve == Day(z, k, Length(z, k))
          IN  /\ Successor(z, k) = Day(d.year, d.month, 1)
              /\ eve \in date
              /\ Ordinal(eve) = Ordinal(Day(d.year, d.month, 1)) - 1
              /\ month_start(eve) = Day(z, k, 1)
    BY <1>1, EveIs
  <2> DEFINE first == FirstOf(d)
             eve == Day(z, k, Length(z, k))
             before == Ordinal(Day(z, k, 1))
  <2>2. /\ eve \in date /\ Ordinal(eve) = first - 1 /\ month_start(eve) = Day(z, k, 1)
        /\ eve.year = z /\ eve.month = k
    BY <2>1 DEF Day, FirstOf
  <2>3. first = before + Length(z, k)
    BY <2>1, SuccessorIs DEF FirstOf
  <2>4. FromOrdinal(first - 1) = eve
    BY <2>2, FromOrdinalIs
  <2>5. /\ resolve("last month", c, d) = Range(Ordinal(month_start(FromOrdinal(first - 1))), first)
        /\ resolve("this month", c, d) = Range(first, first + Length(d.year, d.month))
    <3> HIDE DEF eve, before
    <3> QED BY ResolveIs
  <2>6. resolve("this month", c, eve) =
          Range(FirstOf(eve), FirstOf(eve) + Length(eve.year, eve.month))
    <3> HIDE DEF eve
    <3> QED BY <2>2, ResolveIs
  <2>7. resolve("this month", c, eve) = Range(before, first)
    <3> HIDE DEF eve, first
    <3> QED BY <2>2, <2>3, <2>6 DEF FirstOf
  <2>8. resolve("last month", c, d) = Range(before, first)
    <3> HIDE DEF eve, first
    <3> QED BY <2>2, <2>4, <2>5
  <2>9. Ordinal(e) = first - 1 => e = eve
    <3> HIDE DEF eve, first
    <3> QED BY <2>2, OrdinalInjective
  <2> HIDE DEF eve, first, before
  <2>10. End(resolve("last month", c, d)) = first /\ Start(resolve("this month", c, d)) = first
    BY <2>5, <2>8, RangeIs, Zenon
  <2> QED BY <2>7, <2>8, <2>9, <2>10 DEF Ends
<1>5. Ends("last year", "this year", c, d, e)
  <2> DEFINE first == Ordinal(Day(d.year, 1, 1))
  <2>2. PICK eve \in date : eve.year = d.year - 1 /\ Ordinal(eve) = first - 1
    BY <1>1, NewYearsEve
  <2>3. Ordinal(e) = first - 1 => e = eve
    <3> HIDE DEF first
    <3> QED BY <2>2, OrdinalInjective
  <2>4. /\ resolve("last year", c, d) = Range(Ordinal(Day(d.year - 1, 1, 1)), first)
        /\ resolve("this year", c, d) = Range(first, Ordinal(Day(d.year + 1, 1, 1)))
        /\ resolve("this year", c, e) =
             Range(Ordinal(Day(e.year, 1, 1)), Ordinal(Day(e.year + 1, 1, 1)))
    BY ResolveIs
  <2>5. d.year - 1 + 1 = d.year
    BY <1>1
  <2> HIDE DEF first
  <2>6. e.year = d.year - 1 => resolve("this year", c, e) = resolve("last year", c, d)
    BY <2>4, <2>5 DEF first
  <2>7. End(resolve("last year", c, d)) = first /\ Start(resolve("this year", c, d)) = first
    BY <2>4, RangeIs, Zenon
  <2> QED BY <2>2, <2>3, <2>6, <2>7 DEF Ends
<1> QED
  BY <1>2, <1>3, <1>4, <1>5

\* dates.py:42 "The dealership's date, which near midnight is not UTC's": the
\* moment somebody asks lies within the bounds of today, of this week, month and
\* year and of the last days, and the periods called last are over, at any
\* moment, also in the hours in which the day in UTC is another one.
THEOREM NowIsInside ==
  ASSUME NEW now \in Int, NEW d \in date, Ordinal(d) = today(now), NEW c \in Int, c >= 1
  PROVE  /\ \A words \in {"today", "this week", "this month", "this year", "last days"} :
              /\ as_utc(Start(resolve(words, c, d))) <= now
              /\ now < as_utc(End(resolve(words, c, d)))
         /\ \A words \in {"yesterday", "last week", "last month", "last year"} :
              as_utc(End(resolve(words, c, d))) <= now
<1> DEFINE n == Ordinal(d)
           first == FirstOf(d)
           newyear == Ordinal(Day(d.year, 1, 1))
           next == Ordinal(Day(d.year + 1, 1, 1))
<1>1. /\ d = Day(d.year, d.month, d.day)
      /\ d.year \in Int /\ d.month \in 1..12 /\ d.day \in 1..31
      /\ d.day <= Length(d.year, d.month)
  BY DateIsDay
<1>2. n \in Int /\ as_utc(n) <= now /\ now < as_utc(n + 1)
  <2>1. n \in Int
    BY ResolveIs
  <2>2. n = (now + 10800) \div 86400
    BY DEF today, TENANT_TZ
  <2> HIDE DEF n
  <2> QED BY <2>1, <2>2 DEF as_utc, TENANT_TZ
<1>3. /\ first \in Int /\ first <= n /\ n + 1 <= first + Length(d.year, d.month)
      /\ Length(d.year, d.month) \in 28..31
  <2>1. n = first + d.day - 1
    <3>1. Ordinal(Day(d.year, d.month, d.day)) = Ordinal(Day(d.year, d.month, 1)) + d.day - 1
      BY <1>1, DayIs
    <3> QED BY <1>1, <3>1 DEF FirstOf
  <2>2. Length(d.year, d.month) \in 28..31
    BY <1>1, MonthLength
  <2>3. first \in Int
    BY <1>1, <2>2, DayIs DEF FirstOf
  <2> QED BY <1>1, <2>1, <2>2, <2>3
<1>4. newyear \in Int /\ next \in Int /\ newyear <= n /\ n + 1 <= next
  <2>1. /\ newyear = YearBefore(d.year) + 1 /\ next = YearBefore(d.year + 1) + 1
        /\ YearBefore(d.year) \in Int /\ YearBefore(d.year + 1) \in Int
    BY <1>1, YearNumber DEF Day, Ordinal, Before
  <2>2. n = YearBefore(d.year) + Before(d.year, d.month) + d.day
    BY DEF Ordinal
  <2>3. Before(d.year, d.month) \in Nat
    BY <1>1, MonthLength
  <2>4. Before(d.year, d.month) + d.day <= IF Leap(d.year) THEN 366 ELSE 365
    BY WithinYear
  <2>5. YearBefore(d.year + 1) = YearBefore(d.year) + IF Leap(d.year) THEN 366 ELSE 365
    BY <1>1, YearLength
  <2> QED BY <1>1, <2>1, <2>2, <2>3, <2>4, <2>5
<1>5. week_start(n) \in Int /\ week_start(n) <= n /\ n + 1 <= week_start(n) + 7
  BY <1>2, WeekIs
<1>6. ASSUME NEW a \in Int, NEW b \in Int, a <= n, n + 1 <= b
      PROVE  as_utc(a) <= now /\ now < as_utc(b)
  BY <1>2, <1>6 DEF as_utc, TENANT_TZ
<1> HIDE DEF n, first, newyear, next
<1>7. /\ n - (c - 1) \in Int /\ n - (c - 1) <= n /\ n + 1 \in Int
      /\ week_start(n) + 7 \in Int /\ first + Length(d.year, d.month) \in Int
  BY <1>2, <1>3, <1>5
<1>8. /\ as_utc(n) <= now /\ now < as_utc(n + 1) /\ as_utc(n - (c - 1)) <= now
      /\ as_utc(week_start(n)) <= now /\ now < as_utc(week_start(n) + 7)
      /\ as_utc(first) <= now /\ now < as_utc(first + Length(d.year, d.month))
      /\ as_utc(newyear) <= now /\ now < as_utc(next)
  BY <1>2, <1>3, <1>4, <1>5, <1>6, <1>7
<1>9. /\ resolve("today", c, d) = Range(n, n + 1)
      /\ resolve("yesterday", c, d) = Range(n - 1, n)
      /\ resolve("this week", c, d) = Range(week_start(n), week_start(n) + 7)
      /\ resolve("last week", c, d) = Range(week_start(n) - 7, week_start(n))
      /\ resolve("this month", c, d) = Range(first, first + Length(d.year, d.month))
      /\ \E m : resolve("last month", c, d) = Range(m, first)
      /\ resolve("this year", c, d) = Range(newyear, next)
      /\ \E m : resolve("last year", c, d) = Range(m, newyear)
      /\ resolve("last days", c, d) = Range(n - (c - 1), n + 1)
  BY ResolveIs DEF n, first, newyear, next
<1>10. ASSUME NEW words \in {"today", "this week", "this month", "this year", "last days"}
       PROVE  /\ as_utc(Start(resolve(words, c, d))) <= now
              /\ now < as_utc(End(resolve(words, c, d)))
  <2>1. \E a, b : /\ resolve(words, c, d) = Range(a, b)
                 /\ as_utc(a) <= now /\ now < as_utc(b)
    BY <1>8, <1>9, Zenon
  <2> QED BY <2>1, RangeIs, Zenon
<1>11. ASSUME NEW words \in {"yesterday", "last week", "last month", "last year"}
       PROVE  as_utc(End(resolve(words, c, d))) <= now
  <2>1. \E a, b : resolve(words, c, d) = Range(a, b) /\ as_utc(b) <= now
    BY <1>8, <1>9, Zenon
  <2> QED BY <2>1, RangeIs, Zenon
<1> QED
  BY <1>10, <1>11
=============================================================================

-------------------------------- MODULE QueryDates --------------------------------
(* Dates of the report engines: the bucket a date falls into and the date a        *)
(* relative token stands for.  A date is <<year, month, day>>; its text            *)
(* "YYYY-MM-DD" is padded, so texts and triples are ordered alike; the key of a     *)
(* year is <<year, 0, 0>>, of a month <<year, month, 0>>, of a quarter              *)
(* <<year, Quarter, n>> and of a week <<year, Week, n>>: a letter comes after the    *)
(* digits of every month.                                                            *)
EXTENDS Integers, Sequences

\* The demo clock both engines are pinned to.
CONSTANT Today

Quarter == 13
Week == 14

IsLeap(y) == y % 4 = 0 /\ (y % 100 # 0 \/ y % 400 = 0)
MonthLength(y, m) ==
  CASE m = 2 -> IF IsLeap(y) THEN 29 ELSE 28
    [] m \in {4, 6, 9, 11} -> 30
    [] OTHER -> 31
DaysBeforeYear(y) ==
  LET p == y - 1 IN 365 * p + p \div 4 - p \div 100 + p \div 400
DaysBeforeMonth(m, leap) ==
  <<0, 31, 59, 90, 120, 151, 181, 212, 243, 273, 304, 334, 365>>[m] + IF leap /\ m > 2 THEN 1 ELSE 0

Date == {d \in Nat \X (1..12) \X (1..31) : d[1] > 0 /\ d[3] <= MonthLength(d[1], d[2])}

\* Date.UTC / 86400000 and DateTime: days since the start of year 1, a Monday.
DayNumber(date) ==
  DaysBeforeYear(date[1]) + DaysBeforeMonth(date[2], IsLeap(date[1])) + date[3] - 1
Weekday(n) == n % 7
YearOf(n) ==
  CHOOSE y \in (n \div 366)..(n \div 365 + 1) : DaysBeforeYear(y) <= n /\ n < DaysBeforeYear(y + 1)
\* The d-th day of year y, counted from 0.
DateInYear(y, leap, d) ==
  LET m == CHOOSE c \in 1..12 : DaysBeforeMonth(c, leap) <= d /\ d < DaysBeforeMonth(c + 1, leap)
  IN <<y, m, d - DaysBeforeMonth(m, leap) + 1>>
DateOf(n) == LET in(y) == DateInYear(y, IsLeap(y), n - DaysBeforeYear(y)) IN in(YearOf(n))

(* ------------------------------- the browser's engine ----------------------------- *)
ThursdayOf(n) == n - Weekday(n) + 3
\* Mutant: a week is of the year of the day instead of the year of its Thursday.
WeekKeyOfTheDay(date) ==
  LET week(year, thursday, fourth) ==
        <<year, Week, 1 + (thursday - fourth - 3 + Weekday(fourth)) \div 7>>
  IN week(date[1], ThursdayOf(DayNumber(date)), DayNumber(<<date[1], 1, 4>>))
\* The fourth of January lies in week 1; the quotient is exact, so nothing is rounded.
WeekKey(date) ==
  LET week(year, thursday, fourth) ==
        <<year, Week, 1 + (thursday - fourth - 3 + Weekday(fourth)) \div 7>>
      of(year, thursday) == week(year, thursday, DayNumber(<<year, 1, 4>>))
      thursday == ThursdayOf(DayNumber(date))
  IN of(YearOf(thursday), thursday)

DateBucketKey(date, bucket) ==
  CASE bucket = "year" -> <<date[1], 0, 0>>
    [] bucket = "quarter" -> <<date[1], Quarter, (date[2] - 1) \div 3 + 1>>
    [] bucket = "month" -> <<date[1], date[2], 0>>
    [] bucket = "week" -> WeekKey(date)
    [] OTHER -> date

TokenDate(token) ==
  CASE token = "startOfYear" -> <<Today[1], 1, 1>>
    [] token = "startOfMonth" -> <<Today[1], Today[2], 1>>
    [] OTHER -> Today

\* The year and month a number of months away from a date.
MonthsFrom(date, months) ==
  LET k == 12 * date[1] + date[2] - 1 + months IN <<k \div 12, (k % 12) + 1>>

\* setUTCMonth keeps the day and lets one that the month lacks run into the next.
ResolveDynamicValue(dv) ==
  LET in(month, day) == DateOf(DayNumber(<<month[1], month[2], 1>>) + day - 1 + dv.offsetDays)
      from(date) == in(MonthsFrom(date, dv.offsetMonths), date[3])
  IN from(TokenDate(dv.token))

(* -------------------------------- the server's engine ------------------------------ *)
\* AddMonths takes the last day of a month that lacks the day.
ResolveDynamicToken(dv) ==
  LET least(m, n) == IF m < n THEN m ELSE n
      in(month, day) ==
        DateOf(DayNumber(<<month[1], month[2], least(day, MonthLength(month[1], month[2]))>>)
                 + dv.offsetDays)
      from(date) == in(MonthsFrom(date, dv.offsetMonths), date[3])
  IN from(TokenDate(dv.token))

\* Mutant: a week belongs to the year of its Monday.
WeekBucketKeyOfMonday(date) ==
  LET week(year, monday, fourth) == <<year, Week, 1 + (monday - fourth + Weekday(fourth)) \div 7>>
      of(monday) == week(monday[1], DayNumber(monday), DayNumber(<<monday[1], 1, 4>>))
  IN of(DateOf(ThursdayOf(DayNumber(date)) - 3))
\* A week belongs to the year of its Thursday.
WeekBucketKey(date) ==
  LET week(year, thursday, fourth) ==
        <<year, Week, 1 + (thursday - fourth - 3 + Weekday(fourth)) \div 7>>
      of(thursday) == week(thursday[1], DayNumber(thursday), DayNumber(<<thursday[1], 1, 4>>))
  IN of(DateOf(ThursdayOf(DayNumber(date))))
ServerDateBucketKey(date, bucket) ==
  IF bucket = "week" THEN WeekBucketKey(date) ELSE DateBucketKey(date, bucket)
====================================================================================

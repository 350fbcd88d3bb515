------------------------- MODULE ReportQueries_proofs -------------------------
(***************************************************************************)
(* That a report puts every day in its ISO week, and numbers the weeks in  *)
(* the order of the calendar, whatever the dates of a dataset; and that    *)
(* both engines do so alike.  The argument is about QueryDates: a day lies *)
(* in exactly one year, the Thursday of a week decides its year and its    *)
(* number, and the key of a week grows with its Monday.  Then that a       *)
(* drill-down shows the rows of its group.                                 *)
(*                                                                         *)
(* Next, that the totals of the groups add up to those of the whole.  A    *)
(* fraction in lowest terms is determined by its value, so that sums       *)
(* associate; one more row raises the metric of its bucket, and of no      *)
(* other, by what it raises the metric of all rows; and so by induction    *)
(* along the rows the metrics of the buckets sum to the metric of the      *)
(* rows.                                                                   *)
(*                                                                         *)
(* And that the server's engine answers as the browser's does: filter by   *)
(* filter, token by token of an expression, bucket by bucket and key by    *)
(* key of the order.                                                       *)
(***************************************************************************)
EXTENDS ReportQueries, WellFoundedInduction, TLAPS

(* The calendar. *)
LEMMA YearsGrow ==
  ASSUME NEW y \in Nat, NEW z \in Nat, y < z
  PROVE  DaysBeforeYear(y) < DaysBeforeYear(z)
BY DEF DaysBeforeYear

LEMMA YearLength ==
  ASSUME NEW y \in Nat
  PROVE  DaysBeforeYear(y + 1) = DaysBeforeYear(y) + (IF IsLeap(y) THEN 366 ELSE 365)
<1>. DEFINE p == y - 1
<1>1. y \div 4 = p \div 4 + (IF y % 4 = 0 THEN 1 ELSE 0)
  OBVIOUS
<1>2. y \div 100 = p \div 100 + (IF y % 100 = 0 THEN 1 ELSE 0)
  OBVIOUS
<1>3. y \div 400 = p \div 400 + (IF y % 400 = 0 THEN 1 ELSE 0)
  OBVIOUS
<1>4. (y % 400 = 0 => y % 100 = 0) /\ (y % 100 = 0 => y % 4 = 0)
  OBVIOUS
<1>5. DaysBeforeYear(y + 1) = 365 * y + y \div 4 - y \div 100 + y \div 400
  BY DEF DaysBeforeYear
<1>6. DaysBeforeYear(y) = 365 * p + p \div 4 - p \div 100 + p \div 400
  BY DEF DaysBeforeYear
<1>. QED  BY <1>1, <1>2, <1>3, <1>4, <1>5, <1>6 DEF IsLeap

LEMMA YearBounds ==
  ASSUME NEW y \in Nat \ {0}
  PROVE  DaysBeforeYear(y) \in Nat /\ 365 * (y - 1) <= DaysBeforeYear(y)
         /\ DaysBeforeYear(y + 1) <= 366 * y
BY DEF DaysBeforeYear

\* Every day lies in a year.
LEMMA YearExists ==
  ASSUME NEW n \in Nat
  PROVE  \E y \in Nat \ {0} : /\ y \in (n \div 366)..(n \div 365 + 1)
                              /\ DaysBeforeYear(y) <= n /\ n < DaysBeforeYear(y + 1)
<1>. DEFINE later == {y \in Nat \ {0} : n < DaysBeforeYear(y + 1)}
<1>1. n + 1 \in later
  <2>1. 365 * (n + 1) <= DaysBeforeYear(n + 2)
    BY YearBounds
  <2>. QED  BY <2>1 DEF DaysBeforeYear
<1>2. later \subseteq Nat
  OBVIOUS
<1>3. PICK y \in later : \A x \in later : ~ (<<x, y>> \in OpToRel(<, Nat))
  <2>. HIDE DEF later
  <2>. QED  BY <1>1, <1>2, WFMin, NatLessThanWellFounded, Zenon
<1>4. \A x \in Nat : <<x, y>> \in OpToRel(<, Nat) <=> x < y
  <2>1. y \in Nat
    BY <1>2
  <2>. HIDE DEF later
  <2>. QED  BY <2>1, Zenon DEF OpToRel
<1>5. \A x \in later : ~(x < y)
  BY <1>2, <1>3, <1>4
<1>6. y \in Nat \ {0} /\ n < DaysBeforeYear(y + 1)
  OBVIOUS
<1>7. DaysBeforeYear(y) <= n
  <2>1. CASE y = 1
    BY <2>1 DEF DaysBeforeYear
  <2>2. CASE y > 1
    <3>1. y - 1 \in Nat \ {0} /\ ~(y - 1 \in later)
      BY <1>5, <1>6, <2>2
    <3>2. ~(n < DaysBeforeYear((y - 1) + 1))
      BY <3>1
    <3>3. DaysBeforeYear((y - 1) + 1) = DaysBeforeYear(y) /\ DaysBeforeYear(y) \in Nat
      BY <1>6, YearBounds
    <3>. QED  BY <3>2, <3>3
  <2>. QED  BY <1>6, <2>1, <2>2
<1>8. 365 * (y - 1) <= n /\ n < 366 * y
  BY <1>6, <1>7, YearBounds
<1>9. y \in (n \div 366)..(n \div 365 + 1)
  BY <1>6, <1>8
<1>. QED  BY <1>6, <1>7, <1>9

LEMMA YearOfDay ==
  ASSUME NEW n \in Nat
  PROVE  /\ YearOf(n) \in Nat \ {0}
         /\ DaysBeforeYear(YearOf(n)) <= n /\ n < DaysBeforeYear(YearOf(n) + 1)
<1>. DEFINE y == YearOf(n)
<1>1. /\ y \in (n \div 366)..(n \div 365 + 1)
      /\ DaysBeforeYear(y) <= n /\ n < DaysBeforeYear(y + 1)
  BY YearExists DEF YearOf
<1>2. y \in Nat
  BY <1>1
<1>3. y # 0
  <2>1. DaysBeforeYear(0 + 1) = 0
    BY DEF DaysBeforeYear
  <2>. QED  BY <1>1, <2>1
<1>. QED  BY <1>1, <1>2, <1>3

\* A later day is in the same year or in a later one.
LEMMA YearsInOrder ==
  ASSUME NEW n \in Nat, NEW m \in Nat, n <= m PROVE YearOf(n) <= YearOf(m)
<1>1. /\ YearOf(n) \in Nat /\ YearOf(m) \in Nat
      /\ DaysBeforeYear(YearOf(n)) <= n /\ m < DaysBeforeYear(YearOf(m) + 1)
  BY YearOfDay
<1>2. ASSUME YearOf(m) < YearOf(n) PROVE FALSE
  <2>1. PICK z \in Nat : z = YearOf(m) + 1
    BY <1>1
  <2>2. DaysBeforeYear(z) \in Int /\ DaysBeforeYear(YearOf(n)) \in Int
    BY <1>1 DEF DaysBeforeYear
  <2>3. DaysBeforeYear(z) <= DaysBeforeYear(YearOf(n))
    <3>1. z < YearOf(n) \/ z = YearOf(n)
      BY <1>1, <1>2, <2>1
    <3>. QED  BY <1>1, <2>2, <3>1, YearsGrow
  <2>. QED  BY <1>1, <2>1, <2>2, <2>3
<1>. QED  BY <1>1, <1>2


-----------------------------------------------------------------------------
(* The weeks. *)
LEMMA DayIsNat == ASSUME NEW d \in Date PROVE DayNumber(d) \in Nat
<1>1. PICK y \in Nat \ {0}, m \in 1..12, k \in 1..31 : d[1] = y /\ d[2] = m /\ d[3] = k
  BY DEF Date
<1>2. \A c \in 1..13 : <<0, 31, 59, 90, 120, 151, 181, 212, 243, 273, 304, 334, 365>>[c] \in Nat
  OBVIOUS
<1>3. IsLeap(y) \in BOOLEAN
  BY DEF IsLeap
<1>4. DaysBeforeMonth(m, IsLeap(y)) \in Nat
  BY <1>2, <1>3 DEF DaysBeforeMonth
<1>5. DaysBeforeYear(y) \in Nat
  BY YearBounds
<1>. QED  BY <1>1, <1>4, <1>5 DEF DayNumber

LEMMA FourthOfJanuary == ASSUME NEW y \in Nat \ {0} PROVE DayNumber(<<y, 1, 4>>) = DaysBeforeYear(y) + 3
<1>1. IsLeap(y) \in BOOLEAN
  BY DEF IsLeap
<1>2. DaysBeforeMonth(1, IsLeap(y)) = 0
  BY <1>1 DEF DaysBeforeMonth
<1>3. DaysBeforeYear(y) \in Nat
  BY YearBounds
<1>. QED  BY <1>2, <1>3 DEF DayNumber

\* The Monday of week 1 of a year, and the number of the week of a Monday in it.
FirstMonday(y) == LET fourth == DaysBeforeYear(y) + 3 IN fourth - Weekday(fourth)
WeekOf(monday, y) == <<y, Week, 1 + (monday - FirstMonday(y)) \div 7>>

LEMMA FirstMondayIs ==
  ASSUME NEW y \in Nat \ {0}
  PROVE  /\ FirstMonday(y) \in Int /\ FirstMonday(y) % 7 = 0
         /\ \E fourth \in Nat : /\ fourth = DaysBeforeYear(y) + 3
                               /\ FirstMonday(y) = fourth - (fourth % 7)
<1>1. PICK k \in Nat : k = DaysBeforeYear(y)
  BY YearBounds
<1>2. PICK fourth \in Nat : fourth = k + 3
  OBVIOUS
<1>3. FirstMonday(y) = fourth - (fourth % 7)
  BY <1>1, <1>2 DEF FirstMonday, Weekday
<1>. QED  BY <1>1, <1>2, <1>3

LEMMA WeekIs ==
  ASSUME NEW d \in Date
  PROVE  /\ Monday(d) \in Nat /\ Monday(d) % 7 = 0
         /\ WeekKey(d) = WeekOf(Monday(d), YearOf(Monday(d) + 3))
<1>1. PICK n \in Nat : n = DayNumber(d)
  BY DayIsNat
<1>2. PICK monday \in Nat : monday = n - (n % 7) /\ monday % 7 = 0
  OBVIOUS
<1>3. /\ Monday(d) = monday
      /\ ThursdayOf(n) = monday + 3
  BY <1>1, <1>2 DEF Monday, Weekday, ThursdayOf
<1>4. PICK y \in Nat \ {0} : y = YearOf(monday + 3)
  BY YearOfDay
<1>5. PICK fourth \in Nat, first \in Int :
        /\ fourth = DayNumber(<<y, 1, 4>>)
        /\ first = FirstMonday(y) /\ first = fourth - (fourth % 7)
  <2>1. PICK fourth \in Nat : /\ fourth = DaysBeforeYear(y) + 3
                              /\ FirstMonday(y) = fourth - (fourth % 7)
    BY FirstMondayIs
  <2>2. DayNumber(<<y, 1, 4>>) = fourth
    BY <2>1, FourthOfJanuary
  <2>3. FirstMonday(y) \in Int
    BY FirstMondayIs
  <2>. QED  BY <2>1, <2>2, <2>3
<1>6. WeekKey(d) = <<y, Week, 1 + (monday + 3 - fourth - 3 + (fourth % 7)) \div 7>>
  BY <1>1, <1>3, <1>4, <1>5 DEF WeekKey, Weekday
<1>7. monday + 3 - fourth - 3 + (fourth % 7) = monday - first
  BY <1>5
<1>. QED  BY <1>2, <1>3, <1>4, <1>5, <1>6, <1>7 DEF WeekOf

\* Weeks of one year are numbered in their order.
LEMMA WeeksOfYear ==
  ASSUME NEW m \in Nat, NEW n \in Nat, m % 7 = 0, n % 7 = 0, m < n, NEW f \in Int, f % 7 = 0
  PROVE  (m - f) \div 7 < (n - f) \div 7
OBVIOUS

LEMMA WeekKeysInOrder ==
  ASSUME NEW y \in Int, NEW w \in Int, NEW z \in Int, NEW v \in Int
  PROVE  LexLess(<<y, Week, w>>, <<z, Week, v>>) <=> (y < z \/ (y = z /\ w < v))
<1>1. PICK s : s = <<y, Week, w>>
  OBVIOUS
<1>2. PICK t : t = <<z, Week, v>>
  OBVIOUS
<1>3. /\ DOMAIN s = {1, 2, 3} /\ s[1] = y /\ s[2] = 14 /\ s[3] = w
      /\ DOMAIN t = {1, 2, 3} /\ t[1] = z /\ t[2] = 14 /\ t[3] = v
  BY <1>1, <1>2 DEF Week
<1>. DEFINE before(i) == \A j \in 1..(i - 1) : j \in DOMAIN s /\ s[j] = t[j]
<1>4. before(1) /\ (before(2) <=> y = z) /\ (before(3) <=> y = z)
  <2>1. /\ \A j : j \in 1..(1 - 1) <=> FALSE
        /\ \A j : j \in 1..(2 - 1) <=> j = 1
        /\ \A j : j \in 1..(3 - 1) <=> j = 1 \/ j = 2
    OBVIOUS
  <2>. QED  BY <1>3, <2>1
<1>5. LexLess(s, t) <=> \E i \in DOMAIN t : before(i) /\ (i \in DOMAIN s => s[i] < t[i])
  BY DEF LexLess
<1>. HIDE DEF before
<1>6. LexLess(s, t) <=> (y < z \/ (y = z /\ w < v))
  BY <1>3, <1>4, <1>5
<1>. QED  BY <1>1, <1>2, <1>6

\* The key of a week grows with its Monday.
LEMMA WeeksInOrder ==
  ASSUME NEW m \in Nat, NEW n \in Nat, m % 7 = 0, n % 7 = 0, m < n
  PROVE  /\ WeekOf(m, YearOf(m + 3)) # WeekOf(n, YearOf(n + 3))
         /\ LexLess(WeekOf(m, YearOf(m + 3)), WeekOf(n, YearOf(n + 3)))
         /\ ~LexLess(WeekOf(n, YearOf(n + 3)), WeekOf(m, YearOf(m + 3)))
<1>1. PICK y \in Nat \ {0}, z \in Nat \ {0} : y = YearOf(m + 3) /\ z = YearOf(n + 3) /\ y <= z
  BY YearOfDay, YearsInOrder
<1>2. PICK f \in Int, g \in Int : f = FirstMonday(y) /\ g = FirstMonday(z) /\ f % 7 = 0
  BY FirstMondayIs
<1>3. PICK w \in Int, v \in Int : w = 1 + (m - f) \div 7 /\ v = 1 + (n - g) \div 7
  OBVIOUS
<1>4. y < z \/ (y = z /\ w < v)
  <2>1. y = z => w < v
    BY <1>2, <1>3, WeeksOfYear
  <2>. QED  BY <1>1, <2>1
<1>5. WeekOf(m, y) = <<y, Week, w>> /\ WeekOf(n, z) = <<z, Week, v>>
  BY <1>2, <1>3 DEF WeekOf
<1>6. /\ LexLess(<<y, Week, w>>, <<z, Week, v>>) /\ ~LexLess(<<z, Week, v>>, <<y, Week, w>>)
      /\ <<y, Week, w>> # <<z, Week, v>>
  BY <1>4, WeekKeysInOrder
<1>. QED  BY <1>1, <1>5, <1>6

LEMMA WeekIsItself ==
  ASSUME NEW m \in Nat PROVE ~LexLess(WeekOf(m, YearOf(m + 3)), WeekOf(m, YearOf(m + 3)))
<1>1. PICK y \in Nat \ {0} : y = YearOf(m + 3)
  BY YearOfDay
<1>2. PICK w \in Int : WeekOf(m, y) = <<y, Week, w>>
  <2>1. FirstMonday(y) \in Int
    BY FirstMondayIs
  <2>. QED  BY <2>1 DEF WeekOf
<1>. QED  BY <1>1, <1>2, WeekKeysInOrder

LEMMA WeeksFollow ==
  ASSUME NEW d \in Date, NEW e \in Date
  PROVE  /\ (WeekKey(d) = WeekKey(e)) <=> (Monday(d) = Monday(e))
         /\ LexLess(WeekKey(d), WeekKey(e)) <=> (Monday(d) < Monday(e))
<1>1. PICK m \in Nat : m = Monday(d) /\ m % 7 = 0 /\ WeekKey(d) = WeekOf(m, YearOf(m + 3))
  BY WeekIs
<1>2. PICK n \in Nat : n = Monday(e) /\ n % 7 = 0 /\ WeekKey(e) = WeekOf(n, YearOf(n + 3))
  BY WeekIs
<1>3. CASE m < n
  BY <1>1, <1>2, <1>3, WeeksInOrder
<1>4. CASE n < m
  BY <1>1, <1>2, <1>4, WeeksInOrder
<1>5. CASE m = n
  BY <1>1, <1>2, <1>5, WeekIsItself
<1>. QED  BY <1>3, <1>4, <1>5

\* A dataset is never changed, so that its days are dates throughout.
DaysInv == \A i \in DOMAIN data : data[i].day \in Date \cup {NULL}

\* Days from Monday to Sunday fall into one bucket, and the bucket of a later week is the
\* greater one, whatever the days of the dataset (dateBucketKey, engine.ts 166-195).
THEOREM WeeksFollowTheCalendarHolds == Spec => []WeeksFollowTheCalendar
<1>1. Init => DaysInv
  BY QuestionAssumption DEF Init, DaysInv
<1>2. DaysInv /\ [Next]_vars => DaysInv'
  <2>1. [Next]_vars => data' = data
    BY DEF Next, vars, Filter, Calculate, Group, AggregateRows, Sort, Cut, Click
  <2>. QED  BY <2>1 DEF DaysInv
<1>3. DaysInv => WeeksFollowTheCalendar
  <2>. SUFFICES ASSUME DaysInv, NEW i \in DOMAIN data, NEW j \in DOMAIN data,
                       data[i].day # NULL, data[j].day # NULL
                PROVE  LET follow(a, b, m, n) == (a = b <=> m = n) /\ (LexLess(a, b) <=> m < n)
                       IN follow(DateBucketKey(data[i].day, "week"), DateBucketKey(data[j].day, "week"),
                                 Monday(data[i].day), Monday(data[j].day))
    BY DEF WeeksFollowTheCalendar
  <2>1. data[i].day \in Date /\ data[j].day \in Date
    BY DEF DaysInv
  <2>2. \A d : DateBucketKey(d, "week") = WeekKey(d)
    BY DEF DateBucketKey
  <2>. QED  BY <2>1, <2>2, WeeksFollow
<1>. QED  BY <1>1, <1>2, <1>3, PTL DEF Spec

-----------------------------------------------------------------------------
(* The server works a week out from the date of its Thursday, not from its day. *)
LEMMA MonthExists ==
  ASSUME NEW leap \in BOOLEAN, NEW d \in Nat, d < (IF leap THEN 366 ELSE 365)
  PROVE  \E c \in 1..12 : DaysBeforeMonth(c, leap) <= d /\ d < DaysBeforeMonth(c + 1, leap)
<1>. DEFINE extra == IF leap THEN 1 ELSE 0
<1>1. /\ DaysBeforeMonth(1, leap) = 0          /\ DaysBeforeMonth(2, leap) = 31
      /\ DaysBeforeMonth(3, leap) = 59 + extra /\ DaysBeforeMonth(4, leap) = 90 + extra
      /\ DaysBeforeMonth(5, leap) = 120 + extra /\ DaysBeforeMonth(6, leap) = 151 + extra
      /\ DaysBeforeMonth(7, leap) = 181 + extra /\ DaysBeforeMonth(8, leap) = 212 + extra
      /\ DaysBeforeMonth(9, leap) = 243 + extra /\ DaysBeforeMonth(10, leap) = 273 + extra
      /\ DaysBeforeMonth(11, leap) = 304 + extra /\ DaysBeforeMonth(12, leap) = 334 + extra
      /\ DaysBeforeMonth(13, leap) = 365 + extra
  BY DEF DaysBeforeMonth
<1>. DEFINE inside(c) == DaysBeforeMonth(c, leap) <= d /\ d < DaysBeforeMonth(c + 1, leap)
<1>2. \/ inside(1) \/ inside(2) \/ inside(3) \/ inside(4) \/ inside(5) \/ inside(6)
      \/ inside(7) \/ inside(8) \/ inside(9) \/ inside(10) \/ inside(11) \/ inside(12)
  BY <1>1
<1>. HIDE DEF inside
<1>3. \E c \in 1..12 : inside(c)
  BY <1>2
<1>. QED  BY <1>3 DEF inside

\* A day has the date that has its number.
LEMMA DateOfDay ==
  ASSUME NEW n \in Nat
  PROVE  DateOf(n)[1] = YearOf(n) /\ DayNumber(DateOf(n)) = n
<1>1. PICK y \in Nat \ {0}, b \in Nat :
        y = YearOf(n) /\ b = DaysBeforeYear(y) /\ b <= n /\ n < DaysBeforeYear(y + 1)
  BY YearOfDay, YearBounds
<1>2. PICK leap \in BOOLEAN : leap = IsLeap(y)
  BY DEF IsLeap
<1>3. PICK d \in Nat : d = n - b /\ d < (IF leap THEN 366 ELSE 365)
  BY <1>1, <1>2, YearLength
<1>4. PICK m \in 1..12 : DateInYear(y, leap, d) = <<y, m, d - DaysBeforeMonth(m, leap) + 1>>
  BY <1>3, MonthExists DEF DateInYear
<1>5. DateOf(n) = <<y, m, d - DaysBeforeMonth(m, leap) + 1>>
  BY <1>1, <1>2, <1>3, <1>4 DEF DateOf
<1>6. DaysBeforeMonth(m, leap) \in Int
  BY DEF DaysBeforeMonth
<1>7. DayNumber(DateOf(n)) = b + DaysBeforeMonth(m, leap) + (d - DaysBeforeMonth(m, leap) + 1) - 1
  BY <1>1, <1>2, <1>5 DEF DayNumber
<1>. QED  BY <1>1, <1>3, <1>5, <1>6, <1>7

\* Both engines put every date into the same bucket: the server, which asks for the date of
\* a week's Thursday and takes its year, agrees with the browser, which reads the year off
\* the day (dateBucketKey, engine.ts 166-195; DateBucketKey, QueryEngine.cs 372-400).
THEOREM BucketsAgree ==
  ASSUME NEW d \in Date, NEW bucket
  PROVE  ServerDateBucketKey(d, bucket) = DateBucketKey(d, bucket)
<1>1. PICK n \in Nat : n = DayNumber(d)
  BY DayIsNat
<1>2. PICK t \in Nat : t = ThursdayOf(n)
  <2>1. n - (n % 7) + 3 \in Nat
    OBVIOUS
  <2>. QED  BY <2>1 DEF ThursdayOf, Weekday
<1>3. DateOf(t)[1] = YearOf(t) /\ DayNumber(DateOf(t)) = t
  BY <1>2, DateOfDay
<1>4. WeekBucketKey(d) = WeekKey(d)
  BY <1>1, <1>2, <1>3 DEF WeekBucketKey, WeekKey
<1>. QED  BY <1>4 DEF ServerDateBucketKey, DateBucketKey

-----------------------------------------------------------------------------
(* Induction over the naturals, for sets: the library's own rule takes an operator. *)
LEMMA LeastNumber ==
  ASSUME NEW T, T \subseteq Nat, T # {} PROVE \E n \in T : \A m \in T : n <= m
<1>1. PICK n \in T : \A m \in T : ~ (<<m, n>> \in OpToRel(<, Nat))
  BY WFMin, NatLessThanWellFounded, Zenon
<1>2. \A m \in Nat : <<m, n>> \in OpToRel(<, Nat) <=> m < n
  <2>1. n \in Nat
    OBVIOUS
  <2>. QED  BY <2>1, Zenon DEF OpToRel
<1>3. \A m \in T : ~(m < n)
  BY <1>1, <1>2, Zenon
<1>. QED  BY <1>3

LEMMA Induction ==
  ASSUME NEW T, 0 \in T, \A n \in Nat : n \in T => n + 1 \in T
  PROVE  \A n \in Nat : n \in T
<1>. SUFFICES ASSUME Nat \ T # {} PROVE FALSE
  OBVIOUS
<1>1. PICK n \in Nat \ T : \A m \in Nat \ T : n <= m
  BY LeastNumber
<1>2. n - 1 \in Nat /\ n - 1 \in T
  BY <1>1
<1>. QED  BY <1>1, <1>2

\* The first and the last place of a set of places.
LEMMA FirstPlace ==
  ASSUME NEW n \in Nat, NEW P, P \subseteq 1..n, P # {}
  PROVE  Min(P) \in P /\ \A i \in P : Min(P) <= i
<1>1. PICK i \in P : \A j \in P : i <= j
  <2>1. P \subseteq Nat
    OBVIOUS
  <2>. QED  BY <2>1, LeastNumber
<1>. QED  BY <1>1 DEF Min

LEMMA LastPlace ==
  ASSUME NEW n \in Nat, NEW P, P \subseteq 1..n, P # {}
  PROVE  Max(P) \in P /\ \A i \in P : Max(P) >= i
<1>. DEFINE T == {n - i : i \in P}
<1>1. PICK t \in T : \A u \in T : t <= u
  <2>1. T \subseteq Nat /\ T # {}
    <3>1. \A i \in P : n - i \in Nat
      OBVIOUS
    <3>2. \E i \in P : TRUE
      OBVIOUS
    <3>. QED  BY <3>1, <3>2
  <2>. HIDE DEF T
  <2>. QED  BY <2>1, LeastNumber
<1>2. PICK i \in P : t = n - i
  OBVIOUS
<1>3. \A j \in P : n - i <= n - j
  BY <1>1, <1>2
<1>4. \A j \in P : i >= j
  <2>1. \A j \in P : j \in Int /\ i \in Int
    OBVIOUS
  <2>. QED  BY <1>3, <2>1
<1>. QED  BY <1>4 DEF Max

(* Fractions. *)
LEMMA Division ==
  ASSUME NEW a \in Int, NEW m \in Nat \ {0}
  PROVE  /\ a \div m \in Int /\ a % m \in 0..(m - 1)
         /\ a = m * (a \div m) + (a % m)
OBVIOUS

LEMMA Divides ==
  ASSUME NEW a \in Int, NEW m \in Nat \ {0}, NEW k \in Int, a = k * m
  PROVE  a % m = 0 /\ a \div m = k
OBVIOUS

LEMMA Cancel ==
  ASSUME NEW a \in Int, NEW b \in Int, NEW m \in Nat \ {0}, a * m = b * m PROVE a = b
OBVIOUS

\* The denominators a fraction can be written with.
Denominators(p, q) == {e \in Nat \ {0} : (e * p) % q = 0}

LEMMA DenominatorsAre ==
  ASSUME NEW p \in Int, NEW q \in Nat \ {0}, NEW e \in Nat \ {0}
  PROVE  e \in Denominators(p, q) <=> \E k \in Int : e * p = k * q
<1>1. ASSUME e \in Denominators(p, q) PROVE \E k \in Int : e * p = k * q
  <2>1. PICK a \in Int : a = e * p
    OBVIOUS
  <2>2. a % q = 0
    BY <1>1, <2>1 DEF Denominators
  <2>3. a = q * (a \div q) /\ a \div q \in Int
    BY <2>2, Division
  <2>. QED  BY <2>1, <2>3
<1>2. ASSUME NEW k \in Int, e * p = k * q PROVE e \in Denominators(p, q)
  <2>1. PICK a \in Int : a = e * p
    OBVIOUS
  <2>2. a % q = 0
    BY <1>2, <2>1, Divides
  <2>. QED  BY <2>1, <2>2 DEF Denominators
<1>. QED  BY <1>1, <1>2

LEMMA FractionIs ==
  ASSUME NEW p \in Int, NEW q \in Nat \ {0}
  PROVE  \E n \in Int, d \in Nat \ {0} :
           /\ Fraction(p, q) = <<n, d>> /\ n * q = d * p
           /\ d \in Denominators(p, q) /\ \A e \in Denominators(p, q) : d <= e
<1>1. PICK d \in Denominators(p, q) : \A e \in Denominators(p, q) : d <= e
  <2>1. q \in Denominators(p, q)
    BY DenominatorsAre
  <2>2. Denominators(p, q) \subseteq Nat
    BY DEF Denominators
  <2>. QED  BY <2>1, <2>2, LeastNumber
<1>2. d \in Nat \ {0} /\ d <= q
  <2>1. q \in Denominators(p, q)
    BY DenominatorsAre
  <2>. QED  BY <1>1, <2>1 DEF Denominators
<1>. DEFINE lowest(e) == (e * p) % q = 0 /\ \A f \in 1..(e - 1) : (f * p) % q # 0
<1>3. lowest(d)
  <2>1. (d * p) % q = 0
    BY <1>1 DEF Denominators
  <2>2. ASSUME NEW f \in 1..(d - 1) PROVE (f * p) % q # 0
    <3>1. f \notin Denominators(p, q) /\ f \in Nat \ {0}
      BY <1>1, <1>2
    <3>. QED  BY <3>1 DEF Denominators
  <2>. QED  BY <2>1, <2>2
<1>4. \A e \in 1..q : lowest(e) => e = d
  <2>. SUFFICES ASSUME NEW e \in 1..q, lowest(e) PROVE e = d
    OBVIOUS
  <2>1. e \in Denominators(p, q)
    BY DEF Denominators
  <2>2. ~(d < e)
    <3>. SUFFICES ASSUME d < e PROVE FALSE
      OBVIOUS
    <3>1. d \in 1..(e - 1)
      BY <1>2
    <3>2. (d * p) % q = 0
      BY <1>3
    <3>. QED  BY <3>1, <3>2
  <2>. QED  BY <1>1, <1>2, <2>1, <2>2
<1>5. (CHOOSE e \in 1..q : lowest(e)) = d
  <2>. HIDE DEF lowest
  <2>. QED  BY <1>2, <1>3, <1>4
<1>6. Fraction(p, q) = <<(d * p) \div q, d>>
  <2>1. AbsInt(q) = q /\ ~(q < 0)
    BY DEF AbsInt
  <2>. QED  BY <1>5, <2>1 DEF Fraction
<1>7. PICK a \in Int : a = d * p
  BY <1>2
<1>8. a % q = 0
  BY <1>3, <1>7
<1>9. a \div q \in Int /\ (a \div q) * q = a
  BY <1>8, Division
<1>. QED  BY <1>1, <1>2, <1>6, <1>7, <1>9

\* Equal fractions have the same lowest terms.
LEMMA FractionSame ==
  ASSUME NEW p \in Int, NEW q \in Nat \ {0}, NEW r \in Int, NEW s \in Nat \ {0}, p * s = r * q
  PROVE  Fraction(p, q) = Fraction(r, s)
<1>1. ASSUME NEW e \in Int, NEW k \in Int, e * p = k * q PROVE e * r = k * s
  <2>1. (e * r) * q = e * (p * s)
    OBVIOUS
  <2>2. e * (p * s) = (e * p) * s
    OBVIOUS
  <2>3. (k * q) * s = (k * s) * q
    OBVIOUS
  <2>4. (e * r) * q = (k * s) * q
    BY <1>1, <2>1, <2>2, <2>3
  <2>5. e * r \in Int /\ k * s \in Int
    OBVIOUS
  <2>. QED  BY <2>4, <2>5, Cancel
<1>2. ASSUME NEW e \in Int, NEW k \in Int, e * r = k * s PROVE e * p = k * q
  <2>1. (e * p) * s = e * (r * q)
    OBVIOUS
  <2>2. e * (r * q) = (e * r) * q
    OBVIOUS
  <2>3. (k * s) * q = (k * q) * s
    OBVIOUS
  <2>4. (e * p) * s = (k * q) * s
    BY <1>2, <2>1, <2>2, <2>3
  <2>5. e * p \in Int /\ k * q \in Int
    OBVIOUS
  <2>. QED  BY <2>4, <2>5, Cancel
<1>3. Denominators(p, q) = Denominators(r, s)
  <2>1. ASSUME NEW e \in Nat \ {0}
        PROVE  e \in Denominators(p, q) <=> e \in Denominators(r, s)
    <3>1. e \in Int
      OBVIOUS
    <3>2. \A k \in Int : e * p = k * q <=> e * r = k * s
      BY <1>1, <1>2, <3>1, Zenon
    <3>3. (\E k \in Int : e * p = k * q) <=> (\E k \in Int : e * r = k * s)
      BY <3>2, Zenon
    <3>. QED  BY <3>3, DenominatorsAre, Zenon
  <2>2. Denominators(p, q) \subseteq Nat \ {0} /\ Denominators(r, s) \subseteq Nat \ {0}
    BY DEF Denominators
  <2>. QED  BY <2>1, <2>2
<1>4. PICK n \in Int, d \in Nat \ {0} :
        /\ Fraction(p, q) = <<n, d>> /\ n * q = d * p
        /\ d \in Denominators(p, q) /\ \A e \in Denominators(p, q) : d <= e
  BY FractionIs
<1>5. PICK t \in Int, u \in Nat \ {0} :
        /\ Fraction(r, s) = <<t, u>> /\ t * s = u * r
        /\ u \in Denominators(r, s) /\ \A e \in Denominators(r, s) : u <= e
  BY FractionIs
<1>6. d = u
  BY <1>3, <1>4, <1>5
<1>7. d * r = n * s
  BY <1>1, <1>4
<1>8. t = n
  BY <1>5, <1>6, <1>7, Cancel
<1>. QED  BY <1>4, <1>5, <1>6, <1>8

LEMMA FractionEquals ==
  ASSUME NEW p \in Int, NEW q \in Nat \ {0}
  PROVE  \E n \in Int, d \in Nat \ {0} : Fraction(p, q) = <<n, d>> /\ n * q = d * p
<1>1. PICK n \in Int, d \in Nat \ {0} :
        /\ Fraction(p, q) = <<n, d>> /\ n * q = d * p
        /\ d \in Denominators(p, q) /\ \A e \in Denominators(p, q) : d <= e
  BY FractionIs
<1>. QED  BY <1>1

\* The numbers of the reports: fractions in lowest terms.

LEMMA FractionIsInLowestTerms ==
  ASSUME NEW p \in Int, NEW q \in Nat \ {0} PROVE Fraction(p, q) \in Fractions
<1>1. PICK n \in Int, d \in Nat \ {0} : Fraction(p, q) = <<n, d>> /\ n * q = d * p
  BY FractionEquals
<1>2. p * d = n * q
  BY <1>1
<1>3. Fraction(n, d) = Fraction(p, q)
  BY <1>2, FractionSame
<1>. QED  BY <1>1, <1>3 DEF Fractions

LEMMA WholeIsFraction == ASSUME NEW n \in Int PROVE <<n, 1>> \in Fractions
<1>1. PICK m \in Int, d \in Nat \ {0} :
        /\ Fraction(n, 1) = <<m, d>> /\ m * 1 = d * n
        /\ \A e \in Denominators(n, 1) : d <= e
  <2>1. 1 \in Nat \ {0}
    OBVIOUS
  <2>. QED  BY <2>1, FractionIs, Zenon
<1>2. 1 \in Denominators(n, 1)
  BY DenominatorsAre
<1>3. d = 1
  BY <1>1, <1>2
<1>. QED  BY <1>1, <1>3 DEF Fractions

LEMMA AddIsFraction ==
  ASSUME NEW x \in Fractions, NEW y \in Fractions
  PROVE  Add(x, y) \in Fractions /\ Add(x, y) = Add(y, x)
<1>1. PICK a \in Int, b \in Nat \ {0} : x = <<a, b>>
  BY DEF Fractions
<1>2. PICK c \in Int, d \in Nat \ {0} : y = <<c, d>>
  BY DEF Fractions
<1>3. PICK p \in Int, q \in Nat \ {0} : p = a * d + c * b /\ q = b * d
  OBVIOUS
<1>4. p = c * b + a * d /\ q = d * b
  BY <1>3
<1>5. Add(x, y) = Fraction(p, q) /\ Add(y, x) = Fraction(p, q)
  BY <1>1, <1>2, <1>3, <1>4 DEF Add
<1>. QED  BY <1>5, FractionIsInLowestTerms

LEMMA AddToFraction ==
  ASSUME NEW p \in Int, NEW q \in Nat \ {0}, NEW c \in Int, NEW d \in Nat \ {0}
  PROVE  Add(Fraction(p, q), <<c, d>>) = Fraction(p * d + c * q, q * d)
<1>1. PICK n \in Int, m \in Nat \ {0} : Fraction(p, q) = <<n, m>> /\ n * q = m * p
  BY FractionEquals
<1>2. PICK r \in Int, s \in Nat \ {0} : r = n * d + c * m /\ s = m * d
  OBVIOUS
<1>3. PICK t \in Int, u \in Nat \ {0} : t = p * d + c * q /\ u = q * d
  OBVIOUS
<1>4. Add(Fraction(p, q), <<c, d>>) = Fraction(r, s)
  BY <1>1, <1>2 DEF Add
<1>5. r * u = t * s
  <2>1. r * u = (n * q) * (d * d) + c * m * q * d
    BY <1>2, <1>3
  <2>2. t * s = (m * p) * (d * d) + c * m * q * d
    BY <1>2, <1>3
  <2>. QED  BY <1>1, <2>1, <2>2
<1>. QED  BY <1>3, <1>4, <1>5, FractionSame

LEMMA AddIsAssociative ==
  ASSUME NEW x \in Fractions, NEW y \in Fractions, NEW z \in Fractions
  PROVE  Add(Add(x, y), z) = Add(x, Add(y, z))
<1>1. PICK a \in Int, b \in Nat \ {0} : x = <<a, b>>
  BY DEF Fractions
<1>2. PICK c \in Int, d \in Nat \ {0} : y = <<c, d>>
  BY DEF Fractions
<1>3. PICK e \in Int, f \in Nat \ {0} : z = <<e, f>>
  BY DEF Fractions
<1>4. Add(x, y) = Fraction(a * d + c * b, b * d) /\ Add(y, z) = Fraction(c * f + e * d, d * f)
  BY <1>1, <1>2, <1>3 DEF Add
<1>5. Add(Add(x, y), z) = Fraction((a * d + c * b) * f + e * (b * d), (b * d) * f)
  <2>1. a * d + c * b \in Int /\ b * d \in Nat \ {0}
    OBVIOUS
  <2>. QED  BY <1>3, <1>4, <2>1, AddToFraction
<1>6. Add(Add(y, z), x) = Fraction((c * f + e * d) * b + a * (d * f), (d * f) * b)
  <2>1. c * f + e * d \in Int /\ d * f \in Nat \ {0}
    OBVIOUS
  <2>. QED  BY <1>1, <1>4, <2>1, AddToFraction
<1>7. (a * d + c * b) * f + e * (b * d) = (c * f + e * d) * b + a * (d * f)
  OBVIOUS
<1>8. (b * d) * f = (d * f) * b
  OBVIOUS
<1>9. Add(Add(y, z), x) = Add(x, Add(y, z))
  BY AddIsFraction
<1>. QED  BY <1>5, <1>6, <1>7, <1>8, <1>9

LEMMA AddNothing == ASSUME NEW x \in Fractions PROVE Add(<<0, 1>>, x) = x
<1>1. PICK a \in Int, b \in Nat \ {0} : x = <<a, b>> /\ Fraction(a, b) = x
  BY DEF Fractions
<1>2. 0 * b + a * 1 = a /\ 1 * b = b
  OBVIOUS
<1>. QED  BY <1>1, <1>2 DEF Add

(* Values that are computed along a sequence. *)
Iterates(f, n, base, step) == f[0] = base /\ \A i \in 1..n : f[i] = step[i][f[i - 1]]

LEMMA Iteration ==
  ASSUME NEW S, NEW base \in S, NEW n \in Nat, NEW step \in [1..n -> [S -> S]]
  PROVE  \E f \in [0..n -> S] : Iterates(f, n, base, step)
<1>. DEFINE upTo(m, f) == f[0] = base /\ \A i \in 1..m : f[i] = step[i][f[i - 1]]
            T == {m \in Nat : m <= n => \E f \in [0..m -> S] : upTo(m, f)}
<1>1. 0 \in T
  <2>1. [i \in 0..0 |-> base] \in [0..0 -> S] /\ upTo(0, [i \in 0..0 |-> base])
    OBVIOUS
  <2>. QED  BY <2>1
<1>2. ASSUME NEW m \in Nat, m \in T PROVE m + 1 \in T
  <2>. SUFFICES ASSUME m + 1 <= n PROVE \E f \in [0..(m + 1) -> S] : upTo(m + 1, f)
    OBVIOUS
  <2>1. PICK f \in [0..m -> S] : upTo(m, f)
    BY <1>2
  <2>2. m + 1 \in 1..n /\ f[m] \in S
    OBVIOUS
  <2>. DEFINE g == [i \in 0..(m + 1) |-> IF i = m + 1 THEN step[m + 1][f[m]] ELSE f[i]]
  <2>3. g \in [0..(m + 1) -> S]
    BY <2>2
  <2>4. \A i \in 0..m : g[i] = f[i]
    OBVIOUS
  <2>5. g[m + 1] = step[m + 1][g[m]]
    OBVIOUS
  <2>. HIDE DEF g
  <2>6. ASSUME NEW i \in 1..(m + 1) PROVE g[i] = step[i][g[i - 1]]
    <3>1. CASE i = m + 1
      BY <2>5, <3>1
    <3>2. CASE i \in 1..m
      <4>1. i - 1 \in 0..m /\ i \in 0..m
        BY <3>2
      <4>. QED  BY <2>1, <2>4, <3>2, <4>1
    <3>. QED  BY <3>1, <3>2
  <2>7. g[0] = base
    BY <2>1, <2>4
  <2>. QED  BY <2>3, <2>6, <2>7
<1>. HIDE DEF T
<1>3. n \in T
  BY <1>1, <1>2, Induction
<1>. QED  BY <1>3 DEF T, Iterates

\* Two that start alike and go on alike are alike.
LEMMA SameIteration ==
  ASSUME NEW n \in Nat, NEW f, NEW g, f[0] = g[0],
         \A i \in 1..n : f[i - 1] = g[i - 1] => f[i] = g[i]
  PROVE  f[n] = g[n]
<1>. DEFINE T == {m \in Nat : m <= n => f[m] = g[m]}
<1>1. 0 \in T
  OBVIOUS
<1>2. ASSUME NEW m \in Nat, m \in T PROVE m + 1 \in T
  BY <1>2
<1>. HIDE DEF T
<1>3. n \in T
  BY <1>1, <1>2, Induction
<1>. QED  BY <1>3 DEF T

LEMMA SumIs ==
  ASSUME NEW s \in Seq(Fractions)
  PROVE  \E f \in [0..Len(s) -> Fractions] :
           /\ f[0] = <<0, 1>> /\ \A i \in 1..Len(s) : f[i] = Add(f[i - 1], s[i])
           /\ SumOf(s) = f[Len(s)]
<1>1. PICK n \in Nat : n = Len(s)
  OBVIOUS
<1>. DEFINE sums(f) == f = [i \in 0..n |-> IF i = 0 THEN <<0, 1>> ELSE Add(f[i - 1], s[i])]
<1>2. PICK f \in [0..n -> Fractions] :
        f[0] = <<0, 1>> /\ \A i \in 1..n : f[i] = Add(f[i - 1], s[i])
  <2>. DEFINE step == [i \in 1..n |-> [x \in Fractions |-> Add(x, s[i])]]
  <2>1. step \in [1..n -> [Fractions -> Fractions]]
    <3>1. \A i \in 1..n, x \in Fractions : Add(x, s[i]) \in Fractions
      BY <1>1, AddIsFraction
    <3>. QED  BY <3>1
  <2>2. \A i \in 1..n, x \in Fractions : step[i][x] = Add(x, s[i])
    OBVIOUS
  <2>3. PICK nothing \in Fractions : nothing = <<0, 1>>
    <3>1. <<0, 1>> \in Fractions
      BY WholeIsFraction
    <3>. QED  BY <3>1
  <2>. HIDE DEF step
  <2>4. PICK f \in [0..n -> Fractions] : Iterates(f, n, nothing, step)
    BY <2>1, Iteration
  <2>5. \A i \in 1..n : f[i - 1] \in Fractions
    OBVIOUS
  <2>. QED  BY <2>2, <2>3, <2>4, <2>5 DEF Iterates
<1>3. sums(f)
  <2>1. ASSUME NEW i \in 0..n PROVE f[i] = IF i = 0 THEN <<0, 1>> ELSE Add(f[i - 1], s[i])
    <3>1. i = 0 \/ i \in 1..n
      OBVIOUS
    <3>. QED  BY <1>2, <3>1
  <2>. QED  BY <2>1
<1>4. PICK g : g = CHOOSE h : sums(h)
  OBVIOUS
<1>5. sums(g)
  <2>. HIDE DEF sums
  <2>. QED  BY <1>3, <1>4
<1>6. SumOf(s) = g[n]
  BY <1>1, <1>4 DEF SumOf
<1>7. g[0] = <<0, 1>> /\ \A i \in 1..n : g[i] = Add(g[i - 1], s[i])
  <2>1. \A i \in 0..n : g[i] = IF i = 0 THEN <<0, 1>> ELSE Add(g[i - 1], s[i])
    BY <1>5
  <2>. QED  BY <2>1
<1>8. \A i \in 1..n : f[i - 1] = g[i - 1] => f[i] = g[i]
  BY <1>2, <1>7
<1>9. f[0] = g[0]
  BY <1>2, <1>7
<1>10. f[n] = g[n]
  BY <1>8, <1>9, SameIteration, Zenon
<1>. QED  BY <1>1, <1>2, <1>6, <1>10

LEMMA SumOfNone == SumOf(<< >>) = <<0, 1>>
<1>1. << >> \in Seq(Fractions) /\ Len(<< >>) = 0
  OBVIOUS
<1>. QED  BY <1>1, SumIs

LEMMA SumOfOneMore ==
  ASSUME NEW s \in Seq(Fractions), NEW x \in Fractions
  PROVE  SumOf(s) \in Fractions /\ SumOf(Append(s, x)) = Add(SumOf(s), x)
<1>1. PICK f \in [0..Len(s) -> Fractions] :
        /\ f[0] = <<0, 1>> /\ \A i \in 1..Len(s) : f[i] = Add(f[i - 1], s[i])
        /\ SumOf(s) = f[Len(s)]
  BY SumIs
<1>2. PICK n \in Nat : n = Len(s)
  OBVIOUS
<1>3. PICK t \in Seq(Fractions) :
        t = Append(s, x) /\ Len(t) = n + 1 /\ t[n + 1] = x /\ \A i \in 1..n : t[i] = s[i]
  BY <1>2
<1>4. PICK g \in [0..Len(t) -> Fractions] :
        /\ g[0] = <<0, 1>> /\ \A i \in 1..Len(t) : g[i] = Add(g[i - 1], t[i])
        /\ SumOf(t) = g[Len(t)]
  BY SumIs
<1>5. \A i \in 1..n : f[i - 1] = g[i - 1] => f[i] = g[i]
  BY <1>1, <1>2, <1>3, <1>4
<1>6. f[0] = g[0]
  BY <1>1, <1>4
<1>7. f[n] = g[n]
  BY <1>5, <1>6, SameIteration, Zenon
<1>8. g[n + 1] = Add(g[n], x)
  BY <1>2, <1>3, <1>4
<1>. QED  BY <1>1, <1>2, <1>3, <1>4, <1>7, <1>8

(* The elements that are kept. *)
LEMMA NothingIsSequence == ASSUME NEW S PROVE << >> \in Seq(S) /\ Len(<< >>) = 0
OBVIOUS

LEMMA AppendIsSequence ==
  ASSUME NEW S, NEW s \in Seq(S), NEW e \in S
  PROVE  /\ Append(s, e) \in Seq(S) /\ Len(Append(s, e)) = Len(s) + 1
         /\ Append(s, e)[Len(s) + 1] = e /\ \A i \in 1..Len(s) : Append(s, e)[i] = s[i]
OBVIOUS

\* f holds what is kept of every prefix of s.
Keeping(f, s, T) ==
  /\ f[0] = << >>
  /\ \A i \in 1..Len(s) : f[i] = IF s[i] \in T THEN Append(f[i - 1], s[i]) ELSE f[i - 1]

LEMMA SameSequence ==
  ASSUME NEW S, NEW s \in Seq(S), NEW t \in Seq(S), Len(s) = Len(t), \A i \in 1..Len(s) : s[i] = t[i]
  PROVE  s = t
OBVIOUS

LEMMA AmongIs ==
  ASSUME NEW S, NEW s \in Seq(S), NEW T, NEW V, << >> \in V,
         \A x \in V, e \in S : e \in T => Append(x, e) \in V
  PROVE  \E f \in [0..Len(s) -> V] : Keeping(f, s, T) /\ Among(s, T) = f[Len(s)]
<1>1. PICK n \in Nat : n = Len(s)
  OBVIOUS
<1>. DEFINE keeps(f) == f = [i \in 0..n |->
              IF i = 0 THEN << >>
              ELSE IF s[i] \in T THEN Append(f[i - 1], s[i]) ELSE f[i - 1]]
<1>3. PICK f \in [0..n -> V] :
        /\ f[0] = << >>
        /\ \A i \in 1..n : f[i] = IF s[i] \in T THEN Append(f[i - 1], s[i]) ELSE f[i - 1]
  <2>. DEFINE step == [i \in 1..n |-> [x \in V |-> IF s[i] \in T THEN Append(x, s[i]) ELSE x]]
  <2>1. step \in [1..n -> [V -> V]]
    <3>1. ASSUME NEW i \in 1..n, NEW x \in V PROVE (IF s[i] \in T THEN Append(x, s[i]) ELSE x) \in V
      <4>1. s[i] \in S
        BY <1>1
      <4>. QED  BY <4>1
    <3>. QED  BY <3>1
  <2>2. \A i \in 1..n, x \in V : step[i][x] = IF s[i] \in T THEN Append(x, s[i]) ELSE x
    OBVIOUS
  <2>3. PICK nothing \in V : nothing = << >>
    OBVIOUS
  <2>. HIDE DEF step
  <2>4. PICK f \in [0..n -> V] : Iterates(f, n, nothing, step)
    BY <2>1, Iteration
  <2>5. \A i \in 1..n : f[i - 1] \in V
    OBVIOUS
  <2>. QED  BY <2>2, <2>3, <2>4, <2>5 DEF Iterates
<1>4. keeps(f)
  <2>1. ASSUME NEW i \in 0..n
        PROVE  f[i] = IF i = 0 THEN << >>
                      ELSE IF s[i] \in T THEN Append(f[i - 1], s[i]) ELSE f[i - 1]
    <3>1. i = 0 \/ i \in 1..n
      OBVIOUS
    <3>. QED  BY <1>3, <3>1
  <2>. QED  BY <2>1
<1>5. PICK g : g = CHOOSE h : keeps(h)
  OBVIOUS
<1>6. keeps(g)
  <2>. HIDE DEF keeps
  <2>. QED  BY <1>4, <1>5
<1>7. Among(s, T) = g[n]
  BY <1>1, <1>5 DEF Among
<1>8. /\ g[0] = << >>
      /\ \A i \in 1..n : g[i] = IF s[i] \in T THEN Append(g[i - 1], s[i]) ELSE g[i - 1]
  <2>1. \A i \in 0..n : g[i] = IF i = 0 THEN << >>
                              ELSE IF s[i] \in T THEN Append(g[i - 1], s[i]) ELSE g[i - 1]
    BY <1>6
  <2>. QED  BY <2>1
<1>9. \A i \in 1..n : f[i - 1] = g[i - 1] => f[i] = g[i]
  BY <1>3, <1>8
<1>10. f[0] = g[0]
  BY <1>3, <1>8
<1>11. f[n] = g[n]
  BY <1>9, <1>10, SameIteration, Zenon
<1>. QED  BY <1>1, <1>3, <1>7, <1>11 DEF Keeping

LEMMA AmongSequence ==
  ASSUME NEW S, NEW s \in Seq(S), NEW T, NEW W, \A e \in S : e \in T => e \in W
  PROVE  \E f :
           /\ \A i \in 0..Len(s) : f[i] \in Seq(W)
           /\ Keeping(f, s, T)
           /\ Among(s, T) = f[Len(s)]
<1>1. PICK V : V = Seq(W)
  OBVIOUS
<1>2. << >> \in V
  BY <1>1, NothingIsSequence
<1>3. \A x \in V, e \in S : e \in T => Append(x, e) \in V
  BY <1>1, AppendIsSequence
<1>4. PICK f \in [0..Len(s) -> V] : Keeping(f, s, T) /\ Among(s, T) = f[Len(s)]
  BY <1>2, <1>3, AmongIs
<1>5. \A i \in 0..Len(s) : f[i] \in V
  BY <1>4
<1>. QED  BY <1>1, <1>4, <1>5

LEMMA AmongNone == ASSUME NEW T PROVE Among(<< >>, T) = << >>
<1>1. PICK S : S = {}
  OBVIOUS
<1>2. PICK s \in Seq(S) : s = << >> /\ Len(s) = 0
  BY NothingIsSequence
<1>3. \A e \in S : e \in T => e \in S
  OBVIOUS
<1>4. PICK f :
        /\ \A i \in 0..Len(s) : f[i] \in Seq(S)
        /\ Keeping(f, s, T)
        /\ Among(s, T) = f[Len(s)]
  BY <1>3, AmongSequence
<1>. QED  BY <1>2, <1>4 DEF Keeping

LEMMA AmongType ==
  ASSUME NEW S, NEW s \in Seq(S), NEW T, NEW W, \A e \in S : e \in T => e \in W
  PROVE  Among(s, T) \in Seq(W)
<1>1. PICK f :
        /\ \A i \in 0..Len(s) : f[i] \in Seq(W)
        /\ Keeping(f, s, T)
        /\ Among(s, T) = f[Len(s)]
  BY AmongSequence
<1>2. Len(s) \in 0..Len(s)
  OBVIOUS
<1>. QED  BY <1>1, <1>2

LEMMA AmongOneMore ==
  ASSUME NEW S, NEW s \in Seq(S), NEW x \in S, NEW T
  PROVE  Among(Append(s, x), T) = IF x \in T THEN Append(Among(s, T), x) ELSE Among(s, T)
<1>0. \A e \in S : e \in T => e \in S
  OBVIOUS
<1>1. PICK f :
        /\ \A i \in 0..Len(s) : f[i] \in Seq(S)
        /\ Keeping(f, s, T)
        /\ Among(s, T) = f[Len(s)]
  BY <1>0, AmongSequence
<1>2. PICK n \in Nat : n = Len(s)
  OBVIOUS
<1>3. PICK t \in Seq(S) : t = Append(s, x) /\ Len(t) = n + 1 /\ t[n + 1] = x /\ \A i \in 1..n : t[i] = s[i]
  <2>1. /\ Append(s, x) \in Seq(S) /\ Len(Append(s, x)) = Len(s) + 1
        /\ Append(s, x)[Len(s) + 1] = x /\ \A i \in 1..Len(s) : Append(s, x)[i] = s[i]
    BY AppendIsSequence
  <2>2. PICK t \in Seq(S) : t = Append(s, x)
    BY ONLY <2>1
  <2>. QED  BY <1>2, <2>1, <2>2
<1>4. PICK g :
        /\ \A i \in 0..Len(t) : g[i] \in Seq(S)
        /\ Keeping(g, t, T)
        /\ Among(t, T) = g[Len(t)]
  BY <1>0, AmongSequence
<1>5. \A i \in 1..n : f[i - 1] = g[i - 1] => f[i] = g[i]
  <2>. SUFFICES ASSUME NEW i \in 1..n, f[i - 1] = g[i - 1] PROVE f[i] = g[i]
    OBVIOUS
  <2>1. i \in 1..Len(s) /\ i \in 1..Len(t) /\ t[i] = s[i]
    BY <1>2, <1>3
  <2>. QED  BY <1>1, <1>4, <2>1 DEF Keeping
<1>6. f[0] = g[0]
  BY <1>1, <1>4 DEF Keeping
<1>7. f[n] = g[n]
  BY <1>5, <1>6, SameIteration, Zenon
<1>8. g[n + 1] = IF x \in T THEN Append(g[n], x) ELSE g[n]
  BY <1>2, <1>3, <1>4 DEF Keeping
<1>. QED  BY <1>1, <1>2, <1>3, <1>4, <1>7, <1>8

LEMMA AmongSame ==
  ASSUME NEW S, NEW s \in Seq(S), NEW T, NEW U, \A i \in 1..Len(s) : s[i] \in T <=> s[i] \in U
  PROVE  Among(s, T) = Among(s, U)
<1>0. \A V : \A e \in S : e \in V => e \in S
  OBVIOUS
<1>1. PICK f :
        /\ \A i \in 0..Len(s) : f[i] \in Seq(S)
        /\ Keeping(f, s, T)
        /\ Among(s, T) = f[Len(s)]
  BY <1>0, AmongSequence
<1>2. PICK g :
        /\ \A i \in 0..Len(s) : g[i] \in Seq(S)
        /\ Keeping(g, s, U)
        /\ Among(s, U) = g[Len(s)]
  BY <1>0, AmongSequence
<1>3. PICK n \in Nat : n = Len(s)
  OBVIOUS
<1>4. \A i \in 1..n : f[i - 1] = g[i - 1] => f[i] = g[i]
  BY <1>1, <1>2, <1>3 DEF Keeping
<1>5. f[0] = g[0]
  BY <1>1, <1>2 DEF Keeping
<1>6. f[n] = g[n]
  BY <1>4, <1>5, SameIteration, Zenon
<1>. QED  BY <1>1, <1>2, <1>3, <1>6

\* What is kept is what is both in the sequence and in the set.
LEMMA AmongKeeps ==
  ASSUME NEW S, NEW s \in Seq(S), NEW T
  PROVE  ToSet(Among(s, T)) = ToSet(s) \cap T
<1>0. \A e \in S : e \in T => e \in S
  OBVIOUS
<1>1. PICK f :
        /\ \A i \in 0..Len(s) : f[i] \in Seq(S)
        /\ Keeping(f, s, T)
        /\ Among(s, T) = f[Len(s)]
  BY <1>0, AmongSequence
<1>2. PICK n \in Nat : n = Len(s) /\ DOMAIN s = 1..n
  OBVIOUS
<1>. DEFINE kept(m) == {s[i] : i \in 1..m} \cap T
            P == {m \in Nat : m <= n => ToSet(f[m]) = kept(m)}
<1>3. 0 \in P
  <2>1. f[0] = << >>
    BY <1>1 DEF Keeping
  <2>2. ToSet(<< >>) = {}
    BY DEF ToSet
  <2>. QED  BY <2>1, <2>2
<1>4. ASSUME NEW m \in Nat, m \in P PROVE m + 1 \in P
  <2>. SUFFICES ASSUME m + 1 <= n PROVE ToSet(f[m + 1]) = kept(m + 1)
    OBVIOUS
  <2>1. m + 1 \in 1..n /\ (m + 1) - 1 = m /\ m \in 0..n /\ ToSet(f[m]) = kept(m)
    BY <1>4
  <2>2. PICK e \in S : e = s[m + 1]
    BY <1>2, <2>1
  <2>3. kept(m + 1) = kept(m) \cup ({e} \cap T)
    <3>1. 1..(m + 1) = 1..m \cup {m + 1}
      OBVIOUS
    <3>. QED  BY <2>2, <3>1
  <2>4. f[m + 1] = IF e \in T THEN Append(f[m], e) ELSE f[m]
    BY <1>1, <1>2, <2>1, <2>2 DEF Keeping
  <2>5. PICK t \in Seq(S) : t = f[m]
    BY <1>1, <1>2, <2>1
  <2>6. ToSet(Append(t, e)) = ToSet(t) \cup {e}
    <3>0. /\ Append(t, e) \in Seq(S) /\ Len(Append(t, e)) = Len(t) + 1
          /\ Append(t, e)[Len(t) + 1] = e /\ \A i \in 1..Len(t) : Append(t, e)[i] = t[i]
      BY AppendIsSequence
    <3>1. PICK a \in Seq(S) : /\ a = Append(t, e) /\ Len(a) = Len(t) + 1 /\ a[Len(t) + 1] = e
                             /\ \A i \in 1..Len(t) : a[i] = t[i]
      BY ONLY <3>0
    <3>2. DOMAIN a = DOMAIN t \cup {Len(t) + 1} /\ DOMAIN t = 1..Len(t)
      BY <3>1
    <3>. QED  BY <3>1, <3>2 DEF ToSet
  <2>. QED  BY <2>1, <2>3, <2>4, <2>5, <2>6
<1>. HIDE DEF P
<1>5. n \in P
  BY <1>3, <1>4, Induction
<1>6. ToSet(f[n]) = kept(n)
  BY <1>5 DEF P
<1>7. ToSet(s) = {s[i] : i \in 1..n}
  BY <1>2 DEF ToSet
<1>. QED  BY <1>1, <1>2, <1>6, <1>7

-----------------------------------------------------------------------------
(* Drill-downs. *)

\* The pinned filter compares the value with the operator of the report.
LEMMA PinnedFilterIs ==
  ASSUME NEW d, NEW value, NEW f, f = PinnedFilter(d, value), NEW row
  PROVE  /\ f.field = d.groupBy[1].field /\ f.operator = DrillOperator(d)
         /\ MatchesFilter(row, f) <=> ApplyOperator(f, row[d.groupBy[1].field], value)
<1>1. /\ f.field = d.groupBy[1].field /\ f.operator = DrillOperator(d)
      /\ f.value = value /\ f.dynamic = NULL
  BY DEF PinnedFilter
<1>. QED  BY <1>1 DEF MatchesFilter, ResolveFilterValue

\* It keeps the rows that have the value, and no other where the operator is eq.
LEMMA PinnedKeepsItsRows ==
  ASSUME NEW d, NEW value, value # NULL, NEW row, DrillOperator(d) = "eq"
  PROVE  MatchesFilter(row, PinnedFilter(d, value)) <=> row[d.groupBy[1].field] = value
<1>1. PICK f : f = PinnedFilter(d, value)
  OBVIOUS
<1>2. f.operator = "eq" /\ (MatchesFilter(row, f) <=> ApplyOperator(f, row[d.groupBy[1].field], value))
  BY <1>1, PinnedFilterIs
<1>. QED  BY <1>1, <1>2 DEF ApplyOperator

LEMMA PinnedLosesNone ==
  ASSUME NEW d, NEW value, value # NULL, value # NaN, DrillOperator(d) \in HoldsOfItself,
         NEW row, row[d.groupBy[1].field] = value,
         \A test \in {"contains", "startsWith", "endsWith"} : <<test, value, value>> \in TextTest
  PROVE  MatchesFilter(row, PinnedFilter(d, value))
<1>1. PICK f : f = PinnedFilter(d, value)
  OBVIOUS
<1>2. f.operator \in HoldsOfItself /\ (MatchesFilter(row, f) <=> ApplyOperator(f, value, value))
  BY <1>1, PinnedFilterIs
<1>3. JsAtMost(value, value)
  BY DEF JsAtMost, Coerced, IsString
<1>4. TextOfValue(value) = value
  BY DEF TextOfValue
<1>5. ApplyOperator(f, value, value)
  BY <1>2, <1>3, <1>4 DEF ApplyOperator, HoldsOfItself
<1>. QED  BY <1>1, <1>2, <1>5

\* What a report shows with one more filter.
LEMMA OneMoreFilter ==
  ASSUME NEW d, NEW f, NEW e, NEW row,
         d.filterGroup = NULL, d.filters \in Seq(ToSet(d.filters)),
         e.filterGroup = NULL, e.filters = Append(d.filters, f)
  PROVE  Selected(e, row) <=> Selected(d, row) /\ MatchesFilter(row, f)
<1>. DEFINE S == ToSet(d.filters)
<1>1. PICK s \in Seq(S) : s = d.filters
  OBVIOUS
<1>2. /\ DOMAIN Append(s, f) = DOMAIN s \cup {Len(s) + 1}
      /\ \A i \in DOMAIN s : Append(s, f)[i] = s[i]
      /\ Append(s, f)[Len(s) + 1] = f
  OBVIOUS
<1>3. (\A i \in DOMAIN e.filters : MatchesFilter(row, e.filters[i]))
        <=> (\A i \in DOMAIN s : MatchesFilter(row, s[i])) /\ MatchesFilter(row, f)
  BY <1>1, <1>2
<1>. QED  BY <1>1, <1>3 DEF Selected

\* The definition that opens is that of the report it opens, with one more filter.
LEMMA OpensOneMoreFilter ==
  ASSUME NEW d, IsReport(d), NEW value
  PROVE  LET e == BuildDrilldownDefinition(d, value)
         IN /\ IsReport(e)
            /\ e.filterGroup = OpenedReport(d).filterGroup
            /\ e.filters = Append(OpenedReport(d).filters, PinnedFilter(d, value))
            /\ OpenedReport(d).filters \in Seq(ToSet(OpenedReport(d).filters))
<1>1. PICK e : e = BuildDrilldownDefinition(d, value)
  OBVIOUS
<1>2. PICK o : o = OpenedReport(d)
  OBVIOUS
<1>3. PICK f : f = PinnedFilter(d, value)
  OBVIOUS
<1>4. IsReport(o)
  BY <1>2, DefinitionAssumption DEF OpenedReport, IsReport
<1>. DEFINE S == ToSet(o.filters)
<1>5. PICK s \in Seq(S) : s = o.filters
  BY <1>4 DEF IsReport
<1>6. /\ DOMAIN e = DOMAIN o
      /\ e.filters = Append(s, f) /\ e.filterGroup = o.filterGroup
      /\ e.drilldown = "target" => o.drilldown = "target" /\ e.target = o.target
  BY <1>1, <1>2, <1>3, <1>4, <1>5 DEF BuildDrilldownDefinition, OpenedReport, IsReport
<1>7. Append(s, f) \in Seq(ToSet(Append(s, f)))
  <2>. HIDE DEF S
  <2>1. PICK U : U = S \cup {f}
    OBVIOUS
  <2>2. s \in Seq(U) /\ f \in U
    BY <2>1
  <2>3. PICK t \in Seq(U) : t = Append(s, f)
    <3>1. Append(s, f) \in Seq(U)
      BY ONLY <2>2
    <3>. QED  BY <3>1
  <2>4. PICK T : T = ToSet(t)
    OBVIOUS
  <2>5. \A i \in 1..Len(t) : t[i] \in T
    BY <2>4 DEF ToSet
  <2>6. t \in Seq(T)
    BY <2>5
  <2>. QED  BY <2>3, <2>4, <2>6
<1>8. IsReport(e)
  BY <1>4, <1>6, <1>7 DEF IsReport
<1>. QED  BY <1>1, <1>2, <1>3, <1>4, <1>5, <1>6, <1>8

DrillInv ==
  /\ IsReport(def)
  /\ parent # << >> =>
       /\ IsReport(parent[1].def)
       /\ def = BuildDrilldownDefinition(parent[1].def, parent[1].value)
  /\ stage = "calculate" => rows = FilterRows(def, data)
  /\ \E q \in Question : data = q[2]

LEMMA DrillInvIsInductive == DrillInv /\ [Next]_vars => DrillInv'
<1>. SUFFICES ASSUME DrillInv, [Next]_vars PROVE DrillInv'
  OBVIOUS
<1>1. CASE Filter
  BY <1>1 DEF Filter, DrillInv
<1>2. CASE Calculate
  BY <1>2 DEF Calculate, KeepRows, DrillInv
<1>3. CASE Group
  BY <1>3 DEF Group, DrillInv
<1>4. CASE AggregateRows
  BY <1>4 DEF AggregateRows, KeepResult, DrillInv
<1>5. CASE Sort \/ Cut
  BY <1>5 DEF Sort, Cut, DrillInv
<1>6. ASSUME NEW i \in DOMAIN groups, Click(i) PROVE DrillInv'
  <2>1. /\ def' = BuildDrilldownDefinition(def, groups[i])
        /\ parent' = <<[def |-> def, row |-> out[i], value |-> groups[i]]>>
        /\ stage' = "filter" /\ data' = data
    BY <1>6 DEF Click
  <2>2. parent'[1].def = def /\ parent'[1].value = groups[i]
    BY <2>1
  <2>3. IsReport(def) /\ IsReport(def)'
    BY <2>1, OpensOneMoreFilter DEF DrillInv, IsReport
  <2>4. IsReport(parent[1].def)'
    BY <2>2, <2>3 DEF IsReport
  <2>. QED  BY <2>1, <2>2, <2>3, <2>4 DEF DrillInv
<1>7. CASE UNCHANGED vars
  BY <1>7 DEF vars, DrillInv
<1>. QED  BY <1>1, <1>2, <1>3, <1>4, <1>5, <1>6, <1>7 DEF Next

\* A drill-down shows rows of the report it opens alone; with eq it shows those of its group,
\* and with another operator that holds of a value and itself it leaves out none of them, for
\* every dataset and every report (buildDrilldownDefinition, drilldown.ts 13-51).
THEOREM DrillShowsItsGroupHolds == Spec => []DrillShowsItsGroup
<1>1. Init => DrillInv
  BY QuestionAssumption, DefinitionAssumption DEF Init, DrillInv
<1>2. DrillInv => DrillShowsItsGroup
  <2>. SUFFICES ASSUME DrillInv, stage = "calculate", parent # << >>,
                       OpenedReport(parent[1].def).filterGroup = NULL
                PROVE  DrillShowsItsGroup
    BY DEF DrillShowsItsGroup
  <2>1. PICK d, value : d = parent[1].def /\ value = parent[1].value
    OBVIOUS
  <2>2. PICK g : g = d.groupBy[1]
    OBVIOUS
  <2>3. PICK o : o = OpenedReport(d)
    OBVIOUS
  <2>4. /\ IsReport(d) /\ def = BuildDrilldownDefinition(d, value)
        /\ rows = Among(data, {row \in ToSet(data) : Selected(def, row)})
    BY <2>1 DEF DrillInv, FilterRows
  <2>5. o.filterGroup = NULL
    BY <2>1, <2>3
  <2>6. PICK f : f = PinnedFilter(d, value)
    OBVIOUS
  <2>7. ASSUME NEW row PROVE Selected(def, row) <=> Selected(o, row) /\ MatchesFilter(row, f)
    <3>1. def.filterGroup = NULL /\ def.filters = Append(o.filters, f) /\ o.filters \in Seq(ToSet(o.filters))
      BY <2>3, <2>4, <2>5, <2>6, OpensOneMoreFilter
    <3>. QED  BY <2>5, <3>1, OneMoreFilter
  <2>8. PICK all : all = {row \in ToSet(data) : Selected(o, row)}
    OBVIOUS
  <2>9. PICK group : group = {row \in all : BucketValue(row[g.field], g) = value}
    OBVIOUS
  <2>10. ToSet(rows) = {row \in all : MatchesFilter(row, f)}
    <3>1. PICK T : T = {row \in ToSet(data) : Selected(def, row)}
      OBVIOUS
    <3>2. data \in Seq(ToSet(data))
      BY QuestionAssumption DEF DrillInv
    <3>3. ToSet(Among(data, T)) = ToSet(data) \cap T
      BY <3>2, AmongKeeps
    <3>. QED  BY <2>4, <2>7, <2>8, <3>1, <3>3
  <2>11. ASSUME DrillsByValue(parent[1]), NEW row
         PROVE  value # NULL /\ value # NaN /\ BucketValue(row[g.field], g) = row[g.field]
    BY <2>1, <2>2, <2>11 DEF DrillsByValue, BucketValue, DateBucketKey
  <2>12. DrillsByValue(parent[1]) /\ DrillOperator(d) = "eq" => rows = Among(data, group)
    <3>. SUFFICES ASSUME DrillsByValue(parent[1]), DrillOperator(d) = "eq" PROVE rows = Among(data, group)
      OBVIOUS
    <3>1. ASSUME NEW row PROVE MatchesFilter(row, f) <=> row[g.field] = value
      BY <2>2, <2>6, <2>11, PinnedKeepsItsRows
    <3>2. {row \in ToSet(data) : Selected(def, row)} = group
      BY <2>7, <2>8, <2>9, <2>11, <3>1
    <3>. QED  BY <2>4, <3>2
  <2>13. ASSUME DrillsByValue(parent[1]), DrillOperator(d) \in HoldsOfItself,
                NEW row \in group, g.field \in DOMAIN row
         PROVE  row \in ToSet(rows)
    <3>1. row[g.field] = value /\ value # NULL /\ value # NaN /\ row \in all /\ row \in ToSet(data)
      BY <2>8, <2>9, <2>11, <2>13
    <3>2. PICK q \in Question : data = q[2]
      BY DEF DrillInv
    <3>3. PICK i \in DOMAIN q[2] : row = q[2][i]
      BY <3>1, <3>2 DEF ToSet
    <3>4. \A test \in {"contains", "startsWith", "endsWith"} : <<test, value, value>> \in TextTest
      BY <2>13, <3>1, <3>3, TextTestAssumption
    <3>5. MatchesFilter(row, f)
      BY <2>2, <2>6, <2>13, <3>1, <3>4, PinnedLosesNone
    <3>. QED  BY <2>10, <3>1, <3>5
  <2>14. ToSet(rows) \subseteq all
    BY <2>10
  <2>. QED  BY <2>1, <2>2, <2>3, <2>8, <2>9, <2>12, <2>13, <2>14 DEF DrillShowsItsGroup
<1>. QED  BY <1>1, <1>2, DrillInvIsInductive, PTL DEF Spec

-----------------------------------------------------------------------------

(* What a metric counts: the cells that hold a number. *)
Numeric(vs) ==
  Among(Among(vs, ToSet(vs) \ {NULL}), ToSet(Among(vs, ToSet(vs) \ {NULL})) \ {NaN})
NumberOf(x) == IF x \in {NULL, NaN} THEN <<0, 1>> ELSE x

LEMMA NumericIs ==
  ASSUME NEW vs \in Seq(Amounts)
  PROVE  /\ Among(vs, Amounts \ {NULL}) \in Seq(Amounts)
         /\ Numeric(vs) = Among(Among(vs, Amounts \ {NULL}), Amounts \ {NaN})
<1>. HIDE DEF Amounts
<1>1. \A i \in 1..Len(vs) : vs[i] \in ToSet(vs) /\ vs[i] \in Amounts
  BY DEF ToSet
<1>2. \A i \in 1..Len(vs) : vs[i] \in ToSet(vs) \ {NULL} <=> vs[i] \in Amounts \ {NULL}
  BY <1>1
<1>3. Among(vs, ToSet(vs) \ {NULL}) = Among(vs, Amounts \ {NULL})
  BY <1>2, AmongSame
<1>4. \A e \in Amounts : e \in Amounts \ {NULL} => e \in Amounts
  OBVIOUS
<1>5. PICK ws \in Seq(Amounts) : ws = Among(vs, Amounts \ {NULL})
  <2>1. Among(vs, Amounts \ {NULL}) \in Seq(Amounts)
    BY <1>4, AmongType
  <2>. QED  BY <2>1
<1>6. \A i \in 1..Len(ws) : ws[i] \in ToSet(ws) /\ ws[i] \in Amounts
  BY DEF ToSet
<1>7. \A i \in 1..Len(ws) : ws[i] \in ToSet(ws) \ {NaN} <=> ws[i] \in Amounts \ {NaN}
  BY <1>6
<1>8. Among(ws, ToSet(ws) \ {NaN}) = Among(ws, Amounts \ {NaN})
  BY <1>7, AmongSame
<1>. QED  BY <1>3, <1>5, <1>8 DEF Numeric

LEMMA NumericOneMore ==
  ASSUME NEW vs \in Seq(Amounts), NEW x \in Amounts
  PROVE  /\ Numeric(vs) \in Seq(Fractions)
         /\ Numeric(Append(vs, x)) = IF x \in {NULL, NaN} THEN Numeric(vs) ELSE Append(Numeric(vs), x)
<1>1. PICK ws \in Seq(Amounts) : ws = Among(vs, Amounts \ {NULL})
  BY NumericIs
<1>2. PICK us \in Seq(Amounts) : us = Append(vs, x)
  <2>1. Append(vs, x) \in Seq(Amounts)
    BY AppendIsSequence
  <2>. QED  BY ONLY <2>1
<1>3. Numeric(vs) = Among(ws, Amounts \ {NaN})
  BY <1>1, NumericIs
<1>4. Numeric(us) = Among(Among(us, Amounts \ {NULL}), Amounts \ {NaN})
  BY NumericIs
<1>5. Among(us, Amounts \ {NULL}) = IF x \in Amounts \ {NULL} THEN Append(ws, x) ELSE ws
  <2>. HIDE DEF Amounts
  <2>. QED  BY <1>1, <1>2, AmongOneMore
<1>6. Among(Append(ws, x), Amounts \ {NaN})
        = IF x \in Amounts \ {NaN} THEN Append(Among(ws, Amounts \ {NaN}), x) ELSE Among(ws, Amounts \ {NaN})
  <2>. HIDE DEF Amounts
  <2>. QED  BY AmongOneMore
<1>7. Numeric(vs) \in Seq(Fractions)
  <2>1. \A e \in Amounts : e \in Amounts \ {NULL} => e \in Fractions \cup {NaN}
    BY DEF Amounts
  <2>2. ws \in Seq(Fractions \cup {NaN})
    BY <1>1, <2>1, AmongType
  <2>3. \A e \in Fractions \cup {NaN} : e \in Amounts \ {NaN} => e \in Fractions
    OBVIOUS
  <2>4. Among(ws, Amounts \ {NaN}) \in Seq(Fractions)
    BY <2>2, <2>3, AmongType
  <2>. QED  BY <1>3, <2>4
<1>8. Numeric(us) = IF x \in {NULL, NaN} THEN Numeric(vs) ELSE Append(Numeric(vs), x)
  <2>. HIDE DEF Amounts
  <2>. QED  BY <1>3, <1>4, <1>5, <1>6
<1>. QED  BY <1>2, <1>7, <1>8

LEMMA SumOfNumbersOneMore ==
  ASSUME NEW vs \in Seq(Amounts), NEW x \in Amounts
  PROVE  /\ SumOf(Numeric(vs)) \in Fractions /\ NumberOf(x) \in Fractions
         /\ SumOf(Numeric(Append(vs, x))) = Add(SumOf(Numeric(vs)), NumberOf(x))
<1>1. PICK ns \in Seq(Fractions) : ns = Numeric(vs)
  BY NumericOneMore
<1>2. Numeric(Append(vs, x)) = IF x \in {NULL, NaN} THEN ns ELSE Append(ns, x)
  BY <1>1, NumericOneMore
<1>3. <<0, 1>> \in Fractions
  BY WholeIsFraction
<1>4. NumberOf(x) \in Fractions
  BY <1>3 DEF NumberOf, Amounts
<1>5. SumOf(ns) \in Fractions
  BY <1>3, SumOfOneMore
<1>6. CASE x \in {NULL, NaN}
  <2>1. Add(SumOf(ns), <<0, 1>>) = SumOf(ns)
    BY <1>3, <1>5, AddNothing, AddIsFraction
  <2>. QED  BY <1>1, <1>2, <1>4, <1>5, <1>6, <2>1 DEF NumberOf
<1>7. CASE x \notin {NULL, NaN}
  <2>1. x \in Fractions
    BY <1>7 DEF Amounts
  <2>2. SumOf(Append(ns, x)) = Add(SumOf(ns), x)
    BY <2>1, SumOfOneMore
  <2>. QED  BY <1>1, <1>2, <1>4, <1>5, <1>7, <2>2 DEF NumberOf
<1>. QED  BY <1>6, <1>7

(* What a metric is of rows, and of one row more. *)
Adds(m) == m.aggregation \in {"count", "sum"}
Numeral(m) == m.field = "*" \/ FieldType[m.field] = "number"
ValueOf(m, row) == IF m.field = "*" THEN <<1, 1>> ELSE row[m.field]
Column(m, rs) == [i \in DOMAIN rs |-> IF m.field = "*" THEN <<1, 1>> ELSE rs[i][m.field]]
\* What a row adds to a metric, and the rows that add a number.
Weight(m, row) ==
  IF m.aggregation = "count" THEN <<1, 1>>
  ELSE IF Numeral(m) THEN NumberOf(ValueOf(m, row)) ELSE <<0, 1>>
Addable(m, row) == m.aggregation = "sum" /\ Numeral(m) => ValueOf(m, row) \in Amounts

LEMMA ColumnIs ==
  ASSUME NEW m, NEW R, NEW rs \in Seq(R), NEW row \in R, NEW C, \A r \in R : ValueOf(m, r) \in C
  PROVE  /\ Column(m, rs) \in Seq(C) /\ Len(Column(m, rs)) = Len(rs)
         /\ Column(m, Append(rs, row)) = Append(Column(m, rs), ValueOf(m, row))
<1>1. PICK n \in Nat : n = Len(rs) /\ DOMAIN rs = 1..n
  OBVIOUS
<1>2. PICK us \in Seq(R) :
        us = Append(rs, row) /\ Len(us) = n + 1 /\ us[n + 1] = row /\ \A i \in 1..n : us[i] = rs[i]
  <2>1. /\ Append(rs, row) \in Seq(R) /\ Len(Append(rs, row)) = Len(rs) + 1
        /\ Append(rs, row)[Len(rs) + 1] = row /\ \A i \in 1..Len(rs) : Append(rs, row)[i] = rs[i]
    BY AppendIsSequence
  <2>2. PICK us \in Seq(R) : us = Append(rs, row)
    BY ONLY <2>1
  <2>. QED  BY <1>1, <2>1, <2>2
<1>3. Column(m, rs) = [i \in 1..n |-> ValueOf(m, rs[i])]
  BY <1>1 DEF Column, ValueOf
<1>4. Column(m, us) = [i \in 1..(n + 1) |-> ValueOf(m, us[i])]
  <2>1. DOMAIN us = 1..(n + 1)
    BY <1>2
  <2>. QED  BY <2>1 DEF Column, ValueOf
<1>. DEFINE vs == [i \in 1..n |-> ValueOf(m, rs[i])]
            ws == [i \in 1..(n + 1) |-> ValueOf(m, us[i])]
<1>5. \A i \in 1..n : rs[i] \in R
  BY <1>1
<1>6. \A i \in 1..n : ValueOf(m, rs[i]) \in C
  BY <1>5
<1>7. vs \in Seq(C) /\ Len(vs) = n
  <2>. HIDE DEF ValueOf
  <2>. QED  BY <1>6
<1>8. ValueOf(m, row) \in C
  OBVIOUS
<1>9. ws \in Seq(C) /\ Len(ws) = n + 1
  <2>1. \A i \in 1..(n + 1) : ValueOf(m, us[i]) \in C
    <3>1. \A i \in 1..(n + 1) : i = n + 1 \/ i \in 1..n
      OBVIOUS
    <3>. QED  BY <1>2, <1>6, <1>8, <3>1
  <2>. QED  BY <2>1
<1>10. PICK v \in Seq(C) : v = vs /\ Len(v) = n
  BY <1>7
<1>11. /\ Append(v, ValueOf(m, row)) \in Seq(C) /\ Len(Append(v, ValueOf(m, row))) = Len(v) + 1
       /\ Append(v, ValueOf(m, row))[Len(v) + 1] = ValueOf(m, row)
       /\ \A i \in 1..Len(v) : Append(v, ValueOf(m, row))[i] = v[i]
  BY <1>8, AppendIsSequence
<1>12. PICK w \in Seq(C) : w = ws /\ Len(w) = n + 1
  BY <1>9
<1>13. PICK x \in Seq(C) :
         /\ x = Append(v, ValueOf(m, row)) /\ Len(x) = n + 1
         /\ x[n + 1] = ValueOf(m, row) /\ \A i \in 1..n : x[i] = v[i]
  <2>1. PICK x \in Seq(C) : x = Append(v, ValueOf(m, row))
    BY ONLY <1>11
  <2>. QED  BY <1>10, <1>11, <2>1
<1>14. \A i \in 1..(n + 1) : w[i] = x[i]
  <2>. SUFFICES ASSUME NEW i \in 1..(n + 1) PROVE w[i] = x[i]
    OBVIOUS
  <2>1. w[i] = ValueOf(m, us[i])
    BY <1>12
  <2>2. CASE i = n + 1
    BY <1>2, <1>13, <2>1, <2>2
  <2>3. CASE i \in 1..n
    <3>1. v[i] = ValueOf(m, rs[i])
      BY <1>10, <2>3
    <3>. QED  BY <1>2, <1>13, <2>1, <2>3, <3>1
  <2>. QED  BY <2>2, <2>3
<1>15. w = x
  BY <1>12, <1>13, <1>14, SameSequence
<1>. QED  BY <1>1, <1>2, <1>3, <1>4, <1>7, <1>10, <1>12, <1>13, <1>15

LEMMA CountOneMore ==
  ASSUME NEW n \in Nat
  PROVE  Int2Fraction(n) \in Fractions /\ Add(Int2Fraction(n), <<1, 1>>) = Int2Fraction(n + 1)
<1>1. <<n, 1>> \in Fractions /\ <<n + 1, 1>> \in Fractions
  BY WholeIsFraction
<1>2. Fraction(n + 1, 1) = <<n + 1, 1>>
  BY <1>1 DEF Fractions
<1>3. n * 1 + 1 * 1 = n + 1 /\ 1 * 1 = 1
  OBVIOUS
<1>. QED  BY <1>1, <1>2, <1>3 DEF Add, Int2Fraction

LEMMA MetricIs ==
  ASSUME NEW m, NEW rs, Adds(m)
  PROVE  ComputeMetric(m, rs) =
           IF m.aggregation = "count" THEN Int2Fraction(Len(Column(m, rs)))
           ELSE IF Numeral(m) THEN SumOf(Numeric(Column(m, rs))) ELSE <<0, 1>>
<1>1. PICK vs : vs = Column(m, rs)
  OBVIOUS
<1>2. PICK ty : ty = IF m.field = "*" THEN "number" ELSE FieldType[m.field]
  OBVIOUS
<1>3. ComputeMetric(m, rs) = Aggregate(m.aggregation, vs, ty)
  BY <1>1, <1>2 DEF ComputeMetric, Column
<1>4. ty = "number" <=> Numeral(m)
  BY <1>2 DEF Numeral
<1>5. CASE m.aggregation = "count"
  BY <1>1, <1>3, <1>5 DEF Aggregate
<1>6. CASE m.aggregation = "sum"
  <2>1. Aggregate("sum", vs, ty) = IF ty = "number" THEN SumOf(Numeric(vs)) ELSE <<0, 1>>
    BY SumOfNone DEF Aggregate, Numeric
  <2>. QED  BY <1>1, <1>3, <1>4, <1>6, <2>1
<1>. QED  BY <1>5, <1>6 DEF Adds

LEMMA MetricOneMore ==
  ASSUME NEW m, Adds(m), NEW R, NEW rs \in Seq(R), NEW row \in R, \A r \in R : Addable(m, r)
  PROVE  /\ ComputeMetric(m, rs) \in Fractions /\ Weight(m, row) \in Fractions
         /\ ComputeMetric(m, Append(rs, row)) = Add(ComputeMetric(m, rs), Weight(m, row))
<1>1. PICK us : us = Append(rs, row)
  OBVIOUS
<1>2. CASE m.aggregation = "count"
  <2>1. PICK C : \A r \in R : ValueOf(m, r) \in C
    <3>1. \A r \in R : ValueOf(m, r) \in {ValueOf(m, q) : q \in R}
      OBVIOUS
    <3>. QED  BY <3>1
  <2>2. PICK vs \in Seq(C) : vs = Column(m, rs) /\ Len(vs) = Len(rs)
    BY <2>1, ColumnIs
  <2>3. Column(m, us) = Append(vs, ValueOf(m, row))
    BY <1>1, <2>1, <2>2, ColumnIs
  <2>4. ValueOf(m, row) \in C
    BY <2>1
  <2>5. Len(Append(vs, ValueOf(m, row))) = Len(vs) + 1
    BY <2>4, AppendIsSequence
  <2>6. PICK n \in Nat : n = Len(vs)
    OBVIOUS
  <2>7. ComputeMetric(m, rs) = Int2Fraction(n) /\ ComputeMetric(m, us) = Int2Fraction(n + 1)
    BY <1>2, <2>2, <2>3, <2>5, <2>6, MetricIs
  <2>8. Weight(m, row) = <<1, 1>> /\ <<1, 1>> \in Fractions
    BY <1>2, WholeIsFraction DEF Weight
  <2>. QED  BY <1>1, <2>7, <2>8, CountOneMore
<1>3. CASE m.aggregation = "sum" /\ Numeral(m)
  <2>1. \A r \in R : ValueOf(m, r) \in Amounts
    BY <1>3 DEF Addable
  <2>2. PICK vs \in Seq(Amounts) : vs = Column(m, rs)
    BY <2>1, ColumnIs
  <2>3. Column(m, us) = Append(vs, ValueOf(m, row))
    BY <1>1, <2>1, <2>2, ColumnIs
  <2>4. PICK x \in Amounts : x = ValueOf(m, row)
    BY <2>1
  <2>5. ComputeMetric(m, rs) = SumOf(Numeric(vs)) /\ ComputeMetric(m, us) = SumOf(Numeric(Append(vs, x)))
    BY <1>3, <2>2, <2>3, <2>4, MetricIs
  <2>6. Weight(m, row) = NumberOf(x)
    BY <1>3, <2>4 DEF Weight
  <2>. QED  BY <1>1, <2>5, <2>6, SumOfNumbersOneMore
<1>4. CASE m.aggregation = "sum" /\ ~Numeral(m)
  <2>1. ComputeMetric(m, rs) = <<0, 1>> /\ ComputeMetric(m, us) = <<0, 1>> /\ Weight(m, row) = <<0, 1>>
    BY <1>4, MetricIs DEF Weight
  <2>2. <<0, 1>> \in Fractions
    BY WholeIsFraction
  <2>3. Add(<<0, 1>>, <<0, 1>>) = <<0, 1>>
    BY <2>2, AddNothing
  <2>. QED  BY <1>1, <2>1, <2>2, <2>3
<1>. QED  BY <1>2, <1>3, <1>4 DEF Adds

LEMMA MetricOfNone ==
  ASSUME NEW m, Adds(m) PROVE ComputeMetric(m, << >>) = <<0, 1>>
<1>1. Column(m, << >>) = << >>
  BY DEF Column
<1>2. Numeric(<< >>) = << >>
  BY AmongNone DEF Numeric
<1>3. Len(<< >>) = 0
  OBVIOUS
<1>. QED  BY <1>1, <1>2, <1>3, MetricIs, SumOfNone DEF Int2Fraction

(* One number of a sum is raised. *)
LEMMA SumOfRaised ==
  ASSUME NEW s \in Seq(Fractions), NEW t \in Seq(Fractions), NEW i \in 1..Len(s), NEW x \in Fractions,
         Len(t) = Len(s), t[i] = Add(s[i], x), \A j \in 1..Len(s) : j # i => t[j] = s[j]
  PROVE  SumOf(t) = Add(SumOf(s), x)
<1>1. PICK f \in [0..Len(s) -> Fractions] :
        /\ f[0] = <<0, 1>> /\ \A j \in 1..Len(s) : f[j] = Add(f[j - 1], s[j])
        /\ SumOf(s) = f[Len(s)]
  BY SumIs
<1>2. PICK g \in [0..Len(t) -> Fractions] :
        /\ g[0] = <<0, 1>> /\ \A j \in 1..Len(t) : g[j] = Add(g[j - 1], t[j])
        /\ SumOf(t) = g[Len(t)]
  BY SumIs
<1>3. PICK n \in Nat : n = Len(s) /\ i \in 1..n
  OBVIOUS
<1>. DEFINE T == {j \in Nat : j <= n => g[j] = IF j < i THEN f[j] ELSE Add(f[j], x)}
<1>4. 0 \in T
  BY <1>1, <1>2, <1>3
<1>5. ASSUME NEW j \in Nat, j \in T PROVE j + 1 \in T
  <2>. SUFFICES ASSUME j + 1 <= n
                PROVE  g[j + 1] = IF j + 1 < i THEN f[j + 1] ELSE Add(f[j + 1], x)
    OBVIOUS
  <2>1. /\ j + 1 \in 1..n /\ j \in 0..n /\ (j + 1) - 1 = j
        /\ f[j] \in Fractions /\ s[j + 1] \in Fractions
    <3>1. j + 1 \in 1..n /\ j \in 0..n /\ (j + 1) - 1 = j
      OBVIOUS
    <3>2. j + 1 \in 1..Len(s) /\ j \in 0..Len(s)
      BY <1>3, <3>1
    <3>3. f[j] \in Fractions
      BY <3>2
    <3>4. s[j + 1] \in Fractions
      BY <3>2
    <3>. QED  BY <3>1, <3>3, <3>4
  <2>2. f[j + 1] = Add(f[j], s[j + 1]) /\ g[j + 1] = Add(g[j], t[j + 1])
    BY <1>1, <1>2, <1>3, <2>1
  <2>3. g[j] = IF j < i THEN f[j] ELSE Add(f[j], x)
    BY <1>5, <2>1
  <2>4. CASE j + 1 < i
    <3>1. j < i /\ t[j + 1] = s[j + 1]
      BY <1>3, <2>1, <2>4
    <3>. QED  BY <2>2, <2>3, <2>4, <3>1
  <2>5. CASE j + 1 = i
    <3>1. j < i /\ ~(j + 1 < i)
      BY <1>3, <2>5
    <3>2. g[j + 1] = Add(f[j], Add(s[j + 1], x))
      BY <2>2, <2>3, <2>5, <3>1
    <3>3. Add(Add(f[j], s[j + 1]), x) = Add(f[j], Add(s[j + 1], x))
      BY <2>1, AddIsAssociative
    <3>. QED  BY <2>2, <3>1, <3>2, <3>3
  <2>6. CASE i < j + 1
    <3>1. ~(j < i) /\ ~(j + 1 < i) /\ j + 1 # i
      BY <1>3, <2>6
    <3>2. t[j + 1] = s[j + 1]
      BY <1>3, <2>1, <3>1
    <3>3. g[j + 1] = Add(Add(f[j], x), s[j + 1])
      BY <2>2, <2>3, <3>1, <3>2
    <3>4. Add(Add(f[j], x), s[j + 1]) = Add(f[j], Add(x, s[j + 1]))
      BY <2>1, AddIsAssociative
    <3>5. Add(x, s[j + 1]) = Add(s[j + 1], x)
      BY <2>1, AddIsFraction
    <3>6. Add(Add(f[j], s[j + 1]), x) = Add(f[j], Add(s[j + 1], x))
      BY <2>1, AddIsAssociative
    <3>. QED  BY <2>2, <3>1, <3>3, <3>4, <3>5, <3>6
  <2>. QED  BY <1>3, <2>4, <2>5, <2>6
<1>. HIDE DEF T
<1>6. n \in T
  BY <1>4, <1>5, Induction
<1>. QED  BY <1>1, <1>2, <1>3, <1>6 DEF T

(* The buckets that rows are put in. *)
Places(bs, k) == {i \in 1..Len(bs) : bs[i].key = k}

\* The place of the bucket that a row joins or opens.
JoinPlace(bs, k) == IF Places(bs, k) = {} THEN Len(bs) + 1 ELSE Min(Places(bs, k))

Joins(bs, cs, row, k) ==
  IF Places(bs, k) = {} THEN cs = Append(bs, [key |-> k, rows |-> <<row>>])
  ELSE cs = [bs EXCEPT ![Min(Places(bs, k))].rows = Append(@, row)]

LEMMA JoinIs ==
  ASSUME NEW B, NEW bs \in Seq(B), NEW row, NEW k PROVE Joins(bs, Join(bs, row, k), row, k)
<1>1. PICK at : at = SelectInSeq(bs, LAMBDA b : b.key = k)
  OBVIOUS
<1>2. at = IF Places(bs, k) # {} THEN Min(Places(bs, k)) ELSE 0
  BY <1>1 DEF SelectInSeq, Places
<1>3. Join(bs, row, k) = IF at = 0 THEN Append(bs, [key |-> k, rows |-> <<row>>])
                         ELSE [bs EXCEPT ![at].rows = Append(@, row)]
  BY <1>1 DEF Join
<1>4. CASE Places(bs, k) = {}
  BY <1>2, <1>3, <1>4 DEF Joins
<1>5. CASE Places(bs, k) # {}
  <2>1. PICK n \in Nat : n = Len(bs)
    OBVIOUS
  <2>2. Places(bs, k) \subseteq 1..n
    BY <2>1 DEF Places
  <2>3. at \in Places(bs, k) /\ at # 0
    BY <1>2, <1>5, <2>1, <2>2, FirstPlace
  <2>4. at = Min(Places(bs, k))
    BY <1>2, <1>5
  <2>5. Join(bs, row, k) = [bs EXCEPT ![at].rows = Append(@, row)]
    BY <1>3, <2>3
  <2>. QED  BY <1>5, <2>4, <2>5 DEF Joins
<1>. QED  BY <1>4, <1>5

\* The rows of each bucket, and what the buckets hold together.
BucketOf(d, R) == [key : {KeyOf(d, r) : r \in R}, rows : Seq(R)]
Uniform(d, bs) ==
  \A i \in 1..Len(bs) : bs[i].rows # << >>
                        /\ \A j \in 1..Len(bs[i].rows) : KeyOf(d, bs[i].rows[j]) = bs[i].key
MetricOf(m, bs) == [i \in 1..Len(bs) |-> ComputeMetric(m, bs[i].rows)]

\* The bucket that takes the row, and the others.
Joined(bs, cs, i, row, k) ==
  \/ /\ i = Len(bs) + 1 /\ Len(cs) = Len(bs) + 1
     /\ cs[i] = [key |-> k, rows |-> <<row>>] /\ \A j \in 1..Len(bs) : cs[j] = bs[j]
  \/ /\ i \in 1..Len(bs) /\ Len(cs) = Len(bs) /\ bs[i].key = k
     /\ cs[i] = [key |-> k, rows |-> Append(bs[i].rows, row)]
     /\ \A j \in 1..Len(bs) : j # i => cs[j] = bs[j]

LEMMA OtherRows ==
  ASSUME NEW k, NEW r, NEW q
  PROVE  [[key |-> k, rows |-> r] EXCEPT !.rows = q] = [key |-> k, rows |-> q]
OBVIOUS

LEMMA JoinedThere ==
  ASSUME NEW K, NEW R, NEW bs \in Seq([key : K, rows : Seq(R)]), NEW k \in K, NEW row \in R
  PROVE  /\ Join(bs, row, k) \in Seq([key : K, rows : Seq(R)])
         /\ JoinPlace(bs, k) \in 1..(Len(bs) + 1)
         /\ Joined(bs, Join(bs, row, k), JoinPlace(bs, k), row, k)
<1>1. PICK B : B = [key : K, rows : Seq(R)]
  OBVIOUS
<1>2. bs \in Seq(B)
  BY <1>1
<1>3. PICK n \in Nat : n = Len(bs) /\ DOMAIN bs = 1..n
  OBVIOUS
<1>4. PICK cs : cs = Join(bs, row, k)
  OBVIOUS
<1>5. ASSUME cs = Append(bs, [key |-> k, rows |-> <<row>>])
      PROVE  cs \in Seq(B) /\ Joined(bs, cs, n + 1, row, k)
  <2>1. <<row>> \in Seq(R)
    OBVIOUS
  <2>2. PICK b \in B : b = [key |-> k, rows |-> <<row>>]
    BY <1>1, <2>1
  <2>3. /\ Append(bs, b) \in Seq(B) /\ Len(Append(bs, b)) = Len(bs) + 1
        /\ Append(bs, b)[Len(bs) + 1] = b /\ \A i \in 1..Len(bs) : Append(bs, b)[i] = bs[i]
    BY <1>2, AppendIsSequence
  <2>. QED  BY <1>3, <1>5, <2>2, <2>3 DEF Joined
<1>6. ASSUME NEW i \in Places(bs, k), cs = [bs EXCEPT ![i].rows = Append(@, row)]
      PROVE  cs \in Seq(B) /\ Joined(bs, cs, i, row, k) /\ i \in 1..n
  <2>1. i \in 1..n /\ bs[i].key = k
    BY <1>3 DEF Places
  <2>2. \A j \in 1..n : bs[j] \in B
    BY <1>2, <1>3
  <2>3. bs[i].rows \in Seq(R) /\ bs[i] = [key |-> k, rows |-> bs[i].rows]
    BY <1>1, <2>1, <2>2
  <2>4. Append(bs[i].rows, row) \in Seq(R)
    BY <2>3, AppendIsSequence
  <2>5. PICK b \in B : b = [key |-> k, rows |-> Append(bs[i].rows, row)]
    BY <1>1, <2>4
  <2>6. [bs[i] EXCEPT !.rows = Append(bs[i].rows, row)] = b
    <3>1. PICK r \in Seq(R) : r = bs[i].rows
      BY <2>3
    <3>2. bs[i] = [key |-> k, rows |-> r] /\ b = [key |-> k, rows |-> Append(r, row)]
      BY <2>1, <2>3, <2>5, <3>1
    <3>3. [[key |-> k, rows |-> r] EXCEPT !.rows = Append(r, row)] = [key |-> k, rows |-> Append(r, row)]
      BY OtherRows
    <3>. QED  BY ONLY <3>1, <3>2, <3>3
  <2>7. cs = [j \in 1..n |-> IF j = i THEN b ELSE bs[j]]
    BY <1>3, <1>6, <2>1, <2>6
  <2>8. \A j \in 1..n : (IF j = i THEN b ELSE bs[j]) \in B
    BY <2>2
  <2>9. cs \in Seq(B) /\ Len(cs) = n
    BY <2>7, <2>8
  <2>. QED  BY <1>3, <2>1, <2>5, <2>7, <2>9 DEF Joined
<1>7. Joins(bs, cs, row, k)
  BY <1>2, <1>4, JoinIs
<1>8. CASE Places(bs, k) = {}
  <2>1. cs = Append(bs, [key |-> k, rows |-> <<row>>]) /\ JoinPlace(bs, k) = n + 1
    BY <1>3, <1>7, <1>8 DEF Joins, JoinPlace
  <2>. QED  BY <1>1, <1>3, <1>4, <1>5, <2>1
<1>9. CASE Places(bs, k) # {}
  <2>1. PICK i : i = Min(Places(bs, k))
    OBVIOUS
  <2>2. cs = [bs EXCEPT ![i].rows = Append(@, row)] /\ JoinPlace(bs, k) = i
    BY <1>7, <1>9, <2>1 DEF Joins, JoinPlace
  <2>3. i \in Places(bs, k)
    <3>1. Places(bs, k) \subseteq 1..n
      BY <1>3 DEF Places
    <3>. QED  BY <1>9, <2>1, <3>1, FirstPlace
  <2>4. cs \in Seq(B) /\ Joined(bs, cs, i, row, k) /\ i \in 1..n
    BY <1>6, <2>2, <2>3
  <2>5. i \in 1..(n + 1)
    BY <2>4
  <2>. QED  BY <1>1, <1>3, <1>4, <2>2, <2>4, <2>5
<1>. QED  BY <1>8, <1>9

LEMMA JoinedOnce ==
  ASSUME NEW K, NEW R, NEW bs \in Seq([key : K, rows : Seq(R)]), NEW k \in K, NEW row \in R
  PROVE  /\ Join(bs, row, k) \in Seq([key : K, rows : Seq(R)])
         /\ \E i \in 1..(Len(bs) + 1) : Joined(bs, Join(bs, row, k), i, row, k)
BY JoinedThere

LEMMA BucketRows ==
  ASSUME NEW K, NEW R, NEW bs \in Seq([key : K, rows : Seq(R)])
  PROVE  \A j \in 1..Len(bs) : bs[j].rows \in Seq(R)
<1>1. PICK B : B = [key : K, rows : Seq(R)]
  OBVIOUS
<1>2. bs \in Seq(B)
  BY <1>1
<1>3. \A j \in 1..Len(bs) : bs[j] \in B
  BY <1>2
<1>4. \A b \in B : b.rows \in Seq(R)
  BY <1>1
<1>. QED  BY <1>3, <1>4

LEMMA JoinedUniform ==
  ASSUME NEW d, NEW K, NEW R, NEW bs \in Seq([key : K, rows : Seq(R)]), NEW row \in R,
         NEW cs \in Seq([key : K, rows : Seq(R)]), NEW i \in 1..(Len(bs) + 1),
         Joined(bs, cs, i, row, KeyOf(d, row)), Uniform(d, bs)
  PROVE  Uniform(d, cs)
<1>1. PICK k : k = KeyOf(d, row)
  OBVIOUS
<1>2. PICK n \in Nat : n = Len(bs) /\ \A j \in 1..n : bs[j].rows \in Seq(R)
  <2>1. PICK n \in Nat : n = Len(bs)
    OBVIOUS
  <2>. QED  BY <2>1, BucketRows
<1>. SUFFICES ASSUME NEW j \in 1..Len(cs)
              PROVE  cs[j].rows # << >> /\ \A l \in 1..Len(cs[j].rows) : KeyOf(d, cs[j].rows[l]) = cs[j].key
  BY DEF Uniform
<1>3. CASE j # i
  <2>1. PICK o \in Nat : o = Len(cs) /\ j \in 1..o
    OBVIOUS
  <2>2. (i = n + 1 /\ o = n + 1 /\ \A l \in 1..n : cs[l] = bs[l])
        \/ (i \in 1..n /\ o = n /\ \A l \in 1..n : l # i => cs[l] = bs[l])
    BY <1>2, <2>1 DEF Joined
  <2>3. j \in 1..n /\ cs[j] = bs[j]
    BY <1>3, <2>1, <2>2
  <2>. QED  BY <1>2, <2>3 DEF Uniform
<1>4. CASE j = i /\ i = n + 1
  <2>1. cs[j] = [key |-> k, rows |-> <<row>>]
    BY <1>1, <1>2, <1>4 DEF Joined
  <2>2. cs[j].key = k /\ cs[j].rows = <<row>>
    BY <2>1
  <2>3. <<row>> # << >> /\ Len(<<row>>) = 1 /\ <<row>>[1] = row
    OBVIOUS
  <2>. QED  BY <1>1, <2>2, <2>3
<1>5. CASE j = i /\ i \in 1..n
  <2>1. bs[i].key = k /\ cs[i] = [key |-> k, rows |-> Append(bs[i].rows, row)]
    BY <1>1, <1>2, <1>5 DEF Joined
  <2>2. PICK r \in Seq(R) : r = bs[i].rows
    BY <1>2, <1>5
  <2>3. cs[j].key = k /\ cs[j].rows = Append(r, row)
    BY <1>5, <2>1, <2>2
  <2>4. /\ Append(r, row) \in Seq(R) /\ Len(Append(r, row)) = Len(r) + 1
        /\ Append(r, row)[Len(r) + 1] = row /\ \A l \in 1..Len(r) : Append(r, row)[l] = r[l]
    BY AppendIsSequence
  <2>5. PICK t \in Seq(R) : t = Append(r, row) /\ Len(t) = Len(r) + 1 /\ t[Len(r) + 1] = row
                            /\ \A l \in 1..Len(r) : t[l] = r[l]
    BY ONLY <2>4
  <2>6. \A l \in 1..Len(r) : KeyOf(d, r[l]) = k
    BY <1>2, <1>5, <2>1, <2>2 DEF Uniform
  <2>7. PICK o \in Nat : o = Len(r)
    OBVIOUS
  <2>8. \A l \in 1..(o + 1) : KeyOf(d, t[l]) = k
    <3>1. \A l \in 1..(o + 1) : l = o + 1 \/ l \in 1..o
      OBVIOUS
    <3>. QED  BY <1>1, <2>5, <2>6, <2>7, <3>1
  <2>9. t # << >>
    <3>1. Len(t) # 0
      BY <2>5, <2>7
    <3>. QED  BY <3>1, NothingIsSequence
  <2>. QED  BY <2>3, <2>5, <2>7, <2>8, <2>9
<1>. QED  BY <1>2, <1>3, <1>4, <1>5

\* The metric of all buckets is raised by what the row adds.
LEMMA JoinedSum ==
  ASSUME NEW m, Adds(m), NEW K, NEW R, \A r \in R : Addable(m, r),
         NEW bs \in Seq([key : K, rows : Seq(R)]), NEW row \in R, NEW k,
         NEW cs \in Seq([key : K, rows : Seq(R)]), NEW i \in 1..(Len(bs) + 1),
         Joined(bs, cs, i, row, k)
  PROVE  /\ MetricOf(m, bs) \in Seq(Fractions)
         /\ SumOf(MetricOf(m, cs)) = Add(SumOf(MetricOf(m, bs)), Weight(m, row))
<1>1. PICK n \in Nat : n = Len(bs) /\ \A j \in 1..n : bs[j].rows \in Seq(R)
  <2>1. PICK n \in Nat : n = Len(bs)
    OBVIOUS
  <2>. QED  BY <2>1, BucketRows
<1>2. \A r \in Seq(R) : /\ ComputeMetric(m, r) \in Fractions
                        /\ ComputeMetric(m, Append(r, row)) = Add(ComputeMetric(m, r), Weight(m, row))
  BY MetricOneMore
<1>3. Weight(m, row) \in Fractions
  <2>1. << >> \in Seq(R)
    BY NothingIsSequence
  <2>. QED  BY <2>1, MetricOneMore
<1>4. PICK ms \in Seq(Fractions) :
        ms = MetricOf(m, bs) /\ Len(ms) = n /\ \A j \in 1..n : ms[j] = ComputeMetric(m, bs[j].rows)
  <2>1. \A j \in 1..n : ComputeMetric(m, bs[j].rows) \in Fractions
    BY <1>1, <1>2
  <2>. DEFINE ms == [j \in 1..n |-> ComputeMetric(m, bs[j].rows)]
  <2>2. ms \in Seq(Fractions) /\ Len(ms) = n
    BY <2>1
  <2>3. ms = MetricOf(m, bs)
    BY <1>1 DEF MetricOf
  <2>4. \A j \in 1..n : ms[j] = ComputeMetric(m, bs[j].rows)
    OBVIOUS
  <2>. QED  BY <2>2, <2>3, <2>4
<1>5. PICK o \in Nat : o = Len(cs) /\ \A j \in 1..o : cs[j].rows \in Seq(R)
  <2>1. PICK o \in Nat : o = Len(cs)
    OBVIOUS
  <2>. QED  BY <2>1, BucketRows
<1>6. PICK ns \in Seq(Fractions) :
        ns = MetricOf(m, cs) /\ Len(ns) = o /\ \A j \in 1..o : ns[j] = ComputeMetric(m, cs[j].rows)
  <2>1. \A j \in 1..o : ComputeMetric(m, cs[j].rows) \in Fractions
    BY <1>2, <1>5
  <2>. DEFINE ns == [j \in 1..o |-> ComputeMetric(m, cs[j].rows)]
  <2>2. ns \in Seq(Fractions) /\ Len(ns) = o
    BY <2>1
  <2>3. ns = MetricOf(m, cs)
    BY <1>5 DEF MetricOf
  <2>4. \A j \in 1..o : ns[j] = ComputeMetric(m, cs[j].rows)
    OBVIOUS
  <2>. QED  BY <2>2, <2>3, <2>4
<1>7. CASE i = n + 1
  <2>1. o = n + 1 /\ cs[n + 1] = [key |-> k, rows |-> <<row>>] /\ \A j \in 1..n : cs[j] = bs[j]
    BY <1>1, <1>5, <1>7 DEF Joined
  <2>2. ns[n + 1] = Weight(m, row)
    <3>1. cs[n + 1].rows = <<row>>
      BY <2>1
    <3>2. Append(<< >>, row) = <<row>> /\ << >> \in Seq(R)
      OBVIOUS
    <3>3. ComputeMetric(m, <<row>>) = Add(ComputeMetric(m, << >>), Weight(m, row))
      BY <1>2, <3>2
    <3>4. ComputeMetric(m, <<row>>) = Weight(m, row)
      BY <1>3, <3>3, MetricOfNone, AddNothing
    <3>5. n + 1 \in 1..o
      BY <2>1
    <3>. QED  BY <1>6, <3>1, <3>4, <3>5
  <2>3. \A j \in 1..n : ns[j] = ms[j]
    <3>1. \A j \in 1..n : j \in 1..o
      BY <2>1
    <3>. QED  BY <1>4, <1>6, <2>1, <3>1
  <2>4. ns = Append(ms, Weight(m, row))
    <3>1. /\ Append(ms, Weight(m, row)) \in Seq(Fractions) /\ Len(Append(ms, Weight(m, row))) = Len(ms) + 1
          /\ Append(ms, Weight(m, row))[Len(ms) + 1] = Weight(m, row)
          /\ \A j \in 1..Len(ms) : Append(ms, Weight(m, row))[j] = ms[j]
      BY <1>3, AppendIsSequence
    <3>2. PICK t \in Seq(Fractions) : t = Append(ms, Weight(m, row))
      BY ONLY <3>1
    <3>3. Len(t) = n + 1 /\ t[n + 1] = Weight(m, row) /\ \A j \in 1..n : t[j] = ms[j]
      BY <1>4, <3>1, <3>2
    <3>4. \A j \in 1..(n + 1) : j = n + 1 \/ j \in 1..n
      OBVIOUS
    <3>5. \A j \in 1..Len(ns) : ns[j] = t[j]
      BY <1>6, <2>1, <2>2, <2>3, <3>3, <3>4
    <3>6. ns = t
      BY <1>6, <2>1, <3>3, <3>5, SameSequence
    <3>. QED  BY <3>2, <3>6
  <2>5. SumOf(Append(ms, Weight(m, row))) = Add(SumOf(ms), Weight(m, row))
    BY <1>3, SumOfOneMore
  <2>. QED  BY <1>4, <1>6, <2>4, <2>5
<1>8. CASE i \in 1..n
  <2>1. o = n /\ cs[i] = [key |-> k, rows |-> Append(bs[i].rows, row)] /\ \A j \in 1..n : j # i => cs[j] = bs[j]
    BY <1>1, <1>5, <1>8 DEF Joined
  <2>2. ns[i] = Add(ms[i], Weight(m, row))
    <3>1. cs[i].rows = Append(bs[i].rows, row)
      BY <2>1
    <3>2. bs[i].rows \in Seq(R)
      BY <1>1, <1>8
    <3>. QED  BY <1>2, <1>4, <1>6, <1>8, <2>1, <3>1, <3>2
  <2>3. \A j \in 1..n : j # i => ns[j] = ms[j]
    BY <1>4, <1>6, <2>1
  <2>4. SumOf(ns) = Add(SumOf(ms), Weight(m, row))
    <3>1. i \in 1..Len(ms) /\ Len(ns) = Len(ms)
      BY <1>4, <1>6, <1>8, <2>1
    <3>2. \A j \in 1..Len(ms) : j # i => ns[j] = ms[j]
      BY <1>4, <2>3
    <3>. QED  BY <1>3, <2>2, <3>1, <3>2, SumOfRaised
  <2>. QED  BY <1>4, <1>6, <2>4
<1>. QED  BY <1>1, <1>4, <1>7, <1>8

LEMMA PrefixOneMore ==
  ASSUME NEW R, NEW rs \in Seq(R), NEW n \in Nat, n + 1 <= Len(rs)
  PROVE  SubSeq(rs, 1, n) \in Seq(R) /\ SubSeq(rs, 1, n + 1) = Append(SubSeq(rs, 1, n), rs[n + 1])
<1>1. PICK o \in Nat : o = Len(rs) /\ n + 1 \in 1..o
  OBVIOUS
<1>2. \A i \in 1..o : rs[i] \in R
  BY <1>1
<1>. DEFINE p == [i \in 1..n |-> rs[i]]
            q == [i \in 1..(n + 1) |-> rs[i]]
<1>3. SubSeq(rs, 1, n) = p /\ SubSeq(rs, 1, n + 1) = q
  OBVIOUS
<1>4. PICK ps \in Seq(R) : ps = p /\ Len(ps) = n /\ \A i \in 1..n : ps[i] = rs[i]
  <2>1. \A i \in 1..n : rs[i] \in R
    BY <1>1, <1>2
  <2>2. p \in Seq(R) /\ Len(p) = n
    BY <2>1
  <2>. QED  BY <2>2
<1>5. PICK qs \in Seq(R) : qs = q /\ Len(qs) = n + 1 /\ \A i \in 1..(n + 1) : qs[i] = rs[i]
  <2>1. \A i \in 1..(n + 1) : rs[i] \in R
    BY <1>1, <1>2
  <2>2. q \in Seq(R) /\ Len(q) = n + 1
    BY <2>1
  <2>. QED  BY <2>2
<1>6. rs[n + 1] \in R
  BY <1>1, <1>2
<1>7. /\ Append(ps, rs[n + 1]) \in Seq(R) /\ Len(Append(ps, rs[n + 1])) = Len(ps) + 1
      /\ Append(ps, rs[n + 1])[Len(ps) + 1] = rs[n + 1]
      /\ \A i \in 1..Len(ps) : Append(ps, rs[n + 1])[i] = ps[i]
  BY <1>6, AppendIsSequence
<1>8. PICK t \in Seq(R) : t = Append(ps, rs[n + 1])
  BY ONLY <1>7
<1>9. Len(t) = n + 1 /\ t[n + 1] = rs[n + 1] /\ \A i \in 1..n : t[i] = rs[i]
  BY <1>4, <1>7, <1>8
<1>10. \A i \in 1..(n + 1) : i = n + 1 \/ i \in 1..n
  OBVIOUS
<1>11. \A i \in 1..Len(t) : t[i] = qs[i]
  BY <1>5, <1>9, <1>10
<1>12. t = qs
  BY <1>5, <1>9, <1>11, SameSequence
<1>. QED  BY <1>3, <1>4, <1>5, <1>8, <1>12

\* f holds the buckets of every prefix of the rows.
Joining(f, d, rs) ==
  /\ f[0] = << >>
  /\ \A i \in 1..Len(rs) : f[i] = Join(f[i - 1], rs[i], KeyOf(d, rs[i]))

LEMMA BucketsAre ==
  ASSUME NEW d, d.groupBy # << >>, NEW R, NEW rs \in Seq(R), NEW V, << >> \in V,
         \A bs \in V, r \in R : Join(bs, r, KeyOf(d, r)) \in V
  PROVE  \E f \in [0..Len(rs) -> V] : Joining(f, d, rs) /\ Buckets(d, rs) = f[Len(rs)]
<1>1. PICK n \in Nat : n = Len(rs)
  OBVIOUS
<1>. DEFINE joins(f) == f = [i \in 0..n |->
              IF i = 0 THEN << >> ELSE Join(f[i - 1], rs[i], KeyOf(d, rs[i]))]
<1>2. \A i \in 1..n : rs[i] \in R
  BY <1>1
<1>3. PICK f \in [0..n -> V] :
        f[0] = << >> /\ \A i \in 1..n : f[i] = Join(f[i - 1], rs[i], KeyOf(d, rs[i]))
  <2>. DEFINE step == [i \in 1..n |-> [bs \in V |-> Join(bs, rs[i], KeyOf(d, rs[i]))]]
  <2>1. step \in [1..n -> [V -> V]]
    <3>1. \A i \in 1..n, bs \in V : Join(bs, rs[i], KeyOf(d, rs[i])) \in V
      BY <1>2
    <3>. QED  BY <3>1
  <2>2. \A i \in 1..n, bs \in V : step[i][bs] = Join(bs, rs[i], KeyOf(d, rs[i]))
    OBVIOUS
  <2>3. PICK nothing \in V : nothing = << >>
    OBVIOUS
  <2>. HIDE DEF step
  <2>4. PICK f \in [0..n -> V] : Iterates(f, n, nothing, step)
    BY <2>1, Iteration
  <2>5. \A i \in 1..n : f[i - 1] \in V
    OBVIOUS
  <2>. QED  BY <2>2, <2>3, <2>4, <2>5 DEF Iterates
<1>4. joins(f)
  <2>1. ASSUME NEW i \in 0..n
        PROVE  f[i] = IF i = 0 THEN << >> ELSE Join(f[i - 1], rs[i], KeyOf(d, rs[i]))
    <3>1. i = 0 \/ i \in 1..n
      OBVIOUS
    <3>. QED  BY <1>3, <3>1
  <2>. QED  BY <2>1
<1>5. PICK g : g = CHOOSE h : joins(h)
  OBVIOUS
<1>6. joins(g)
  <2>. HIDE DEF joins
  <2>. QED  BY <1>4, <1>5
<1>7. Buckets(d, rs) = g[n]
  BY <1>1, <1>5 DEF Buckets
<1>8. g[0] = << >> /\ \A i \in 1..n : g[i] = Join(g[i - 1], rs[i], KeyOf(d, rs[i]))
  <2>1. \A i \in 0..n : g[i] = IF i = 0 THEN << >> ELSE Join(g[i - 1], rs[i], KeyOf(d, rs[i]))
    BY <1>6
  <2>. QED  BY <2>1
<1>9. \A i \in 1..n : f[i - 1] = g[i - 1] => f[i] = g[i]
  BY <1>3, <1>8
<1>10. f[0] = g[0]
  BY <1>3, <1>8
<1>11. f[n] = g[n]
  BY <1>9, <1>10, SameIteration, Zenon
<1>. QED  BY <1>1, <1>3, <1>7, <1>11 DEF Joining

\* Every bucket holds rows of its own key, and the buckets add up to the rows.
LEMMA BucketsHold ==
  ASSUME NEW d, d.groupBy # << >>, NEW R, NEW rs \in Seq(R)
  PROVE  /\ Buckets(d, rs) \in Seq([key : {KeyOf(d, r) : r \in R}, rows : Seq(R)])
         /\ Uniform(d, Buckets(d, rs))
         /\ \A m : Adds(m) /\ (\A r \in R : Addable(m, r)) =>
              /\ MetricOf(m, Buckets(d, rs)) \in Seq(Fractions)
              /\ SumOf(MetricOf(m, Buckets(d, rs))) = ComputeMetric(m, rs)
<1>1. PICK K : K = {KeyOf(d, r) : r \in R}
  OBVIOUS
<1>2. \A r \in R : KeyOf(d, r) \in K
  BY <1>1
<1>3. PICK V : V = Seq([key : K, rows : Seq(R)])
  OBVIOUS
<1>4. << >> \in V
  BY <1>3, NothingIsSequence
<1>5. ASSUME NEW bs \in V, NEW r \in R
      PROVE  /\ Join(bs, r, KeyOf(d, r)) \in V
             /\ \E i \in 1..(Len(bs) + 1) : Joined(bs, Join(bs, r, KeyOf(d, r)), i, r, KeyOf(d, r))
  <2>1. bs \in Seq([key : K, rows : Seq(R)]) /\ KeyOf(d, r) \in K
    BY <1>2, <1>3
  <2>. QED  BY <1>3, <2>1, JoinedOnce
<1>6. PICK f \in [0..Len(rs) -> V] : Joining(f, d, rs) /\ Buckets(d, rs) = f[Len(rs)]
  BY <1>4, <1>5, BucketsAre
<1>7. PICK n \in Nat : n = Len(rs) /\ n \in 0..n
  OBVIOUS
<1>8. \A j \in 0..n : f[j] \in V
  BY <1>6, <1>7
<1>9. ASSUME NEW j \in Nat, j + 1 <= n
      PROVE  /\ f[j] \in V /\ f[j + 1] \in V /\ rs[j + 1] \in R
             /\ f[j + 1] = Join(f[j], rs[j + 1], KeyOf(d, rs[j + 1]))
             /\ \E i \in 1..(Len(f[j]) + 1) : Joined(f[j], f[j + 1], i, rs[j + 1], KeyOf(d, rs[j + 1]))
  <2>1. j \in 0..n /\ j + 1 \in 0..n /\ j + 1 \in 1..n /\ (j + 1) - 1 = j
    BY <1>9
  <2>2. j + 1 \in 1..Len(rs)
    BY <1>7, <2>1
  <2>3. rs[j + 1] \in R
    BY <2>2
  <2>4. f[j + 1] = Join(f[j], rs[j + 1], KeyOf(d, rs[j + 1]))
    BY <1>6, <2>1, <2>2 DEF Joining
  <2>. QED  BY <1>5, <1>8, <2>1, <2>3, <2>4
<1>10. f[0] = << >>
  BY <1>6 DEF Joining
<1>11. Uniform(d, f[n])
  <2>. DEFINE T == {j \in Nat : j <= n => Uniform(d, f[j])}
  <2>1. 0 \in T
    BY <1>10, NothingIsSequence DEF Uniform
  <2>2. ASSUME NEW j \in Nat, j \in T PROVE j + 1 \in T
    <3>. SUFFICES ASSUME j + 1 <= n PROVE Uniform(d, f[j + 1])
      OBVIOUS
    <3>1. j <= n /\ Uniform(d, f[j])
      BY <2>2
    <3>2. PICK bs \in Seq([key : K, rows : Seq(R)]) : bs = f[j]
      BY <1>3, <1>9
    <3>3. PICK cs \in Seq([key : K, rows : Seq(R)]) : cs = f[j + 1]
      BY <1>3, <1>9
    <3>4. PICK row \in R : row = rs[j + 1]
      BY <1>9
    <3>5. PICK i \in 1..(Len(bs) + 1) : Joined(bs, cs, i, row, KeyOf(d, row))
      BY <1>9, <3>2, <3>3, <3>4
    <3>6. Uniform(d, cs)
      BY <3>1, <3>2, <3>5, JoinedUniform
    <3>. QED  BY <3>3, <3>6
  <2>. HIDE DEF T
  <2>3. n \in T
    BY <2>1, <2>2, Induction
  <2>. QED  BY <2>3 DEF T
<1>12. ASSUME NEW m, Adds(m), \A r \in R : Addable(m, r)
       PROVE  MetricOf(m, f[n]) \in Seq(Fractions) /\ SumOf(MetricOf(m, f[n])) = ComputeMetric(m, rs)
  <2>. DEFINE T == {j \in Nat : j <= n => SumOf(MetricOf(m, f[j])) = ComputeMetric(m, SubSeq(rs, 1, j))}
  <2>1. 0 \in T
    <3>1. MetricOf(m, << >>) = << >>
      BY DEF MetricOf
    <3>2. SubSeq(rs, 1, 0) = << >>
      OBVIOUS
    <3>. QED  BY <1>10, <1>12, <3>1, <3>2, SumOfNone, MetricOfNone
  <2>2. ASSUME NEW j \in Nat, j \in T PROVE j + 1 \in T
    <3>. SUFFICES ASSUME j + 1 <= n
                  PROVE  SumOf(MetricOf(m, f[j + 1])) = ComputeMetric(m, SubSeq(rs, 1, j + 1))
      OBVIOUS
    <3>1. SumOf(MetricOf(m, f[j])) = ComputeMetric(m, SubSeq(rs, 1, j))
      BY <2>2
    <3>2. PICK bs \in Seq([key : K, rows : Seq(R)]) : bs = f[j]
      BY <1>3, <1>9
    <3>3. PICK cs \in Seq([key : K, rows : Seq(R)]) : cs = f[j + 1]
      BY <1>3, <1>9
    <3>4. PICK row \in R : row = rs[j + 1]
      BY <1>9
    <3>5. PICK i \in 1..(Len(bs) + 1) : Joined(bs, cs, i, row, KeyOf(d, row))
      BY <1>9, <3>2, <3>3, <3>4
    <3>6. /\ MetricOf(m, bs) \in Seq(Fractions)
          /\ SumOf(MetricOf(m, cs)) = Add(SumOf(MetricOf(m, bs)), Weight(m, row))
      <4>1. PICK k : k = KeyOf(d, row)
        OBVIOUS
      <4>2. Joined(bs, cs, i, row, k)
        BY <3>5, <4>1
      <4>3. PICK W : W = Seq([key : K, rows : Seq(R)])
        OBVIOUS
      <4>4. \A w, x \in W, r \in R : \A l, h : l \in 1..(Len(w) + 1) /\ Joined(w, x, l, r, h) =>
                /\ MetricOf(m, w) \in Seq(Fractions)
                /\ SumOf(MetricOf(m, x)) = Add(SumOf(MetricOf(m, w)), Weight(m, r))
        BY <1>12, <4>3, JoinedSum
      <4>. QED  BY <4>2, <4>3, <4>4
    <3>7. SubSeq(rs, 1, j) \in Seq(R) /\ SubSeq(rs, 1, j + 1) = Append(SubSeq(rs, 1, j), rs[j + 1])
      BY <1>7, PrefixOneMore
    <3>8. ComputeMetric(m, Append(SubSeq(rs, 1, j), row)) = Add(ComputeMetric(m, SubSeq(rs, 1, j)), Weight(m, row))
      BY <1>12, <3>7, MetricOneMore
    <3>. QED  BY <3>1, <3>2, <3>3, <3>4, <3>6, <3>7, <3>8
  <2>. HIDE DEF T
  <2>3. n \in T
    BY <2>1, <2>2, Induction
  <2>4. SubSeq(rs, 1, n) = rs
    BY <1>7
  <2>5. MetricOf(m, f[n]) \in Seq(Fractions)
    <3>1. PICK bs \in Seq([key : K, rows : Seq(R)]) : bs = f[n]
      BY <1>3, <1>7, <1>8
    <3>2. PICK o \in Nat : o = Len(bs)
      OBVIOUS
    <3>3. \A i \in 1..o : bs[i].rows \in Seq(R)
      BY <3>2, BucketRows
    <3>4. \A i \in 1..o : ComputeMetric(m, bs[i].rows) \in Fractions
      <4>1. ASSUME NEW r \in Seq(R), r # << >> PROVE ComputeMetric(m, r) \in Fractions
        <5>1. r[1] \in R
          BY <4>1
        <5>. QED  BY <1>12, <5>1, MetricOneMore
      <4>2. \A i \in 1..o : bs[i].rows # << >>
        BY <1>11, <3>1, <3>2 DEF Uniform
      <4>. QED  BY <3>3, <4>1, <4>2
    <3>5. [i \in 1..o |-> ComputeMetric(m, bs[i].rows)] \in Seq(Fractions)
      BY <3>4
    <3>. QED  BY <3>1, <3>2, <3>5 DEF MetricOf
  <2>. QED  BY <2>3, <2>4, <2>5 DEF T
<1>. QED  BY <1>1, <1>3, <1>6, <1>7, <1>8, <1>11, <1>12

(* The rows of a result. *)
LastOf(s, P) == IF P # {} THEN Max(P) ELSE 0

LEMMA MetricsRowIs ==
  ASSUME NEW d, NEW M, d.metrics \in Seq(M), NEW m \in ToSet(d.metrics), NEW rs,
         \A p, q \in ToSet(d.metrics) : p.alias = q.alias => p = q
  PROVE  m.alias \in DOMAIN MetricsRow(d, rs) /\ MetricsRow(d, rs)[m.alias] = ComputeMetric(m, rs)
<1>1. PICK n \in Nat : n = Len(d.metrics) /\ DOMAIN d.metrics = 1..n
  OBVIOUS
<1>. DEFINE P == {i \in 1..Len(d.metrics) : d.metrics[i].alias = m.alias}
            at == SelectLastInSeq(d.metrics, LAMBDA p : p.alias = m.alias)
<1>2. PICK i \in 1..n : d.metrics[i] = m
  BY <1>1 DEF ToSet
<1>3. P # {} /\ P \subseteq 1..n
  BY <1>1, <1>2
<1>4. at = IF P # {} THEN Max(P) ELSE 0
  BY DEF SelectLastInSeq
<1>5. at \in P
  <2>. HIDE DEF P, at
  <2>. QED  BY <1>3, <1>4, LastPlace
<1>6. d.metrics[at] = m
  <2>. HIDE DEF at
  <2>1. at \in 1..n /\ d.metrics[at].alias = m.alias
    BY <1>1, <1>5
  <2>2. d.metrics[at] \in ToSet(d.metrics)
    BY <1>1, <2>1 DEF ToSet
  <2>. QED  BY <2>1, <2>2
<1>7. m.alias \in {d.metrics[j].alias : j \in DOMAIN d.metrics}
  BY <1>1, <1>2
<1>8. MetricsRow(d, rs)[m.alias] = ComputeMetric(d.metrics[at], rs)
  BY <1>7 DEF MetricsRow
<1>9. DOMAIN MetricsRow(d, rs) = {d.metrics[j].alias : j \in DOMAIN d.metrics}
  BY DEF MetricsRow
<1>. QED  BY <1>6, <1>7, <1>8, <1>9

\* Rows of one key have one value in each dimension, unless a value reads as a missing one does.
LEMMA DimensionsAre ==
  ASSUME NEW d, NEW G, d.groupBy \in Seq(G), NEW r, NEW s, KeyOf(d, r) = KeyOf(d, s),
         \A i \in DOMAIN d.groupBy : /\ BucketValue(r[d.groupBy[i].field], d.groupBy[i]) # NullText
                                     /\ BucketValue(s[d.groupBy[i].field], d.groupBy[i]) # NullText
  PROVE  DimensionsRow(d, r) = DimensionsRow(d, s)
<1>1. PICK n \in Nat : n = Len(d.groupBy) /\ DOMAIN d.groupBy = 1..n
  OBVIOUS
<1>. DEFINE at(k) == SelectLastInSeq(d.groupBy, LAMBDA g : g.field = k)
            P(k) == {i \in 1..Len(d.groupBy) : d.groupBy[i].field = k}
<1>2. ASSUME NEW i \in 1..n
      PROVE  BucketValue(r[d.groupBy[i].field], d.groupBy[i]) = BucketValue(s[d.groupBy[i].field], d.groupBy[i])
  <2>1. KeyOf(d, r)[i] = TextOfValue(BucketValue(r[d.groupBy[i].field], d.groupBy[i]))
    BY <1>1 DEF KeyOf
  <2>2. KeyOf(d, s)[i] = TextOfValue(BucketValue(s[d.groupBy[i].field], d.groupBy[i]))
    BY <1>1 DEF KeyOf
  <2>. QED  BY <1>1, <2>1, <2>2 DEF TextOfValue
<1>3. ASSUME NEW k \in {d.groupBy[i].field : i \in DOMAIN d.groupBy}
      PROVE  at(k) \in 1..n /\ d.groupBy[at(k)].field = k
  <2>1. P(k) # {} /\ P(k) \subseteq 1..n
    BY <1>1
  <2>2. at(k) = IF P(k) # {} THEN Max(P(k)) ELSE 0
    BY DEF SelectLastInSeq
  <2>3. PICK Q, a : Q = P(k) /\ a = at(k)
    OBVIOUS
  <2>4. a \in Q
    <3>. HIDE DEF P, at
    <3>. QED  BY <2>1, <2>2, <2>3, LastPlace
  <2>. QED  BY <1>1, <2>3, <2>4
<1>4. \A k \in {d.groupBy[i].field : i \in DOMAIN d.groupBy} :
        BucketValue(r[k], d.groupBy[at(k)]) = BucketValue(s[k], d.groupBy[at(k)])
  <2>. HIDE DEF at
  <2>. QED  BY <1>2, <1>3
<1>. QED  BY <1>4 DEF DimensionsRow

CalcStep(s, c, outs) ==
  IF s.thrown \/ Missing(c.expression, Numbers(s.row, outs)) \/ Unclosed(c.expression)
  THEN [s EXCEPT !.thrown = TRUE]
  ELSE [s EXCEPT !.row = Assigned(@, [j \in {c.alias} |-> EvalExpression(c.expression, Numbers(s.row, outs))])]

LEMMA CalcStepKeeps ==
  ASSUME NEW s, DOMAIN s = {"row", "thrown"}, NEW c, NEW outs, NEW k \in DOMAIN s.row, c.alias # k
  PROVE  LET t == CalcStep(s, c, outs)
         IN DOMAIN t = {"row", "thrown"} /\ k \in DOMAIN t.row /\ t.row[k] = s.row[k]
<1>1. PICK v : v = EvalExpression(c.expression, Numbers(s.row, outs))
  OBVIOUS
<1>2. PICK w : w = Assigned(s.row, [j \in {c.alias} |-> v])
  OBVIOUS
<1>3. k \in DOMAIN w /\ w[k] = s.row[k]
  BY <1>2 DEF Assigned
<1>4. CASE s.thrown \/ Missing(c.expression, Numbers(s.row, outs)) \/ Unclosed(c.expression)
  <2>1. CalcStep(s, c, outs) = [s EXCEPT !.thrown = TRUE]
    BY <1>4 DEF CalcStep
  <2>. QED  BY <2>1
<1>5. CASE ~(s.thrown \/ Missing(c.expression, Numbers(s.row, outs)) \/ Unclosed(c.expression))
  <2>1. CalcStep(s, c, outs) = [s EXCEPT !.row = w]
    BY <1>1, <1>2, <1>5 DEF CalcStep
  <2>. QED  BY <1>3, <2>1
<1>. QED  BY <1>4, <1>5

LEMMA CalcsKeep ==
  ASSUME NEW row, NEW C, NEW calcs \in Seq(C), NEW outs, NEW k \in DOMAIN row, \A c \in C : c.alias # k
  PROVE  k \in DOMAIN AddCalcs(row, calcs, outs).row /\ AddCalcs(row, calcs, outs).row[k] = row[k]
<1>1. PICK n \in Nat : n = Len(calcs)
  OBVIOUS
<1>. DEFINE start == [row |-> row, thrown |-> FALSE]
            takes(f, m) == f = [i \in 0..m |-> IF i = 0 THEN start ELSE CalcStep(f[i - 1], calcs[i], outs)]
            kept(s) == DOMAIN s = {"row", "thrown"} /\ k \in DOMAIN s.row /\ s.row[k] = row[k]
<1>2. kept(start)
  OBVIOUS
<1>3. ASSUME NEW s, kept(s), NEW i \in 1..n PROVE kept(CalcStep(s, calcs[i], outs))
  <2>1. calcs[i].alias # k
    BY <1>1
  <2>. QED  BY <1>3, <2>1, CalcStepKeeps
<1>. HIDE DEF start, kept
<1>4. \E f : takes(f, n)
  <2>. DEFINE T == {m \in Nat : m <= n => \E f : takes(f, m)}
  <2>1. 0 \in T
    <3>. DEFINE f == [i \in 0..0 |-> start]
    <3>1. takes(f, 0)
      OBVIOUS
    <3>. QED  BY <3>1
  <2>2. ASSUME NEW m \in Nat, m \in T PROVE m + 1 \in T
    <3>. SUFFICES ASSUME m + 1 <= n PROVE \E f : takes(f, m + 1)
      OBVIOUS
    <3>1. PICK f : takes(f, m)
      BY <2>2
    <3>2. \A i \in 0..m : f[i] = IF i = 0 THEN start ELSE CalcStep(f[i - 1], calcs[i], outs)
      BY <3>1
    <3>. DEFINE g == [i \in 0..(m + 1) |-> IF i = m + 1 THEN CalcStep(f[m], calcs[m + 1], outs) ELSE f[i]]
    <3>3. \A i \in 0..m : g[i] = f[i]
      OBVIOUS
    <3>4. g[m + 1] = CalcStep(f[m], calcs[m + 1], outs)
      OBVIOUS
    <3>5. DOMAIN g = 0..(m + 1) /\ g = [i \in 0..(m + 1) |-> g[i]]
      OBVIOUS
    <3>. HIDE DEF g
    <3>6. ASSUME NEW i \in 0..(m + 1)
          PROVE  g[i] = IF i = 0 THEN start ELSE CalcStep(g[i - 1], calcs[i], outs)
      <4>1. CASE i = 0
        <5>1. 0 \in 0..m
          OBVIOUS
        <5>. QED  BY <3>2, <3>3, <4>1, <5>1
      <4>2. CASE i \in 1..m
        <5>1. i \in 0..m /\ i - 1 \in 0..m /\ i # 0
          BY <4>2
        <5>. QED  BY <3>2, <3>3, <5>1
      <4>3. CASE i = m + 1
        <5>1. m \in 0..m /\ i - 1 = m /\ i # 0
          BY <4>3
        <5>. QED  BY <3>3, <3>4, <4>3, <5>1
      <4>. QED  BY <4>1, <4>2, <4>3
    <3>7. takes(g, m + 1)
      BY <3>5, <3>6
    <3>. QED  BY <3>7
  <2>. HIDE DEF T
  <2>3. n \in T
    BY <2>1, <2>2, Induction
  <2>. QED  BY <2>3 DEF T
<1>5. PICK g : g = CHOOSE f : takes(f, n)
  OBVIOUS
<1>6. takes(g, n)
  <2>. HIDE DEF takes
  <2>. QED  BY <1>4, <1>5
<1>7. AddCalcs(row, calcs, outs) = g[n]
  BY <1>1, <1>5 DEF AddCalcs, CalcStep, start
<1>8. \A i \in 0..n : g[i] = IF i = 0 THEN start ELSE CalcStep(g[i - 1], calcs[i], outs)
  BY <1>6
<1>9. kept(g[n])
  <2>. HIDE DEF takes
  <2>. DEFINE T == {m \in Nat : m <= n => kept(g[m])}
  <2>1. 0 \in T
    <3>1. 0 \in 0..n
      OBVIOUS
    <3>2. g[0] = start
      BY <1>8, <3>1
    <3>. QED  BY <1>2, <3>2
  <2>2. ASSUME NEW m \in Nat, m \in T PROVE m + 1 \in T
    <3>. SUFFICES ASSUME m + 1 <= n PROVE kept(g[m + 1])
      OBVIOUS
    <3>1. m + 1 \in 1..n /\ m + 1 \in 0..n /\ (m + 1) - 1 = m /\ m + 1 # 0
      OBVIOUS
    <3>2. g[m + 1] = CalcStep(g[m], calcs[m + 1], outs)
      BY <1>8, <3>1
    <3>3. kept(g[m])
      BY <2>2
    <3>. QED  BY <1>3, <3>1, <3>2, <3>3
  <2>. HIDE DEF T
  <2>3. n \in T
    BY <2>1, <2>2, Induction
  <2>. QED  BY <2>3 DEF T
<1>. QED  BY <1>7, <1>9 DEF kept

(* Totals. *)
\* A bucket's row shows the metrics of the bucket, whatever is calculated from them.
LEMMA GroupRowShows ==
  ASSUME NEW d, Additive(d), NEW b, NEW m \in ToSet(d.metrics)
  PROVE  GroupRow(d, b).row[m.alias] = ComputeMetric(m, b.rows)
<1>1. /\ d.metrics \in Seq(ToSet(d.metrics)) /\ d.calculatedFields \in Seq(ToSet(d.calculatedFields))
      /\ \A p, q \in ToSet(d.metrics) : p.alias = q.alias => p = q
      /\ \A c \in ToSet(d.calculatedFields) : c.alias # m.alias
  BY DEF Additive
<1>2. PICK dims, sums : dims = DimensionsRow(d, b.rows[1]) /\ sums = MetricsRow(d, b.rows)
  OBVIOUS
<1>3. m.alias \in DOMAIN sums /\ sums[m.alias] = ComputeMetric(m, b.rows)
  BY <1>1, <1>2, MetricsRowIs
<1>4. PICK row : row = Assigned(dims, sums)
  OBVIOUS
<1>5. m.alias \in DOMAIN row /\ row[m.alias] = ComputeMetric(m, b.rows)
  BY <1>3, <1>4 DEF Assigned
<1>6. PICK C : C = ToSet(d.calculatedFields)
  OBVIOUS
<1>7. PICK calcs \in Seq(C) : calcs = CalcsOf(d, "aggregate")
  <2>1. \A e \in C : e \in {c \in C : c.scope = "aggregate"} => e \in C
    OBVIOUS
  <2>2. Among(d.calculatedFields, {c \in C : c.scope = "aggregate"}) \in Seq(C)
    BY <1>1, <1>6, <2>1, AmongType
  <2>. QED  BY <1>6, <2>2 DEF CalcsOf
<1>8. AddCalcs(row, calcs, {NULL}).row[m.alias] = row[m.alias]
  BY <1>1, <1>5, <1>6, CalcsKeep
<1>9. GroupRow(d, b) = AddCalcs(row, calcs, {NULL})
  BY <1>2, <1>4, <1>7 DEF GroupRow, AggCalcs
<1>. QED  BY <1>5, <1>8, <1>9

\* A drill-down is additive as the report it opens is.
AllDimensions == UNION {ToSet(d.groupBy) : d \in Definition}

LEMMA OpensAdditive ==
  ASSUME NEW d, Additive(d), ToSet(d.groupBy) \subseteq AllDimensions,
         \A e \in Definition : Additive(e), NEW value
  PROVE  LET e == BuildDrilldownDefinition(d, value)
         IN Additive(e) /\ ToSet(e.groupBy) \subseteq AllDimensions
<1>1. PICK e : e = BuildDrilldownDefinition(d, value)
  OBVIOUS
<1>2. PICK pin : pin = PinnedFilter(d, value)
  OBVIOUS
<1>3. CASE d.drilldown = "target"
  <2>1. PICK t : t = d.target /\ t \in Definition /\ Additive(t)
    BY <1>3 DEF Additive
  <2>2. e = [t EXCEPT !.filters = Append(@, pin)]
    BY <1>1, <1>2, <1>3, <2>1 DEF BuildDrilldownDefinition
  <2>3. /\ DOMAIN e = DOMAIN t /\ e.groupBy = t.groupBy /\ e.metrics = t.metrics
        /\ e.calculatedFields = t.calculatedFields /\ e.drilldown = t.drilldown
        /\ e.drilldown = "target" => e.target = t.target
    BY <2>1, <2>2 DEF Additive
  <2>4. Additive(e)
    BY <2>1, <2>3 DEF Additive
  <2>. QED  BY <1>1, <2>1, <2>3, <2>4 DEF AllDimensions
<1>4. CASE d.drilldown # "target"
  <2>1. e = [d EXCEPT !.filters = Append(@, pin), !.groupBy = NextDimension(d), !.drilldown = "none"]
    BY <1>1, <1>2, <1>4 DEF BuildDrilldownDefinition
  <2>2. /\ DOMAIN e = DOMAIN d /\ e.groupBy = NextDimension(d) /\ e.metrics = d.metrics
        /\ e.calculatedFields = d.calculatedFields /\ e.drilldown = "none"
    BY <2>1 DEF Additive
  <2>3. PICK g \in Seq(ToSet(d.groupBy)) : g = d.groupBy
    BY DEF Additive
  <2>4. e.groupBy \in Seq(ToSet(e.groupBy)) /\ ToSet(e.groupBy) \subseteq ToSet(d.groupBy)
    <3>1. CASE Len(g) > 1
      <4>1. e.groupBy = <<g[2]>> /\ g[2] \in ToSet(g)
        BY <2>2, <2>3, <3>1 DEF NextDimension, ToSet
      <4>2. ToSet(<<g[2]>>) = {g[2]}
        BY DEF ToSet
      <4>. QED  BY <2>3, <4>1, <4>2
    <3>2. CASE ~(Len(g) > 1)
      <4>1. e.groupBy = << >>
        BY <2>2, <2>3, <3>2 DEF NextDimension
      <4>2. ToSet(<< >>) = {}
        BY DEF ToSet
      <4>. QED  BY <4>1, <4>2
    <3>. QED  BY <3>1, <3>2
  <2>5. Additive(e)
    BY <2>2, <2>4 DEF Additive
  <2>. QED  BY <1>1, <2>4, <2>5
<1>. QED  BY <1>3, <1>4

\* Rows that show the fields of one of the rows asked about.
Asked == UNION {ToSet(q[2]) : q \in Question}
FromAsked(r) == \E o \in Asked : \A k \in DOMAIN FieldType : r[k] = o[k]

\* What a stage leaves for the next one.
TotalsInv ==
  /\ Additive(def) /\ ToSet(def.groupBy) \subseteq AllDimensions
  /\ data \in Seq(Asked)
  /\ stage = "calculate" => rows \in Seq(Asked)
  /\ stage \in {"group", "aggregate", "sort"} => rows \in Seq(ToSet(rows)) /\ \A r \in ToSet(rows) : FromAsked(r)
  /\ stage \in {"aggregate", "sort"} => buckets = Buckets(def, rows)
  /\ stage = "sort" => out = RowsOf(OutRows(def, rows, buckets))

\* Calculated fields leave the fields of the model alone.
LEMMA RowCalcsKeep ==
  ASSUME NEW d, Additive(d), NEW row, DOMAIN FieldType \subseteq DOMAIN row
  PROVE  \A k \in DOMAIN FieldType : RowCalcs(d, row).row[k] = row[k]
<1>. SUFFICES ASSUME NEW k \in DOMAIN FieldType PROVE RowCalcs(d, row).row[k] = row[k]
  OBVIOUS
<1>1. PICK C : C = ToSet(d.calculatedFields)
  OBVIOUS
<1>2. d.calculatedFields \in Seq(C) /\ \A c \in C : c.alias # k
  BY <1>1 DEF Additive
<1>3. PICK calcs \in Seq(C) : calcs = CalcsOf(d, "row")
  <2>1. \A e \in C : e \in {c \in C : c.scope = "row"} => e \in C
    OBVIOUS
  <2>2. Among(d.calculatedFields, {c \in C : c.scope = "row"}) \in Seq(C)
    BY <1>2, <2>1, AmongType
  <2>. QED  BY <1>1, <2>2 DEF CalcsOf
<1>4. AddCalcs(row, calcs, {NULL, NaN}).row[k] = row[k]
  BY <1>2, CalcsKeep
<1>. QED  BY <1>3, <1>4 DEF RowCalcs

LEMMA CalculatedRows ==
  ASSUME NEW d, Additive(d), NEW rs \in Seq(Asked), \A o \in Asked : PlainRow(o), NEW made,
         made = [i \in DOMAIN rs |-> RowCalcs(d, rs[i])]
  PROVE  RowsOf(made) \in Seq(ToSet(RowsOf(made))) /\ \A r \in ToSet(RowsOf(made)) : FromAsked(r)
<1>1. PICK n \in Nat : n = Len(rs) /\ DOMAIN rs = 1..n
  OBVIOUS
<1>2. PICK cs : cs = RowsOf(made)
  OBVIOUS
<1>3. cs = [i \in 1..n |-> RowCalcs(d, rs[i]).row]
  BY <1>1, <1>2 DEF RowsOf
<1>4. PICK T : T = ToSet(cs)
  OBVIOUS
<1>5. \A i \in 1..n : RowCalcs(d, rs[i]).row \in T
  BY <1>3, <1>4 DEF ToSet
<1>6. cs \in Seq(T)
  BY <1>3, <1>5
<1>7. ASSUME NEW r \in T PROVE FromAsked(r)
  <2>1. PICK i \in 1..n : r = RowCalcs(d, rs[i]).row
    BY <1>3, <1>4 DEF ToSet
  <2>2. PICK o \in Asked : o = rs[i]
    BY <1>1
  <2>3. \A k \in DOMAIN FieldType : RowCalcs(d, o).row[k] = o[k]
    BY RowCalcsKeep DEF PlainRow
  <2>. QED  BY <2>1, <2>2, <2>3 DEF FromAsked
<1>. QED  BY <1>2, <1>4, <1>6, <1>7

LEMMA TotalsInvIsInductive ==
  ASSUME QuestionsAreAdditive PROVE TotalsInv /\ [Next]_vars => TotalsInv'
<1>. SUFFICES ASSUME TotalsInv, [Next]_vars PROVE TotalsInv'
  OBVIOUS
<1>1. \A o \in Asked : PlainRow(o)
  BY DEF QuestionsAreAdditive, Asked
<1>2. CASE Filter
  <2>1. FilterRows(def, data) \in Seq(Asked)
    <3>1. PICK T : T = {row \in ToSet(data) : Selected(def, row)}
      OBVIOUS
    <3>2. data \in Seq(Asked) /\ \A e \in Asked : e \in T => e \in Asked
      BY DEF TotalsInv
    <3>3. Among(data, T) \in Seq(Asked)
      BY <3>2, AmongType
    <3>. QED  BY <3>1, <3>3 DEF FilterRows
  <2>. QED  BY <1>2, <2>1 DEF Filter, TotalsInv
<1>3. CASE Calculate
  <2>1. PICK made : made = [i \in DOMAIN rows |-> RowCalcs(def, rows[i])]
    OBVIOUS
  <2>2. CASE Thrown(made)
    BY <1>3, <2>1, <2>2 DEF Calculate, KeepRows, TotalsInv
  <2>3. CASE ~Thrown(made)
    <3>1. rows' = RowsOf(made) /\ stage' = "group" /\ UNCHANGED <<data, def>>
      BY <1>3, <2>1, <2>3 DEF Calculate, KeepRows
    <3>2. RowsOf(made) \in Seq(ToSet(RowsOf(made))) /\ \A r \in ToSet(RowsOf(made)) : FromAsked(r)
      BY <1>1, <1>3, <2>1, CalculatedRows DEF TotalsInv, Calculate
    <3>. QED  BY <3>1, <3>2 DEF TotalsInv
  <2>. QED  BY <2>2, <2>3
<1>4. CASE Group
  BY <1>4 DEF Group, TotalsInv
<1>5. CASE AggregateRows
  BY <1>5 DEF AggregateRows, KeepResult, TotalsInv
<1>6. CASE Sort \/ Cut
  BY <1>6 DEF Sort, Cut, TotalsInv
<1>7. ASSUME NEW i \in DOMAIN groups, Click(i) PROVE TotalsInv'
  <2>1. def' = BuildDrilldownDefinition(def, groups[i]) /\ stage' = "filter" /\ data' = data
    BY <1>7 DEF Click
  <2>2. PICK e : e = BuildDrilldownDefinition(def, groups[i])
    OBVIOUS
  <2>3. Additive(e) /\ ToSet(e.groupBy) \subseteq AllDimensions
    BY <2>2, OpensAdditive DEF TotalsInv, QuestionsAreAdditive
  <2>. QED  BY <2>1, <2>2, <2>3 DEF TotalsInv
<1>8. CASE UNCHANGED vars
  BY <1>8 DEF vars, TotalsInv
<1>. QED  BY <1>2, <1>3, <1>4, <1>5, <1>6, <1>7, <1>8 DEF Next

LEMMA TotalsFollow ==
  ASSUME QuestionsAreAdditive PROVE TotalsInv => TotalsAddUp
<1>. SUFFICES ASSUME TotalsInv, stage = "sort", def.groupBy # << >>
              PROVE  /\ GroupsAreUniform
                     /\ \A m \in ToSet(def.metrics) : m.aggregation \in {"count", "sum"} =>
                          SumOf([i \in DOMAIN out |-> out[i][m.alias]]) = Whole[m.alias]
  BY DEF TotalsAddUp
<1>1. PICK R : R = ToSet(rows)
  OBVIOUS
<1>2. /\ Additive(def) /\ rows \in Seq(R) /\ buckets = Buckets(def, rows)
      /\ out = RowsOf(OutRows(def, rows, buckets)) /\ \A r \in R : FromAsked(r)
  BY <1>1 DEF TotalsInv
<1>3. PICK bs \in Seq([key : {KeyOf(def, r) : r \in R}, rows : Seq(R)]) : bs = buckets
  BY <1>2, BucketsHold
<1>4. PICK n \in Nat : n = Len(bs) /\ DOMAIN bs = 1..n
  OBVIOUS
<1>5. Uniform(def, bs)
  BY <1>2, <1>3, BucketsHold
<1>6. ASSUME NEW r \in R
      PROVE  /\ \A k \in DOMAIN FieldType : FieldType[k] = "number" => r[k] \in Amounts
             /\ \A j \in DOMAIN def.groupBy :
                  BucketValue(r[def.groupBy[j].field], def.groupBy[j]) # NullText
  <2>1. PICK o \in Asked : \A k \in DOMAIN FieldType : r[k] = o[k]
    BY <1>2 DEF FromAsked
  <2>2. PlainRow(o)
    BY DEF QuestionsAreAdditive, Asked
  <2>3. ASSUME NEW g \in ToSet(def.groupBy) PROVE BucketValue(r[g.field], g) # NullText
    <3>1. g.field \in DOMAIN FieldType
      BY <1>2 DEF Additive
    <3>2. g \in UNION {ToSet(d.groupBy) : d \in Definition}
      BY DEF TotalsInv, AllDimensions
    <3>3. BucketValue(o[g.field], g) # NullText
      BY <2>2, <3>2 DEF PlainRow
    <3>. QED  BY <2>1, <3>1, <3>3
  <2>4. \A j \in DOMAIN def.groupBy : def.groupBy[j] \in ToSet(def.groupBy)
    BY DEF ToSet
  <2>. QED  BY <2>1, <2>2, <2>3, <2>4 DEF PlainRow
<1>7. ASSUME NEW i \in 1..n
      PROVE  /\ bs[i].rows \in Seq(R) /\ 1 \in 1..Len(bs[i].rows)
             /\ \A j \in 1..Len(bs[i].rows) : bs[i].rows[j] \in R /\ KeyOf(def, bs[i].rows[j]) = bs[i].key
  <2>1. PICK r \in Seq(R) : r = bs[i].rows
    BY <1>4, BucketRows
  <2>2. r # << >> /\ \A j \in 1..Len(r) : KeyOf(def, r[j]) = bs[i].key
    BY <1>4, <1>5, <2>1 DEF Uniform
  <2>3. 1 \in 1..Len(r) /\ \A j \in 1..Len(r) : r[j] \in R
    BY <2>2
  <2>. QED  BY <2>1, <2>2, <2>3
<1>8. GroupsAreUniform
  <2>. SUFFICES ASSUME NEW i \in 1..n, NEW j \in DOMAIN bs[i].rows
                PROVE  DimensionsRow(def, bs[i].rows[j]) = DimensionsRow(def, bs[i].rows[1])
    BY <1>3, <1>4 DEF GroupsAreUniform
  <2>1. j \in 1..Len(bs[i].rows)
    BY <1>7
  <2>2. PICK r, s \in R : r = bs[i].rows[j] /\ s = bs[i].rows[1] /\ KeyOf(def, r) = KeyOf(def, s)
    BY <1>7, <2>1
  <2>3. def.groupBy \in Seq(ToSet(def.groupBy))
    BY <1>2 DEF Additive
  <2>4. DimensionsRow(def, r) = DimensionsRow(def, s)
    BY <1>6, <2>2, <2>3, DimensionsAre
  <2>. QED  BY <2>2, <2>4
<1>9. ASSUME NEW m \in ToSet(def.metrics), m.aggregation \in {"count", "sum"}
      PROVE  SumOf([i \in DOMAIN out |-> out[i][m.alias]]) = Whole[m.alias]
  <2>1. Adds(m)
    BY <1>9 DEF Adds
  <2>2. ASSUME NEW r \in R PROVE Addable(m, r)
    <3>1. m.field = "*" \/ m.field \in DOMAIN FieldType
      BY <1>2 DEF Additive
    <3>2. CASE m.field = "*"
      <4>1. <<1, 1>> \in Fractions
        BY WholeIsFraction
      <4>. QED  BY <3>2, <4>1 DEF Addable, ValueOf, Amounts
    <3>3. CASE m.field # "*"
      BY <1>6, <3>1, <3>3 DEF Addable, ValueOf, Numeral
    <3>. QED  BY <3>2, <3>3
  <2>3. SumOf(MetricOf(m, bs)) = ComputeMetric(m, rows)
    BY <1>2, <1>3, <2>1, <2>2, BucketsHold
  <2>4. Whole[m.alias] = ComputeMetric(m, rows)
    BY <1>2, MetricsRowIs DEF Whole, Additive
  <2>5. PICK made : made = [i \in 1..n |-> GroupRow(def, bs[i])]
    OBVIOUS
  <2>6. OutRows(def, rows, buckets) = made
    BY <1>3, <1>4, <2>5 DEF OutRows
  <2>7. out = [i \in 1..n |-> GroupRow(def, bs[i]).row]
    BY <1>2, <2>5, <2>6 DEF RowsOf
  <2>8. \A i \in 1..n : GroupRow(def, bs[i]).row[m.alias] = ComputeMetric(m, bs[i].rows)
    BY <1>2, GroupRowShows
  <2>9. [i \in DOMAIN out |-> out[i][m.alias]] = MetricOf(m, bs)
    BY <1>4, <2>7, <2>8 DEF MetricOf
  <2>. QED  BY <2>3, <2>4, <2>9
<1>. QED  BY <1>8, <1>9

\* Whatever the rows, every row of a grouped report is counted once and under its own
\* values, so that counts and sums of the groups add up to those of the whole: for reports
\* that name every total apart, and rows without a text that reads "null" (runQuery,
\* engine.ts).
THEOREM TotalsAddUpHolds == ASSUME QuestionsAreAdditive PROVE Spec => []TotalsAddUp
<1>1. Init => TotalsInv
  <2>. SUFFICES ASSUME Init PROVE TotalsInv
    OBVIOUS
  <2>1. PICK q \in Question : def = q[1] /\ data = q[2]
    BY DEF Init
  <2>2. def \in Definition /\ Additive(def) /\ data \in Seq(ToSet(data))
    BY <2>1, QuestionAssumption DEF QuestionsAreAdditive
  <2>3. ToSet(data) \subseteq Asked
    BY <2>1 DEF Asked
  <2>4. data \in Seq(Asked)
    <3>1. PICK T : T = ToSet(data) /\ T \subseteq Asked
      BY <2>3
    <3>2. PICK s \in Seq(T) : s = data
      BY <2>2, <3>1
    <3>3. s \in Seq(Asked)
      BY <3>1
    <3>. QED  BY <3>2, <3>3
  <2>5. ToSet(def.groupBy) \subseteq AllDimensions
    BY <2>2 DEF AllDimensions
  <2>6. stage = "filter"
    BY DEF Init
  <2>. QED  BY <2>2, <2>4, <2>5, <2>6 DEF TotalsInv
<1>. QED  BY <1>1, TotalsInvIsInductive, TotalsFollow, PTL DEF Spec

-----------------------------------------------------------------------------
(* The two engines. *)

\* A month that has the day is counted to alike.
LEMMA TokensResolveAlike ==
  ASSUME Today \in Date, NEW dv, MonthHasTheDay(dv)
  PROVE  ResolveDynamicToken(dv) = ResolveDynamicValue(dv)
<1>1. PICK y \in Nat, m \in 1..12, d \in 1..31 : TokenDate(dv.token) = <<y, m, d>>
  <2>1. Today[1] \in Nat /\ Today[2] \in 1..12 /\ Today = <<Today[1], Today[2], Today[3]>> /\ Today[3] \in 1..31
    BY DEF Date
  <2>. QED  BY <2>1 DEF TokenDate
<1>2. PICK k \in Int : k = 12 * y + m - 1 + dv.offsetMonths
  BY DEF MonthHasTheDay
<1>3. PICK q \in Int, r \in 1..12 : q = k \div 12 /\ r = (k % 12) + 1
  OBVIOUS
<1>4. MonthsFrom(<<y, m, d>>, dv.offsetMonths) = <<q, r>>
  BY <1>2, <1>3 DEF MonthsFrom
<1>5. dv.offsetDays \in Int /\ d <= MonthLength(q, r)
  BY <1>1, <1>4 DEF MonthHasTheDay
<1>6. \A x \in Int : DayNumber(<<q, r, x>>) = DaysBeforeYear(q) + DaysBeforeMonth(r, IsLeap(q)) + x - 1
  BY DEF DayNumber
<1>7. DaysBeforeYear(q) \in Int
  BY DEF DaysBeforeYear
<1>8. DaysBeforeMonth(r, IsLeap(q)) \in Int
  BY DEF DaysBeforeMonth
<1>9. DayNumber(<<q, r, 1>>) + d - 1 + dv.offsetDays = DayNumber(<<q, r, d>>) + dv.offsetDays
  BY <1>5, <1>6, <1>7, <1>8
<1>10. ResolveDynamicValue(dv) = DateOf(DayNumber(<<q, r, 1>>) + d - 1 + dv.offsetDays)
  BY <1>1, <1>4 DEF ResolveDynamicValue
<1>11. MonthLength(q, r) \in Int
  BY DEF MonthLength
<1>12. (IF d < MonthLength(q, r) THEN d ELSE MonthLength(q, r)) = d
  BY <1>5, <1>11
<1>13. ResolveDynamicToken(dv) = DateOf(DayNumber(<<q, r, d>>) + dv.offsetDays)
  BY <1>1, <1>4, <1>12 DEF ResolveDynamicToken
<1>. QED  BY <1>9, <1>10, <1>13

\* Two numbers, and two texts of which one reads as no number, compare alike.
Likewise(a, b) ==
  /\ (CompareLess(a, b) <=> JsLess(a, b)) /\ (CompareLess(b, a) <=> JsLess(b, a))
  /\ (CompareAtMost(a, b) <=> JsAtMost(a, b)) /\ (CompareAtMost(b, a) <=> JsAtMost(b, a))
  /\ (CellEquals(a, b) <=> a = b)

LEMMA NumbersCompareAlike ==
  ASSUME {NULL, NaN} \cap Fractions = {}, NEW a \in Fractions, NEW b \in Fractions
  PROVE  Likewise(a, b)
<1>1. ASSUME NEW v \in Fractions
      PROVE  IsNumber(v) /\ ~IsString(v) /\ TryToDouble(v) = v /\ Coerced(v) = v /\ v # NULL /\ v # NaN
  <2>1. v \in Int \X (Nat \ {0})
    BY DEF Fractions
  <2>2. v \in Int \X Int
    BY <2>1
  <2>3. IsNumber(v) /\ v # NULL /\ v # NaN
    BY <2>2 DEF IsNumber
  <2>. QED  BY <2>3 DEF IsString, TryToDouble, Coerced
<1>2. ASSUME NEW x \in Fractions, NEW y \in Fractions
      PROVE  /\ CompareLess(x, y) <=> JsLess(x, y)
             /\ CompareAtMost(x, y) <=> JsAtMost(x, y)
             /\ CellEquals(x, y) <=> x = y
  <2>1. BothNumbers(x, y) /\ CompareLess(x, y) = FractionLess(x, y) /\ (CellEquals(x, y) <=> x = y)
    BY <1>1 DEF BothNumbers, CompareLess, CellEquals
  <2>2. /\ JsLess(x, y) <=> FractionLess(x, y)
        /\ JsAtMost(x, y) <=> JsLess(x, y) \/ x = y
    BY <1>1 DEF JsLess, JsAtMost
  <2>. QED  BY <2>1, <2>2 DEF CompareAtMost
<1>. QED  BY <1>2 DEF Likewise

LEMMA TextsCompareAlike ==
  ASSUME NEW a, NEW b, IsString(a), IsString(b), b \notin DOMAIN ServerNumerals
  PROVE  Likewise(a, b)
<1>1. /\ a # NULL /\ b # NULL /\ ~IsNumber(a) /\ ~IsNumber(b)
  BY DEF IsString
<1>2. ~BothNumbers(a, b) /\ ~BothNumbers(b, a)
  BY <1>1 DEF BothNumbers, TryToDouble
<1>3. /\ CompareLess(a, b) = LexLess(a, b) /\ CompareLess(b, a) = LexLess(b, a)
      /\ CellEquals(a, b) = (a = b) /\ CellEquals(b, a) = (b = a)
  BY <1>1, <1>2 DEF CompareLess, CellEquals, OrdinalLess
<1>4. /\ JsLess(a, b) = LexLess(a, b) /\ JsLess(b, a) = LexLess(b, a)
      /\ JsAtMost(a, b) <=> LexLess(a, b) \/ a = b
      /\ JsAtMost(b, a) <=> LexLess(b, a) \/ b = a
  BY DEF JsLess, JsAtMost
<1>. QED  BY <1>3, <1>4 DEF Likewise, CompareAtMost

\* A filter that both engines read holds of a row at both or at neither.
LEMMA FilterAlike ==
  ASSUME {NULL, NaN} \cap Fractions = {}, NEW f, SharedFilter(f), NEW row, TypedRow(row)
  PROVE  ServerApplyOperator(f, row[f.field], ResolveFilterValue(f))
           <=> ApplyOperator(f, row[f.field], ResolveFilterValue(f))
<1>1. PICK cell, value, value2 : cell = row[f.field] /\ value = ResolveFilterValue(f) /\ value2 = f.value2
  OBVIOUS
<1>2. ASSUME NEW v, OfItsType(f, v), cell # NULL PROVE Likewise(cell, v) /\ v # NULL
  <2>1. f.field \in DOMAIN FieldType
    BY DEF SharedFilter
  <2>2. CASE FieldType[f.field] = "number"
    <3>1. cell \in Fractions /\ v \in Fractions
      BY <1>1, <1>2, <2>1, <2>2 DEF TypedRow, OfItsType
    <3>. QED  BY <3>1, NumbersCompareAlike
  <2>3. CASE FieldType[f.field] # "number"
    <3>1. IsString(cell) /\ IsString(v) /\ v \notin DOMAIN ServerNumerals
      BY <1>1, <1>2, <2>1, <2>3 DEF TypedRow, OfItsType
    <3>. QED  BY <3>1, TextsCompareAlike DEF IsString
  <2>. QED  BY <2>2, <2>3
<1>3. CASE f.operator \in {"isNull", "isNotNull"} \/ cell = NULL
  BY <1>1, <1>3 DEF ServerApplyOperator, ApplyOperator
<1>4. CASE f.operator \notin {"isNull", "isNotNull"} /\ cell # NULL
  <2>1. Likewise(cell, value) /\ value # NULL /\ TextOfValue(value) = value
    BY <1>1, <1>2, <1>4 DEF SharedFilter, TextOfValue
  <2>2. f.operator \in {"between", "notBetween"} => Likewise(cell, value2)
    BY <1>1, <1>2, <1>4 DEF SharedFilter
  <2>3. f.operator \notin {"in", "notIn"}
    BY DEF SharedFilter
  <2>4. CASE f.operator \in {"eq", "neq", "gt", "gte", "lt", "lte"}
    BY <1>1, <1>4, <2>1, <2>4 DEF ServerApplyOperator, ApplyOperator, Likewise
  <2>5. CASE f.operator \in {"between", "notBetween"}
    BY <1>1, <1>4, <2>1, <2>2, <2>5 DEF ServerApplyOperator, ApplyOperator, Likewise
  <2>6. CASE f.operator \notin {"eq", "neq", "gt", "gte", "lt", "lte", "between", "notBetween"}
    BY <1>1, <1>4, <2>1, <2>3, <2>6 DEF ServerApplyOperator, ApplyOperator
  <2>. QED  BY <2>4, <2>5, <2>6
<1>. QED  BY <1>3, <1>4

\* The flat filters that both engines read keep the same rows.
LEMMA FiltersAlike ==
  ASSUME Today \in Date, {NULL, NaN} \cap Fractions = {}, NEW d, Portable(d), d.filterGroup = NULL,
         \A f \in ToSet(d.filters) : SharedFilter(f), NEW dt, \A r \in ToSet(dt) : TypedRow(r)
  PROVE  ServerFilterRows(d, dt) = FilterRows(d, dt)
<1>1. ASSUME NEW row \in ToSet(dt), NEW f \in ToSet(d.filters)
      PROVE  ServerMatchesFilter(row, f) <=> MatchesFilter(row, f)
  <2>1. PICK value : value = ResolveFilterValue(f)
    OBVIOUS
  <2>2. (IF f.dynamic = NULL THEN f.value ELSE ResolveDynamicToken(f.dynamic)) = value
    BY <2>1, TokensResolveAlike DEF ResolveFilterValue, Portable
  <2>3. ServerApplyOperator(f, row[f.field], value) <=> ApplyOperator(f, row[f.field], value)
    BY <2>1, FilterAlike
  <2>. QED  BY <2>1, <2>2, <2>3 DEF ServerMatchesFilter, MatchesFilter
<1>2. \A i \in DOMAIN d.filters : d.filters[i] \in ToSet(d.filters)
  BY DEF ToSet
<1>3. {row \in ToSet(dt) : \A i \in DOMAIN d.filters : ServerMatchesFilter(row, d.filters[i])}
        = {row \in ToSet(dt) : Selected(d, row)}
  BY <1>1, <1>2 DEF Selected
<1>. QED  BY <1>3 DEF ServerFilterRows, FilterRows

\* What is kept when nothing is left out, or everything.
LEMMA AmongNothing ==
  ASSUME NEW S, NEW s \in Seq(S), NEW T, \A e \in S : e \notin T
  PROVE  Among(s, T) = << >>
<1>1. \A e \in S : e \in T => e \in {}
  OBVIOUS
<1>2. PICK t \in Seq({}) : t = Among(s, T)
  BY <1>1, AmongType
<1>. QED  BY <1>2

LEMMA AmongAll ==
  ASSUME NEW S, NEW s \in Seq(S), NEW T, \A i \in 1..Len(s) : s[i] \in T
  PROVE  Among(s, T) = s
<1>0. \A e \in S : e \in T => e \in S
  OBVIOUS
<1>1. PICK f :
        /\ \A i \in 0..Len(s) : f[i] \in Seq(S)
        /\ Keeping(f, s, T)
        /\ Among(s, T) = f[Len(s)]
  BY <1>0, AmongSequence
<1>2. PICK n \in Nat : n = Len(s)
  OBVIOUS
<1>. DEFINE g == [i \in 0..n |-> SubSeq(s, 1, i)]
<1>3. f[0] = g[0]
  <2>1. SubSeq(s, 1, 0) = << >>
    OBVIOUS
  <2>2. 0 \in 0..n
    OBVIOUS
  <2>. QED  BY <1>1, <2>1, <2>2 DEF Keeping
<1>4. \A i \in 1..n : f[i - 1] = g[i - 1] => f[i] = g[i]
  <2>. SUFFICES ASSUME NEW i \in 1..n, f[i - 1] = g[i - 1] PROVE f[i] = g[i]
    OBVIOUS
  <2>1. PICK j \in Nat : j = i - 1 /\ j + 1 = i /\ j + 1 <= n /\ j \in 0..n /\ i \in 0..n
    OBVIOUS
  <2>2. SubSeq(s, 1, j + 1) = Append(SubSeq(s, 1, j), s[j + 1])
    BY <1>2, <2>1, PrefixOneMore
  <2>3. f[i] = Append(f[i - 1], s[i])
    BY <1>1, <1>2 DEF Keeping
  <2>. QED  BY <2>1, <2>2, <2>3
<1>. HIDE DEF g
<1>5. f[n] = g[n]
  BY <1>3, <1>4, SameIteration, Zenon
<1>6. g[n] = SubSeq(s, 1, n)
  BY DEF g
<1>7. SubSeq(s, 1, n) = s
  BY <1>2
<1>. QED  BY <1>1, <1>2, <1>5, <1>6, <1>7

\* Sequences of whatever elements.
IsSequence(s) == \E V : s \in Seq(V)

LEMMA AppendedIsSequence ==
  ASSUME NEW s, IsSequence(s), NEW x
  PROVE  IsSequence(Append(s, x)) /\ Len(s) \in Nat /\ Len(Append(s, x)) = Len(s) + 1
<1>1. PICK V : s \in Seq(V)
  BY DEF IsSequence
<1>2. PICK W : W = V \cup {x}
  OBVIOUS
<1>3. s \in Seq(W) /\ x \in W
  BY <1>1, <1>2
<1>4. Append(s, x) \in Seq(W) /\ Len(Append(s, x)) = Len(s) + 1
  BY <1>3, AppendIsSequence
<1>. QED  BY <1>3, <1>4 DEF IsSequence

LEMMA BelowIsSequence ==
  ASSUME NEW s, IsSequence(s), NEW n \in Nat, n <= Len(s)
  PROVE  IsSequence(Below(s, n)) /\ Len(Below(s, n)) = Len(s) - n
<1>1. PICK V : s \in Seq(V)
  BY DEF IsSequence
<1>2. PICK l \in Nat : l = Len(s) /\ l - n \in Nat
  BY <1>1
<1>3. Below(s, n) = SubSeq(s, 1, l - n)
  BY <1>2 DEF Below
<1>4. SubSeq(s, 1, l - n) \in Seq(V) /\ Len(SubSeq(s, 1, l - n)) = l - n
  BY <1>1, <1>2
<1>. QED  BY <1>2, <1>3, <1>4 DEF IsSequence

\* Machines of the two engines that have done the same, with k numbers on the stack.
Alike(ran, other, k) ==
  /\ ran = [stack |-> ran.stack, hadDiv |-> ran.hadDiv]
  /\ other = [stack |-> ran.stack, hadDiv |-> ran.hadDiv, fault |-> FALSE]
  /\ IsSequence(ran.stack) /\ Len(ran.stack) = k /\ ran.hadDiv \in BOOLEAN

LEMMA StepAlike ==
  ASSUME NEW k \in Nat, NEW ran, NEW other, Alike(ran, other, k), NEW token,
         token.kind \notin {"id", "open"}, token.kind = "num" \/ token.name \notin {"round", "ratio"},
         Needs(token) <= k
  PROVE  Alike(RunToken(ran, token), ServerRunToken(other, token), k + 1 - Needs(token))
<1>1. PICK stack, hadDiv :
        /\ ran = [stack |-> stack, hadDiv |-> hadDiv]
        /\ other = [stack |-> stack, hadDiv |-> hadDiv, fault |-> FALSE]
        /\ IsSequence(stack) /\ Len(stack) = k /\ hadDiv \in BOOLEAN
  BY DEF Alike
<1>2. ~(token.kind = "open" \/ Len(other.stack) < Needs(token))
  <2>1. Needs(token) \in Nat
    BY DEF Needs
  <2>. QED  BY <1>1, <2>1
<1>3. ASSUME NEW rest, NEW x, NEW div \in BOOLEAN, IsSequence(rest),
             Len(rest) = k - Needs(token),
             RunToken(ran, token) = [stack |-> Append(rest, x), hadDiv |-> div],
             ServerRunToken(other, token) = [stack |-> Append(rest, x), hadDiv |-> div, fault |-> FALSE]
      PROVE  Alike(RunToken(ran, token), ServerRunToken(other, token), k + 1 - Needs(token))
  <2>1. Needs(token) \in Nat
    BY DEF Needs
  <2>2. IsSequence(Append(rest, x)) /\ Len(Append(rest, x)) = k + 1 - Needs(token)
    BY <1>3, <2>1, AppendedIsSequence
  <2>. QED  BY <1>3, <2>2 DEF Alike
<1>4. CASE token.kind = "num"
  <2>1. Needs(token) = 0
    BY <1>4 DEF Needs
  <2>2. RunToken(ran, token) = [stack |-> Append(stack, token.value), hadDiv |-> hadDiv]
    BY <1>1, <1>4 DEF RunToken
  <2>3. ServerRunToken(other, token) = [stack |-> Append(stack, token.value), hadDiv |-> hadDiv, fault |-> FALSE]
    BY <1>1, <1>2, <1>4 DEF ServerRunToken
  <2>4. Len(stack) = k - Needs(token)
    BY <1>1, <2>1
  <2>. QED  BY <1>1, <1>3, <2>2, <2>3, <2>4
<1>5. CASE token.kind = "fn"
  <2>1. PICK n \in {1, 2} : n = Needs(token) /\ (n = 1 <=> token.name = "abs")
    BY <1>5 DEF Needs
  <2>2. PICK rest, x : rest = Below(stack, n) /\ ApplyFunction(token.name, stack) = Append(rest, x)
    BY <1>5, <2>1 DEF ApplyFunction
  <2>3. RunToken(ran, token) = [stack |-> Append(rest, x), hadDiv |-> hadDiv]
    BY <1>1, <1>5, <2>2 DEF RunToken
  <2>4. ServerRunToken(other, token) = [stack |-> Append(rest, x), hadDiv |-> hadDiv, fault |-> FALSE]
    BY <1>1, <1>2, <1>5, <2>2 DEF ServerRunToken
  <2>5. IsSequence(rest) /\ Len(rest) = k - Needs(token)
    BY <1>1, <2>1, <2>2, BelowIsSequence
  <2>. QED  BY <1>1, <1>3, <2>3, <2>4, <2>5
<1>6. CASE token.kind \notin {"num", "fn"}
  <2>1. Needs(token) = 2
    BY <1>6 DEF Needs
  <2>2. PICK rest, x, div :
          /\ rest = Below(stack, 2) /\ x = ApplyBinary(token.name, Top(stack, 2), Top(stack, 1))
          /\ div \in BOOLEAN /\ div = (hadDiv \/ token.name \in {"/", "%"})
    OBVIOUS
  <2>3. RunToken(ran, token) = [stack |-> Append(rest, x), hadDiv |-> div]
    BY <1>1, <1>6, <2>2 DEF RunToken
  <2>4. ServerRunToken(other, token) = [stack |-> Append(rest, x), hadDiv |-> div, fault |-> FALSE]
    BY <1>1, <1>2, <1>6, <2>2 DEF ServerRunToken
  <2>5. IsSequence(rest) /\ Len(rest) = k - Needs(token)
    BY <1>1, <2>1, <2>2, BelowIsSequence
  <2>. QED  BY <1>3, <2>2, <2>3, <2>4, <2>5
<1>. QED  BY <1>4, <1>5, <1>6

\* What is computed along a sequence, step by step.
LEMMA OneMoreStep ==
  ASSUME NEW f, NEW m \in Nat, NEW x
  PROVE  \E g : g[m + 1] = x /\ \A i \in 0..m : g[i] = f[i]
<1>1. PICK g : g = [i \in 0..(m + 1) |-> IF i = m + 1 THEN x ELSE f[i]]
  OBVIOUS
<1>2. m + 1 \in 0..(m + 1) /\ \A i \in 0..m : i \in 0..(m + 1) /\ i # m + 1
  OBVIOUS
<1>. QED  BY <1>1, <1>2

Running(f, post) ==
  f[0] = [stack |-> << >>, hadDiv |-> FALSE] /\ \A i \in 1..Len(post) : f[i] = RunToken(f[i - 1], post[i])

LEMMA RunIs ==
  ASSUME NEW V, NEW post \in Seq(V)
  PROVE  \E f : Running(f, post) /\ Run(post) = f[Len(post)]
<1>1. PICK n \in Nat : n = Len(post)
  OBVIOUS
<1>. DEFINE start == [stack |-> << >>, hadDiv |-> FALSE]
            steps(f, m) == f[0] = start /\ \A i \in 1..m : f[i] = RunToken(f[i - 1], post[i])
            whole(f) == f = [i \in 0..n |-> IF i = 0 THEN start ELSE RunToken(f[i - 1], post[i])]
            T == {m \in Nat : \E f : steps(f, m)}
<1>. HIDE DEF start
<1>2. 0 \in T
  <2>1. steps([i \in {0} |-> start], 0)
    OBVIOUS
  <2>. QED  BY <2>1
<1>3. ASSUME NEW m \in Nat, m \in T PROVE m + 1 \in T
  <2>1. PICK f : steps(f, m)
    BY <1>3
  <2>2. PICK g : g[m + 1] = RunToken(f[m], post[m + 1]) /\ \A i \in 0..m : g[i] = f[i]
    BY OneMoreStep
  <2>3. steps(g, m + 1)
    <3>1. g[0] = start
      <4>1. 0 \in 0..m
        OBVIOUS
      <4>. QED  BY <2>1, <2>2, <4>1
    <3>2. ASSUME NEW i \in 1..m PROVE g[i] = RunToken(g[i - 1], post[i])
      <4>1. i \in 0..m /\ i - 1 \in 0..m
        OBVIOUS
      <4>2. f[i] = RunToken(f[i - 1], post[i])
        BY <2>1
      <4>. QED  BY <2>2, <4>1, <4>2
    <3>3. g[m + 1] = RunToken(g[(m + 1) - 1], post[m + 1])
      <4>1. m \in 0..m /\ (m + 1) - 1 = m
        OBVIOUS
      <4>. QED  BY <2>2, <4>1
    <3>4. \A i \in 1..(m + 1) : i = m + 1 \/ i \in 1..m
      OBVIOUS
    <3>. QED  BY <3>1, <3>2, <3>3, <3>4
  <2>. QED  BY <2>3
<1>4. n \in T
  <2>. HIDE DEF T
  <2>. QED  BY <1>2, <1>3, Induction
<1>5. \E f : whole(f)
  <2>1. PICK f : steps(f, n)
    BY <1>4
  <2>2. PICK g : g = [i \in 0..n |-> f[i]]
    OBVIOUS
  <2>3. \A i \in 0..n : f[i] = IF i = 0 THEN start ELSE RunToken(g[i - 1], post[i])
    <3>1. \A i \in 0..n : i = 0 \/ (i \in 1..n /\ i - 1 \in 0..n /\ i # 0)
      OBVIOUS
    <3>. QED  BY <2>1, <2>2, <3>1
  <2>. QED  BY <2>2, <2>3
<1>6. PICK h : h = CHOOSE f : whole(f)
  OBVIOUS
<1>7. whole(h)
  <2>. HIDE DEF whole
  <2>. QED  BY <1>5, <1>6
<1>8. h[0] = start /\ \A i \in 1..n : h[i] = RunToken(h[i - 1], post[i])
  <2>1. \A i \in 0..n : h[i] = IF i = 0 THEN start ELSE RunToken(h[i - 1], post[i])
    BY <1>7
  <2>2. 0 \in 0..n /\ \A i \in 1..n : i \in 0..n /\ i # 0
    OBVIOUS
  <2>. QED  BY <2>1, <2>2
<1>9. Run(post) = h[n]
  BY <1>1, <1>6 DEF Run, start
<1>. QED  BY <1>1, <1>8, <1>9 DEF start, Running

ServerRunning(f, post) ==
  /\ f[0] = [stack |-> << >>, hadDiv |-> FALSE, fault |-> FALSE]
  /\ \A i \in 1..Len(post) : f[i] = ServerRunToken(f[i - 1], post[i])

LEMMA ServerRunIs ==
  ASSUME NEW V, NEW post \in Seq(V)
  PROVE  \E f : ServerRunning(f, post) /\ ServerRun(post) = f[Len(post)]
<1>1. PICK n \in Nat : n = Len(post)
  OBVIOUS
<1>. DEFINE start == [stack |-> << >>, hadDiv |-> FALSE, fault |-> FALSE]
            steps(f, m) == f[0] = start /\ \A i \in 1..m : f[i] = ServerRunToken(f[i - 1], post[i])
            whole(f) == f = [i \in 0..n |-> IF i = 0 THEN start ELSE ServerRunToken(f[i - 1], post[i])]
            T == {m \in Nat : \E f : steps(f, m)}
<1>. HIDE DEF start
<1>2. 0 \in T
  <2>1. steps([i \in {0} |-> start], 0)
    OBVIOUS
  <2>. QED  BY <2>1
<1>3. ASSUME NEW m \in Nat, m \in T PROVE m + 1 \in T
  <2>1. PICK f : steps(f, m)
    BY <1>3
  <2>2. PICK g : g[m + 1] = ServerRunToken(f[m], post[m + 1]) /\ \A i \in 0..m : g[i] = f[i]
    BY OneMoreStep
  <2>3. steps(g, m + 1)
    <3>1. g[0] = start
      <4>1. 0 \in 0..m
        OBVIOUS
      <4>. QED  BY <2>1, <2>2, <4>1
    <3>2. ASSUME NEW i \in 1..m PROVE g[i] = ServerRunToken(g[i - 1], post[i])
      <4>1. i \in 0..m /\ i - 1 \in 0..m
        OBVIOUS
      <4>2. f[i] = ServerRunToken(f[i - 1], post[i])
        BY <2>1
      <4>. QED  BY <2>2, <4>1, <4>2
    <3>3. g[m + 1] = ServerRunToken(g[(m + 1) - 1], post[m + 1])
      <4>1. m \in 0..m /\ (m + 1) - 1 = m
        OBVIOUS
      <4>. QED  BY <2>2, <4>1
    <3>4. \A i \in 1..(m + 1) : i = m + 1 \/ i \in 1..m
      OBVIOUS
    <3>. QED  BY <3>1, <3>2, <3>3, <3>4
  <2>. QED  BY <2>3
<1>4. n \in T
  <2>. HIDE DEF T
  <2>. QED  BY <1>2, <1>3, Induction
<1>5. \E f : whole(f)
  <2>1. PICK f : steps(f, n)
    BY <1>4
  <2>2. PICK g : g = [i \in 0..n |-> f[i]]
    OBVIOUS
  <2>3. \A i \in 0..n : f[i] = IF i = 0 THEN start ELSE ServerRunToken(g[i - 1], post[i])
    <3>1. \A i \in 0..n : i = 0 \/ (i \in 1..n /\ i - 1 \in 0..n /\ i # 0)
      OBVIOUS
    <3>. QED  BY <2>1, <2>2, <3>1
  <2>. QED  BY <2>2, <2>3
<1>6. PICK h : h = CHOOSE f : whole(f)
  OBVIOUS
<1>7. whole(h)
  <2>. HIDE DEF whole
  <2>. QED  BY <1>5, <1>6
<1>8. h[0] = start /\ \A i \in 1..n : h[i] = ServerRunToken(h[i - 1], post[i])
  <2>1. \A i \in 0..n : h[i] = IF i = 0 THEN start ELSE ServerRunToken(h[i - 1], post[i])
    BY <1>7
  <2>2. 0 \in 0..n /\ \A i \in 1..n : i \in 0..n /\ i # 0
    OBVIOUS
  <2>. QED  BY <2>1, <2>2
<1>9. ServerRun(post) = h[n]
  BY <1>1, <1>6 DEF ServerRun, start
<1>. QED  BY <1>1, <1>8, <1>9 DEF start, ServerRunning

\* The yard hands out the tokens it took in.
LEMMA ReversedIsSequence ==
  ASSUME NEW T, NEW s \in Seq(T) PROVE Reverse(s) \in Seq(T)
<1>1. PICK n \in Nat : n = Len(s) /\ \A i \in 1..n : s[i] \in T
  OBVIOUS
<1>2. \A i \in 1..n : (n - i) + 1 \in 1..n
  OBVIOUS
<1>3. Reverse(s) = [i \in 1..n |-> s[(n - i) + 1]]
  BY <1>1 DEF Reverse
<1>. QED  BY <1>1, <1>2, <1>3

Yards(T) == [out : Seq(T), ops : Seq(T)]

LEMMA YardIs ==
  ASSUME NEW T, NEW given \in Seq(T), NEW ops \in Seq(T)
  PROVE  [out |-> given, ops |-> ops] \in Yards(T)
BY DEF Yards

\* Giving out the operators above a place.
LEMMA SplitIsYard ==
  ASSUME NEW T, NEW given \in Seq(T), NEW ops \in Seq(T), NEW i \in 0..Len(ops)
  PROVE  /\ given \o Reverse(SubSeq(ops, i + 1, Len(ops))) \in Seq(T)
         /\ SubSeq(ops, 1, i) \in Seq(T)
<1>1. PICK n \in Nat : n = Len(ops) /\ i \in 0..n
  OBVIOUS
<1>2. SubSeq(ops, i + 1, n) \in Seq(T) /\ SubSeq(ops, 1, i) \in Seq(T)
  BY <1>1
<1>3. PICK up \in Seq(T) : up = Reverse(SubSeq(ops, i + 1, n))
  BY <1>2, ReversedIsSequence
<1>4. given \o up \in Seq(T)
  OBVIOUS
<1>. QED  BY <1>1, <1>2, <1>3, <1>4

LEMMA LastOfSome ==
  ASSUME NEW n \in Nat, NEW P, P \subseteq 1..n
  PROVE  (IF P # {} THEN Max(P) ELSE 0) \in 0..n
<1>1. CASE P = {}
  BY <1>1
<1>2. CASE P # {}
  <2>1. PICK m \in P : m = Max(P)
    BY <1>2, LastPlace
  <2>2. m \in 1..n
    OBVIOUS
  <2>3. m \in 0..n
    BY <2>2
  <2>. QED  BY <1>2, <2>1, <2>3
<1>. QED  BY <1>1, <1>2

LEMMA PopToOpenIsYard ==
  ASSUME NEW T, NEW yard \in Yards(T) PROVE PopToOpen(yard) \in Yards(T)
<1>1. PICK given \in Seq(T), ops \in Seq(T) : given = yard.out /\ ops = yard.ops
  BY DEF Yards
<1>2. PICK n \in Nat : n = Len(ops)
  OBVIOUS
<1>3. PICK P : P = {j \in 1..n : ops[j].kind = "open"}
  OBVIOUS
<1>4. PICK i \in 0..n : i = IF P # {} THEN Max(P) ELSE 0
  BY <1>3, LastOfSome
<1>5. SelectLastInSeq(ops, LAMBDA o : o.kind = "open") = i
  BY <1>2, <1>3, <1>4 DEF SelectLastInSeq
<1>6. PopToOpen(yard) = [out |-> given \o Reverse(SubSeq(ops, i + 1, n)), ops |-> SubSeq(ops, 1, i)]
  BY <1>1, <1>2, <1>5 DEF PopToOpen
<1>. QED  BY <1>2, <1>6, SplitIsYard, YardIs

LEMMA TakeOperatorIsYard ==
  ASSUME NEW T, NEW yard \in Yards(T), NEW token \in T PROVE TakeOperator(yard, token) \in Yards(T)
<1>1. PICK given \in Seq(T), ops \in Seq(T) : given = yard.out /\ ops = yard.ops
  BY DEF Yards
<1>2. PICK n \in Nat : n = Len(ops)
  OBVIOUS
<1>. DEFINE loose(o) == o.kind # "op" \/ Precedence(o.name) < Precedence(token.name)
<1>3. PICK P : P = {j \in 1..n : loose(ops[j])}
  OBVIOUS
<1>4. PICK i \in 0..n : i = IF P # {} THEN Max(P) ELSE 0
  BY <1>3, LastOfSome
<1>5. SelectLastInSeq(ops, loose) = i
  BY <1>2, <1>3, <1>4 DEF SelectLastInSeq
<1>6. TakeOperator(yard, token)
        = [out |-> given \o Reverse(SubSeq(ops, i + 1, n)), ops |-> Append(SubSeq(ops, 1, i), token)]
  BY <1>1, <1>2, <1>5 DEF TakeOperator
<1>7. PICK low \in Seq(T) : low = SubSeq(ops, 1, i)
  BY <1>2, SplitIsYard
<1>8. Append(low, token) \in Seq(T)
  BY AppendIsSequence
<1>. QED  BY <1>2, <1>6, <1>7, <1>8, SplitIsYard, YardIs

LEMMA FrontIsSequence ==
  ASSUME NEW T, NEW s \in Seq(T), s # << >> PROVE Front(s) \in Seq(T) /\ Last(s) \in T
<1>1. PICK n \in Nat : n = Len(s) /\ n - 1 \in Nat /\ n \in 1..n
  OBVIOUS
<1>2. SubSeq(s, 1, n - 1) \in Seq(T) /\ s[n] \in T
  BY <1>1
<1>. QED  BY <1>1, <1>2 DEF Front, Last

LEMMA TakeCloseIsYard ==
  ASSUME NEW T, NEW yard \in Yards(T) PROVE TakeClose(yard) \in Yards(T)
<1>1. PICK y \in Yards(T) : y = PopToOpen(yard)
  BY PopToOpenIsYard
<1>2. PICK z \in Yards(T) : z = IF y.ops = << >> THEN y ELSE [y EXCEPT !.ops = Front(@)]
  <2>1. CASE y.ops = << >>
    BY <2>1
  <2>2. CASE y.ops # << >>
    <3>1. Front(y.ops) \in Seq(T)
      BY <2>2, FrontIsSequence DEF Yards
    <3>. QED  BY <2>2, <3>1 DEF Yards
  <2>. QED  BY <2>1, <2>2
<1>3. TakeClose(yard) = IF z.ops # << >> /\ Last(z.ops).kind = "fn" THEN PopOne(z) ELSE z
  BY <1>1, <1>2 DEF TakeClose
<1>4. ASSUME z.ops # << >> PROVE PopOne(z) \in Yards(T)
  <2>1. z.ops \in Seq(T) /\ z.out \in Seq(T)
    BY DEF Yards
  <2>2. Front(z.ops) \in Seq(T) /\ Last(z.ops) \in T
    BY <1>4, <2>1, FrontIsSequence
  <2>3. Append(z.out, Last(z.ops)) \in Seq(T)
    BY <2>1, <2>2, AppendIsSequence
  <2>. QED  BY <2>2, <2>3, YardIs DEF PopOne
<1>. QED  BY <1>3, <1>4

LEMMA OtherField ==
  ASSUME NEW a, NEW b, NEW c
  PROVE  /\ [[out |-> a, ops |-> b] EXCEPT !.out = c] = [out |-> c, ops |-> b]
         /\ [[out |-> a, ops |-> b] EXCEPT !.ops = c] = [out |-> a, ops |-> c]
OBVIOUS

LEMMA TakeTokenIsYard ==
  ASSUME NEW T, NEW yard \in Yards(T), NEW token \in T PROVE TakeToken(yard, token) \in Yards(T)
<1>1. PICK given \in Seq(T), ops \in Seq(T) : yard = [out |-> given, ops |-> ops]
  BY DEF Yards
<1>2. Emit(yard, token) = [out |-> Append(given, token), ops |-> ops]
  <2>1. Emit(yard, token) = [[out |-> given, ops |-> ops] EXCEPT !.out = Append(given, token)]
    BY <1>1 DEF Emit
  <2>. QED  BY ONLY <2>1, OtherField
<1>3. Push(yard, token) = [out |-> given, ops |-> Append(ops, token)]
  <2>1. Push(yard, token) = [[out |-> given, ops |-> ops] EXCEPT !.ops = Append(ops, token)]
    BY <1>1 DEF Push
  <2>. QED  BY ONLY <2>1, OtherField
<1>4. Emit(yard, token) \in Yards(T) /\ Push(yard, token) \in Yards(T)
  <2>1. Append(given, token) \in Seq(T) /\ Append(ops, token) \in Seq(T)
    BY AppendIsSequence
  <2>. QED  BY <1>2, <1>3, <2>1, YardIs
<1>. QED  BY <1>4, TakeCloseIsYard, PopToOpenIsYard, TakeOperatorIsYard DEF TakeToken

Parking(f, tokens) ==
  f[0] = [out |-> << >>, ops |-> << >>] /\ \A i \in 1..Len(tokens) : f[i] = TakeToken(f[i - 1], tokens[i])

LEMMA PostfixIs ==
  ASSUME NEW V, NEW tokens \in Seq(V)
  PROVE  \E f : Parking(f, tokens) /\ Postfix(tokens) = f[Len(tokens)].out \o Reverse(f[Len(tokens)].ops)
<1>1. PICK n \in Nat : n = Len(tokens)
  OBVIOUS
<1>. DEFINE start == [out |-> << >>, ops |-> << >>]
            steps(f, m) == f[0] = start /\ \A i \in 1..m : f[i] = TakeToken(f[i - 1], tokens[i])
            whole(f) == f = [i \in 0..n |-> IF i = 0 THEN start ELSE TakeToken(f[i - 1], tokens[i])]
            T == {m \in Nat : \E f : steps(f, m)}
<1>. HIDE DEF start
<1>2. 0 \in T
  <2>1. steps([i \in {0} |-> start], 0)
    OBVIOUS
  <2>. QED  BY <2>1
<1>3. ASSUME NEW m \in Nat, m \in T PROVE m + 1 \in T
  <2>1. PICK f : steps(f, m)
    BY <1>3
  <2>2. PICK g : g[m + 1] = TakeToken(f[m], tokens[m + 1]) /\ \A i \in 0..m : g[i] = f[i]
    BY OneMoreStep
  <2>3. steps(g, m + 1)
    <3>1. g[0] = start
      <4>1. 0 \in 0..m
        OBVIOUS
      <4>. QED  BY <2>1, <2>2, <4>1
    <3>2. ASSUME NEW i \in 1..m PROVE g[i] = TakeToken(g[i - 1], tokens[i])
      <4>1. i \in 0..m /\ i - 1 \in 0..m
        OBVIOUS
      <4>2. f[i] = TakeToken(f[i - 1], tokens[i])
        BY <2>1
      <4>. QED  BY <2>2, <4>1, <4>2
    <3>3. g[m + 1] = TakeToken(g[(m + 1) - 1], tokens[m + 1])
      <4>1. m \in 0..m /\ (m + 1) - 1 = m
        OBVIOUS
      <4>. QED  BY <2>2, <4>1
    <3>4. \A i \in 1..(m + 1) : i = m + 1 \/ i \in 1..m
      OBVIOUS
    <3>. QED  BY <3>1, <3>2, <3>3, <3>4
  <2>. QED  BY <2>3
<1>4. n \in T
  <2>. HIDE DEF T
  <2>. QED  BY <1>2, <1>3, Induction
<1>5. \E f : whole(f)
  <2>1. PICK f : steps(f, n)
    BY <1>4
  <2>2. PICK g : g = [i \in 0..n |-> f[i]]
    OBVIOUS
  <2>3. \A i \in 0..n : f[i] = IF i = 0 THEN start ELSE TakeToken(g[i - 1], tokens[i])
    <3>1. \A i \in 0..n : i = 0 \/ (i \in 1..n /\ i - 1 \in 0..n /\ i # 0)
      OBVIOUS
    <3>. QED  BY <2>1, <2>2, <3>1
  <2>. QED  BY <2>2, <2>3
<1>6. PICK h : h = CHOOSE f : whole(f)
  OBVIOUS
<1>7. whole(h)
  <2>. HIDE DEF whole
  <2>. QED  BY <1>5, <1>6
<1>8. h[0] = start /\ \A i \in 1..n : h[i] = TakeToken(h[i - 1], tokens[i])
  <2>1. \A i \in 0..n : h[i] = IF i = 0 THEN start ELSE TakeToken(h[i - 1], tokens[i])
    BY <1>7
  <2>2. 0 \in 0..n /\ \A i \in 1..n : i \in 0..n /\ i # 0
    OBVIOUS
  <2>. QED  BY <2>1, <2>2
<1>9. Postfix(tokens) = h[n].out \o Reverse(h[n].ops)
  BY <1>1, <1>6 DEF Postfix, start
<1>. QED  BY <1>1, <1>8, <1>9 DEF start, Parking

LEMMA PostfixTokens ==
  ASSUME NEW T, NEW tokens \in Seq(T) PROVE Postfix(tokens) \in Seq(T)
<1>1. PICK f : Parking(f, tokens) /\ Postfix(tokens) = f[Len(tokens)].out \o Reverse(f[Len(tokens)].ops)
  BY PostfixIs
<1>2. PICK n \in Nat : n = Len(tokens) /\ \A i \in 1..n : tokens[i] \in T
  OBVIOUS
<1>. DEFINE S == {m \in Nat : m <= n => f[m] \in Yards(T)}
<1>3. 0 \in S
  BY <1>1, NothingIsSequence, YardIs DEF Parking
<1>4. ASSUME NEW m \in Nat, m \in S PROVE m + 1 \in S
  <2>. SUFFICES ASSUME m + 1 <= n PROVE f[m + 1] \in Yards(T)
    OBVIOUS
  <2>1. m + 1 \in 1..n /\ (m + 1) - 1 = m /\ f[m] \in Yards(T)
    BY <1>4
  <2>2. f[m + 1] = TakeToken(f[m], tokens[m + 1]) /\ tokens[m + 1] \in T
    BY <1>1, <1>2, <2>1 DEF Parking
  <2>. QED  BY <2>1, <2>2, TakeTokenIsYard
<1>. HIDE DEF S
<1>5. n \in S
  BY <1>3, <1>4, Induction
<1>6. f[n].out \in Seq(T) /\ f[n].ops \in Seq(T)
  BY <1>5 DEF S, Yards
<1>7. PICK up \in Seq(T) : up = Reverse(f[n].ops)
  BY <1>6, ReversedIsSequence
<1>. QED  BY <1>1, <1>2, <1>6, <1>7

\* How many numbers are on the stack after each token.

Stacking(f, tokens) ==
  f[0] = 0 /\ \A i \in 1..Len(Postfix(tokens)) : f[i] = f[i - 1] + 1 - Needs(Postfix(tokens)[i])

LEMMA DepthIs ==
  ASSUME NEW V, NEW tokens, Postfix(tokens) \in Seq(V), WellFormed(tokens)
  PROVE  \E f : Stacking(f, tokens) /\ \A i \in 1..Len(Postfix(tokens)) : Needs(Postfix(tokens)[i]) <= f[i - 1]
<1>1. PICK n \in Nat : n = Len(Postfix(tokens))
  OBVIOUS
<1>. DEFINE start == 0
            steps(f, m) == f[0] = start /\ \A i \in 1..m : f[i] = f[i - 1] + 1 - Needs(Postfix(tokens)[i])
            whole(f) == f = [i \in 0..n |-> IF i = 0 THEN start ELSE f[i - 1] + 1 - Needs(Postfix(tokens)[i])]
            T == {m \in Nat : \E f : steps(f, m)}
<1>. HIDE DEF start
<1>2. 0 \in T
  <2>1. steps([i \in {0} |-> start], 0)
    OBVIOUS
  <2>. QED  BY <2>1
<1>3. ASSUME NEW m \in Nat, m \in T PROVE m + 1 \in T
  <2>1. PICK f : steps(f, m)
    BY <1>3
  <2>2. PICK g : g[m + 1] = f[m] + 1 - Needs(Postfix(tokens)[m + 1]) /\ \A i \in 0..m : g[i] = f[i]
    BY OneMoreStep
  <2>3. steps(g, m + 1)
    <3>1. g[0] = start
      <4>1. 0 \in 0..m
        OBVIOUS
      <4>. QED  BY <2>1, <2>2, <4>1
    <3>2. ASSUME NEW i \in 1..m PROVE g[i] = g[i - 1] + 1 - Needs(Postfix(tokens)[i])
      <4>1. i \in 0..m /\ i - 1 \in 0..m
        OBVIOUS
      <4>2. f[i] = f[i - 1] + 1 - Needs(Postfix(tokens)[i])
        BY <2>1
      <4>. QED  BY <2>2, <4>1, <4>2
    <3>3. g[m + 1] = g[(m + 1) - 1] + 1 - Needs(Postfix(tokens)[m + 1])
      <4>1. m \in 0..m /\ (m + 1) - 1 = m
        OBVIOUS
      <4>. QED  BY <2>2, <4>1
    <3>4. \A i \in 1..(m + 1) : i = m + 1 \/ i \in 1..m
      OBVIOUS
    <3>. QED  BY <3>1, <3>2, <3>3, <3>4
  <2>. QED  BY <2>3
<1>4. n \in T
  <2>. HIDE DEF T
  <2>. QED  BY <1>2, <1>3, Induction
<1>5. \E f : whole(f)
  <2>1. PICK f : steps(f, n)
    BY <1>4
  <2>2. PICK g : g = [i \in 0..n |-> f[i]]
    OBVIOUS
  <2>3. \A i \in 0..n : f[i] = IF i = 0 THEN start ELSE g[i - 1] + 1 - Needs(Postfix(tokens)[i])
    <3>1. \A i \in 0..n : i = 0 \/ (i \in 1..n /\ i - 1 \in 0..n /\ i # 0)
      OBVIOUS
    <3>. QED  BY <2>1, <2>2, <3>1
  <2>. QED  BY <2>2, <2>3
<1>6. PICK h : h = CHOOSE f : whole(f)
  OBVIOUS
<1>7. whole(h)
  <2>. HIDE DEF whole
  <2>. QED  BY <1>5, <1>6
<1>8. h[0] = start /\ \A i \in 1..n : h[i] = h[i - 1] + 1 - Needs(Postfix(tokens)[i])
  <2>1. \A i \in 0..n : h[i] = IF i = 0 THEN start ELSE h[i - 1] + 1 - Needs(Postfix(tokens)[i])
    BY <1>7
  <2>2. 0 \in 0..n /\ \A i \in 1..n : i \in 0..n /\ i # 0
    OBVIOUS
  <2>. QED  BY <2>1, <2>2
<1>9. \A i \in 1..n : Needs(Postfix(tokens)[i]) <= h[i - 1]
  BY <1>1, <1>6 DEF WellFormed, start
<1>. QED  BY <1>1, <1>8, <1>9 DEF start, Stacking

LEMMA DepthIsCount ==
  ASSUME NEW V, NEW post \in Seq(V), NEW depth, depth[0] = 0,
         \A i \in 1..Len(post) : depth[i] = depth[i - 1] + 1 - Needs(post[i]),
         \A i \in 1..Len(post) : Needs(post[i]) <= depth[i - 1]
  PROVE  \A i \in 0..Len(post) : depth[i] \in Nat
<1>1. PICK n \in Nat : n = Len(post)
  OBVIOUS
<1>. DEFINE S == {m \in Nat : m <= n => depth[m] \in Nat}
<1>2. 0 \in S
  OBVIOUS
<1>3. ASSUME NEW m \in Nat, m \in S PROVE m + 1 \in S
  <2>. SUFFICES ASSUME m + 1 <= n PROVE depth[m + 1] \in Nat
    OBVIOUS
  <2>1. m + 1 \in 1..n /\ (m + 1) - 1 = m /\ depth[m] \in Nat
    BY <1>3
  <2>2. depth[m + 1] = depth[m] + 1 - Needs(post[m + 1]) /\ Needs(post[m + 1]) <= depth[m]
    BY <1>1, <2>1
  <2>3. Needs(post[m + 1]) \in Nat
    BY DEF Needs
  <2>. QED  BY <2>1, <2>2, <2>3
<1>. HIDE DEF S
<1>4. \A m \in Nat : m \in S
  BY <1>2, <1>3, Induction
<1>. QED  BY <1>1, <1>4 DEF S

\* A calculated field that both engines read has the same value.
LEMMA ResolvedIs ==
  ASSUME NEW T, NEW post \in Seq(T), NEW scope
  PROVE  \E U : /\ Resolved(post, scope) \in Seq(U) /\ Len(Resolved(post, scope)) = Len(post)
                /\ \A i \in 1..Len(post) :
                     Resolved(post, scope)[i]
                       = IF post[i].kind = "id" THEN Num(scope[post[i].name]) ELSE post[i]
<1>1. PICK n \in Nat : n = Len(post) /\ DOMAIN post = 1..n
  OBVIOUS
<1>2. PICK r : r = Resolved(post, scope)
  OBVIOUS
<1>3. r = [i \in 1..n |-> IF post[i].kind = "id" THEN Num(scope[post[i].name]) ELSE post[i]]
  BY <1>1, <1>2 DEF Resolved
<1>4. PICK U : U = {r[i] : i \in 1..n}
  OBVIOUS
<1>5. DOMAIN r = 1..n /\ r = [i \in 1..n |-> r[i]] /\ \A i \in 1..n : r[i] \in U
  BY <1>3, <1>4
<1>6. r \in Seq(U) /\ Len(r) = n
  BY <1>5
<1>. QED  BY <1>1, <1>2, <1>3, <1>6

LEMMA NumberToken == ASSUME NEW x PROVE Num(x).kind = "num"
BY DEF Num

LEMMA RunsAlike ==
  ASSUME NEW T, NEW tokens, Postfix(tokens) \in Seq(T), WellFormed(tokens),
         \A t \in T : t.name \notin {"round", "ratio"}, NEW scope
  PROVE  LET ran == Run(Resolved(Postfix(tokens), scope))
         IN ServerRun(Resolved(Postfix(tokens), scope))
              = [stack |-> ran.stack, hadDiv |-> ran.hadDiv, fault |-> FALSE]
<1>1. PICK post \in Seq(T) : post = Postfix(tokens)
  OBVIOUS
<1>2. PICK n \in Nat : n = Len(post) /\ \A i \in 1..n : post[i] \in T
  OBVIOUS
<1>3. PICK r : r = Resolved(post, scope)
  OBVIOUS
<1>4. PICK U : /\ r \in Seq(U) /\ Len(r) = n
               /\ \A i \in 1..n : r[i] = IF post[i].kind = "id" THEN Num(scope[post[i].name]) ELSE post[i]
  BY <1>2, <1>3, ResolvedIs
<1>5. ASSUME NEW i \in 1..n
      PROVE  /\ Needs(r[i]) = Needs(post[i]) /\ r[i].kind \notin {"id", "open"}
             /\ r[i].kind = "num" \/ r[i].name \notin {"round", "ratio"}
  <2>1. CASE post[i].kind = "id"
    <3>1. PICK x : r[i] = Num(x)
      BY <1>4, <2>1
    <3>2. Num(x).kind = "num"
      BY NumberToken
    <3>. QED  BY <2>1, <3>1, <3>2 DEF Needs
  <2>2. CASE post[i].kind # "id"
    <3>1. r[i] = post[i]
      BY <1>4, <2>2
    <3>2. post[i] \in T /\ post[i].kind # "open"
      BY <1>1, <1>2 DEF WellFormed
    <3>. QED  BY <2>2, <3>1, <3>2
  <2>. QED  BY <2>1, <2>2
<1>6. PICK f : Running(f, r) /\ Run(r) = f[n]
  BY <1>4, RunIs
<1>7. PICK g : ServerRunning(g, r) /\ ServerRun(r) = g[n]
  BY <1>4, ServerRunIs
<1>8. PICK depth : Stacking(depth, tokens) /\ \A i \in 1..n : Needs(post[i]) <= depth[i - 1]
  BY <1>1, <1>2, DepthIs
<1>9. depth[0] = 0 /\ \A i \in 1..n : depth[i] = depth[i - 1] + 1 - Needs(post[i])
  BY <1>1, <1>2, <1>8 DEF Stacking
<1>10. \A i \in 0..n : depth[i] \in Nat
  BY <1>1, <1>2, <1>8, <1>9, DepthIsCount
<1>. DEFINE S == {m \in Nat : m <= n => Alike(f[m], g[m], depth[m])}
<1>11. 0 \in S
  <2>1. f[0] = [stack |-> << >>, hadDiv |-> FALSE]
    BY <1>6 DEF Running
  <2>2. g[0] = [stack |-> << >>, hadDiv |-> FALSE, fault |-> FALSE]
    BY <1>7 DEF ServerRunning
  <2>3. PICK nothing : nothing = << >> /\ IsSequence(nothing) /\ Len(nothing) = 0
    BY NothingIsSequence DEF IsSequence
  <2>4. Alike([stack |-> nothing, hadDiv |-> FALSE],
              [stack |-> nothing, hadDiv |-> FALSE, fault |-> FALSE], 0)
    BY <2>3 DEF Alike
  <2>5. Alike(f[0], g[0], depth[0])
    BY <1>9, <2>1, <2>2, <2>3, <2>4
  <2>. QED  BY <2>5
<1>12. ASSUME NEW m \in Nat, m \in S PROVE m + 1 \in S
  <2>. SUFFICES ASSUME m + 1 <= n PROVE Alike(f[m + 1], g[m + 1], depth[m + 1])
    OBVIOUS
  <2>1. m + 1 \in 1..n /\ (m + 1) - 1 = m /\ m \in 0..n /\ Alike(f[m], g[m], depth[m])
    BY <1>12
  <2>2. f[m + 1] = RunToken(f[m], r[m + 1])
    BY <1>4, <1>6, <2>1 DEF Running
  <2>3. g[m + 1] = ServerRunToken(g[m], r[m + 1])
    BY <1>4, <1>7, <2>1 DEF ServerRunning
  <2>4. PICK k \in Nat : k = depth[m]
    BY <1>10, <2>1
  <2>5. PICK token : token = r[m + 1]
    OBVIOUS
  <2>6. /\ token.kind \notin {"id", "open"} /\ (token.kind = "num" \/ token.name \notin {"round", "ratio"})
        /\ Needs(token) <= k /\ depth[m + 1] = k + 1 - Needs(token)
    BY <1>5, <1>8, <1>9, <2>1, <2>4, <2>5
  <2>7. Alike(RunToken(f[m], token), ServerRunToken(g[m], token), k + 1 - Needs(token))
    BY <2>1, <2>4, <2>6, StepAlike
  <2>. QED  BY <2>2, <2>3, <2>5, <2>6, <2>7
<1>. HIDE DEF S
<1>13. n \in S
  BY <1>11, <1>12, Induction
<1>14. Alike(f[n], g[n], depth[n])
  BY <1>13 DEF S
<1>. QED  BY <1>1, <1>3, <1>6, <1>7, <1>14 DEF Alike

\* A scope that has more numbers than the fields of the expression need is read alike.
LEMMA ResolvedAlike ==
  ASSUME NEW T, NEW tokens \in Seq(T), NEW scope, ~Missing(tokens, scope), NEW wide,
         \A k \in DOMAIN scope : k \in DOMAIN wide /\ wide[k] = scope[k]
  PROVE  ~Missing(tokens, wide) /\ Resolved(Postfix(tokens), wide) = Resolved(Postfix(tokens), scope)
<1>1. PICK S : S = {tokens[i] : i \in DOMAIN tokens} /\ tokens \in Seq(S)
  <2>1. PICK S : S = {tokens[i] : i \in DOMAIN tokens}
    OBVIOUS
  <2>2. tokens \in Seq(S)
    BY <2>1
  <2>. QED  BY <2>1, <2>2
<1>2. ASSUME NEW t \in S, t.kind = "id" PROVE t.name \in DOMAIN wide /\ wide[t.name] = scope[t.name]
  BY <1>1, <1>2 DEF Missing
<1>3. ~Missing(tokens, wide)
  BY <1>1, <1>2 DEF Missing
<1>4. PICK post \in Seq(S) : post = Postfix(tokens)
  BY <1>1, PostfixTokens
<1>5. \A i \in DOMAIN post :
        (IF post[i].kind = "id" THEN Num(wide[post[i].name]) ELSE post[i])
          = (IF post[i].kind = "id" THEN Num(scope[post[i].name]) ELSE post[i])
  <2>1. \A i \in DOMAIN post : post[i] \in S
    OBVIOUS
  <2>. QED  BY <1>2, <2>1
<1>. QED  BY <1>3, <1>4, <1>5 DEF Resolved

LEMMA ValuesAlike ==
  ASSUME NEW tokens, tokens \in Seq(ToSet(tokens)), WellFormed(tokens),
         \A t \in ToSet(tokens) : t.name \notin {"round", "ratio"}, NEW scope, ~Missing(tokens, scope),
         NEW wide, \A k \in DOMAIN scope : k \in DOMAIN wide /\ wide[k] = scope[k]
  PROVE  ServerEvalExpression(tokens, wide) = EvalExpression(tokens, scope)
<1>1. PICK T : T = ToSet(tokens)
  OBVIOUS
<1>2. Postfix(tokens) \in Seq(T)
  BY <1>1, PostfixTokens
<1>3. PICK ran, other : /\ ran = Run(Resolved(Postfix(tokens), scope))
                        /\ other = ServerRun(Resolved(Postfix(tokens), scope))
  OBVIOUS
<1>4. other = [stack |-> ran.stack, hadDiv |-> ran.hadDiv, fault |-> FALSE]
  BY <1>1, <1>2, <1>3, RunsAlike
<1>5. other.stack = ran.stack /\ other.hadDiv = ran.hadDiv /\ other.fault = FALSE
  BY <1>4
<1>6. ~Missing(tokens, wide) /\ other = ServerRun(Resolved(Postfix(tokens), wide))
  BY <1>1, <1>3, ResolvedAlike
<1>. QED  BY <1>3, <1>5, <1>6 DEF ServerEvalExpression, EvalExpression

\* A field that is added at the server.
ServerCalcStep(r, c) ==
  Assigned(r, [k \in {c.alias} |-> ServerEvalExpression(c.expression, ServerNumbers(r))])

Adding(f, row, calcs, outs) ==
  f[0] = [row |-> row, thrown |-> FALSE] /\ \A i \in 1..Len(calcs) : f[i] = CalcStep(f[i - 1], calcs[i], outs)

LEMMA CalcsAre ==
  ASSUME NEW row, NEW C, NEW calcs \in Seq(C), NEW outs
  PROVE  \E f : Adding(f, row, calcs, outs) /\ AddCalcs(row, calcs, outs) = f[Len(calcs)]
<1>1. PICK n \in Nat : n = Len(calcs)
  OBVIOUS
<1>. DEFINE start == [row |-> row, thrown |-> FALSE]
            steps(f, m) == f[0] = start /\ \A i \in 1..m : f[i] = CalcStep(f[i - 1], calcs[i], outs)
            whole(f) == f = [i \in 0..n |-> IF i = 0 THEN start ELSE CalcStep(f[i - 1], calcs[i], outs)]
            T == {m \in Nat : \E f : steps(f, m)}
<1>. HIDE DEF start
<1>2. 0 \in T
  <2>1. steps([i \in {0} |-> start], 0)
    OBVIOUS
  <2>. QED  BY <2>1
<1>3. ASSUME NEW m \in Nat, m \in T PROVE m + 1 \in T
  <2>1. PICK f : steps(f, m)
    BY <1>3
  <2>2. PICK g : g[m + 1] = CalcStep(f[m], calcs[m + 1], outs) /\ \A i \in 0..m : g[i] = f[i]
    BY OneMoreStep
  <2>3. steps(g, m + 1)
    <3>1. g[0] = start
      <4>1. 0 \in 0..m
        OBVIOUS
      <4>. QED  BY <2>1, <2>2, <4>1
    <3>2. ASSUME NEW i \in 1..m PROVE g[i] = CalcStep(g[i - 1], calcs[i], outs)
      <4>1. i \in 0..m /\ i - 1 \in 0..m
        OBVIOUS
      <4>2. f[i] = CalcStep(f[i - 1], calcs[i], outs)
        BY <2>1
      <4>. QED  BY <2>2, <4>1, <4>2
    <3>3. g[m + 1] = CalcStep(g[(m + 1) - 1], calcs[m + 1], outs)
      <4>1. m \in 0..m /\ (m + 1) - 1 = m
        OBVIOUS
      <4>. QED  BY <2>2, <4>1
    <3>4. \A i \in 1..(m + 1) : i = m + 1 \/ i \in 1..m
      OBVIOUS
    <3>. QED  BY <3>1, <3>2, <3>3, <3>4
  <2>. QED  BY <2>3
<1>4. n \in T
  <2>. HIDE DEF T
  <2>. QED  BY <1>2, <1>3, Induction
<1>5. \E f : whole(f)
  <2>1. PICK f : steps(f, n)
    BY <1>4
  <2>2. PICK g : g = [i \in 0..n |-> f[i]]
    OBVIOUS
  <2>3. \A i \in 0..n : f[i] = IF i = 0 THEN start ELSE CalcStep(g[i - 1], calcs[i], outs)
    <3>1. \A i \in 0..n : i = 0 \/ (i \in 1..n /\ i - 1 \in 0..n /\ i # 0)
      OBVIOUS
    <3>. QED  BY <2>1, <2>2, <3>1
  <2>. QED  BY <2>2, <2>3
<1>6. PICK h : h = CHOOSE f : whole(f)
  OBVIOUS
<1>7. whole(h)
  <2>. HIDE DEF whole
  <2>. QED  BY <1>5, <1>6
<1>8. h[0] = start /\ \A i \in 1..n : h[i] = CalcStep(h[i - 1], calcs[i], outs)
  <2>1. \A i \in 0..n : h[i] = IF i = 0 THEN start ELSE CalcStep(h[i - 1], calcs[i], outs)
    BY <1>7
  <2>2. 0 \in 0..n /\ \A i \in 1..n : i \in 0..n /\ i # 0
    OBVIOUS
  <2>. QED  BY <2>1, <2>2
<1>9. AddCalcs(row, calcs, outs) = h[n]
  BY <1>1, <1>6 DEF AddCalcs, CalcStep, start
<1>. QED  BY <1>1, <1>8, <1>9 DEF start, Adding

ServerAdding(f, row, calcs) ==
  f[0] = row /\ \A i \in 1..Len(calcs) : f[i] = ServerCalcStep(f[i - 1], calcs[i])

LEMMA ServerCalcsAre ==
  ASSUME NEW row, NEW C, NEW calcs \in Seq(C)
  PROVE  \E f : ServerAdding(f, row, calcs) /\ ServerAddCalcs(row, calcs) = f[Len(calcs)]
<1>1. PICK n \in Nat : n = Len(calcs)
  OBVIOUS
<1>. DEFINE start == row
            steps(f, m) == f[0] = start /\ \A i \in 1..m : f[i] = ServerCalcStep(f[i - 1], calcs[i])
            whole(f) == f = [i \in 0..n |-> IF i = 0 THEN start ELSE ServerCalcStep(f[i - 1], calcs[i])]
            T == {m \in Nat : \E f : steps(f, m)}
<1>. HIDE DEF start
<1>2. 0 \in T
  <2>1. steps([i \in {0} |-> start], 0)
    OBVIOUS
  <2>. QED  BY <2>1
<1>3. ASSUME NEW m \in Nat, m \in T PROVE m + 1 \in T
  <2>1. PICK f : steps(f, m)
    BY <1>3
  <2>2. PICK g : g[m + 1] = ServerCalcStep(f[m], calcs[m + 1]) /\ \A i \in 0..m : g[i] = f[i]
    BY OneMoreStep
  <2>3. steps(g, m + 1)
    <3>1. g[0] = start
      <4>1. 0 \in 0..m
        OBVIOUS
      <4>. QED  BY <2>1, <2>2, <4>1
    <3>2. ASSUME NEW i \in 1..m PROVE g[i] = ServerCalcStep(g[i - 1], calcs[i])
      <4>1. i \in 0..m /\ i - 1 \in 0..m
        OBVIOUS
      <4>2. f[i] = ServerCalcStep(f[i - 1], calcs[i])
        BY <2>1
      <4>. QED  BY <2>2, <4>1, <4>2
    <3>3. g[m + 1] = ServerCalcStep(g[(m + 1) - 1], calcs[m + 1])
      <4>1. m \in 0..m /\ (m + 1) - 1 = m
        OBVIOUS
      <4>. QED  BY <2>2, <4>1
    <3>4. \A i \in 1..(m + 1) : i = m + 1 \/ i \in 1..m
      OBVIOUS
    <3>. QED  BY <3>1, <3>2, <3>3, <3>4
  <2>. QED  BY <2>3
<1>4. n \in T
  <2>. HIDE DEF T
  <2>. QED  BY <1>2, <1>3, Induction
<1>5. \E f : whole(f)
  <2>1. PICK f : steps(f, n)
    BY <1>4
  <2>2. PICK g : g = [i \in 0..n |-> f[i]]
    OBVIOUS
  <2>3. \A i \in 0..n : f[i] = IF i = 0 THEN start ELSE ServerCalcStep(g[i - 1], calcs[i])
    <3>1. \A i \in 0..n : i = 0 \/ (i \in 1..n /\ i - 1 \in 0..n /\ i # 0)
      OBVIOUS
    <3>. QED  BY <2>1, <2>2, <3>1
  <2>. QED  BY <2>2, <2>3
<1>6. PICK h : h = CHOOSE f : whole(f)
  OBVIOUS
<1>7. whole(h)
  <2>. HIDE DEF whole
  <2>. QED  BY <1>5, <1>6
<1>8. h[0] = start /\ \A i \in 1..n : h[i] = ServerCalcStep(h[i - 1], calcs[i])
  <2>1. \A i \in 0..n : h[i] = IF i = 0 THEN start ELSE ServerCalcStep(h[i - 1], calcs[i])
    BY <1>7
  <2>2. 0 \in 0..n /\ \A i \in 1..n : i \in 0..n /\ i # 0
    OBVIOUS
  <2>. QED  BY <2>1, <2>2
<1>9. ServerAddCalcs(row, calcs) = h[n]
  BY <1>1, <1>6 DEF ServerAddCalcs, ServerCalcStep, start
<1>. QED  BY <1>1, <1>8, <1>9 DEF start, ServerAdding

\* Unless the browser's query throws, both engines calculate the same fields.
Readable(c) ==
  /\ c.expression \in Seq(ToSet(c.expression)) /\ WellFormed(c.expression)
  /\ \A t \in ToSet(c.expression) : t.name \notin {"round", "ratio"}

\* A row so far, and whether it was given up.
IsProgress(s) == s = [row |-> s.row, thrown |-> s.thrown] /\ s.thrown \in BOOLEAN

LEMMA ProgressIs ==
  ASSUME NEW row, NEW thrown \in BOOLEAN
  PROVE  LET s == [row |-> row, thrown |-> thrown]
         IN IsProgress(s) /\ s.row = row /\ s.thrown = thrown
BY DEF IsProgress

\* The server has the numbers that the browser has, and those of texts.
LEMMA NumbersAreWide ==
  ASSUME NEW row
  PROVE  \A k \in DOMAIN Numbers(row, {NULL}) :
           k \in DOMAIN ServerNumbers(row) /\ ServerNumbers(row)[k] = Numbers(row, {NULL})[k]
<1>1. PICK scope, wide : scope = Numbers(row, {NULL}) /\ wide = ServerNumbers(row)
  OBVIOUS
<1>2. ASSUME NEW k \in DOMAIN scope PROVE k \in DOMAIN wide /\ wide[k] = scope[k]
  <2>1. k \in DOMAIN row /\ ~IsText(k) /\ row[k] # NULL /\ scope[k] = row[k]
    BY <1>1 DEF Numbers
  <2>2. (IF IsText(k) THEN TryToDouble(row[k]) ELSE row[k]) = row[k]
    BY <2>1
  <2>. QED  BY <1>1, <2>1, <2>2 DEF ServerNumbers
<1>. QED  BY <1>1, <1>2

LEMMA CalcStepAlike ==
  ASSUME NEW s, IsProgress(s), NEW c, Readable(c), NEW t, t = CalcStep(s, c, {NULL})
  PROVE  IsProgress(t) /\ (~t.thrown => ~s.thrown /\ t.row = ServerCalcStep(s.row, c))
<1>1. PICK row, thrown : /\ s = [row |-> row, thrown |-> thrown] /\ thrown \in BOOLEAN
                         /\ row = s.row /\ thrown = s.thrown
  BY DEF IsProgress
<1>2. PICK scope : scope = Numbers(row, {NULL})
  OBVIOUS
<1>3. CASE thrown \/ Missing(c.expression, scope) \/ Unclosed(c.expression)
  <2>1. t = [row |-> row, thrown |-> TRUE]
    BY <1>1, <1>2, <1>3 DEF CalcStep
  <2>2. IsProgress(t) /\ t.thrown = TRUE
    BY <2>1, ProgressIs
  <2>. QED  BY <2>2
<1>4. CASE ~thrown /\ ~Missing(c.expression, scope) /\ ~Unclosed(c.expression)
  <2>1. PICK v : v = EvalExpression(c.expression, scope)
    OBVIOUS
  <2>2. PICK wide : wide = ServerNumbers(row)
    OBVIOUS
  <2>3. \A k \in DOMAIN scope : k \in DOMAIN wide /\ wide[k] = scope[k]
    BY <1>2, <2>2, NumbersAreWide
  <2>4. ServerEvalExpression(c.expression, wide) = v
    BY <1>4, <2>1, <2>3, ValuesAlike DEF Readable
  <2>5. PICK next : next = Assigned(row, [k \in {c.alias} |-> v])
    OBVIOUS
  <2>6. t = [row |-> next, thrown |-> FALSE]
    BY <1>1, <1>2, <1>4, <2>1, <2>5 DEF CalcStep
  <2>7. ServerCalcStep(row, c) = next
    BY <2>2, <2>4, <2>5 DEF ServerCalcStep
  <2>8. IsProgress(t) /\ t.row = next
    BY <2>6, ProgressIs
  <2>. QED  BY <1>1, <1>4, <2>7, <2>8
<1>. QED  BY <1>3, <1>4

LEMMA CalcsAlike ==
  ASSUME NEW row, NEW C, NEW calcs \in Seq(C), \A c \in C : Readable(c),
         ~AddCalcs(row, calcs, {NULL}).thrown
  PROVE  ServerAddCalcs(row, calcs) = AddCalcs(row, calcs, {NULL}).row
<1>1. PICK n \in Nat : n = Len(calcs) /\ \A i \in 1..n : Readable(calcs[i])
  OBVIOUS
<1>2. PICK f : Adding(f, row, calcs, {NULL}) /\ AddCalcs(row, calcs, {NULL}) = f[n]
  BY <1>1, CalcsAre
<1>3. PICK g : ServerAdding(g, row, calcs) /\ ServerAddCalcs(row, calcs) = g[n]
  BY <1>1, ServerCalcsAre
<1>. DEFINE like(m) == IsProgress(f[m]) /\ (~f[m].thrown => g[m] = f[m].row)
            S == {m \in Nat : m <= n => like(m)}
<1>4. like(0)
  <2>1. f[0] = [row |-> row, thrown |-> FALSE] /\ g[0] = row
    BY <1>2, <1>3 DEF Adding, ServerAdding
  <2>. QED  BY <2>1, ProgressIs
<1>5. ASSUME NEW m \in Nat, m \in S PROVE m + 1 \in S
  <2>. SUFFICES ASSUME m + 1 <= n PROVE like(m + 1)
    OBVIOUS
  <2>1. m + 1 \in 1..n /\ (m + 1) - 1 = m /\ like(m)
    BY <1>5
  <2>2. f[m + 1] = CalcStep(f[m], calcs[m + 1], {NULL}) /\ g[m + 1] = ServerCalcStep(g[m], calcs[m + 1])
    BY <1>1, <1>2, <1>3, <2>1 DEF Adding, ServerAdding
  <2>3. Readable(calcs[m + 1])
    BY <1>1, <2>1
  <2>4. PICK s, t, c : s = f[m] /\ t = f[m + 1] /\ c = calcs[m + 1]
    OBVIOUS
  <2>5. IsProgress(t) /\ (~t.thrown => ~s.thrown /\ t.row = ServerCalcStep(s.row, c))
    <3>1. IsProgress(s) /\ Readable(c) /\ t = CalcStep(s, c, {NULL})
      BY <2>1, <2>2, <2>3, <2>4
    <3>. QED  BY ONLY <3>1, CalcStepAlike
  <2>. QED  BY <2>1, <2>2, <2>4, <2>5
<1>. HIDE DEF like
<1>6. 0 \in S
  BY <1>4
<1>. HIDE DEF S
<1>7. n \in S
  BY <1>5, <1>6, Induction
<1>8. like(n)
  BY <1>7 DEF S
<1>. QED  BY <1>2, <1>3, <1>8 DEF like

\* The buckets of the server are those of the browser under keys of its own.

ServerJoining(f, d, rs) ==
  f[0] = << >> /\ \A i \in 1..Len(rs) : f[i] = Join(f[i - 1], rs[i], ServerKeyOf(d, rs[i]))

LEMMA ServerBucketsAre ==
  ASSUME NEW d, NEW R, NEW rs \in Seq(R)
  PROVE  \E f : ServerJoining(f, d, rs) /\ ServerBuckets(d, rs) = f[Len(rs)]
<1>1. PICK n \in Nat : n = Len(rs)
  OBVIOUS
<1>. DEFINE start == << >>
            steps(f, m) == f[0] = start /\ \A i \in 1..m : f[i] = Join(f[i - 1], rs[i], ServerKeyOf(d, rs[i]))
            whole(f) == f = [i \in 0..n |-> IF i = 0 THEN start ELSE Join(f[i - 1], rs[i], ServerKeyOf(d, rs[i]))]
            T == {m \in Nat : \E f : steps(f, m)}
<1>. HIDE DEF start
<1>2. 0 \in T
  <2>1. steps([i \in {0} |-> start], 0)
    OBVIOUS
  <2>. QED  BY <2>1
<1>3. ASSUME NEW m \in Nat, m \in T PROVE m + 1 \in T
  <2>1. PICK f : steps(f, m)
    BY <1>3
  <2>2. PICK g : g[m + 1] = Join(f[m], rs[m + 1], ServerKeyOf(d, rs[m + 1])) /\ \A i \in 0..m : g[i] = f[i]
    BY OneMoreStep
  <2>3. steps(g, m + 1)
    <3>1. g[0] = start
      <4>1. 0 \in 0..m
        OBVIOUS
      <4>. QED  BY <2>1, <2>2, <4>1
    <3>2. ASSUME NEW i \in 1..m PROVE g[i] = Join(g[i - 1], rs[i], ServerKeyOf(d, rs[i]))
      <4>1. i \in 0..m /\ i - 1 \in 0..m
        OBVIOUS
      <4>2. f[i] = Join(f[i - 1], rs[i], ServerKeyOf(d, rs[i]))
        BY <2>1
      <4>. QED  BY <2>2, <4>1, <4>2
    <3>3. g[m + 1] = Join(g[(m + 1) - 1], rs[m + 1], ServerKeyOf(d, rs[m + 1]))
      <4>1. m \in 0..m /\ (m + 1) - 1 = m
        OBVIOUS
      <4>. QED  BY <2>2, <4>1
    <3>4. \A i \in 1..(m + 1) : i = m + 1 \/ i \in 1..m
      OBVIOUS
    <3>. QED  BY <3>1, <3>2, <3>3, <3>4
  <2>. QED  BY <2>3
<1>4. n \in T
  <2>. HIDE DEF T
  <2>. QED  BY <1>2, <1>3, Induction
<1>5. \E f : whole(f)
  <2>1. PICK f : steps(f, n)
    BY <1>4
  <2>2. PICK g : g = [i \in 0..n |-> f[i]]
    OBVIOUS
  <2>3. \A i \in 0..n : f[i] = IF i = 0 THEN start ELSE Join(g[i - 1], rs[i], ServerKeyOf(d, rs[i]))
    <3>1. \A i \in 0..n : i = 0 \/ (i \in 1..n /\ i - 1 \in 0..n /\ i # 0)
      OBVIOUS
    <3>. QED  BY <2>1, <2>2, <3>1
  <2>. QED  BY <2>2, <2>3
<1>6. PICK h : h = CHOOSE f : whole(f)
  OBVIOUS
<1>7. whole(h)
  <2>. HIDE DEF whole
  <2>. QED  BY <1>5, <1>6
<1>8. h[0] = start /\ \A i \in 1..n : h[i] = Join(h[i - 1], rs[i], ServerKeyOf(d, rs[i]))
  <2>1. \A i \in 0..n : h[i] = IF i = 0 THEN start ELSE Join(h[i - 1], rs[i], ServerKeyOf(d, rs[i]))
    BY <1>7
  <2>2. 0 \in 0..n /\ \A i \in 1..n : i \in 0..n /\ i # 0
    OBVIOUS
  <2>. QED  BY <2>1, <2>2
<1>9. ServerBuckets(d, rs) = h[n]
  BY <1>1, <1>6 DEF ServerBuckets, start
<1>. QED  BY <1>1, <1>8, <1>9 DEF start, ServerJoining

KeysAlike(d, R) ==
  \A r, s \in R : KeyOf(d, r) = KeyOf(d, s) <=> ServerKeyOf(d, r) = ServerKeyOf(d, s)

Twins(d, bs, cs) ==
  Len(cs) = Len(bs) /\ \A i \in 1..Len(bs) :
    /\ cs[i].rows = bs[i].rows /\ bs[i].rows # << >>
    /\ bs[i].key = KeyOf(d, bs[i].rows[1]) /\ cs[i].key = ServerKeyOf(d, bs[i].rows[1])

LEMMA SamePlace ==
  ASSUME NEW d, NEW R, NEW bs, NEW cs, Twins(d, bs, cs), NEW n \in Nat, n = Len(bs),
         \A i \in 1..n : bs[i].rows \in Seq(R), KeysAlike(d, R), NEW row, row \in R
  PROVE  JoinPlace(cs, ServerKeyOf(d, row)) = JoinPlace(bs, KeyOf(d, row))
<1>1. n = Len(cs)
  BY DEF Twins
<1>2. ASSUME NEW i \in 1..n PROVE bs[i].key = KeyOf(d, row) <=> cs[i].key = ServerKeyOf(d, row)
  <2>1. PICK some \in Seq(R) : some = bs[i].rows
    OBVIOUS
  <2>2. /\ some # << >> /\ bs[i].key = KeyOf(d, some[1]) /\ cs[i].key = ServerKeyOf(d, some[1])
    BY <1>1, <2>1 DEF Twins
  <2>3. some[1] \in R
    BY <2>2
  <2>. QED  BY <2>2, <2>3 DEF KeysAlike
<1>3. Places(cs, ServerKeyOf(d, row)) = Places(bs, KeyOf(d, row))
  BY <1>1, <1>2 DEF Places
<1>. QED  BY <1>1, <1>3 DEF JoinPlace

LEMMA TwinsJoin ==
  ASSUME NEW d, NEW R, NEW bs, NEW cs, Twins(d, bs, cs), NEW n \in Nat, n = Len(bs), NEW row,
         \A i \in 1..n : bs[i].rows \in Seq(R), row \in R,
         NEW i \in 1..(n + 1), NEW bs1, NEW cs1, 
         Joined(bs, bs1, i, row, KeyOf(d, row)), Joined(cs, cs1, i, row, ServerKeyOf(d, row))
  PROVE  Twins(d, bs1, cs1)
<1>1. Len(cs) = n /\ Len(cs1) = Len(bs1)
  BY DEF Twins, Joined
<1>2. \A j \in 1..Len(bs1) : j # i => j \in 1..n /\ bs1[j] = bs[j] /\ cs1[j] = cs[j]
  BY <1>1 DEF Joined
<1>. SUFFICES ASSUME NEW j \in 1..Len(bs1)
              PROVE  /\ cs1[j].rows = bs1[j].rows /\ bs1[j].rows # << >>
                     /\ bs1[j].key = KeyOf(d, bs1[j].rows[1]) /\ cs1[j].key = ServerKeyOf(d, bs1[j].rows[1])
  BY <1>1 DEF Twins
<1>3. CASE j # i
  BY <1>2, <1>3 DEF Twins
<1>4. CASE j = i /\ i = n + 1
  <2>1. bs1[j] = [key |-> KeyOf(d, row), rows |-> <<row>>] /\ cs1[j] = [key |-> ServerKeyOf(d, row), rows |-> <<row>>]
    BY <1>1, <1>4 DEF Joined
  <2>. QED  BY <2>1
<1>5. CASE j = i /\ i \in 1..n
  <2>1. PICK some \in Seq(R) : some = bs[i].rows
    BY <1>5
  <2>2. /\ some # << >> /\ cs[i].rows = some
        /\ bs[i].key = KeyOf(d, some[1]) /\ cs[i].key = ServerKeyOf(d, some[1])
    BY <1>5, <2>1 DEF Twins
  <2>3. /\ bs1[i] = [key |-> KeyOf(d, row), rows |-> Append(some, row)] /\ bs[i].key = KeyOf(d, row)
        /\ cs1[i] = [key |-> ServerKeyOf(d, row), rows |-> Append(some, row)] /\ cs[i].key = ServerKeyOf(d, row)
    BY <1>1, <1>5, <2>1, <2>2 DEF Joined
  <2>4. PICK more \in Seq(R) : more = Append(some, row) /\ more # << >> /\ more[1] = some[1]
    <3>1. /\ Append(some, row) \in Seq(R) /\ Len(Append(some, row)) = Len(some) + 1
          /\ \A j1 \in 1..Len(some) : Append(some, row)[j1] = some[j1]
      BY AppendIsSequence
    <3>2. PICK more \in Seq(R) : more = Append(some, row)
      BY ONLY <3>1
    <3>3. 1 \in 1..Len(some) /\ Len(some) \in Nat
      BY <2>2
    <3>4. Len(more) = Len(some) + 1 /\ more[1] = some[1]
      BY <3>1, <3>2, <3>3
    <3>5. more # << >>
      BY <3>3, <3>4
    <3>. QED  BY <3>2, <3>4, <3>5
  <2>5. bs1[j].rows = more /\ cs1[j].rows = more /\ bs1[j].key = KeyOf(d, row) /\ cs1[j].key = ServerKeyOf(d, row)
    BY <1>5, <2>3, <2>4
  <2>. QED  BY <2>2, <2>3, <2>4, <2>5
<1>. QED  BY <1>3, <1>4, <1>5

LEMMA BucketsAreTwins ==
  ASSUME NEW d, d.groupBy # << >>, NEW R, NEW rs \in Seq(R), KeysAlike(d, R)
  PROVE  /\ Twins(d, Buckets(d, rs), ServerBuckets(d, rs)) /\ IsSequence(ServerBuckets(d, rs))
         /\ \E K : Buckets(d, rs) \in Seq([key : K, rows : Seq(R)])
<1>1. PICK K, L : K = {KeyOf(d, r) : r \in R} /\ L = {ServerKeyOf(d, r) : r \in R}
  OBVIOUS
<1>2. \A r \in R : KeyOf(d, r) \in K /\ ServerKeyOf(d, r) \in L
  BY <1>1
<1>3. PICK V, W : V = Seq([key : K, rows : Seq(R)]) /\ W = Seq([key : L, rows : Seq(R)])
  OBVIOUS
<1>4. << >> \in V /\ << >> \in W
  BY <1>3, NothingIsSequence
<1>5. ASSUME NEW bs \in V, NEW r \in R PROVE Join(bs, r, KeyOf(d, r)) \in V
  BY <1>2, <1>3, JoinedThere
<1>6. PICK f \in [0..Len(rs) -> V] : Joining(f, d, rs) /\ Buckets(d, rs) = f[Len(rs)]
  BY <1>4, <1>5, BucketsAre
<1>7. PICK g : ServerJoining(g, d, rs) /\ ServerBuckets(d, rs) = g[Len(rs)]
  BY ServerBucketsAre
<1>8. PICK n \in Nat : n = Len(rs) /\ \A j \in 1..n : rs[j] \in R
  OBVIOUS
<1>. DEFINE S == {m \in Nat : m <= n => g[m] \in W /\ Twins(d, f[m], g[m])}
<1>9. 0 \in S
  <2>1. f[0] = << >> /\ g[0] = << >>
    BY <1>6, <1>7 DEF Joining, ServerJoining
  <2>2. Twins(d, << >>, << >>)
    BY NothingIsSequence DEF Twins
  <2>. QED  BY <1>4, <2>1, <2>2
<1>10. ASSUME NEW m \in Nat, m \in S PROVE m + 1 \in S
  <2>. SUFFICES ASSUME m + 1 <= n PROVE g[m + 1] \in W /\ Twins(d, f[m + 1], g[m + 1])
    OBVIOUS
  <2>1. m + 1 \in 1..n /\ (m + 1) - 1 = m /\ m \in 0..n
    OBVIOUS
  <2>2. PICK row \in R : row = rs[m + 1]
    BY <1>8, <2>1
  <2>3. PICK bs \in V : bs = f[m]
    BY <1>6, <1>8, <2>1
  <2>4. PICK cs \in W : cs = g[m] /\ Twins(d, bs, cs)
    BY <1>10, <2>1, <2>3
  <2>5. f[m + 1] = Join(bs, row, KeyOf(d, row)) /\ g[m + 1] = Join(cs, row, ServerKeyOf(d, row))
    BY <1>6, <1>7, <1>8, <2>1, <2>2, <2>3, <2>4 DEF Joining, ServerJoining
  <2>6. PICK k \in K, l \in L : k = KeyOf(d, row) /\ l = ServerKeyOf(d, row)
    BY <1>2
  <2>7. PICK o \in Nat : o = Len(bs) /\ \A j \in 1..o : bs[j].rows \in Seq(R)
    <3>1. Len(bs) \in Nat
      BY <1>3
    <3>. QED  BY <1>3, <3>1, BucketRows
  <2>8. PICK i : i = JoinPlace(bs, k) /\ i = JoinPlace(cs, l)
    <3>1. JoinPlace(cs, ServerKeyOf(d, row)) = JoinPlace(bs, KeyOf(d, row))
      BY <2>4, <2>7, SamePlace
    <3>. QED  BY <2>6, <3>1
  <2>9. i \in 1..(Len(bs) + 1) /\ Joined(bs, f[m + 1], i, row, k)
    <3>1. bs \in Seq([key : K, rows : Seq(R)])
      BY <1>3
    <3>2. JoinPlace(bs, k) \in 1..(Len(bs) + 1) /\ Joined(bs, Join(bs, row, k), JoinPlace(bs, k), row, k)
      BY <3>1, JoinedThere
    <3>. QED  BY <2>5, <2>6, <2>8, <3>2
  <2>10. g[m + 1] \in W /\ Joined(cs, g[m + 1], i, row, l)
    <3>1. cs \in Seq([key : L, rows : Seq(R)])
      BY <1>3
    <3>2. Join(cs, row, l) \in Seq([key : L, rows : Seq(R)]) /\ Joined(cs, Join(cs, row, l), JoinPlace(cs, l), row, l)
      BY <3>1, JoinedThere
    <3>. QED  BY <1>3, <2>5, <2>6, <2>8, <3>2
  <2>11. Twins(d, f[m + 1], g[m + 1])
    BY <2>4, <2>6, <2>7, <2>9, <2>10, TwinsJoin
  <2>. QED  BY <2>10, <2>11
<1>. HIDE DEF S
<1>11. n \in S
  BY <1>9, <1>10, Induction
<1>12. g[n] \in W /\ Twins(d, f[n], g[n])
  BY <1>11 DEF S
<1>13. f[n] \in V
  BY <1>6, <1>8
<1>. QED  BY <1>3, <1>6, <1>7, <1>8, <1>12, <1>13 DEF IsSequence

\* Values that both engines read alike: none reads as a missing one.
ReadAlike(d, R) ==
  \A g \in ToSet(d.groupBy), r \in R :
    /\ BucketValue(r[g.field], g) # NullText
    /\ ServerBucketValue(r[g.field], g) = BucketValue(r[g.field], g)

LEMMA TypedRowsReadAlike ==
  ASSUME NEW d, ToSet(d.groupBy) \subseteq AllDimensions, \A r \in Asked : TypedRow(r)
  PROVE  ReadAlike(d, Asked)
<1>. SUFFICES ASSUME NEW g \in ToSet(d.groupBy), NEW r \in Asked
              PROVE  /\ BucketValue(r[g.field], g) # NullText
                     /\ ServerBucketValue(r[g.field], g) = BucketValue(r[g.field], g)
  BY DEF ReadAlike
<1>1. /\ g.field \in DOMAIN FieldType /\ BucketValue(r[g.field], g) # NullText
      /\ \A k \in DOMAIN FieldType : FieldType[k] = "date" => r[k] \in Date \cup {NULL}
  BY DEF AllDimensions, TypedRow
<1>2. PICK cell : cell = r[g.field]
  OBVIOUS
<1>3. FieldType[g.field] = "date" => cell \in Date \cup {NULL}
  BY <1>1, <1>2
<1>4. FieldType[g.field] = "date" /\ cell # NULL =>
        ServerDateBucketKey(cell, g.dateBucket) = DateBucketKey(cell, g.dateBucket)
  BY <1>3, BucketsAgree
<1>5. ServerBucketValue(cell, g) = BucketValue(cell, g)
  BY <1>4 DEF ServerBucketValue, BucketValue
<1>. QED  BY <1>1, <1>2, <1>5

LEMMA ReadAlikeKeys ==
  ASSUME NEW d, NEW G, d.groupBy \in Seq(G), NEW R, ReadAlike(d, R)
  PROVE  KeysAlike(d, R)
<1>. SUFFICES ASSUME NEW r \in R, NEW s \in R
              PROVE  KeyOf(d, r) = KeyOf(d, s) <=> ServerKeyOf(d, r) = ServerKeyOf(d, s)
  BY DEF KeysAlike
<1>1. PICK D : D = DOMAIN d.groupBy
  OBVIOUS
<1>. DEFINE v(x) == [i \in D |-> BucketValue(x[d.groupBy[i].field], d.groupBy[i])]
<1>2. ASSUME NEW x \in R
      PROVE  /\ ServerKeyOf(d, x) = v(x) /\ KeyOf(d, x) = [i \in D |-> TextOfValue(v(x)[i])]
             /\ \A i \in D : v(x)[i] # NullText
  <2>1. ASSUME NEW i \in D
        PROVE  /\ BucketValue(x[d.groupBy[i].field], d.groupBy[i]) # NullText
               /\ ServerBucketValue(x[d.groupBy[i].field], d.groupBy[i])
                    = BucketValue(x[d.groupBy[i].field], d.groupBy[i])
    <3>1. d.groupBy[i] \in ToSet(d.groupBy)
      BY <1>1 DEF ToSet
    <3>. QED  BY <3>1 DEF ReadAlike
  <2>2. ServerKeyOf(d, x) = v(x)
    BY <1>1, <2>1 DEF ServerKeyOf
  <2>3. KeyOf(d, x) = [i \in D |-> TextOfValue(v(x)[i])]
    BY <1>1 DEF KeyOf
  <2>. QED  BY <2>1, <2>2, <2>3
<1>3. PICK u, w : /\ u = v(r) /\ w = v(s) /\ u = [i \in D |-> u[i]] /\ w = [i \in D |-> w[i]]
                  /\ \A i \in D : u[i] # NullText /\ w[i] # NullText
  BY <1>2
<1>. HIDE DEF v
<1>4. \A i \in D : TextOfValue(u[i]) = TextOfValue(w[i]) => u[i] = w[i]
  BY <1>3 DEF TextOfValue
<1>5. KeyOf(d, r) = KeyOf(d, s) => u = w
  <2>1. KeyOf(d, r) = [i \in D |-> TextOfValue(u[i])] /\ KeyOf(d, s) = [i \in D |-> TextOfValue(w[i])]
    BY <1>2, <1>3
  <2>2. KeyOf(d, r) = KeyOf(d, s) => \A i \in D : TextOfValue(u[i]) = TextOfValue(w[i])
    BY <2>1
  <2>3. (\A i \in D : u[i] = w[i]) => u = w
    BY <1>3
  <2>. QED  BY <1>4, <2>2, <2>3
<1>6. u = w => KeyOf(d, r) = KeyOf(d, s)
  BY <1>2, <1>3
<1>. QED  BY <1>2, <1>3, <1>5, <1>6

\* A metric that both engines compute alike.
LEMMA MetricsAlike ==
  ASSUME "*" \notin DOMAIN FieldType, {NULL, NaN} \cap Fractions = {}, NEW m, SharedMetric(m),
         NEW R, NEW rs \in Seq(R), \A r \in R : TypedRow(r)
  PROVE  ServerComputeMetric(m, rs) = ComputeMetric(m, rs)
<1>1. CASE m.field = "*"
  <2>1. PICK n \in Nat : n = Len(rs) /\ DOMAIN rs = 1..n
    OBVIOUS
  <2>2. Len([i \in 1..n |-> NULL]) = n /\ Len([i \in 1..n |-> <<1, 1>>]) = n
    OBVIOUS
  <2>3. m.aggregation = "count"
    BY <1>1 DEF SharedMetric, NumberFields
  <2>4. ServerComputeMetric(m, rs) = Aggregate("count", [i \in 1..n |-> NULL], "number")
    BY <1>1, <2>1, <2>3 DEF ServerComputeMetric
  <2>5. ComputeMetric(m, rs) = Aggregate("count", [i \in 1..n |-> <<1, 1>>], "number")
    BY <1>1, <2>1, <2>3 DEF ComputeMetric
  <2>6. \A vs : Aggregate("count", vs, "number") = Int2Fraction(Len(vs))
    BY DEF Aggregate
  <2>7. PICK us, vs : us = [i \in 1..n |-> NULL] /\ vs = [i \in 1..n |-> <<1, 1>>] /\ Len(us) = Len(vs)
    BY <2>2
  <2>. QED  BY <2>4, <2>5, <2>6, <2>7
<1>2. CASE m.field # "*"
  <2>1. PICK vs : vs = [i \in DOMAIN rs |-> rs[i][m.field]]
    OBVIOUS
  <2>2. ComputeMetric(m, rs) = Aggregate(m.aggregation, vs, FieldType[m.field])
    BY <1>2, <2>1 DEF ComputeMetric
  <2>3. CASE m.aggregation \in {"count", "countDistinct"}
    <3>1. ServerComputeMetric(m, rs) = Aggregate(m.aggregation, vs, "number")
      BY <1>2, <2>1, <2>3 DEF ServerComputeMetric
    <3>2. \A type : Aggregate(m.aggregation, vs, type) = Aggregate(m.aggregation, vs, "number")
      BY <2>3 DEF Aggregate
    <3>. QED  BY <2>2, <3>1, <3>2
  <2>4. CASE m.aggregation \in {"sum", "avg", "min", "max"} /\ m.field \in NumberFields
    <3>1. FieldType[m.field] = "number" /\ m.field \in DOMAIN FieldType
      BY <2>4 DEF NumberFields
    <3>2. ASSUME NEW i \in DOMAIN rs PROVE TryToDouble(rs[i][m.field]) = rs[i][m.field]
      <4>1. rs[i] \in R
        OBVIOUS
      <4>2. rs[i][m.field] \in Fractions \cup {NULL}
        BY <3>1, <4>1 DEF TypedRow
      <4>3. \A v \in Fractions : IsNumber(v)
        <5>1. \A v \in Int \X (Nat \ {0}) : v \in Int \X Int
          OBVIOUS
        <5>. QED  BY <5>1 DEF Fractions, IsNumber
      <4>. QED  BY <4>2, <4>3 DEF TryToDouble
    <3>3. [i \in DOMAIN rs |-> TryToDouble(vs[i])] = vs
      BY <2>1, <3>2
    <3>4. ServerComputeMetric(m, rs) = Aggregate(m.aggregation, [i \in DOMAIN rs |-> TryToDouble(vs[i])], "number")
      BY <1>2, <2>1, <2>4 DEF ServerComputeMetric
    <3>. QED  BY <2>2, <3>1, <3>3, <3>4
  <2>. QED  BY <2>3, <2>4 DEF SharedMetric
<1>. QED  BY <1>1, <1>2

LEMMA MetricsRowsAlike ==
  ASSUME "*" \notin DOMAIN FieldType, {NULL, NaN} \cap Fractions = {},
         NEW d, NEW M, d.metrics \in Seq(M), \A m \in M : SharedMetric(m),
         NEW R, NEW rs \in Seq(R), \A r \in R : TypedRow(r)
  PROVE  ServerMetricsRow(d, rs) = MetricsRow(d, rs)
<1>1. PICK n \in Nat : n = Len(d.metrics) /\ DOMAIN d.metrics = 1..n
  OBVIOUS
<1>. DEFINE at(k) == SelectLastInSeq(d.metrics, LAMBDA m : m.alias = k)
            P(k) == {i \in 1..Len(d.metrics) : d.metrics[i].alias = k}
<1>2. ASSUME NEW k \in {d.metrics[i].alias : i \in DOMAIN d.metrics}
      PROVE  at(k) \in 1..n
  <2>1. P(k) # {} /\ P(k) \subseteq 1..n
    BY <1>1
  <2>2. at(k) = IF P(k) # {} THEN Max(P(k)) ELSE 0
    BY DEF SelectLastInSeq
  <2>3. PICK Q, a : Q = P(k) /\ a = at(k)
    OBVIOUS
  <2>4. a \in Q
    <3>. HIDE DEF P, at
    <3>. QED  BY <2>1, <2>2, <2>3, LastPlace
  <2>. QED  BY <1>1, <2>3, <2>4
<1>3. \A k \in {d.metrics[i].alias : i \in DOMAIN d.metrics} :
        ServerComputeMetric(d.metrics[at(k)], rs) = ComputeMetric(d.metrics[at(k)], rs)
  <2>. HIDE DEF at
  <2>1. \A i \in 1..n : d.metrics[i] \in M
    BY <1>1
  <2>. QED  BY <1>2, <2>1, MetricsAlike
<1>. QED  BY <1>3 DEF ServerMetricsRow, MetricsRow

\* The dimensions of a bucket are those of its first row.
LEMMA DimensionsAlike ==
  ASSUME NEW d, NEW G, d.groupBy \in Seq(G), NEW R, ReadAlike(d, R), NEW r \in R, NEW c, c.key = ServerKeyOf(d, r)
  PROVE  ServerDimensionsRow(d, c) = DimensionsRow(d, r)
<1>1. PICK n \in Nat : n = Len(d.groupBy) /\ DOMAIN d.groupBy = 1..n
  OBVIOUS
<1>. DEFINE at(k) == SelectLastInSeq(d.groupBy, LAMBDA g : g.field = k)
            P(k) == {i \in 1..Len(d.groupBy) : d.groupBy[i].field = k}
<1>2. ASSUME NEW k \in {d.groupBy[i].field : i \in DOMAIN d.groupBy}
      PROVE  at(k) \in 1..n /\ d.groupBy[at(k)].field = k
  <2>1. P(k) # {} /\ P(k) \subseteq 1..n
    BY <1>1
  <2>2. at(k) = IF P(k) # {} THEN Max(P(k)) ELSE 0
    BY DEF SelectLastInSeq
  <2>3. PICK Q, a : Q = P(k) /\ a = at(k)
    OBVIOUS
  <2>4. a \in Q
    <3>. HIDE DEF P, at
    <3>. QED  BY <2>1, <2>2, <2>3, LastPlace
  <2>. QED  BY <1>1, <2>3, <2>4
<1>3. ASSUME NEW i \in 1..n PROVE c.key[i] = BucketValue(r[d.groupBy[i].field], d.groupBy[i])
  <2>1. d.groupBy[i] \in ToSet(d.groupBy)
    BY <1>1 DEF ToSet
  <2>2. c.key[i] = ServerBucketValue(r[d.groupBy[i].field], d.groupBy[i])
    BY <1>1 DEF ServerKeyOf
  <2>. QED  BY <2>1, <2>2 DEF ReadAlike
<1>4. \A k \in {d.groupBy[i].field : i \in DOMAIN d.groupBy} :
        c.key[at(k)] = BucketValue(r[k], d.groupBy[at(k)])
  <2>. HIDE DEF at
  <2>. QED  BY <1>2, <1>3
<1>. QED  BY <1>4 DEF ServerDimensionsRow, DimensionsRow

LEMMA SharedCalcs ==
  ASSUME NEW d, Portable(d), Shared(d)
  PROVE  \E C : CalcsOf(d, "aggregate") \in Seq(C) /\ \A c \in C : Readable(c)
<1>1. PICK C : C = ToSet(d.calculatedFields)
  OBVIOUS
<1>2. \A c \in C : Readable(c)
  BY <1>1 DEF Portable, Shared, Readable
<1>3. \A e \in C : e \in {c \in C : c.scope = "aggregate"} => e \in C
  OBVIOUS
<1>4. d.calculatedFields \in Seq(C)
  BY <1>1 DEF Portable
<1>5. Among(d.calculatedFields, {c \in C : c.scope = "aggregate"}) \in Seq(C)
  BY <1>3, <1>4, AmongType
<1>. QED  BY <1>1, <1>2, <1>5 DEF CalcsOf

\* The row of a bucket, where the browser's engine gives one.
LEMMA GroupRowsAlike ==
  ASSUME "*" \notin DOMAIN FieldType, {NULL, NaN} \cap Fractions = {},
         NEW d, Portable(d), Shared(d), NEW R, ReadAlike(d, R), \A r \in R : TypedRow(r),
         NEW b, NEW c, c.rows = b.rows,
         b.rows \in Seq(R), b.rows # << >>, c.key = ServerKeyOf(d, b.rows[1]), ~GroupRow(d, b).thrown
  PROVE  ServerGroupRow(d, c) = GroupRow(d, b).row
<1>1. PICK rs \in Seq(R) : rs = b.rows
  OBVIOUS
<1>2. rs[1] \in R
  BY <1>1
<1>3. ServerDimensionsRow(d, c) = DimensionsRow(d, rs[1])
  BY <1>1, <1>2, DimensionsAlike DEF Portable
<1>4. ServerMetricsRow(d, rs) = MetricsRow(d, rs)
  <2>1. PICK M : M = ToSet(d.metrics)
    OBVIOUS
  <2>2. d.metrics \in Seq(M) /\ \A m \in M : SharedMetric(m)
    BY <2>1 DEF Portable, Shared
  <2>. QED  BY <2>2, MetricsRowsAlike
<1>5. PICK row : row = Assigned(DimensionsRow(d, rs[1]), MetricsRow(d, rs))
  OBVIOUS
<1>6. PICK C, calcs : calcs = CalcsOf(d, "aggregate") /\ calcs \in Seq(C) /\ \A x \in C : Readable(x)
  BY SharedCalcs
<1>7. GroupRow(d, b) = AddCalcs(row, calcs, {NULL})
  BY <1>1, <1>5, <1>6 DEF GroupRow, AggCalcs
<1>8. ServerGroupRow(d, c) = ServerAddCalcs(row, calcs)
  BY <1>1, <1>3, <1>4, <1>5, <1>6 DEF ServerGroupRow
<1>. QED  BY <1>6, <1>7, <1>8, CalcsAlike

\* Without calculated fields a row is what it was.
LEMMA NothingCalculated ==
  ASSUME NEW row, NEW outs
  PROVE  AddCalcs(row, << >>, outs) = [row |-> row, thrown |-> FALSE] /\ ServerAddCalcs(row, << >>) = row
<1>1. PICK C : C = {}
  OBVIOUS
<1>2. PICK calcs \in Seq(C) : calcs = << >> /\ Len(calcs) = 0
  BY NothingIsSequence
<1>3. PICK f : Adding(f, row, calcs, outs) /\ AddCalcs(row, calcs, outs) = f[Len(calcs)]
  BY CalcsAre
<1>4. PICK g : ServerAdding(g, row, calcs) /\ ServerAddCalcs(row, calcs) = g[Len(calcs)]
  BY ServerCalcsAre
<1>5. f[0] = [row |-> row, thrown |-> FALSE] /\ g[0] = row
  BY <1>3, <1>4 DEF Adding, ServerAdding
<1>. QED  BY <1>2, <1>3, <1>4, <1>5

LEMMA NoRowCalcs ==
  ASSUME NEW d, Portable(d), Shared(d)
  PROVE  CalcsOf(d, "row") = << >>
<1>1. PICK C : C = ToSet(d.calculatedFields)
  OBVIOUS
<1>2. \A e \in C : e \notin {c \in C : c.scope = "row"}
  BY <1>1 DEF Shared
<1>3. d.calculatedFields \in Seq(C)
  BY <1>1 DEF Portable
<1>4. Among(d.calculatedFields, {c \in C : c.scope = "row"}) = << >>
  BY <1>2, <1>3, AmongNothing
<1>. QED  BY <1>1, <1>4 DEF CalcsOf

\* The rows of the server's result, before they are sorted.
ServerResult(d, rs) ==
  IF d.groupBy # << >>
  THEN [i \in DOMAIN ServerBuckets(d, rs) |-> ServerGroupRow(d, ServerBuckets(d, rs)[i])]
  ELSE IF d.metrics # << >> THEN <<ServerAddCalcs(ServerMetricsRow(d, rs), CalcsOf(d, "aggregate"))>>
  ELSE [i \in DOMAIN rs |-> ServerProjectFlatRow(d, rs[i])]

LEMMA FlatRowsAlike ==
  ASSUME NEW d, Portable(d), Shared(d), NEW row
  PROVE  ServerProjectFlatRow(d, row) = ProjectFlatRow(d, row)
<1>1. PICK C : C = ToSet(d.columns)
  OBVIOUS
<1>2. PICK s \in Seq(C) : s = d.columns
  BY <1>1 DEF Portable
<1>3. \A i \in 1..Len(s) : s[i] \in {c \in C : c.visible}
  BY <1>1, <1>2 DEF Shared
<1>4. VisibleColumns(d) = d.columns
  BY <1>1, <1>2, <1>3, AmongAll DEF VisibleColumns
<1>5. CalcsOf(d, "row") = << >>
  BY NoRowCalcs
<1>6. ToSet(<< >>) = {}
  BY DEF ToSet
<1>7. PICK none : none = CalcsOf(d, "row") /\ ToSet(none) = {}
  BY <1>5, <1>6
<1>8. {c.field : c \in ToSet(VisibleColumns(d))} \cup {c.alias : c \in ToSet(none)} = {c.field : c \in C}
  BY <1>1, <1>4, <1>7
<1>. QED  BY <1>1, <1>7, <1>8 DEF ServerProjectFlatRow, ProjectFlatRow

LEMMA ResultsAlike ==
  ASSUME "*" \notin DOMAIN FieldType, {NULL, NaN} \cap Fractions = {},
         NEW d, Portable(d), Shared(d), NEW R, ReadAlike(d, R), \A r \in R : TypedRow(r),
         NEW rs \in Seq(R), NEW made,
         made = OutRows(d, rs, Buckets(d, rs)), ~Thrown(made)
  PROVE  ServerResult(d, rs) = RowsOf(made)
<1>1. CASE d.groupBy # << >>
  <2>1. KeysAlike(d, R)
    BY ReadAlikeKeys DEF Portable
  <2>2. PICK bs, cs : bs = Buckets(d, rs) /\ cs = ServerBuckets(d, rs)
    OBVIOUS
  <2>3. Twins(d, bs, cs) /\ IsSequence(cs) /\ \E K : bs \in Seq([key : K, rows : Seq(R)])
    BY <1>1, <2>1, <2>2, BucketsAreTwins
  <2>4. PICK K : bs \in Seq([key : K, rows : Seq(R)])
    BY <2>3
  <2>5. PICK n \in Nat : n = Len(bs) /\ DOMAIN bs = 1..n
    BY <2>4
  <2>6. DOMAIN cs = 1..n
    <3>1. PICK V : cs \in Seq(V)
      BY <2>3 DEF IsSequence
    <3>2. Len(cs) = n
      BY <2>3, <2>5 DEF Twins
    <3>. QED  BY <3>1, <3>2
  <2>7. made = [i \in 1..n |-> GroupRow(d, bs[i])]
    BY <1>1, <2>2, <2>5 DEF OutRows
  <2>8. ASSUME NEW i \in 1..n PROVE ServerGroupRow(d, cs[i]) = GroupRow(d, bs[i]).row
    <3>1. ~GroupRow(d, bs[i]).thrown
      BY <2>7 DEF Thrown
    <3>2. bs[i].rows \in Seq(R)
      BY <2>4, <2>5, BucketRows
    <3>3. /\ cs[i].rows = bs[i].rows /\ bs[i].rows # << >> /\ cs[i].key = ServerKeyOf(d, bs[i].rows[1])
      BY <2>3, <2>5 DEF Twins
    <3>. QED  BY <3>1, <3>2, <3>3, GroupRowsAlike
  <2>9. RowsOf(made) = [i \in 1..n |-> GroupRow(d, bs[i]).row]
    BY <2>7 DEF RowsOf
  <2>10. ServerResult(d, rs) = [i \in 1..n |-> ServerGroupRow(d, cs[i])]
    BY <1>1, <2>2, <2>6 DEF ServerResult
  <2>. QED  BY <2>8, <2>9, <2>10
<1>2. CASE d.groupBy = << >> /\ d.metrics # << >>
  <2>1. PICK row : row = MetricsRow(d, rs)
    OBVIOUS
  <2>2. ServerMetricsRow(d, rs) = row
    <3>1. PICK M : M = ToSet(d.metrics)
      OBVIOUS
    <3>2. d.metrics \in Seq(M) /\ \A m \in M : SharedMetric(m)
      BY <3>1 DEF Portable, Shared
    <3>. QED  BY <2>1, <3>2, MetricsRowsAlike
  <2>3. PICK C, calcs : calcs = CalcsOf(d, "aggregate") /\ calcs \in Seq(C) /\ \A x \in C : Readable(x)
    BY SharedCalcs
  <2>4. PICK one : one = AddCalcs(row, calcs, {NULL})
    OBVIOUS
  <2>5. made = <<one>>
    BY <1>2, <2>1, <2>3, <2>4 DEF OutRows, AggCalcs
  <2>6. ~one.thrown
    BY <2>5 DEF Thrown
  <2>7. ServerAddCalcs(row, calcs) = one.row
    BY <2>3, <2>4, <2>6, CalcsAlike
  <2>8. RowsOf(made) = <<one.row>>
    BY <2>5 DEF RowsOf
  <2>. QED  BY <1>2, <2>2, <2>3, <2>7, <2>8 DEF ServerResult
<1>3. CASE d.groupBy = << >> /\ d.metrics = << >>
  <2>1. PICK n \in Nat : n = Len(rs) /\ DOMAIN rs = 1..n
    OBVIOUS
  <2>2. made = [i \in 1..n |-> [row |-> ProjectFlatRow(d, rs[i]), thrown |-> FALSE]]
    BY <1>3, <2>1 DEF OutRows
  <2>3. RowsOf(made) = [i \in 1..n |-> ProjectFlatRow(d, rs[i])]
    BY <2>2 DEF RowsOf
  <2>. QED  BY <1>3, <2>1, <2>3, FlatRowsAlike DEF ServerResult
<1>. QED  BY <1>1, <1>2, <1>3

\* Keys that all have a priority, or all have none, come in one order.
LEMMA PrioritiesAlike ==
  ASSUME NEW keys, NEW S, keys \in Seq(S), \A s \in S : s.priority \in Int \cup {NULL},
         (\A s \in S : s.priority = NULL) \/ (\A s \in S : s.priority # NULL),
         NEW i \in DOMAIN keys, NEW j \in DOMAIN keys
  PROVE  ServerKeyBefore(keys, i, j) <=> KeyBefore(keys, i, j)
<1>1. keys[i] \in S /\ keys[j] \in S /\ i \in Nat /\ j \in Nat
  OBVIOUS
<1>2. CASE \A s \in S : s.priority = NULL
  <2>1. keys[i].priority = NULL /\ keys[j].priority = NULL
    BY <1>1, <1>2
  <2>2. KeyBefore(keys, i, j) <=> i < j
    BY <1>1, <2>1 DEF KeyBefore
  <2>3. ServerKeyBefore(keys, i, j) <=> i < j
    BY <1>1, <2>1 DEF ServerKeyBefore
  <2>. QED  BY <2>2, <2>3
<1>3. CASE \A s \in S : s.priority # NULL
  <2>1. PICK p, q \in Int : p = keys[i].priority /\ q = keys[j].priority /\ p # NULL /\ q # NULL
    BY <1>1, <1>3
  <2>2. KeyBefore(keys, i, j) <=> p < q \/ (~(q < p) /\ i < j)
    BY <2>1 DEF KeyBefore
  <2>3. ServerKeyBefore(keys, i, j) <=> p < q \/ (p = q /\ i < j)
    BY <2>1 DEF ServerKeyBefore
  <2>. QED  BY <1>1, <2>2, <2>3
<1>. QED  BY <1>2, <1>3

\* A set of keys has one that comes before the others.
LEMMA LeastValue ==
  ASSUME NEW n \in Nat, NEW f \in [1..n -> Int], NEW A, A \subseteq 1..n, A # {}
  PROVE  \E a \in A : \A b \in A : f[a] <= f[b]
<1>. DEFINE least(B) == \E a \in B : \A b \in B : f[a] <= f[b]
            T == {m \in Nat : \A B \in SUBSET (1..n) : B \subseteq 1..m /\ B # {} => least(B)}
<1>1. 0 \in T
  <2>1. \A B : B \subseteq 1..0 => B = {}
    OBVIOUS
  <2>. QED  BY <2>1
<1>2. ASSUME NEW m \in Nat, m \in T PROVE m + 1 \in T
  <2>. SUFFICES ASSUME NEW B \in SUBSET (1..n), B \subseteq 1..(m + 1), B # {} PROVE least(B)
    OBVIOUS
  <2>1. PICK D : D = B \ {m + 1}
    OBVIOUS
  <2>2. D \in SUBSET (1..n) /\ D \subseteq 1..m
    BY <2>1
  <2>3. CASE m + 1 \notin B
    BY <1>2, <2>1, <2>2, <2>3
  <2>4. CASE D = {}
    <3>1. B = {m + 1} /\ m + 1 \in 1..n /\ f[m + 1] \in Int
      BY <2>1, <2>4
    <3>. QED  BY <3>1
  <2>5. CASE m + 1 \in B /\ D # {}
    <3>1. PICK a \in D : \A b \in D : f[a] <= f[b]
      BY <1>2, <2>2, <2>5
    <3>2. a \in B /\ f[a] \in Int /\ f[m + 1] \in Int /\ \A b \in B : (b \in D \/ b = m + 1) /\ f[b] \in Int
      BY <2>1, <2>2, <2>5
    <3>3. CASE f[a] <= f[m + 1]
      BY <3>1, <3>2, <3>3
    <3>4. CASE f[m + 1] <= f[a]
      <4>1. \A b \in B : f[m + 1] <= f[b]
        BY <3>1, <3>2, <3>4
      <4>. QED  BY <2>5, <4>1
    <3>. QED  BY <3>2, <3>3, <3>4
  <2>. QED  BY <2>3, <2>4, <2>5
<1>. HIDE DEF T
<1>3. n \in T
  BY <1>1, <1>2, Induction
<1>4. least(A)
  BY <1>3 DEF T
<1>. QED  BY <1>4

LEMMA FirstKey ==
  ASSUME NEW keys, NEW S, keys \in Seq(S), \A s \in S : s.priority \in Int \cup {NULL},
         (\A s \in S : s.priority = NULL) \/ (\A s \in S : s.priority # NULL),
         NEW A, A \subseteq DOMAIN keys, A # {}
  PROVE  \E i \in A : \A j \in A \ {i} : KeyBefore(keys, i, j)
<1>1. PICK n \in Nat : n = Len(keys) /\ DOMAIN keys = 1..n /\ \A i \in 1..n : keys[i] \in S
  OBVIOUS
<1>2. CASE \A s \in S : s.priority = NULL
  <2>1. Min(A) \in A /\ \A j \in A : Min(A) <= j
    BY <1>1, FirstPlace
  <2>2. PICK i \in A : \A j \in A : i <= j
    BY <2>1
  <2>3. ASSUME NEW j \in A \ {i} PROVE KeyBefore(keys, i, j)
    <3>1. keys[i].priority = NULL /\ keys[j].priority = NULL /\ i \in Nat /\ j \in Nat /\ i <= j
      BY <1>1, <1>2, <2>2
    <3>. QED  BY <3>1 DEF KeyBefore
  <2>. QED  BY <2>3
<1>3. CASE \A s \in S : s.priority # NULL
  <2>1. PICK f \in [1..n -> Int] : \A i \in 1..n : f[i] = keys[i].priority
    <3>1. \A i \in 1..n : keys[i].priority \in Int
      BY <1>1, <1>3
    <3>2. [i \in 1..n |-> keys[i].priority] \in [1..n -> Int]
      BY <3>1
    <3>. QED  BY <3>2
  <2>2. PICK a \in A : \A b \in A : f[a] <= f[b]
    BY <1>1, LeastValue
  <2>3. PICK B : B = {b \in A : f[b] = f[a]} /\ B \subseteq 1..n /\ B # {}
    BY <1>1
  <2>4. PICK i \in B : \A j \in B : i <= j
    <3>1. Min(B) \in B /\ \A j \in B : Min(B) <= j
      BY <2>3, FirstPlace
    <3>. QED  BY <3>1
  <2>5. ASSUME NEW j \in A \ {i} PROVE KeyBefore(keys, i, j)
    <3>1. i \in 1..n /\ j \in 1..n /\ keys[i] \in S /\ keys[j] \in S
      BY <1>1, <2>3
    <3>2. /\ keys[i].priority = f[i] /\ keys[j].priority = f[j] /\ f[i] \in Int /\ f[j] \in Int
          /\ keys[i].priority # NULL /\ keys[j].priority # NULL
      BY <1>3, <2>1, <3>1
    <3>3. f[i] <= f[j] /\ (f[j] = f[i] => i <= j)
      BY <2>2, <2>3, <2>4
    <3>. QED  BY <3>1, <3>2, <3>3 DEF KeyBefore
  <2>. QED  BY <2>3, <2>5
<1>. QED  BY <1>2, <1>3

\* No key is calculated: each is compared by the type of its metric or of its field.
LEMMA CellsAlike ==
  ASSUME NEW d, Portable(d), Shared(d), NEW s \in ToSet(d.sorting), NEW a, NEW b
  PROVE  ServerCellBefore(d, s, a, b) <=> CellBefore(d, s, a, b)
<1>1. PICK A, C : A = {m.alias : m \in ToSet(d.metrics)} /\ C = {c.alias : c \in ToSet(d.calculatedFields)}
  OBVIOUS
<1>2. s.field \in DOMAIN FieldType \cup A \cup C
  BY <1>1 DEF Portable
<1>3. s.field \notin C
  BY <1>1 DEF Shared
<1>4. PICK type : type = AliasType(d, s.field)
  OBVIOUS
<1>5. type = IF s.field \in A THEN "number" ELSE FieldType[s.field]
  BY <1>1, <1>2, <1>3, <1>4 DEF AliasType
<1>. DEFINE before(x, y) == IF x = NULL \/ y = NULL THEN x # NULL /\ y = NULL
                            ELSE CellLess(type, x, y)
<1>6. CellBefore(d, s, a, b) <=> IF s.direction = "desc" THEN before(b, a) ELSE before(a, b)
  <2>1. \A x, y : ~Unordered(d, s, x, y)
    BY <1>1, <1>3 DEF Unordered
  <2>. QED  BY <1>4, <2>1 DEF CellBefore
<1>7. s.field \in A \cup DOMAIN FieldType
  BY <1>2, <1>3
<1>8. ServerCellBefore(d, s, a, b) <=> IF s.direction = "desc" THEN before(b, a) ELSE before(a, b)
  BY <1>1, <1>5, <1>7 DEF ServerCellBefore
<1>. QED  BY <1>6, <1>8

LEMMA RowsAlike ==
  ASSUME NEW d, Portable(d), Shared(d), NEW rs, NEW i, NEW j
  PROVE  ServerRowBefore(d, rs, i, j) <=> RowBefore(d, rs, i, j)
<1>1. PICK keys, S : keys = d.sorting /\ S = ToSet(d.sorting) /\ keys \in Seq(S)
  BY DEF Portable
<1>2. \A n \in DOMAIN keys : keys[n] \in S
  BY <1>1
<1>. DEFINE before(n, x, y) == CellBefore(d, keys[n], Cell(rs[x], keys[n].field), Cell(rs[y], keys[n].field))
            else(n, x, y) == ServerCellBefore(d, keys[n], Cell(rs[x], keys[n].field), Cell(rs[y], keys[n].field))
            first(A) == CHOOSE n \in A : \A m \in A \ {n} : KeyBefore(keys, n, m)
            other(A) == CHOOSE n \in A : \A m \in A \ {n} : ServerKeyBefore(keys, n, m)
<1>3. \A n \in DOMAIN keys : \A x, y : else(n, x, y) <=> before(n, x, y)
  <2>. SUFFICES ASSUME NEW n \in DOMAIN keys, NEW x, NEW y PROVE else(n, x, y) <=> before(n, x, y)
    OBVIOUS
  <2>1. keys[n] \in ToSet(d.sorting)
    BY <1>1, <1>2
  <2>. QED  BY <2>1, CellsAlike
<1>4. PICK apart : /\ apart = {n \in DOMAIN keys : before(n, i, j) \/ before(n, j, i)}
                   /\ apart = {n \in DOMAIN keys : else(n, i, j) \/ else(n, j, i)}
  BY <1>3
<1>5. apart \subseteq DOMAIN keys
  BY <1>4
<1>6. /\ \A n, m \in DOMAIN keys : ServerKeyBefore(keys, n, m) <=> KeyBefore(keys, n, m)
      /\ apart # {} => \E n \in apart : \A m \in apart \ {n} : KeyBefore(keys, n, m)
  <2>1. \A s \in S : s.priority \in Int \cup {NULL}
    BY <1>1 DEF Portable
  <2>2. (\A s \in S : s.priority = NULL) \/ (\A s \in S : s.priority # NULL)
    BY <1>1 DEF Shared
  <2>3. \A n, m \in DOMAIN keys : ServerKeyBefore(keys, n, m) <=> KeyBefore(keys, n, m)
    BY <1>1, <2>1, <2>2, PrioritiesAlike
  <2>4. apart # {} => \E n \in apart : \A m \in apart \ {n} : KeyBefore(keys, n, m)
    BY <1>1, <1>5, <2>1, <2>2, FirstKey
  <2>. QED  BY <2>3, <2>4
<1>7. other(apart) = first(apart)
  <2>1. \A n \in apart : (\A m \in apart \ {n} : ServerKeyBefore(keys, n, m))
                           <=> (\A m \in apart \ {n} : KeyBefore(keys, n, m))
    BY <1>5, <1>6
  <2>. QED  BY <2>1, Zenon
<1>8. apart # {} => first(apart) \in apart
  BY <1>6
<1>9. RowBefore(d, rs, i, j) <=> IF apart = {} THEN i < j ELSE before(first(apart), i, j)
  <2>. DEFINE open(n) == Unordered(d, keys[n], Cell(rs[i], keys[n].field), Cell(rs[j], keys[n].field))
  <2>1. \A n \in DOMAIN keys : ~open(n)
    <3>1. \A n \in DOMAIN keys : keys[n].field \notin {c.alias : c \in ToSet(d.calculatedFields)}
      BY <1>1, <1>2 DEF Shared
    <3>. QED  BY <3>1 DEF Unordered
  <2>2. {n \in DOMAIN keys : before(n, i, j) \/ before(n, j, i) \/ open(n)} = apart
    BY <1>4, <2>1
  <2>3. apart # {} => ~open(first(apart))
    BY <1>5, <1>8, <2>1
  <2>. QED  BY <1>1, <2>2, <2>3 DEF RowBefore
<1>10. ServerRowBefore(d, rs, i, j) <=> IF apart = {} THEN i < j ELSE else(other(apart), i, j)
  BY <1>1, <1>4 DEF ServerRowBefore
<1>. QED  BY <1>3, <1>5, <1>7, <1>8, <1>9, <1>10

LEMMA SortsAlike ==
  ASSUME NEW d, Portable(d), Shared(d), NEW rs
  PROVE  ServerStableSort(d, rs) = StableSort(d, rs)
<1>1. \A i, j : ServerRowBefore(d, rs, i, j) <=> RowBefore(d, rs, i, j)
  BY RowsAlike
<1>2. {p \in (DOMAIN rs) \X (DOMAIN rs) : ServerRowBefore(d, rs, p[1], p[2])}
        = {p \in (DOMAIN rs) \X (DOMAIN rs) : RowBefore(d, rs, p[1], p[2])}
  BY <1>1
<1>. QED  BY <1>2 DEF ServerStableSort, StableSort

\* What the two engines give for one report and one dataset.
LEMMA AnswersAlike ==
  ASSUME Today \in Date, "*" \notin DOMAIN FieldType, {NULL, NaN} \cap Fractions = {},
         \A r \in Asked : TypedRow(r),
         NEW d, Portable(d), Shared(d), NEW dt \in Seq(Asked), ReadAlike(d, Asked),
         NEW rs, rs = FilterRows(d, dt), NEW made, made = OutRows(d, rs, Buckets(d, rs)), ~Thrown(made)
  PROVE  ExecuteAsync(d, dt) = Page(d, StableSort(d, RowsOf(made)))
<1>1. ServerFilterRows(d, dt) = rs
  <2>1. \A r \in ToSet(dt) : TypedRow(r)
    BY DEF ToSet
  <2>2. d.filterGroup = NULL /\ \A f \in ToSet(d.filters) : SharedFilter(f)
    BY DEF Shared
  <2>. QED  BY <2>1, <2>2, FiltersAlike
<1>2. rs \in Seq(Asked)
  <2>1. PICK T : T = {row \in ToSet(dt) : Selected(d, row)}
    OBVIOUS
  <2>2. \A e \in Asked : e \in T => e \in Asked
    OBVIOUS
  <2>3. Among(dt, T) \in Seq(Asked)
    BY <2>2, AmongType
  <2>. QED  BY <2>1, <2>3 DEF FilterRows
<1>3. [i \in DOMAIN rs |-> ServerAddCalcs(rs[i], CalcsOf(d, "row"))] = rs
  <2>1. CalcsOf(d, "row") = << >>
    BY NoRowCalcs
  <2>2. \A i \in DOMAIN rs : ServerAddCalcs(rs[i], CalcsOf(d, "row")) = rs[i]
    BY <2>1, NothingCalculated
  <2>3. rs = [i \in DOMAIN rs |-> rs[i]]
    BY <1>2
  <2>. QED  BY <2>2, <2>3
<1>4. ServerResult(d, rs) = RowsOf(made)
  BY <1>2, ResultsAlike
<1>5. ExecuteAsync(d, dt) = Page(d, ServerStableSort(d, ServerResult(d, rs)))
  BY <1>1, <1>3 DEF ExecuteAsync, ServerResult
<1>. QED  BY <1>4, <1>5, SortsAlike

\* One more filter on a list of filters.
LEMMA OneMoreOfAList ==
  ASSUME NEW s, s \in Seq(ToSet(s)), NEW f
  PROVE  Append(s, f) \in Seq(ToSet(Append(s, f))) /\ ToSet(Append(s, f)) \subseteq ToSet(s) \cup {f}
<1>1. PICK U : U = ToSet(s) \cup {f}
  OBVIOUS
<1>2. s \in Seq(U) /\ f \in U
  BY <1>1
<1>3. PICK t \in Seq(U) : t = Append(s, f)
  <2>1. Append(s, f) \in Seq(U)
    BY ONLY <1>2
  <2>. QED  BY <2>1
<1>4. PICK T : T = ToSet(t)
  OBVIOUS
<1>5. (\A i \in 1..Len(t) : t[i] \in T) /\ T \subseteq U
  BY <1>4 DEF ToSet
<1>6. t \in Seq(T)
  BY <1>5
<1>. QED  BY <1>1, <1>3, <1>4, <1>5, <1>6

\* A drill-down is portable as the report it opens is.
LEMMA OpensPortable ==
  ASSUME NEW d, Portable(d), ToSet(d.groupBy) \subseteq AllDimensions,
         \A e \in Definition : Portable(e), NEW value
  PROVE  LET e == BuildDrilldownDefinition(d, value)
         IN Portable(e) /\ ToSet(e.groupBy) \subseteq AllDimensions
<1>1. PICK e : e = BuildDrilldownDefinition(d, value)
  OBVIOUS
<1>2. PICK pin : pin = PinnedFilter(d, value) /\ pin.dynamic = NULL
  <2>1. PinnedFilter(d, value).dynamic = NULL
    BY DEF PinnedFilter
  <2>. QED  BY <2>1
<1>3. ASSUME NEW o, Portable(o)
      PROVE  LET fs == Append(o.filters, pin)
             IN fs \in Seq(ToSet(fs)) /\ \A f \in ToSet(fs) : f.dynamic # NULL => MonthHasTheDay(f.dynamic)
  <2>1. PICK s : /\ s = o.filters /\ s \in Seq(ToSet(s))
                 /\ \A f \in ToSet(s) : f.dynamic # NULL => MonthHasTheDay(f.dynamic)
    BY <1>3 DEF Portable
  <2>2. Append(s, pin) \in Seq(ToSet(Append(s, pin))) /\ ToSet(Append(s, pin)) \subseteq ToSet(s) \cup {pin}
    BY <2>1, OneMoreOfAList
  <2>. QED  BY <1>2, <2>1, <2>2
<1>4. CASE d.drilldown = "target"
  <2>1. PICK t : t = d.target /\ t \in Definition /\ Portable(t)
    BY <1>4 DEF Portable
  <2>2. PICK fs : /\ fs = Append(t.filters, pin) /\ fs \in Seq(ToSet(fs))
                  /\ \A f \in ToSet(fs) : f.dynamic # NULL => MonthHasTheDay(f.dynamic)
    BY <1>3, <2>1
  <2>3. e = [t EXCEPT !.filters = fs]
    BY <1>1, <1>2, <1>4, <2>1, <2>2 DEF BuildDrilldownDefinition
  <2>4. /\ DOMAIN e = DOMAIN t /\ e.groupBy = t.groupBy /\ e.metrics = t.metrics
        /\ e.calculatedFields = t.calculatedFields /\ e.columns = t.columns /\ e.sorting = t.sorting
        /\ e.filters = fs /\ e.drilldown = t.drilldown
        /\ e.drilldown = "target" => e.target = t.target
    BY <2>1, <2>3 DEF Portable
  <2>5. Portable(e)
    BY <2>1, <2>2, <2>4 DEF Portable
  <2>. QED  BY <1>1, <2>1, <2>4, <2>5 DEF AllDimensions
<1>5. CASE d.drilldown # "target"
  <2>1. PICK fs : /\ fs = Append(d.filters, pin) /\ fs \in Seq(ToSet(fs))
                  /\ \A f \in ToSet(fs) : f.dynamic # NULL => MonthHasTheDay(f.dynamic)
    BY <1>3
  <2>2. e = [d EXCEPT !.filters = fs, !.groupBy = NextDimension(d), !.drilldown = "none"]
    BY <1>1, <1>2, <1>5, <2>1 DEF BuildDrilldownDefinition
  <2>3. /\ DOMAIN e = DOMAIN d /\ e.groupBy = NextDimension(d) /\ e.metrics = d.metrics
        /\ e.calculatedFields = d.calculatedFields /\ e.columns = d.columns /\ e.sorting = d.sorting
        /\ e.filters = fs /\ e.drilldown = "none"
    BY <2>2 DEF Portable
  <2>4. PICK g \in Seq(ToSet(d.groupBy)) : g = d.groupBy
    BY DEF Portable
  <2>5. e.groupBy \in Seq(ToSet(e.groupBy)) /\ ToSet(e.groupBy) \subseteq ToSet(d.groupBy)
    <3>1. CASE Len(g) > 1
      <4>1. e.groupBy = <<g[2]>> /\ g[2] \in ToSet(g)
        BY <2>3, <2>4, <3>1 DEF NextDimension, ToSet
      <4>2. ToSet(<<g[2]>>) = {g[2]}
        BY DEF ToSet
      <4>. QED  BY <2>4, <4>1, <4>2
    <3>2. CASE ~(Len(g) > 1)
      <4>1. e.groupBy = << >>
        BY <2>3, <2>4, <3>2 DEF NextDimension
      <4>2. ToSet(<< >>) = {}
        BY DEF ToSet
      <4>. QED  BY <4>1, <4>2
    <3>. QED  BY <3>1, <3>2
  <2>6. Portable(e)
    BY <2>1, <2>3, <2>5 DEF Portable
  <2>. QED  BY <1>1, <2>5, <2>6
<1>. QED  BY <1>4, <1>5

\* The rows of a report with their calculated fields, and what it makes of them.
CalculatedRowsOf(d, dt) ==
  RowsOf([i \in DOMAIN FilterRows(d, dt) |-> RowCalcs(d, FilterRows(d, dt)[i])])
Made(d, dt) == OutRows(d, CalculatedRowsOf(d, dt), Buckets(d, CalculatedRowsOf(d, dt)))

\* What each stage has computed from the dataset.
AgreeInv ==
  /\ Portable(def) /\ ToSet(def.groupBy) \subseteq AllDimensions
  /\ data \in Seq(Asked)
  /\ stage = "calculate" => rows = FilterRows(def, data)
  /\ stage \in {"group", "aggregate"} => rows = CalculatedRowsOf(def, data)
  /\ stage = "aggregate" => buckets = Buckets(def, rows)
  /\ stage \in {"sort", "cut", "done"} => ~Thrown(Made(def, data))
  /\ stage = "sort" => out = RowsOf(Made(def, data))
  /\ stage = "cut" => out = StableSort(def, RowsOf(Made(def, data)))
  /\ stage = "done" => out = Page(def, StableSort(def, RowsOf(Made(def, data))))

LEMMA AgreeInvIsInductive ==
  ASSUME QuestionsArePortable PROVE AgreeInv /\ [Next]_vars => AgreeInv'
<1>. SUFFICES ASSUME AgreeInv, [Next]_vars PROVE AgreeInv'
  OBVIOUS
<1>1. CASE Filter
  BY <1>1 DEF Filter, AgreeInv
<1>2. CASE Calculate
  <2>1. PICK made : made = [i \in DOMAIN rows |-> RowCalcs(def, rows[i])]
    OBVIOUS
  <2>2. CASE Thrown(made)
    BY <1>2, <2>1, <2>2 DEF Calculate, KeepRows, AgreeInv
  <2>3. CASE ~Thrown(made)
    <3>1. rows' = RowsOf(made) /\ stage' = "group" /\ UNCHANGED <<data, def>>
      BY <1>2, <2>1, <2>3 DEF Calculate, KeepRows
    <3>2. RowsOf(made) = CalculatedRowsOf(def, data)
      BY <1>2, <2>1 DEF Calculate, AgreeInv, CalculatedRowsOf
    <3>. QED  BY <3>1, <3>2 DEF AgreeInv
  <2>. QED  BY <2>2, <2>3
<1>3. CASE Group
  BY <1>3 DEF Group, AgreeInv
<1>4. CASE AggregateRows
  <2>1. PICK made : made = OutRows(def, rows, buckets)
    OBVIOUS
  <2>2. made = Made(def, data)
    BY <1>4, <2>1 DEF AggregateRows, AgreeInv, Made
  <2>3. CASE Thrown(made)
    BY <1>4, <2>1, <2>3 DEF AggregateRows, KeepResult, AgreeInv
  <2>4. CASE ~Thrown(made)
    <3>1. out' = RowsOf(made) /\ stage' = "sort" /\ UNCHANGED <<data, def>>
      BY <1>4, <2>1, <2>4 DEF AggregateRows, KeepResult
    <3>. QED  BY <2>2, <2>4, <3>1 DEF AgreeInv
  <2>. QED  BY <2>3, <2>4
<1>5. CASE Sort
  BY <1>5 DEF Sort, AgreeInv
<1>6. CASE Cut
  BY <1>6 DEF Cut, AgreeInv
<1>7. ASSUME NEW i \in DOMAIN groups, Click(i) PROVE AgreeInv'
  <2>1. def' = BuildDrilldownDefinition(def, groups[i]) /\ stage' = "filter" /\ data' = data
    BY <1>7 DEF Click
  <2>2. PICK e : e = BuildDrilldownDefinition(def, groups[i])
    OBVIOUS
  <2>3. Portable(e) /\ ToSet(e.groupBy) \subseteq AllDimensions
    BY <2>2, OpensPortable DEF AgreeInv, QuestionsArePortable
  <2>. QED  BY <2>1, <2>2, <2>3 DEF AgreeInv
<1>8. CASE UNCHANGED vars
  BY <1>8 DEF vars, AgreeInv
<1>. QED  BY <1>1, <1>2, <1>3, <1>4, <1>5, <1>6, <1>7, <1>8 DEF Next

LEMMA EnginesFollow ==
  ASSUME QuestionsArePortable PROVE AgreeInv => EnginesAgree
<1>. SUFFICES ASSUME AgreeInv, stage = "done", Shared(def) PROVE ExecuteAsync(def, data) = out
  BY DEF EnginesAgree
<1>1. PICK d, dt : d = def /\ dt = data
  OBVIOUS
<1>2. Portable(d) /\ Shared(d) /\ dt \in Seq(Asked) /\ ToSet(d.groupBy) \subseteq AllDimensions
  BY <1>1 DEF AgreeInv
<1>3. /\ Today \in Date /\ "*" \notin DOMAIN FieldType /\ {NULL, NaN} \cap Fractions = {}
      /\ \A r \in Asked : TypedRow(r)
  BY DEF QuestionsArePortable, Asked
<1>9. ReadAlike(d, Asked)
  BY <1>2, <1>3, TypedRowsReadAlike
<1>4. PICK rs : rs = FilterRows(d, dt)
  OBVIOUS
<1>5. CalculatedRowsOf(d, dt) = rs
  <2>1. CalcsOf(d, "row") = << >>
    BY <1>2, NoRowCalcs
  <2>2. \A row : RowCalcs(d, row) = [row |-> row, thrown |-> FALSE]
    BY <2>1, NothingCalculated DEF RowCalcs
  <2>3. rs \in Seq(Asked)
    <3>1. PICK T : T = {row \in ToSet(dt) : Selected(d, row)}
      OBVIOUS
    <3>2. \A e \in Asked : e \in T => e \in Asked
      OBVIOUS
    <3>3. Among(dt, T) \in Seq(Asked)
      BY <1>2, <3>2, AmongType
    <3>. QED  BY <1>4, <3>1, <3>3 DEF FilterRows
  <2>4. CalculatedRowsOf(d, dt) = [i \in DOMAIN rs |-> rs[i]]
    BY <1>4, <2>2 DEF CalculatedRowsOf, RowsOf
  <2>. QED  BY <2>3, <2>4
<1>6. PICK made : made = OutRows(d, rs, Buckets(d, rs)) /\ made = Made(d, dt)
  BY <1>5 DEF Made
<1>7. ~Thrown(made) /\ out = Page(d, StableSort(d, RowsOf(made)))
  BY <1>1, <1>6 DEF AgreeInv
<1>8. ExecuteAsync(d, dt) = Page(d, StableSort(d, RowsOf(made)))
  BY <1>2, <1>3, <1>4, <1>6, <1>7, <1>9, AnswersAlike
<1>. QED  BY <1>1, <1>7, <1>8

\* Whatever the rows and the reports, the server's engine gives the rows that the browser's
\* engine gives, for the reports that both read alike, whose filters compare with values of
\* the type of their fields: for months that have the day that is counted to, expressions
\* whose operators have their arguments, reports sorted by what they have, numbers, dates and
\* texts in the fields of each type and no text that reads "null" (runQuery, engine.ts;
\* ExecuteAsync, QueryEngine.cs).
THEOREM EnginesAgreeHolds == ASSUME QuestionsArePortable PROVE Spec => []EnginesAgree
<1>1. Init => AgreeInv
  <2>. SUFFICES ASSUME Init PROVE AgreeInv
    OBVIOUS
  <2>1. PICK q \in Question : def = q[1] /\ data = q[2]
    BY DEF Init
  <2>2. def \in Definition /\ Portable(def) /\ data \in Seq(ToSet(data))
    BY <2>1, QuestionAssumption DEF QuestionsArePortable
  <2>3. data \in Seq(Asked)
    <3>1. PICK T : T = ToSet(data) /\ T \subseteq Asked
      BY <2>1 DEF Asked
    <3>2. PICK s \in Seq(T) : s = data
      BY <2>2, <3>1
    <3>3. s \in Seq(Asked)
      BY <3>1
    <3>. QED  BY <3>2, <3>3
  <2>4. ToSet(def.groupBy) \subseteq AllDimensions
    BY <2>2 DEF AllDimensions
  <2>5. stage = "filter"
    BY DEF Init
  <2>. QED  BY <2>2, <2>3, <2>4, <2>5 DEF AgreeInv
<1>2. AgreeInv => EnginesAgree
  BY EnginesFollow
<1>. QED  BY <1>1, <1>2, AgreeInvIsInductive, PTL DEF Spec
=============================================================================

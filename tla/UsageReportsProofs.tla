------------------------- MODULE UsageReportsProofs -------------------------
(***************************************************************************)
(* Theorems about UsageReports, for every set of Keys, models, buckets and *)
(* zones: that the interval of a report covers the civil days asked for;   *)
(* that the walk over the local calendar visits exactly their periods; that*)
(* an analysis shows what was stored for them, in points, total, models and*)
(* first bucket; and that a ranking misses nothing that had been settled.    *)
(***************************************************************************)
EXTENDS UsageReports, FiniteSetTheorems, Sums, TLAPS

-----------------------------------------------------------------------------
(* The calendar.                                                            *)

\* Periods of m days, or of m buckets.
LEMMA PeriodsOfDays ==
  ASSUME NEW m \in Nat \ {0}
  PROVE  /\ \A d \in Int : d \div m \in Int /\ m * (d \div m) <= d /\ d < m * (d \div m) + m
         /\ \A p \in Int : m * p \in Int /\ (m * p) \div m = p /\ m * (p + 1) = m * p + m
         /\ \A p, q \in Int : p <= q => m * p <= m * q
         /\ \A p, q \in Int : p < q => m * p + m <= m * q
OBVIOUS

LEMMA ReachesPeriod ==
  ASSUME NEW m \in Nat \ {0}, NEW d \in Int, NEW p \in Int
  PROVE  d >= m * p <=> d \div m >= p
<1>. DEFINE q == d \div m
            a == m * q
            b == m * p
<1>1. /\ q \in Int /\ a \in Int /\ b \in Int /\ a <= d /\ d < a + m
      /\ p <= q => b <= a
      /\ q < p => a + m <= b
  BY PeriodsOfDays
<1>. HIDE DEF q, a, b
<1>. QED BY <1>1 DEF q, b

\* A later number is in no earlier period.
LEMMA PeriodsInOrder ==
  ASSUME NEW m \in Nat \ {0}, NEW a \in Int, NEW b \in Int, a <= b
  PROVE  a \div m <= b \div m
<1>. DEFINE q == a \div m
            c == m * q
<1>1. q \in Int /\ c \in Int /\ c <= a /\ b \div m \in Int
  BY PeriodsOfDays
<1>2. c <= b
  BY <1>1
<1>3. b >= m * q <=> b \div m >= q
  BY <1>1, ReachesPeriod
<1>. HIDE DEF q
<1>4. b \div m >= q
  BY <1>1, <1>2, <1>3
<1>. QED BY <1>1, <1>4 DEF q

\* Sums of periods.
LEMMA Distributes ==
  ASSUME NEW m \in Int, NEW a \in Int, NEW b \in Int
  PROVE  m * a + m * b = m * (a + b) /\ m * (a * b) = (m * a) * b /\ m * a \in Int
OBVIOUS

\* Whole periods move a number by as many, and to the same place in its period.
LEMMA Shifts ==
  ASSUME NEW m \in Nat \ {0}, NEW x \in Int, NEW k \in Int
  PROVE  /\ (x + m * k) \div m = x \div m + k
         /\ (x + m * k) % m = x - m * (x \div m)
<1>. DEFINE q == x \div m
            y == x + m * k
            r == y \div m
<1>1. /\ q \in Int /\ m * q \in Int /\ m * q <= x /\ x < m * q + m
      /\ m * k \in Int /\ y \in Int /\ q + k \in Int
  BY PeriodsOfDays
<1>2. m * (q + k) = m * q + m * k /\ m * (q + k + 1) = m * q + m * k + m
  BY <1>1, PeriodsOfDays, Distributes
<1>3. y >= m * (q + k) /\ ~(y >= m * (q + k + 1))
  BY <1>1, <1>2
<1>. HIDE DEF q, y
<1>4. r >= q + k /\ ~(r >= q + k + 1) /\ r \in Int
  BY <1>1, <1>3, ReachesPeriod, PeriodsOfDays
<1>5. r = q + k
  BY <1>1, <1>4
<1>6. y % m = y - m * r
  BY <1>1
<1>7. y % m = x - m * q
  BY <1>1, <1>2, <1>5, <1>6 DEF y
<1>. QED BY <1>5, <1>7 DEF q, y, r

\* A day has as many buckets on the wall clock as 24 hours.
LEMMA DayOfHours ==
  /\ Day \in Nat \ {0}
  /\ \A a, b \in Int : a <= b => a \div Day <= b \div Day
  /\ \A d \in Int : Day * d \in Int /\ (Day * d) \div Day = d
  /\ \A a \in Int : a \div Day \in Int
<1>1. Day \in Nat \ {0}
  BY CalendarAssumption DEF Day
<1>. QED BY <1>1, PeriodsOfDays, PeriodsInOrder

\* The civil day of a later hour is not an earlier one.
LEMMA DaysInOrder ==
  ASSUME NEW zone \in Zones, NEW t \in Int, NEW u \in Int, t <= u
  PROVE  CivilDay(zone, t) <= CivilDay(zone, u)
<1>. DEFINE day(h) == CivilDay(zone, h)
<1>1. /\ zone.before \in Int /\ zone.after \in Int /\ zone.at \in Int
      /\ day(zone.at - 1) <= day(zone.at)
  BY CalendarAssumption
<1>2. \A h \in Int : Wall(zone, h) \in Int /\ day(h) \in Int
  BY <1>1, DayOfHours DEF CivilDay, Wall, Offset
<1>3. ASSUME NEW h \in Int, NEW i \in Int, h <= i, i < zone.at \/ ~(h < zone.at)
      PROVE  day(h) <= day(i)
  <2>1. Wall(zone, h) <= Wall(zone, i)
    BY <1>1, <1>3 DEF Wall, Offset
  <2>. QED BY <1>2, <2>1, DayOfHours DEF CivilDay
<1>4. CASE u < zone.at \/ ~(t < zone.at)
  BY <1>3, <1>4
<1>5. CASE t < zone.at /\ ~(u < zone.at)
  <2>. DEFINE a == zone.at - 1
              b == zone.at
  <2>1. /\ a \in Int /\ b \in Int /\ t <= a /\ a < zone.at
        /\ b <= u /\ ~(b < zone.at)
    BY <1>1, <1>5
  <2>2. day(a) <= day(b)
    BY <1>1
  <2>. HIDE DEF a, b
  <2>3. day(t) <= day(a) /\ day(b) <= day(u)
    BY <1>3, <2>1
  <2>4. day(t) \in Int /\ day(a) \in Int /\ day(b) \in Int /\ day(u) \in Int
    BY <1>2, <2>1
  <2>. HIDE DEF day
  <2>5. day(t) <= day(u)
    BY <2>2, <2>3, <2>4
  <2>. QED BY <2>5 DEF day
<1>. QED BY <1>4, <1>5

\* The instant that time.Date gives for a day separates it from the day before.
LEMMA DayStarts ==
  ASSUME NEW zone \in Zones, NEW d \in Int, Regular(zone, d)
  PROVE  /\ Date(zone, Day * d) \in Int
         /\ Wall(zone, Date(zone, Day * d)) = Day * d
         /\ \A t \in Int : Date(zone, Day * d) <= t <=> CivilDay(zone, t) >= d
<1>. DEFINE start == Date(zone, Day * d)
<1>1. zone.before \in Int /\ zone.after \in Int /\ zone.at \in Int
  BY CalendarAssumption
<1>2. start \in Int
  BY <1>1, DayOfHours DEF Date, Offset
<1>3. Wall(zone, start) = Day * d /\ CivilDay(zone, start - 1) < d
  BY DEF Regular
<1>4. CivilDay(zone, start) = d
  BY <1>3, DayOfHours DEF CivilDay
<1>5. \A t \in Int : CivilDay(zone, t) \in Int
  <2>1. \A t \in Int : Wall(zone, t) \in Int
    BY <1>1 DEF Wall, Offset
  <2>. QED BY <2>1, DayOfHours DEF CivilDay
<1>. HIDE DEF start
<1>6. ASSUME NEW t \in Int
      PROVE  start <= t <=> CivilDay(zone, t) >= d
  <2>1. CASE start <= t
    <3>1. CivilDay(zone, start) <= CivilDay(zone, t)
      BY <1>2, <2>1, DaysInOrder
    <3>. QED BY <1>4, <1>5, <2>1, <3>1
  <2>2. CASE ~(start <= t)
    <3>1. t <= start - 1 /\ start - 1 \in Int
      BY <1>2, <2>2
    <3>2. CivilDay(zone, t) <= CivilDay(zone, start - 1)
      BY <3>1, DaysInOrder
    <3>. QED BY <1>3, <1>5, <2>2, <3>1, <3>2
  <2>. QED BY <2>1, <2>2
<1>. QED BY <1>2, <1>3, <1>6 DEF start

\* The half-open interval of a report is the civil days that were asked for.
THEOREM IntervalIsDays ==
  ASSUME NEW ask, ask.zone \in Zones, ask.from \in Days, ask.to \in Days,
         NEW s \in Slots
  PROVE  Within(ask, s) <=> s \in Asked(ask)
<1>1. /\ ask.from \in Int /\ ask.to \in Int /\ s[3] \in Int
      /\ 0 \in -YearDays..YearDays /\ 1 \in -YearDays..YearDays
  <2>1. s[3] \in Times
    BY DEF Slots
  <2>2. YearDays \in Nat \ {0} /\ Days \subseteq Int /\ Times \subseteq Int
    BY CalendarAssumption
  <2>3. 0 \in -YearDays..YearDays /\ 1 \in -YearDays..YearDays
    BY <2>2
  <2>. QED BY <2>1, <2>2, <2>3
<1>2. Regular(ask.zone, ask.from) /\ Regular(ask.zone, ask.to) /\ Regular(ask.zone, ask.to + 1)
  <2>1. Regular(ask.zone, ask.from + 0) /\ Regular(ask.zone, ask.to + 0) /\ Regular(ask.zone, ask.to + 1)
    BY <1>1, ZonesRegular
  <2>. QED BY <1>1, <2>1
<1>3. From(ask) <= s[3] <=> CivilDay(ask.zone, s[3]) >= ask.from
  BY <1>1, <1>2, DayStarts DEF From
<1>4. Until(ask) = Date(ask.zone, Day * (ask.to + 1))
  <2>1. Wall(ask.zone, Date(ask.zone, Day * ask.to)) = Day * ask.to
    BY <1>1, <1>2, DayStarts
  <2>2. Day * ask.to + Day * 1 = Day * (ask.to + 1)
    BY <1>1, DayOfHours, Distributes
  <2>. QED BY <2>1, <2>2 DEF Until, AddDays
<1>5. Until(ask) \in Int /\ (Until(ask) <= s[3] <=> CivilDay(ask.zone, s[3]) >= ask.to + 1)
  BY <1>1, <1>2, <1>4, DayStarts
<1>6. CivilDay(ask.zone, s[3]) \in Int
  BY <1>1, CalendarAssumption, DayOfHours DEF CivilDay, Wall, Offset
<1>. QED BY <1>1, <1>3, <1>5, <1>6 DEF Within, Asked

-----------------------------------------------------------------------------
(* The walk of a report over its periods.                                   *)

\* v takes every step from t until it is past last.
Walks(v, next, last) == v = [t \in Int |-> IF t > last THEN {} ELSE {t} \cup v[next[t]]]

\* There is such a v, even if some walk never ends: what every set has that is
\* closed under the steps and has t.
LEMMA WalkExists ==
  ASSUME NEW next \in [Int -> Int], NEW last \in Int
  PROVE  \E v : Walks(v, next, last)
<1>. DEFINE Closed(C) == \A u \in C : next[u] <= last => next[u] \in C
            Near(t, C) == Closed(C) /\ (t <= last => t \in C)
            v == [t \in Int |-> {u \in Int : \A C \in SUBSET Int : Near(t, C) => u \in C}]
<1>1. ASSUME NEW t \in Int, t > last PROVE v[t] = {}
  <2>1. Near(t, {}) /\ {} \in SUBSET Int
    BY <1>1
  <2>. HIDE DEF Near
  <2>2. \A u \in Int : u \notin v[t]
    BY <2>1
  <2>. QED BY <2>2
<1>2. ASSUME NEW t \in Int, ~(t > last) PROVE v[t] = {t} \cup v[next[t]]
  <2>. DEFINE D == {t} \cup v[next[t]]
  <2>0. next[t] \in Int /\ t <= last
    BY <1>2
  <2>1. t \in v[t]
    BY <2>0
  <2>2. ASSUME NEW C \in SUBSET Int, Near(t, C) PROVE Near(next[t], C)
    BY <2>0, <2>2
  <2>3. v[next[t]] \subseteq v[t]
    <3>. HIDE DEF Near
    <3>. QED BY <2>0, <2>2
  <2>4. ASSUME NEW u \in v[next[t]], next[u] <= last PROVE next[u] \in v[next[t]]
    <3>1. u \in Int /\ next[u] \in Int
      BY <2>0
    <3>2. ASSUME NEW C \in SUBSET Int, Near(next[t], C) PROVE next[u] \in C
      <4>1. u \in C
        BY <2>0, <3>2
      <4>. QED BY <2>4, <3>2, <4>1
    <3>. QED BY <2>0, <3>1, <3>2
  <2>5. next[t] <= last => next[t] \in v[next[t]]
    BY <2>0
  <2>6. Near(t, D)
    BY <2>4, <2>5
  <2>7. D \in SUBSET Int
    BY <2>0
  <2>8. v[t] \subseteq D
    <3>. HIDE DEF D, Near
    <3>. QED BY <2>6, <2>7
  <2>. QED BY <2>1, <2>3, <2>8
<1>3. v = [t \in Int |-> IF t > last THEN {} ELSE {t} \cup v[next[t]]]
  <2>1. \A t \in Int : v[t] = IF t > last THEN {} ELSE {t} \cup v[next[t]]
    BY <1>1, <1>2
  <2>2. v = [t \in Int |-> v[t]]
    OBVIOUS
  <2>. HIDE DEF v
  <2>. QED BY <2>1, <2>2
<1>. HIDE DEF v
<1>. QED BY <1>3 DEF Walks

\* The steps lead from c[a] to c[b] and then past last.
Leads(next, c, a, b, last) ==
  /\ \A p \in a .. b : next[c[p]] = c[p + 1]
  /\ \A p \in a .. (b + 1) : c[p] \in Int /\ (c[p] <= last <=> p <= b)

\* What a walk visits.
LEMMA WalkVisits ==
  ASSUME NEW next, NEW last \in Int, NEW v, Walks(v, next, last),
         NEW c, NEW a \in Int, NEW b \in Int, a <= b, Leads(next, c, a, b, last)
  PROVE  v[c[a]] = {c[q] : q \in a .. b}
<1>0. /\ \A p \in a .. b : next[c[p]] = c[p + 1]
      /\ \A p \in a .. (b + 1) : c[p] \in Int /\ (c[p] <= last <=> p <= b)
  BY DEF Leads
<1>. DEFINE visited(p) == {c[q] : q \in p .. b}
            Bad == {k \in 0 .. (b + 1 - a) : v[c[b + 1 - k]] # visited(b + 1 - k)}
<1>1. \A t \in Int : v[t] = IF t > last THEN {} ELSE {t} \cup v[next[t]]
  BY DEF Walks
<1>2. Bad = {}
  <2>. SUFFICES ASSUME Bad # {} PROVE FALSE
    OBVIOUS
  <2>1. Bad \in SUBSET (0 .. (b + 1 - a)) /\ Bad \in SUBSET Int /\ b + 1 - a \in Int /\ 0 \in Int
    OBVIOUS
  <2>2. IsFiniteSet(Bad)
    BY <2>1, FS_Interval, FS_Subset
  <2>. HIDE DEF Bad
  <2>3. PICK k \in Bad : \A j \in Bad : k <= j
    BY <2>1, <2>2, LeastExists
  <2>. DEFINE p == b + 1 - k
  <2>4. /\ k \in 0 .. (b + 1 - a) /\ p \in a .. (b + 1) /\ c[p] \in Int
        /\ v[c[p]] # visited(p)
    BY <1>0, <2>1, <2>3 DEF Bad
  <2>5. CASE k = 0
    <3>1. p = b + 1
      BY <2>5
    <3>2. visited(p) = {} /\ ~(p <= b)
      BY <3>1
    <3>3. c[p] > last
      BY <1>0, <2>4, <3>2
    <3>. HIDE DEF p, visited
    <3>. QED BY <1>1, <2>4, <3>2, <3>3
  <2>6. CASE k # 0
    <3>1. p \in a .. b /\ p + 1 \in a .. (b + 1) /\ k - 1 \in 0 .. (b + 1 - a) /\ p + 1 = b + 1 - (k - 1)
      BY <2>4, <2>6
    <3>2. k - 1 \notin Bad
      BY <2>1, <2>3, <3>1
    <3>3. v[c[p + 1]] = visited(p + 1)
      BY <3>1, <3>2 DEF Bad
    <3>4. visited(p) = {c[p]} \cup visited(p + 1)
      <4>. HIDE DEF p
      <4>1. p .. b = {p} \cup ((p + 1) .. b)
        BY <3>1
      <4>. QED BY <4>1
    <3>5. ~(c[p] > last) /\ next[c[p]] = c[p + 1]
      BY <1>0, <2>4, <3>1
    <3>. HIDE DEF p, visited
    <3>. QED BY <1>1, <2>4, <3>3, <3>4, <3>5
  <2>. QED BY <2>5, <2>6
<1>3. b + 1 - a \in 0 .. (b + 1 - a) /\ b + 1 - (b + 1 - a) = a
  OBVIOUS
<1>. QED BY <1>2, <1>3

-----------------------------------------------------------------------------
(* The periods of a report.                                                 *)

\* The number of the period that an instant belongs to, and where the p-th one
\* begins: the hours are numbered as if the clock never changed.
Period(ask, t) ==
  IF ask.granularity = "hour" THEN (t + ask.zone.before) \div PerHour
  ELSE CivilDay(ask.zone, t) \div DaysIn(ask.granularity)
Begin(ask, p) ==
  IF ask.granularity = "hour" THEN PerHour * p - ask.zone.before
  ELSE Date(ask.zone, Day * (DaysIn(ask.granularity) * p))

FirstPeriod(ask) == Period(ask, From(ask))
LastPeriod(ask) == Period(ask, Until(ask) - 1)

Analysis(ask) == ask \in Asks /\ ask.kind = "analysis" /\ ask.from <= ask.to

LEMMA AskTypes ==
  ASSUME NEW ask, Analysis(ask)
  PROVE  /\ ask.zone \in Zones /\ ask.from \in Days /\ ask.to \in Days /\ ask.key \in Keys
         /\ ask.from \in Int /\ ask.to \in Int /\ ask.granularity \in Granularities
         /\ DaysIn(ask.granularity) \in Nat \ {0} /\ DaysIn(ask.granularity) <= YearDays
         /\ YearDays \in Nat
<1>1. /\ ask.zone \in Zones /\ ask.from \in Days /\ ask.to \in Days /\ ask.key \in Keys
      /\ ask.granularity \in Granularities
  BY DEF Analysis, Asks
<1>. QED BY <1>1, CalendarAssumption DEF DaysIn, Granularities

\* What the hours of an analysis are counted with.
LEMMA HourTypes ==
  ASSUME NEW ask, Analysis(ask)
  PROVE  /\ PerHour \in Nat \ {0}
         /\ ask.zone.before \in Int /\ ask.zone.after \in Int /\ ask.zone.at \in Int
BY AskTypes, CalendarAssumption

\* The operators of the calendar are defined everywhere.
LEMMA CalendarTypes ==
  ASSUME NEW zone \in Zones
  PROVE  /\ \A t \in Int : Wall(zone, t) \in Int /\ Date(zone, t) \in Int /\ CivilDay(zone, t) \in Int
         /\ \A t, n \in Int : AddDays(zone, t, n) \in Int
<1>1. zone.before \in Int /\ zone.after \in Int /\ zone.at \in Int
  BY CalendarAssumption
<1>2. \A t \in Int : Offset(zone, t) \in Int
  BY <1>1 DEF Offset
<1>3. \A t \in Int : Wall(zone, t) \in Int /\ CivilDay(zone, t) \in Int
  BY <1>2, DayOfHours DEF Wall, CivilDay
<1>4. \A t \in Int : Date(zone, t) \in Int
  <2>. SUFFICES ASSUME NEW t \in Int PROVE Date(zone, t) \in Int
    OBVIOUS
  <2>1. Offset(zone, t) \in Int /\ t - Offset(zone, t) \in Int
    BY <1>2
  <2>2. Offset(zone, t - Offset(zone, t)) \in Int
    BY <1>2, <2>1
  <2>. QED BY <2>1, <2>2 DEF Date
<1>5. \A t, n \in Int : AddDays(zone, t, n) \in Int
  <2>. SUFFICES ASSUME NEW t \in Int, NEW n \in Int PROVE AddDays(zone, t, n) \in Int
    OBVIOUS
  <2>1. Wall(zone, t) + Day * n \in Int
    BY <1>3, DayOfHours
  <2>. QED BY <1>4, <2>1 DEF AddDays
<1>. QED BY <1>3, <1>4, <1>5

\* The interval of a report, and the civil days of its first and last bucket.
LEMMA IntervalEnds ==
  ASSUME NEW ask, Analysis(ask)
  PROVE  /\ From(ask) \in Int /\ Until(ask) \in Int /\ From(ask) <= Until(ask) - 1
         /\ CivilDay(ask.zone, From(ask)) = ask.from
         /\ CivilDay(ask.zone, Until(ask) - 1) = ask.to
<1>1. /\ ask.zone \in Zones /\ ask.from \in Int /\ ask.to \in Int /\ ask.from <= ask.to
      /\ 0 \in -YearDays..YearDays /\ 1 \in -YearDays..YearDays
      /\ ask.from \in Days /\ ask.to \in Days
  BY AskTypes, CalendarAssumption DEF Analysis
<1>2. Regular(ask.zone, ask.from) /\ Regular(ask.zone, ask.to) /\ Regular(ask.zone, ask.to + 1)
  <2>1. Regular(ask.zone, ask.from + 0) /\ Regular(ask.zone, ask.to + 0) /\ Regular(ask.zone, ask.to + 1)
    BY <1>1, ZonesRegular
  <2>. QED BY <1>1, <2>1
<1>3. Until(ask) = Date(ask.zone, Day * (ask.to + 1))
  <2>1. Wall(ask.zone, Date(ask.zone, Day * ask.to)) = Day * ask.to
    BY <1>1, <1>2, DayStarts
  <2>2. Day * ask.to + Day * 1 = Day * (ask.to + 1)
    BY <1>1, DayOfHours, Distributes
  <2>. QED BY <2>1, <2>2 DEF Until, AddDays
<1>. DEFINE f == From(ask)
            u == Until(ask)
            day(t) == CivilDay(ask.zone, t)
<1>4. /\ f \in Int /\ Wall(ask.zone, f) = Day * ask.from
      /\ \A t \in Int : f <= t <=> day(t) >= ask.from
  BY <1>1, <1>2, DayStarts DEF From
<1>5. u \in Int /\ \A t \in Int : u <= t <=> day(t) >= ask.to + 1
  <2>1. ask.to + 1 \in Int
    BY <1>1
  <2>. QED BY <1>1, <1>2, <1>3, <2>1, DayStarts
<1>6. \A t \in Int : Date(ask.zone, Day * ask.to) <= t <=> day(t) >= ask.to
  BY <1>1, <1>2, DayStarts
<1>7. day(f) = ask.from
  BY <1>1, <1>4, DayOfHours DEF CivilDay
<1>8. /\ \A t \in Int : day(t) \in Int
      /\ Date(ask.zone, Day * ask.to) \in Int
  BY <1>1, DayOfHours, CalendarTypes
<1>. DEFINE e == Date(ask.zone, Day * ask.to)
<1>. HIDE DEF f, u, day, e
<1>9. day(e) = ask.to
  BY <1>1, <1>2, DayStarts, DayOfHours DEF CivilDay, day, e
<1>10. e \in Int /\ (\A t \in Int : e <= t <=> day(t) >= ask.to)
  BY <1>6, <1>8 DEF e
<1>11. e <= u - 1 /\ f <= u - 1
  <2>1. ~(day(e) >= ask.to + 1) /\ ~(day(f) >= ask.to + 1)
    BY <1>1, <1>7, <1>9
  <2>2. ~(u <= e) /\ ~(u <= f)
    BY <1>4, <1>5, <1>10, <2>1
  <2>. QED BY <1>4, <1>5, <1>10, <2>2
<1>12. day(u - 1) = ask.to
  <2>1. u - 1 \in Int /\ ~(u <= u - 1)
    BY <1>5
  <2>2. day(u - 1) >= ask.to /\ ~(day(u - 1) >= ask.to + 1) /\ day(u - 1) \in Int
    BY <1>5, <1>8, <1>10, <1>11, <2>1
  <2>. QED BY <1>1, <2>2
<1>. QED BY <1>4, <1>5, <1>7, <1>11, <1>12 DEF f, u, day

\* The first and the last period; every one of them, and the one that follows,
\* begins on a day whose 0:00 is found.
LEMMA PeriodsAreRegular ==
  ASSUME NEW ask, Analysis(ask)
  PROVE  /\ FirstPeriod(ask) \in Int /\ LastPeriod(ask) \in Int
         /\ FirstPeriod(ask) <= LastPeriod(ask)
         /\ ask.granularity # "hour" =>
              \A p \in FirstPeriod(ask) .. (LastPeriod(ask) + 1) :
                Regular(ask.zone, DaysIn(ask.granularity) * p)
<1>1. /\ From(ask) \in Int /\ Until(ask) - 1 \in Int /\ From(ask) <= Until(ask) - 1
      /\ CivilDay(ask.zone, From(ask)) = ask.from
      /\ CivilDay(ask.zone, Until(ask) - 1) = ask.to
  BY IntervalEnds
<1>2. CASE ask.granularity = "hour"
  <2>. DEFINE f == From(ask) + ask.zone.before
              u == Until(ask) - 1 + ask.zone.before
  <2>1. FirstPeriod(ask) = f \div PerHour /\ LastPeriod(ask) = u \div PerHour
    BY <1>2 DEF FirstPeriod, LastPeriod, Period
  <2>2. f \in Int /\ u \in Int /\ f <= u /\ PerHour \in Nat \ {0}
    BY <1>1, HourTypes
  <2>. HIDE DEF f, u
  <2>3. f \div PerHour \in Int /\ u \div PerHour \in Int /\ f \div PerHour <= u \div PerHour
    BY <2>2, PeriodsOfDays, PeriodsInOrder
  <2>. QED BY <1>2, <2>1, <2>3
<1>3. CASE ask.granularity # "hour"
  <2>. DEFINE m == DaysIn(ask.granularity)
              a == ask.from
              b == ask.to
              first == FirstPeriod(ask)
              last == LastPeriod(ask)
  <2>1. /\ m \in Nat \ {0} /\ m <= YearDays /\ YearDays \in Nat /\ a \in Int /\ b \in Int /\ a <= b
        /\ a \in Days /\ b \in Days /\ ask.zone \in Zones
    BY AskTypes DEF Analysis
  <2>2. first = a \div m /\ last = b \div m
    BY <1>1, <1>3 DEF FirstPeriod, LastPeriod, Period
  <2>. HIDE DEF m, a, b, first, last
  <2>3. /\ first \in Int /\ last \in Int
        /\ m * first <= a /\ a < m * first + m /\ m * last <= b /\ b < m * last + m
        /\ m * first \in Int /\ m * last \in Int
    BY <2>1, <2>2, PeriodsOfDays
  <2>4. first <= last
    <3>. SUFFICES ASSUME last < first PROVE FALSE
      BY <2>3
    <3>1. m * last + m <= m * first
      BY <2>1, <2>3, PeriodsOfDays
    <3>. QED BY <2>1, <2>3, <3>1
  <2>5. ASSUME NEW p \in first .. (last + 1) PROVE Regular(ask.zone, m * p)
    <3>. DEFINE d == m * p
                x == m * first
                y == m * last
    <3>1. /\ d \in Int /\ x \in Int /\ y \in Int /\ x <= d /\ d <= y + m
          /\ a < x + m /\ y <= b /\ b < y + m
      <4>1. p \in Int /\ first <= p /\ p <= last + 1 /\ last + 1 \in Int
        BY <2>3
      <4>2. m * first <= m * p /\ m * p <= m * (last + 1) /\ m * (last + 1) = m * last + m /\ m * p \in Int
        BY <2>1, <2>3, <4>1, PeriodsOfDays
      <4>. QED BY <2>3, <4>2
    <3>. HIDE DEF d, x, y
    <3>2. \E day \in Days, n \in -YearDays..YearDays : d = day + n
      <4>1. CASE d < a
        <5>1. d - a \in -YearDays..YearDays /\ d = a + (d - a)
          BY <2>1, <3>1, <4>1
        <5>. QED BY <2>1, <5>1
      <4>2. CASE d > b
        <5>1. d - b \in -YearDays..YearDays /\ d = b + (d - b)
          BY <2>1, <3>1, <4>2
        <5>. QED BY <2>1, <5>1
      <4>3. CASE ~(d < a) /\ ~(d > b)
        <5>1. d \in a .. b /\ 0 \in -YearDays..YearDays /\ d = d + 0
          BY <2>1, <3>1, <4>3
        <5>2. a .. b \subseteq Days
          BY <2>1, CalendarAssumption
        <5>. QED BY <5>1, <5>2
      <4>. QED BY <4>1, <4>2, <4>3
    <3>3. Regular(ask.zone, d)
      BY <2>1, <3>2, ZonesRegular
    <3>. QED BY <3>3 DEF d
  <2>. QED BY <1>3, <2>3, <2>4, <2>5 DEF m, first, last
<1>. QED BY <1>2, <1>3

\* A period begins with the first bucket of its own, and the next one follows it.
LEMMA PeriodBegins ==
  ASSUME NEW ask, Analysis(ask), NEW p \in FirstPeriod(ask) .. (LastPeriod(ask) + 1)
  PROVE  /\ Begin(ask, p) \in Int /\ p \in Int
         /\ Period(ask, Begin(ask, p)) = p
         /\ \A t \in Int : Begin(ask, p) <= t <=> Period(ask, t) >= p
         /\ NextPeriod(ask.zone, ask.granularity, Begin(ask, p)) = Begin(ask, p + 1)
<1>1. p \in Int
  BY PeriodsAreRegular
<1>2. CASE ask.granularity = "hour"
  <2>. DEFINE x == PerHour * p
              b == ask.zone.before
  <2>1. PerHour \in Nat \ {0} /\ b \in Int
    BY HourTypes
  <2>2. x \in Int /\ x \div PerHour = p /\ PerHour * (p + 1) = x + PerHour
    BY <1>1, <2>1, PeriodsOfDays
  <2>3. Begin(ask, p) = x - b /\ Begin(ask, p + 1) = PerHour * (p + 1) - b
    BY <1>2 DEF Begin
  <2>4. \A t \in Int : Period(ask, t) = (t + b) \div PerHour
    BY <1>2 DEF Period
  <2>5. ASSUME NEW t \in Int PROVE Begin(ask, p) <= t <=> Period(ask, t) >= p
    <3>. DEFINE d == t + b
    <3>1. d \in Int
      BY <2>1
    <3>2. d >= PerHour * p <=> d \div PerHour >= p
      BY <1>1, <2>1, <3>1, ReachesPeriod
    <3>3. x - b <= t <=> d >= x
      BY <2>1, <2>2
    <3>. QED BY <2>3, <2>4, <3>2, <3>3
  <2>. HIDE DEF x, b
  <2>6. x - b \in Int /\ (x - b) + b = x /\ x - b + PerHour = x + PerHour - b
    BY <2>1, <2>2
  <2>7. Period(ask, Begin(ask, p)) = p
    BY <2>2, <2>3, <2>4, <2>6
  <2>8. NextPeriod(ask.zone, ask.granularity, Begin(ask, p)) = Begin(ask, p + 1)
    <3>1. NextPeriod(ask.zone, ask.granularity, Begin(ask, p)) = Begin(ask, p) + PerHour
      BY <1>2 DEF NextPeriod
    <3>2. Begin(ask, p) + PerHour = (x - b) + PerHour
      BY <2>3
    <3>3. Begin(ask, p + 1) = (x + PerHour) - b
      BY <2>2, <2>3
    <3>. QED BY <1>1, <2>1, <2>2, <2>6, <3>1, <3>2, <3>3
  <2>. QED BY <1>1, <2>3, <2>5, <2>6, <2>7, <2>8
<1>3. CASE ask.granularity # "hour"
  <2>. DEFINE m == DaysIn(ask.granularity)
              d == m * p
              start == Date(ask.zone, Day * d)
              day(t) == CivilDay(ask.zone, t)
  <2>1. m \in Nat \ {0} /\ ask.zone \in Zones
    BY AskTypes
  <2>2. Regular(ask.zone, d)
    BY <1>3, PeriodsAreRegular
  <2>3. Begin(ask, p) = start /\ \A t \in Int : Period(ask, t) = day(t) \div m
    BY <1>3 DEF Begin, Period
  <2>4. d \in Int /\ d \div m = p /\ m * (p + 1) = d + m
    BY <1>1, <2>1, PeriodsOfDays
  <2>. HIDE DEF d
  <2>5. /\ start \in Int /\ Wall(ask.zone, start) = Day * d
        /\ \A t \in Int : start <= t <=> day(t) >= d
    BY <2>1, <2>2, <2>4, DayStarts
  <2>6. day(start) = d
    BY <2>4, <2>5, DayOfHours DEF CivilDay
  <2>7. NextPeriod(ask.zone, ask.granularity, start) = Begin(ask, p + 1)
    <3>1. NextPeriod(ask.zone, ask.granularity, start) = Date(ask.zone, Wall(ask.zone, start) + Day * m)
      BY <1>3 DEF NextPeriod, AddDays
    <3>2. Day * d + Day * m = Day * (d + m)
      <4>1. Day \in Int /\ m \in Int /\ d \in Int
        BY <2>1, <2>4, DayOfHours
      <4>. HIDE DEF m
      <4>. QED BY <4>1, Distributes
    <3>3. Begin(ask, p + 1) = Date(ask.zone, Day * (m * (p + 1)))
      BY <1>3 DEF Begin
    <3>. QED BY <2>4, <2>5, <3>1, <3>2, <3>3
  <2>8. ASSUME NEW t \in Int PROVE start <= t <=> Period(ask, t) >= p
    <3>1. day(t) \in Int
      BY <2>1, CalendarTypes
    <3>. DEFINE c == day(t)
    <3>. HIDE DEF day, m, start
    <3>2. c >= m * p <=> c \div m >= p
      BY <1>1, <2>1, <3>1, ReachesPeriod
    <3>. QED BY <2>3, <2>5, <3>2 DEF d
  <2>. HIDE DEF m, start, day
  <2>9. Period(ask, start) = p
    BY <2>3, <2>4, <2>5, <2>6
  <2>. QED BY <1>1, <2>3, <2>5, <2>7, <2>8, <2>9
<1>. QED BY <1>2, <1>3

\* An analysis by days, months or years, or by the hours of a zone whose clock
\* changes on the hour and by whole hours.
Even(ask) == Analysis(ask) /\ (ask.granularity = "hour" => ByWholeHours(ask.zone))

\* Such a clock has whole hours between its offsets, and one for the whole of an
\* hour.
LEMMA WholeHours ==
  ASSUME NEW ask, Even(ask), ask.granularity = "hour"
  PROVE  /\ \A t \in Int : \E k \in Int : Offset(ask.zone, t) = ask.zone.before + PerHour * k
         /\ \A t, u \in Int :
              Period(ask, t) = Period(ask, u) => Offset(ask.zone, t) = Offset(ask.zone, u)
<1>. DEFINE before == ask.zone.before
            after  == ask.zone.after
            at     == ask.zone.at
            k == (after - before) \div PerHour
            j == (at + before) \div PerHour
<1>1. PerHour \in Nat \ {0} /\ before \in Int /\ after \in Int /\ at \in Int
  BY HourTypes DEF Even
<1>2. \A t \in Int : Offset(ask.zone, t) = IF t < at THEN before ELSE after
  BY DEF Offset
<1>3. \A t \in Int : Period(ask, t) = (t + before) \div PerHour
  BY DEF Period
<1>4. before = before + PerHour * 0
  BY <1>1
<1>5. CASE before = after
  <2>1. \A t \in Int : Offset(ask.zone, t) = before
    BY <1>2, <1>5
  <2>. HIDE DEF before
  <2>. QED BY <1>4, <2>1 DEF before
<1>6. CASE before # after
  <2>1. (after - before) % PerHour = 0 /\ (at + before) % PerHour = 0
    BY <1>6 DEF Even, ByWholeHours
  <2>2. /\ k \in Int /\ after - before = PerHour * k
        /\ j \in Int /\ at + before = PerHour * j
    <3>1. \A x \in Int : x % PerHour = 0 => x \div PerHour \in Int /\ x = PerHour * (x \div PerHour)
      <4>. SUFFICES ASSUME NEW x \in Int, x % PerHour = 0
                    PROVE  x \div PerHour \in Int /\ x = PerHour * (x \div PerHour)
        OBVIOUS
      <4>1. x + PerHour * 0 = x
        BY <1>1
      <4>2. (x + PerHour * 0) % PerHour = x - PerHour * (x \div PerHour)
        BY <1>1, Shifts
      <4>3. x \div PerHour \in Int /\ PerHour * (x \div PerHour) \in Int
        BY <1>1, PeriodsOfDays
      <4>. QED BY <4>1, <4>2, <4>3
    <3>2. after - before \in Int /\ at + before \in Int
      BY <1>1
    <3>. QED BY <2>1, <3>1, <3>2
  <2>. HIDE DEF before, after, at, k, j
  <2>3. \A t \in Int : t < at <=> ~((t + before) \div PerHour >= j)
    <3>. SUFFICES ASSUME NEW t \in Int PROVE t < at <=> ~((t + before) \div PerHour >= j)
      OBVIOUS
    <3>1. t + before \in Int
      BY <1>1
    <3>2. t + before >= PerHour * j <=> (t + before) \div PerHour >= j
      BY <1>1, <2>2, <3>1, ReachesPeriod
    <3>3. t < at <=> ~(t + before >= PerHour * j)
      BY <1>1, <2>2
    <3>. QED BY <3>2, <3>3
  <2>4. after = before + PerHour * k
    <3>1. PerHour * k \in Int
      BY <1>1, <2>2
    <3>. QED BY <1>1, <2>2, <3>1
  <2>5. \A t, u \in Int :
          (t + before) \div PerHour = (u + before) \div PerHour => (t < at <=> u < at)
    BY <2>3
  <2>. QED BY <1>2, <1>3, <1>4, <2>2, <2>4, <2>5 DEF before
<1>. QED BY <1>5, <1>6

\* What such an analysis starts an hour with, and the hour that its clock shows.
LEMMA HourBegins ==
  ASSUME NEW ask, Even(ask), ask.granularity = "hour", NEW t \in Int
  PROVE  /\ PeriodStart(ask.zone, ask.granularity, t) = Begin(ask, Period(ask, t))
         /\ PerHour \in Nat \ {0}
         /\ Offset(ask.zone, t) \in Int
         /\ Period(ask, t) \in Int
         /\ \E k \in Int : /\ Offset(ask.zone, t) = ask.zone.before + PerHour * k
                          /\ Wall(ask.zone, t) \div PerHour = Period(ask, t) + k
<1>. DEFINE b == ask.zone.before
            x == t + b
<1>1. PerHour \in Nat \ {0} /\ b \in Int /\ x \in Int
  BY HourTypes DEF Even
<1>2. PICK k \in Int : Offset(ask.zone, t) = b + PerHour * k
  BY WholeHours
<1>3. PerHour * k \in Int /\ x \div PerHour \in Int /\ PerHour * (x \div PerHour) \in Int
  BY <1>1, <1>2, PeriodsOfDays
<1>4. Wall(ask.zone, t) = x + PerHour * k /\ Offset(ask.zone, t) \in Int
  BY <1>1, <1>2, <1>3 DEF Wall
<1>5. Period(ask, t) = x \div PerHour
  BY DEF Period
<1>6. /\ (x + PerHour * k) \div PerHour = x \div PerHour + k
      /\ (x + PerHour * k) % PerHour = x - PerHour * (x \div PerHour)
  BY <1>1, <1>2, Shifts
<1>7. PeriodStart(ask.zone, ask.granularity, t) = t - (x - PerHour * (x \div PerHour))
  BY <1>4, <1>6 DEF PeriodStart
<1>8. Begin(ask, Period(ask, t)) = PerHour * (x \div PerHour) - b
  BY <1>5 DEF Begin
<1>9. t - (x - PerHour * (x \div PerHour)) = PerHour * (x \div PerHour) - b
  BY <1>1, <1>3
<1>. QED BY <1>1, <1>2, <1>3, <1>4, <1>5, <1>6, <1>7, <1>8, <1>9

\* Two instants have the same civil period just when it has the same number.
LEMMA PeriodNumbers ==
  ASSUME NEW ask, Even(ask), NEW t \in Int, NEW u \in Int
  PROVE  CivilPeriod(ask, t) = CivilPeriod(ask, u) <=> Period(ask, t) = Period(ask, u)
<1>1. CASE ask.granularity # "hour"
  BY <1>1 DEF CivilPeriod, Period
<1>2. CASE ask.granularity = "hour"
  <2>. DEFINE o(i) == Offset(ask.zone, i)
              w(i) == Wall(ask.zone, i) \div PerHour
              b == ask.zone.before
  <2>1. CivilPeriod(ask, t) = <<w(t), o(t)>> /\ CivilPeriod(ask, u) = <<w(u), o(u)>>
    BY <1>2 DEF CivilPeriod
  <2>2. PICK k \in Int : o(t) = b + PerHour * k /\ w(t) = Period(ask, t) + k
    BY <1>2, HourBegins
  <2>3. PICK l \in Int : o(u) = b + PerHour * l /\ w(u) = Period(ask, u) + l
    BY <1>2, HourBegins
  <2>4. PerHour \in Nat \ {0} /\ b \in Int /\ Period(ask, t) \in Int /\ Period(ask, u) \in Int
    BY <1>2, HourBegins, HourTypes DEF Even
  <2>5. Period(ask, t) = Period(ask, u) => o(t) = o(u)
    BY <1>2, WholeHours
  <2>. HIDE DEF o, w, b
  <2>6. o(t) = o(u) => k = l
    <3>. DEFINE x == PerHour * k
                y == PerHour * l
    <3>1. x \in Int /\ x \div PerHour = k /\ y \in Int /\ y \div PerHour = l
      BY <2>2, <2>3, <2>4, PeriodsOfDays
    <3>. HIDE DEF x, y
    <3>2. o(t) = b + x /\ o(u) = b + y
      BY <2>2, <2>3 DEF x, y
    <3>3. o(t) = o(u) => x = y
      BY <2>4, <3>1, <3>2
    <3>. QED BY <3>1, <3>3
  <2>7. o(t) = o(u) => (w(t) = w(u) <=> Period(ask, t) = Period(ask, u))
    BY <2>2, <2>3, <2>4, <2>6
  <2>. QED BY <2>1, <2>5, <2>7
<1>. QED BY <1>1, <1>2

\* The points of an analysis begin the periods of its interval, each of which is
\* in the interval, and no other.
THEOREM StartsArePeriods ==
  ASSUME NEW ask, Even(ask)
  PROVE  /\ Starts(ask) = {Begin(ask, p) : p \in FirstPeriod(ask) .. LastPeriod(ask)}
         /\ \A t \in Int :
              From(ask) <= t /\ t < Until(ask) =>
                Period(ask, t) \in FirstPeriod(ask) .. LastPeriod(ask)
         /\ \A p \in FirstPeriod(ask) .. LastPeriod(ask) :
              \E t \in From(ask)..(Until(ask) - 1) : Period(ask, t) = p
         /\ \A t \in Int :
              PeriodStart(ask.zone, ask.granularity, t) = Begin(ask, Period(ask, t))
<1>. DEFINE first == FirstPeriod(ask)
            last == LastPeriod(ask)
            f == From(ask)
            u == Until(ask) - 1
            period(t) == Period(ask, t)
            b(p) == Begin(ask, p)
<1>1. /\ f \in Int /\ u \in Int /\ f <= u /\ first \in Int /\ last \in Int /\ first <= last
      /\ Until(ask) \in Int
  BY IntervalEnds, PeriodsAreRegular DEF Even
<1>2. period(f) = first /\ period(u) = last
  BY DEF FirstPeriod, LastPeriod
<1>3. ASSUME NEW p \in first .. (last + 1)
      PROVE  /\ b(p) \in Int /\ p \in Int /\ period(b(p)) = p
             /\ \A t \in Int : b(p) <= t <=> period(t) >= p
             /\ NextPeriod(ask.zone, ask.granularity, b(p)) = b(p + 1)
  BY PeriodBegins DEF Even
<1>4. /\ ask.zone \in Zones /\ DaysIn(ask.granularity) \in Nat \ {0}
      /\ PerHour \in Nat \ {0} /\ ask.zone.before \in Int
  BY AskTypes, HourTypes DEF Even
<1>5. \A t \in Int : period(t) \in Int
  <2>. SUFFICES ASSUME NEW t \in Int PROVE period(t) \in Int
    OBVIOUS
  <2>1. CivilDay(ask.zone, t) \in Int
    BY <1>4, CalendarTypes
  <2>2. CivilDay(ask.zone, t) \div DaysIn(ask.granularity) \in Int
    BY <1>4, <2>1, PeriodsOfDays
  <2>3. (t + ask.zone.before) \div PerHour \in Int
    BY <1>4, PeriodsOfDays
  <2>. QED BY <2>2, <2>3 DEF Period
<1>6. ASSUME NEW t \in Int, f <= t, t < Until(ask) PROVE period(t) \in first .. last
  <2>1. t <= u
    BY <1>1, <1>6
  <2>2. first \in first .. (last + 1) /\ last + 1 \in first .. (last + 1)
    BY <1>1
  <2>. HIDE DEF f, u, first, last, period, b
  <2>3. period(f) >= first /\ ~(period(u) >= last + 1)
    BY <1>1, <1>2
  <2>4. b(first) <= f /\ ~(b(last + 1) <= u) /\ b(first) \in Int /\ b(last + 1) \in Int
    BY <1>1, <1>3, <2>2, <2>3
  <2>5. b(first) <= t /\ ~(b(last + 1) <= t)
    BY <1>1, <1>6, <2>1, <2>4
  <2>6. period(t) >= first /\ ~(period(t) >= last + 1) /\ period(t) \in Int
    BY <1>3, <1>5, <2>2, <2>5
  <2>. QED BY <1>1, <2>6
<1>7. ASSUME NEW p \in first .. last PROVE \E t \in f..u : period(t) = p
  <2>0. p \in first .. (last + 1) /\ p \in Int
    BY <1>1
  <2>1. CASE p = first
    BY <1>1, <1>2, <2>1
  <2>2. CASE p # first
    <3>. HIDE DEF f, u, first, last, period, b
    <3>1. ~(period(f) >= p) /\ period(u) >= p
      BY <1>1, <1>2, <2>0, <2>2
    <3>2. ~(b(p) <= f) /\ b(p) <= u /\ b(p) \in Int /\ period(b(p)) = p
      BY <1>1, <1>3, <2>0, <3>1
    <3>. QED BY <1>1, <3>2
  <2>. QED BY <2>1, <2>2
<1>. DEFINE next == [t \in Int |-> NextPeriod(ask.zone, ask.granularity, t)]
            end == Last(ask, ask.granularity)
            v == CHOOSE v : v = [t \in Int |-> IF t > end THEN {} ELSE {t} \cup v[NextPeriod(ask.zone, ask.granularity, t)]]
            c == [p \in Int |-> b(p)]
<1>8. next \in [Int -> Int]
  <2>. SUFFICES ASSUME NEW t \in Int PROVE NextPeriod(ask.zone, ask.granularity, t) \in Int
    OBVIOUS
  <2>1. AddDays(ask.zone, t, DaysIn(ask.granularity)) \in Int
    BY <1>4, CalendarTypes
  <2>. QED BY <1>4, <2>1 DEF NextPeriod
<1>9. \A t \in Int : PeriodStart(ask.zone, ask.granularity, t) = b(period(t))
  <2>. SUFFICES ASSUME NEW t \in Int PROVE PeriodStart(ask.zone, ask.granularity, t) = b(period(t))
    OBVIOUS
  <2>. DEFINE m == DaysIn(ask.granularity)
              q == CivilDay(ask.zone, t) \div m
  <2>1. CivilDay(ask.zone, t) \in Int
    BY <1>4, CalendarTypes
  <2>2. q \in Int
    BY <1>4, <2>1, PeriodsOfDays
  <2>3. Day * m * q = Day * (m * q)
    <3>1. m \in Int /\ Day \in Int
      BY <1>4, DayOfHours
    <3>. HIDE DEF m, q
    <3>. QED BY <2>2, <3>1, Distributes
  <2>4. CASE ask.granularity # "hour"
    BY <2>3, <2>4 DEF PeriodStart, Begin, Period
  <2>5. CASE ask.granularity = "hour"
    BY <2>5, HourBegins
  <2>. QED BY <2>4, <2>5
<1>10. end = b(last) /\ end \in Int
  <2>1. end = b(last)
    BY <1>1, <1>2, <1>9 DEF Last
  <2>2. last \in first .. (last + 1)
    BY <1>1
  <2>. QED BY <1>3, <2>1, <2>2
<1>11. Walks(v, next, end)
  <2>1. PICK w : Walks(w, next, end)
    BY <1>8, <1>10, WalkExists
  <2>2. \A x : Walks(x, next, end)
          <=> x = [t \in Int |-> IF t > end THEN {} ELSE {t} \cup x[NextPeriod(ask.zone, ask.granularity, t)]]
    <3>. SUFFICES ASSUME NEW x
                  PROVE  [t \in Int |-> IF t > end THEN {} ELSE {t} \cup x[next[t]]]
                           = [t \in Int |-> IF t > end THEN {} ELSE {t} \cup x[NextPeriod(ask.zone, ask.granularity, t)]]
      BY DEF Walks
    <3>1. \A t \in Int : next[t] = NextPeriod(ask.zone, ask.granularity, t)
      OBVIOUS
    <3>. HIDE DEF next, end
    <3>. QED BY <3>1
  <2>. HIDE DEF next, end
  <2>. QED BY <2>1, <2>2
<1>12. Starts(ask) = v[b(first)]
  <2>1. PeriodStart(ask.zone, ask.granularity, f) = b(first)
    BY <1>1, <1>2, <1>9
  <2>. QED BY <2>1 DEF Starts
<1>. HIDE DEF v, end, next
<1>13. v[c[first]] = {c[p] : p \in first .. last}
  <2>1. \A p \in first .. last : next[c[p]] = c[p + 1]
    <3>. SUFFICES ASSUME NEW p \in first .. last PROVE next[c[p]] = c[p + 1]
      OBVIOUS
    <3>1. p \in first .. (last + 1) /\ p \in Int /\ p + 1 \in Int
      BY <1>1
    <3>. HIDE DEF first, last, b
    <3>. QED BY <1>3, <3>1 DEF next
  <2>2. \A p \in first .. (last + 1) : c[p] \in Int /\ (c[p] <= end <=> p <= last)
    <3>. SUFFICES ASSUME NEW p \in first .. (last + 1) PROVE c[p] \in Int /\ (c[p] <= end <=> p <= last)
      OBVIOUS
    <3>1. last \in first .. (last + 1) /\ p \in Int
      BY <1>1
    <3>2. period(end) = last
      BY <1>3, <1>10, <3>1
    <3>. HIDE DEF first, last, b, period
    <3>3. b(p) <= end <=> last >= p
      BY <1>3, <1>10, <3>2
    <3>. QED BY <1>1, <1>3, <3>1, <3>3
  <2>3. first \in Int /\ last \in Int /\ first <= last /\ end \in Int
    BY <1>1, <1>10
  <2>4. Leads(next, c, first, last, end)
    BY <2>1, <2>2 DEF Leads
  <2>. HIDE DEF c, first, last
  <2>. QED BY <1>11, <2>3, <2>4, WalkVisits
<1>14. Starts(ask) = {b(p) : p \in first .. last}
  <2>1. c[first] = b(first) /\ \A p \in first .. last : c[p] = b(p)
    BY <1>1
  <2>. HIDE DEF c, b, first, last
  <2>. QED BY <1>12, <1>13, <2>1
<1>. QED BY <1>6, <1>7, <1>9, <1>14

-----------------------------------------------------------------------------
(* The invariant.                                                           *)

Ledger == [Slots -> Nat]

Types ==
  /\ pending \in Ledger /\ rows \in Ledger
  /\ flush \in [by : {"nobody", "loop", "ranking"}, events : Ledger]
  /\ flush.by = "nobody" => flush = Nobody
  /\ report \in [pc : {"idle", "buckets", "first", "models", "flush", "flushing", "query", "answer"},
                 ask : Asks \cup {NoAsk}, buckets : Ledger, first : Int, models : Ledger]
  /\ since \in [settled : Ledger, before : Ledger, removed : BOOLEAN, added : BOOLEAN]

\* The steps that belong to each kind of report, and who holds flushMu for it.
Kinds ==
  /\ report.pc = "idle" => report = Idle
  /\ report.pc \in {"buckets", "first", "models"} => report.ask.kind = "analysis"
  /\ report.pc \in {"flush", "flushing", "query"} => report.ask.kind = "ranking"
  /\ report.pc = "answer" => report.ask \in Asks
  /\ report.pc = "flushing" <=> flush.by = "ranking"

\* What makes RankingComplete inductive: what had been settled when the ranking
\* was asked for is somewhere on its way, and the nearer the ranking is to its
\* query, the further it has come.
OnItsWay(s) ==
  LET settled == since.settled[s]
  IN  /\ report.pc = "flush" => settled <= pending[s] + flush.events[s] + rows[s]
      /\ report.pc = "flushing" => settled <= flush.events[s] + rows[s]
      /\ report.pc = "query" => settled <= rows[s]
      /\ report.pc = "answer" /\ report.ask.kind = "ranking" /\ s \in Asked(report.ask) =>
           settled <= report.models[s]

\* What makes ReportTrue inductive: the first query read the selected rows as
\* they were at its moment; until the last one they have only grown, and not
\* even that without a flush, unless something was removed; and the bucket that
\* the second one found precedes all that the first one had seen of the Key.
Seen(s) ==
  LET ask    == report.ask
      before == since.before[s]
      Grown(n) == before <= n /\ (~since.added => before = n)
  IN  ask.kind = "analysis" =>
        /\ report.pc \in {"first", "models", "answer"} =>
             report.buckets[s] = IF s \in Selected(ask) THEN before ELSE 0
        /\ report.pc \in {"first", "models"} /\ ~since.removed => Grown(rows[s])
        /\ report.pc \in {"models", "answer"} /\ ~since.removed =>
             (s[1] = ask.key /\ before > 0 => report.first <= s[3])
        /\ report.pc = "answer" /\ s \notin Selected(ask) => report.models[s] = 0
        /\ report.pc = "answer" /\ s \in Selected(ask) /\ ~since.removed => Grown(report.models[s])

\* An analysis under way had its dates checked.
Ordered == report.ask.kind = "analysis" => report.ask.from <= report.ask.to

IInv ==
  /\ Types /\ Kinds /\ Ordered
  /\ ~since.removed => \A s \in Slots : OnItsWay(s)
  /\ \A s \in Slots : Seen(s)

\* A finite set of numbers has a least one.
LEMMA MinExists ==
  ASSUME NEW S \in SUBSET Int, IsFiniteSet(S), S # {}
  PROVE  Min(S) \in S /\ \A x \in S : Min(S) <= x
BY LeastExists DEF Min

\* Sums and selections of ledgers are ledgers.
LEMMA LedgerOperators ==
  /\ Zero \in Ledger
  /\ \A f, g \in Ledger : Add(f, g) \in Ledger /\ \A s \in Slots : Add(f, g)[s] = f[s] + g[s]
  /\ rows \in Ledger => \A slots : Restricted(slots) \in Ledger
BY DEF Ledger, Zero, Add, Restricted

\* The interval of a report has an end.
LEMMA UntilIsTime ==
  ASSUME NEW ask \in Asks
  PROVE  Until(ask) \in Int
<1>1. ask.zone \in Zones /\ ask.to \in Int
  BY CalendarAssumption DEF Asks
<1>2. ask.zone.before \in Int /\ ask.zone.after \in Int
  BY <1>1, CalendarAssumption
<1>3. Date(ask.zone, Day * ask.to) \in Int
  BY <1>1, DayOfHours, CalendarTypes
<1>. QED BY <1>1, <1>3, CalendarTypes DEF Until

\* What a write does to the history.
LEMMA WroteTypes ==
  ASSUME Types, NEW what \in {"added", "removed"}, Wrote(what)
  PROVE  /\ since' \in [settled : Ledger, before : Ledger, removed : BOOLEAN, added : BOOLEAN]
         /\ since'.settled = since.settled
         /\ ~since'.removed => ~since.removed
         /\ what = "removed" /\ report # Idle => since'.removed
BY DEF Wrote, Types

\* Every action keeps the types.
LEMMA TypesStep ==
  ASSUME Types, Kinds, [Next]_vars
  PROVE  Types'
<1>. DEFINE Report  == [pc : {"idle", "buckets", "first", "models", "flush", "flushing", "query", "answer"},
                        ask : Asks \cup {NoAsk}, buckets : Ledger, first : Int, models : Ledger]
            Flushes == [by : {"nobody", "loop", "ranking"}, events : Ledger]
            History == [settled : Ledger, before : Ledger, removed : BOOLEAN, added : BOOLEAN]
<1>1. /\ pending \in Ledger /\ rows \in Ledger /\ flush.events \in Ledger /\ Zero \in Ledger
      /\ report \in Report /\ flush \in Flushes /\ since \in History
      /\ flush.by = "nobody" => flush = Nobody
  BY LedgerOperators DEF Types
<1>2. /\ Nobody \in Flushes /\ Nothing \in History
      /\ Idle \in Report
  BY <1>1 DEF Nobody, Nothing, Idle
<1>3. ASSUME pending' \in Ledger, rows' \in Ledger, report' \in Report, flush' \in Flushes,
             since' \in History, flush'.by = "nobody" => flush' = Nobody
      PROVE  Types'
  BY <1>3 DEF Types
<1>. HIDE DEF Report, Flushes, History
<1>4. ASSUME NEW slot \in Slots, RecordUsage(slot)
      PROVE  Types'
  <2>1. pending' \in Ledger
    BY <1>1, <1>4 DEF RecordUsage, Ledger
  <2>. QED BY <1>1, <1>3, <1>4, <2>1 DEF RecordUsage
<1>5. ASSUME NEW by \in {"loop", "ranking"}, Take(by)
      PROVE  pending' \in Ledger /\ flush' \in Flushes /\ (flush'.by = "nobody" => flush' = Nobody)
  BY <1>1, <1>5 DEF Take, Flushes
<1>6. CASE FlushLoop
  <2>1. Take("loop") /\ UNCHANGED <<rows, report, since>>
    BY <1>6 DEF FlushLoop
  <2>. QED BY <1>1, <1>3, <1>5, <2>1
<1>7. CASE RankingFlush
  <2>1. Take("ranking") /\ UNCHANGED <<rows, since>> /\ report' = [report EXCEPT !.pc = "flushing"]
    BY <1>7 DEF RankingFlush
  <2>2. report' \in Report
    BY <1>1, <2>1 DEF Report
  <2>. QED BY <1>1, <1>3, <1>5, <2>1, <2>2
<1>8. CASE Commit
  <2>1. rows' \in Ledger /\ flush' = Nobody /\ pending' = pending /\ Wrote("added")
    BY <1>1, <1>8, LedgerOperators DEF Commit
  <2>2. report' \in Report
    BY <1>1, <1>8 DEF Commit, Flushed, Report
  <2>3. since' \in History
    BY <2>1, WroteTypes DEF History
  <2>. QED BY <1>1, <1>2, <1>3, <2>1, <2>2, <2>3
<1>9. CASE CommitFails
  <2>1. pending' \in Ledger /\ flush' = Nobody /\ rows' = rows
    BY <1>1, <1>9, LedgerOperators DEF CommitFails
  <2>2. report' \in Report /\ since' \in History
    BY <1>1, <1>2, <1>9 DEF CommitFails
  <2>. QED BY <1>1, <1>2, <1>3, <2>1, <2>2
<1>10. ASSUME \/ \E key \in Keys : ResetPolicyUsage(key)
              \/ \E before \in Times : PruneRetention(before)
       PROVE  Types'
  <2>1. rows' \in Ledger /\ Wrote("removed") /\ UNCHANGED <<pending, flush, report>>
    BY <1>1, <1>10 DEF ResetPolicyUsage, PruneRetention, Ledger
  <2>2. since' \in History
    BY <2>1, WroteTypes DEF History
  <2>. QED BY <1>1, <1>3, <2>1, <2>2
<1>11. ASSUME NEW ask \in Asks, Ask(ask)
       PROVE  Types'
  <2>1. UNCHANGED <<pending, flush, rows>>
    BY <1>11 DEF Ask
  <2>2. report' \in Report
    <3>1. report' = [pc |-> IF ask.kind = "ranking" THEN "flush" ELSE "buckets", ask |-> ask,
                     buckets |-> Zero, first |-> 0, models |-> Zero]
      BY <1>11 DEF Ask, Idle
    <3>. QED BY <1>1, <3>1 DEF Report
  <2>3. since' \in History
    <3>1. Add(Add(pending, flush.events), rows) \in Ledger
      BY <1>1, LedgerOperators
    <3>. QED BY <1>1, <1>2, <1>11, <3>1 DEF Ask, History
  <2>. QED BY <1>1, <1>3, <2>1, <2>2, <2>3
<1>12. CASE LoadBuckets
  <2>1. UNCHANGED <<pending, flush, rows>>
    BY <1>12 DEF LoadBuckets
  <2>2. Restricted(Selected(report.ask)) \in Ledger
    BY <1>1, LedgerOperators
  <2>3. report' \in Report /\ since' \in History
    BY <1>1, <1>12, <2>2 DEF LoadBuckets, Report, History
  <2>. QED BY <1>1, <1>3, <2>1, <2>3
<1>13. CASE LoadAvailableFrom
  <2>. DEFINE mine  == {s \in Slots : s[1] = report.ask.key /\ rows[s] > 0}
              times == {s[3] : s \in mine}
              first == IF times = {} THEN Until(report.ask) ELSE Min(times)
  <2>1. UNCHANGED <<pending, flush, rows, since>>
        /\ report' = [report EXCEPT !.pc = "models", !.first = first]
    BY <1>13 DEF LoadAvailableFrom
  <2>2. first \in Int
    <3>1. report.ask \in Asks
      <4>1. report.ask \in Asks \cup {NoAsk} /\ report.ask.kind = "analysis"
        BY <1>1, <1>13 DEF LoadAvailableFrom, Kinds, Report
      <4>. QED BY <4>1 DEF NoAsk
    <3>2. \A s \in Slots : s[3] \in Int
      BY CalendarAssumption DEF Slots
    <3>3. times \in SUBSET Int
      BY <3>2
    <3>4. IsFiniteSet(mine)
      BY CalendarAssumption, FS_Subset
    <3>5. IsFiniteSet(times)
      <4>1. [s \in mine |-> s[3]] \in Surjection(mine, times)
        BY DEF Surjection
      <4>. QED BY <3>4, <4>1, FS_Surjection
    <3>. HIDE DEF times
    <3>. QED BY <3>1, <3>3, <3>5, MinExists, UntilIsTime
  <2>. HIDE DEF first
  <2>3. report' \in Report
    BY <1>1, <2>1, <2>2 DEF Report
  <2>. QED BY <1>1, <1>3, <2>1, <2>3
<1>14. CASE LoadBreakdown \/ LoadRanking
  <2>1. UNCHANGED <<pending, flush, rows, since>>
    BY <1>14 DEF LoadBreakdown, LoadRanking
  <2>2. PICK slots : report' = [report EXCEPT !.pc = "answer", !.models = Restricted(slots)]
    BY <1>14 DEF LoadBreakdown, LoadRanking
  <2>3. report' \in Report
    BY <1>1, <2>2, LedgerOperators DEF Report
  <2>. QED BY <1>1, <1>3, <2>1, <2>3
<1>15. CASE Answer \/ QueryFails
  BY <1>1, <1>2, <1>3, <1>15 DEF Answer, QueryFails
<1>16. CASE UNCHANGED vars
  BY <1>1, <1>3, <1>16 DEF vars
<1>. QED
  BY <1>4, <1>6, <1>7, <1>8, <1>9, <1>10, <1>11, <1>12, <1>13, <1>14, <1>15, <1>16
  DEF Next, ReportStep

\* Every action keeps the order of a report's steps.
LEMMA KindsStep ==
  ASSUME Types, Kinds, [Next]_vars
  PROVE  Kinds'
<1>. USE DEF Kinds
<1>1. /\ report.ask \in Asks \cup {NoAsk} /\ flush.by \in {"nobody", "loop", "ranking"}
      /\ Idle.pc = "idle" /\ Nobody.by = "nobody"
      /\ flush = Nobody => flush.by = "nobody"
  BY DEF Types, Idle, Nobody
<1>2. \A ask \in Asks : ask.kind \in {"analysis", "ranking"}
  BY DEF Asks
<1>3. /\ report.pc # "idle" => report.ask.kind # "none"
      /\ report.ask.kind # "none" => report.ask \in Asks
  <2>1. report.pc \in {"idle", "buckets", "first", "models", "flush", "flushing", "query", "answer"}
    BY DEF Types
  <2>2. report.pc # "idle" => report.ask.kind # "none"
    BY <1>2, <2>1
  <2>. QED BY <1>1, <2>2 DEF NoAsk
<1>4. CASE FlushLoop
  BY <1>1, <1>4 DEF FlushLoop, Take
<1>5. CASE RankingFlush
  <2>1. /\ report.pc = "flush" /\ flush'.by = "ranking"
        /\ report'.pc = "flushing" /\ report'.ask = report.ask
    BY <1>5 DEF RankingFlush, Take, Types
  <2>. QED BY <2>1
<1>6. CASE Commit
  <2>1. flush' = Nobody /\ report' = IF flush.by = "ranking" THEN [report EXCEPT !.pc = "query"] ELSE report
    BY <1>6 DEF Commit, Flushed
  <2>2. CASE flush.by = "ranking"
    <3>1. report.pc = "flushing" /\ report'.pc = "query" /\ report'.ask = report.ask
      BY <2>1, <2>2 DEF Types
    <3>. QED BY <1>1, <2>1, <3>1
  <2>3. CASE flush.by # "ranking"
    BY <1>1, <2>1, <2>3
  <2>. QED BY <2>2, <2>3
<1>7. CASE CommitFails
  BY <1>1, <1>7 DEF CommitFails
<1>8. ASSUME UNCHANGED <<flush, report>> PROVE Kinds'
  BY <1>8
<1>9. ASSUME NEW ask \in Asks, Ask(ask)
      PROVE  Kinds'
  <2>1. /\ report.pc = "idle" /\ flush' = flush /\ report'.ask = ask
        /\ report'.pc = IF ask.kind = "ranking" THEN "flush" ELSE "buckets"
    BY <1>9 DEF Ask, Idle
  <2>. QED BY <1>1, <1>2, <2>1
<1>10. CASE LoadBuckets \/ LoadAvailableFrom \/ LoadBreakdown \/ LoadRanking
  <2>1. /\ flush' = flush /\ report'.ask = report.ask
        /\ \/ report.pc = "buckets" /\ report'.pc = "first"
           \/ report.pc = "first" /\ report'.pc = "models"
           \/ report.pc \in {"models", "query"} /\ report'.pc = "answer"
    BY <1>10 DEF LoadBuckets, LoadAvailableFrom, LoadBreakdown, LoadRanking, Types
  <2>. QED BY <1>3, <2>1
<1>11. CASE Answer \/ QueryFails
  <2>1. report.pc # "flushing" /\ report' = Idle /\ flush' = flush
    BY <1>11 DEF Answer, QueryFails
  <2>. QED BY <1>1, <2>1
<1>. QED
  BY <1>4, <1>5, <1>6, <1>7, <1>8, <1>9, <1>10, <1>11
  DEF Next, ReportStep, RecordUsage, ResetPolicyUsage, PruneRetention, vars

\* Every action that removes nothing brings what had been settled no further
\* away from the ranking's query.
LEMMA WayStep ==
  ASSUME Types, Kinds, [Next]_vars, ~since'.removed, NEW s \in Slots,
         ~since.removed => OnItsWay(s)
  PROVE  OnItsWay(s)'
<1>0. /\ pending \in Ledger /\ rows \in Ledger /\ flush.events \in Ledger /\ since.settled \in Ledger
      /\ pending[s] \in Nat /\ rows[s] \in Nat /\ flush.events[s] \in Nat /\ since.settled[s] \in Nat
      /\ flush.by = "nobody" => flush = Nobody
      /\ Zero[s] = 0
  BY DEF Types, Ledger, Zero
<1>1. /\ Idle.pc = "idle" /\ Nobody.events = Zero
      /\ report.pc = "idle" => report = Idle
      /\ since.removed \in BOOLEAN
  BY DEF Idle, Nobody, Kinds, Types
<1>a. ASSUME report'.pc = "idle" PROVE OnItsWay(s)'
  BY <1>a DEF OnItsWay
\* A step that moves usage and leaves the report alone.
<1>b. ASSUME UNCHANGED <<report, since>>,
             report.pc = "flush" =>
               pending[s] + flush.events[s] + rows[s] <= pending'[s] + flush'.events[s] + rows'[s],
             report.pc = "flushing" => flush.events[s] + rows[s] <= flush'.events[s] + rows'[s],
             rows'[s] \in Nat, pending'[s] \in Nat, flush'.events[s] \in Nat,
             report.pc = "query" => rows[s] <= rows'[s]
      PROVE  OnItsWay(s)'
  BY <1>0, <1>b DEF OnItsWay
<1>2. ASSUME NEW slot \in Slots, RecordUsage(slot)
      PROVE  OnItsWay(s)'
  <2>1. pending'[s] \in Nat /\ pending[s] <= pending'[s] /\ UNCHANGED <<flush, rows, report, since>>
    BY <1>0, <1>2 DEF RecordUsage, Ledger
  <2>. QED BY <1>0, <1>b, <2>1
<1>3. CASE FlushLoop
  <2>1. /\ flush = Nobody /\ flush'.events = pending /\ pending' = Zero
        /\ UNCHANGED <<rows, report, since>> /\ report.pc # "flushing"
    BY <1>3 DEF FlushLoop, Take, Kinds, Nobody
  <2>. QED BY <1>0, <1>1, <1>b, <2>1
<1>4. CASE RankingFlush
  <2>1. /\ report.pc = "flush" /\ report'.pc = "flushing" /\ flush = Nobody /\ flush'.events = pending
        /\ rows' = rows /\ since' = since
    BY <1>4 DEF RankingFlush, Take, Types
  <2>. QED BY <1>0, <1>1, <2>1 DEF OnItsWay
<1>5. CASE Commit
  <2>1. /\ rows'[s] = rows[s] + flush.events[s] /\ pending' = pending /\ flush' = Nobody
        /\ Wrote("added")
    BY <1>0, <1>5, LedgerOperators DEF Commit
  <2>2. since'.settled = since.settled /\ ~since.removed
    BY <2>1, WroteTypes
  <2>3. CASE flush.by = "ranking"
    <3>1. report.pc = "flushing" /\ report'.pc = "query"
      BY <1>5, <2>3 DEF Commit, Flushed, Kinds, Types
    <3>. QED BY <1>0, <2>1, <2>2, <3>1 DEF OnItsWay
  <2>4. CASE flush.by # "ranking"
    <3>1. report' = report /\ report.pc # "flushing"
      BY <1>5, <2>4 DEF Commit, Flushed, Kinds
    <3>2. flush'.events[s] = 0
      BY <1>0, <1>1, <2>1
    <3>. QED BY <1>0, <2>1, <2>2, <3>1, <3>2 DEF OnItsWay
  <2>. QED BY <2>3, <2>4
<1>6. CASE CommitFails
  <2>1. CASE flush.by = "ranking"
    BY <1>1, <1>6, <1>a, <2>1 DEF CommitFails
  <2>2. CASE flush.by # "ranking"
    <3>1. /\ pending'[s] = pending[s] + flush.events[s] /\ flush' = Nobody
          /\ UNCHANGED <<rows, report, since>> /\ report.pc # "flushing"
      BY <1>0, <1>6, <2>2, LedgerOperators DEF CommitFails, Kinds
    <3>2. flush'.events[s] = 0
      BY <1>0, <1>1, <3>1
    <3>. QED BY <1>0, <1>b, <3>1, <3>2
  <2>. QED BY <2>1, <2>2
<1>7. ASSUME \/ \E key \in Keys : ResetPolicyUsage(key)
             \/ \E before \in Times : PruneRetention(before)
      PROVE  OnItsWay(s)'
  <2>1. Wrote("removed") /\ report' = report
    BY <1>7 DEF ResetPolicyUsage, PruneRetention
  <2>2. report = Idle
    BY <2>1, WroteTypes
  <2>. QED BY <1>1, <1>a, <2>1, <2>2
<1>8. ASSUME NEW ask \in Asks, Ask(ask)
      PROVE  OnItsWay(s)'
  <2>1. report'.pc = (IF ask.kind = "ranking" THEN "flush" ELSE "buckets")
        /\ UNCHANGED <<pending, flush, rows>>
    BY <1>8 DEF Ask, Idle
  <2>2. CASE ask.kind = "ranking"
    <3>1. since'.settled = Add(Add(pending, flush.events), rows)
      BY <1>8, <2>2 DEF Ask, Nothing
    <3>2. Add(pending, flush.events) \in Ledger /\ Add(pending, flush.events)[s] = pending[s] + flush.events[s]
      BY <1>0, LedgerOperators
    <3>3. since'.settled[s] = pending[s] + flush.events[s] + rows[s]
      BY <1>0, <3>1, <3>2, LedgerOperators
    <3>. QED BY <1>0, <2>1, <2>2, <3>3 DEF OnItsWay
  <2>3. CASE ask.kind # "ranking"
    BY <2>1, <2>3 DEF OnItsWay
  <2>. QED BY <2>2, <2>3
<1>9. CASE LoadBuckets \/ LoadAvailableFrom
  <2>1. report'.pc \in {"first", "models"}
    BY <1>9 DEF LoadBuckets, LoadAvailableFrom, Types
  <2>. QED BY <2>1 DEF OnItsWay
<1>10. CASE LoadBreakdown
  <2>1. report'.pc = "answer" /\ report'.ask.kind = "analysis"
    BY <1>10 DEF LoadBreakdown, Kinds, Types
  <2>. QED BY <2>1 DEF OnItsWay
<1>11. CASE LoadRanking
  <2>1. /\ report.pc = "query" /\ report'.pc = "answer" /\ report'.ask = report.ask /\ since' = since
        /\ report'.models = Restricted({u \in Slots : Within(report.ask, u)})
    BY <1>11 DEF LoadRanking, Types
  <2>2. report.ask \in Asks
    BY <2>1 DEF Kinds, Types, NoAsk
  <2>3. ASSUME s \in Asked(report.ask)
        PROVE  report'.models[s] = rows[s]
    <3>1. report.ask.zone \in Zones /\ report.ask.from \in Days /\ report.ask.to \in Days
      BY <2>2 DEF Asks
    <3>2. Within(report.ask, s)
      BY <2>3, <3>1, IntervalIsDays
    <3>. QED BY <2>1, <3>2 DEF Restricted
  <2>4. since.settled[s] <= rows[s]
    BY <1>1, <2>1 DEF OnItsWay
  <2>5. s \in Asked(report'.ask) => report'.models[s] = rows[s]
    BY <2>1, <2>3
  <2>. QED BY <2>1, <2>4, <2>5 DEF OnItsWay, Asked
<1>12. CASE Answer \/ QueryFails
  BY <1>1, <1>12, <1>a DEF Answer, QueryFails
<1>13. CASE UNCHANGED vars
  BY <1>0, <1>b, <1>13 DEF vars
<1>. QED
  BY <1>2, <1>3, <1>4, <1>5, <1>6, <1>7, <1>8, <1>9, <1>10, <1>11, <1>12, <1>13
  DEF Next, ReportStep

\* A report is answered for dates in order.
LEMMA OrderedStep ==
  ASSUME Types, Kinds, Ordered, [Next]_vars
  PROVE  Ordered'
<1>1. Idle.ask.kind # "analysis"
  BY DEF Idle, NoAsk
<1>2. ASSUME report' = Idle \/ report'.ask = report.ask PROVE Ordered'
  BY <1>1, <1>2 DEF Ordered
<1>3. ASSUME NEW ask \in Asks, Ask(ask) PROVE Ordered'
  BY <1>3 DEF Ask, Idle, Accepted, Ordered
<1>4. ASSUME \/ RankingFlush \/ LoadBuckets \/ LoadAvailableFrom \/ LoadBreakdown \/ LoadRanking
             \/ Commit \/ CommitFails
      PROVE  report' = Idle \/ report'.ask = report.ask
  BY <1>4 DEF RankingFlush, LoadBuckets, LoadAvailableFrom, LoadBreakdown, LoadRanking, Commit,
              Flushed, CommitFails, Types
<1>. QED
  BY <1>2, <1>3, <1>4
  DEF Next, ReportStep, RecordUsage, FlushLoop, ResetPolicyUsage, PruneRetention, Answer, QueryFails, vars

\* The first bucket that the second query finds is no later than any row's.
LEMMA FirstBucket ==
  ASSUME Types, Kinds, LoadAvailableFrom, NEW s \in Slots, s[1] = report.ask.key, rows[s] > 0
  PROVE  report'.first <= s[3]
<1>. DEFINE mine  == {u \in Slots : u[1] = report.ask.key /\ rows[u] > 0}
            times == {u[3] : u \in mine}
<1>1. s \in mine /\ s[3] \in times
  OBVIOUS
<1>2. report'.first = Min(times)
  <2>1. report'.first = IF times = {} THEN Until(report.ask) ELSE Min(times)
    BY DEF LoadAvailableFrom, Types
  <2>. QED BY <1>1, <2>1
<1>3. times \in SUBSET Int
  BY CalendarAssumption DEF Slots
<1>4. IsFiniteSet(times)
  <2>1. IsFiniteSet(mine)
    BY CalendarAssumption, FS_Subset
  <2>2. [u \in mine |-> u[3]] \in Surjection(mine, times)
    BY DEF Surjection
  <2>. QED BY <2>1, <2>2, FS_Surjection
<1>. HIDE DEF times, mine
<1>5. \A h \in times : Min(times) <= h
  BY <1>1, <1>3, <1>4, MinExists
<1>. QED BY <1>1, <1>2, <1>5

\* Every action keeps what the queries of an analysis have seen.
LEMMA SeenStep ==
  ASSUME Types, Kinds, [Next]_vars, NEW s \in Slots, Seen(s)
  PROVE  Seen(s)'
<1>0. /\ rows[s] \in Nat /\ flush.events[s] \in Nat /\ since.before[s] \in Nat /\ rows \in Ledger
      /\ flush.events \in Ledger
  BY DEF Types, Ledger
<1>1. Idle.ask.kind # "analysis"
  BY DEF Idle, NoAsk
<1>a. ASSUME report'.ask.kind # "analysis" PROVE Seen(s)'
  BY <1>a DEF Seen
<1>b. ASSUME UNCHANGED <<rows, report, since>> PROVE Seen(s)'
  BY <1>b DEF Seen, Selected, Within
<1>2. CASE \/ \E slot \in Slots : RecordUsage(slot)
           \/ FlushLoop
           \/ UNCHANGED vars
  BY <1>2, <1>b DEF RecordUsage, FlushLoop, vars
<1>3. CASE Commit
  <2>1. CASE flush.by = "ranking"
    <3>1. report'.ask.kind = "ranking"
      BY <1>3, <2>1 DEF Commit, Flushed, Kinds, Types
    <3>. QED BY <1>a, <3>1
  <2>2. CASE flush.by # "ranking" /\ report # Idle
    <3>1. /\ report' = report /\ rows'[s] = rows[s] + flush.events[s]
          /\ since'.before = since.before /\ since'.removed = since.removed /\ since'.added
      BY <1>0, <1>3, <2>2, LedgerOperators DEF Commit, Flushed, Wrote, Types
    <3>. QED BY <1>0, <3>1 DEF Seen, Selected, Within
  <2>3. CASE flush.by # "ranking" /\ report = Idle
    <3>1. report' = Idle
      BY <1>3, <2>3 DEF Commit, Flushed
    <3>. QED BY <1>1, <1>a, <3>1
  <2>. QED BY <2>1, <2>2, <2>3
<1>4. CASE CommitFails
  BY <1>1, <1>4, <1>a, <1>b DEF CommitFails
<1>5. CASE \/ \E key \in Keys : ResetPolicyUsage(key)
           \/ \E before \in Times : PruneRetention(before)
  <2>1. Wrote("removed") /\ report' = report
    BY <1>5 DEF ResetPolicyUsage, PruneRetention
  <2>2. CASE report = Idle
    BY <1>1, <1>a, <2>1, <2>2
  <2>3. CASE report # Idle
    <3>1. since'.before = since.before /\ since'.removed
      BY <2>1, <2>3 DEF Wrote, Types
    <3>. QED BY <2>1, <3>1 DEF Seen, Selected, Within
  <2>. QED BY <2>2, <2>3
<1>6. ASSUME NEW ask \in Asks, Ask(ask)
      PROVE  Seen(s)'
  <2>1. report'.pc \in {"flush", "buckets"}
    BY <1>6 DEF Ask, Idle
  <2>. QED BY <2>1 DEF Seen
<1>7. CASE LoadBuckets
  <2>1. /\ report'.pc = "first" /\ report'.ask = report.ask /\ rows' = rows /\ since'.before = rows
        /\ report'.buckets = Restricted(Selected(report.ask))
    BY <1>7 DEF LoadBuckets, Types
  <2>2. report'.buckets[s] = IF s \in Selected(report.ask) THEN rows[s] ELSE 0
    BY <2>1 DEF Restricted
  <2>. QED BY <1>0, <2>1, <2>2 DEF Seen, Selected, Within
<1>8. CASE LoadAvailableFrom
  <2>1. /\ report.pc = "first" /\ report'.pc = "models" /\ report'.ask = report.ask
        /\ report'.buckets = report.buckets /\ rows' = rows /\ since' = since
    BY <1>8 DEF LoadAvailableFrom, Types
  <2>2. s[1] = report.ask.key /\ rows[s] > 0 => report'.first <= s[3]
    BY <1>8, FirstBucket
  <2>. QED BY <1>0, <2>1, <2>2 DEF Seen, Selected, Within
<1>9. CASE LoadBreakdown
  <2>1. /\ report.pc = "models" /\ report'.pc = "answer" /\ report'.ask = report.ask
        /\ report'.buckets = report.buckets /\ report'.first = report.first
        /\ rows' = rows /\ since' = since
        /\ report'.models = Restricted(Selected(report.ask))
    BY <1>9 DEF LoadBreakdown, Types
  <2>2. report'.models[s] = IF s \in Selected(report.ask) THEN rows[s] ELSE 0
    BY <2>1 DEF Restricted
  <2>. QED BY <1>0, <2>1, <2>2 DEF Seen, Selected, Within
<1>10. CASE RankingFlush \/ LoadRanking
  <2>1. report'.ask.kind = "ranking"
    BY <1>10 DEF RankingFlush, LoadRanking, Kinds, Types
  <2>. QED BY <1>a, <2>1
<1>11. CASE Answer \/ QueryFails
  BY <1>1, <1>11, <1>a DEF Answer, QueryFails
<1>. QED
  BY <1>2, <1>3, <1>4, <1>5, <1>6, <1>7, <1>8, <1>9, <1>10, <1>11
  DEF Next, ReportStep

-----------------------------------------------------------------------------
(* What an analysis answers.                                                *)

\* The slots that a point of an analysis sums.
At(ask, start) == {s \in Slots : PeriodStart(ask.zone, ask.granularity, s[3]) = start}

\* A point begins the period of its number.
LEMMA PeriodOfBegin ==
  ASSUME NEW ask, Even(ask), NEW p \in FirstPeriod(ask) .. LastPeriod(ask)
  PROVE  Begin(ask, p) \in Int /\ Period(ask, Begin(ask, p)) = p
<1>1. FirstPeriod(ask) \in Int /\ LastPeriod(ask) \in Int
  BY PeriodsAreRegular DEF Even
<1>2. p \in FirstPeriod(ask) .. (LastPeriod(ask) + 1)
  BY <1>1
<1>. QED BY <1>2, PeriodBegins DEF Even

\* A point sums no selected slot but those of its period, and each of them.
LEMMA PointSums ==
  ASSUME NEW ask, Even(ask), NEW start \in Starts(ask), NEW s \in Slots
  PROVE  /\ s \in Selected(ask) /\ s \in At(ask, start) => CivilPeriod(ask, s[3]) = CivilPeriod(ask, start)
         /\ CivilPeriod(ask, s[3]) = CivilPeriod(ask, start) => s \in At(ask, start)
<1>. DEFINE I == FirstPeriod(ask) .. LastPeriod(ask)
            period(t) == Period(ask, t)
<1>1. PICK p \in I : start = Begin(ask, p)
  BY StartsArePeriods
<1>2. ASSUME NEW q \in I PROVE Begin(ask, q) \in Int /\ period(Begin(ask, q)) = q
  BY PeriodOfBegin
<1>3. s[3] \in Int
  BY CalendarAssumption DEF Slots
<1>4. PeriodStart(ask.zone, ask.granularity, s[3]) = Begin(ask, period(s[3]))
  BY <1>3, StartsArePeriods
<1>5. s \in Selected(ask) => period(s[3]) \in I
  BY <1>3, StartsArePeriods DEF Selected, Within
<1>6. CivilPeriod(ask, s[3]) = CivilPeriod(ask, start) <=> period(s[3]) = period(start)
  BY <1>1, <1>2, <1>3, PeriodNumbers
<1>. HIDE DEF I, period
<1>. QED BY <1>1, <1>2, <1>4, <1>5, <1>6 DEF At, period

\* An analysis has as many points as periods, which is finitely many, and a
\* point for each selected slot.
LEMMA PointsCover ==
  ASSUME NEW ask, Even(ask)
  PROVE  /\ IsFiniteSet(Starts(ask))
         /\ \A s \in Selected(ask) : PeriodStart(ask.zone, ask.granularity, s[3]) \in Starts(ask)
<1>. DEFINE I == FirstPeriod(ask) .. LastPeriod(ask)
<1>1. Starts(ask) = {Begin(ask, p) : p \in I}
  BY StartsArePeriods
<1>2. IsFiniteSet(I)
  <2>1. FirstPeriod(ask) \in Int /\ LastPeriod(ask) \in Int
    BY PeriodsAreRegular DEF Even
  <2>. QED BY <2>1, FS_Interval
<1>3. ASSUME NEW s \in Selected(ask)
      PROVE  PeriodStart(ask.zone, ask.granularity, s[3]) \in Starts(ask)
  <2>1. s[3] \in Int
    BY CalendarAssumption DEF Slots, Selected
  <2>2. Period(ask, s[3]) \in I
    BY <2>1, StartsArePeriods DEF Selected, Within
  <2>3. PeriodStart(ask.zone, ask.granularity, s[3]) = Begin(ask, Period(ask, s[3]))
    BY <2>1, StartsArePeriods
  <2>. QED BY <1>1, <2>2, <2>3
<1>. HIDE DEF I
<1>4. IsFiniteSet({Begin(ask, p) : p \in I})
  <2>1. [p \in I |-> Begin(ask, p)] \in Surjection(I, {Begin(ask, p) : p \in I})
    BY DEF Surjection
  <2>. QED BY <1>2, <2>1, FS_Surjection
<1>. QED BY <1>1, <1>3, <1>4

\* A point is the sum of what was stored for its period.
LEMMA PointIsPeriod ==
  ASSUME NEW ask, Even(ask), NEW start \in Starts(ask), NEW buckets \in Ledger, NEW before \in Ledger,
         \A s \in Slots : buckets[s] = IF s \in Selected(ask) THEN before[s] ELSE 0
  PROVE  Total(buckets, At(ask, start))
           = Total(before, {s \in Selected(ask) : CivilPeriod(ask, s[3]) = CivilPeriod(ask, start)})
<1>. DEFINE of == {s \in Selected(ask) : CivilPeriod(ask, s[3]) = CivilPeriod(ask, start)}
            at == At(ask, start)
<1>1. at \subseteq Slots /\ of \subseteq Slots
  BY DEF At, Selected
<1>2. of \in SUBSET at /\ \A s \in at \ of : s \notin Selected(ask)
  BY <1>1, PointSums
<1>3. IsFiniteSet(at) /\ IsFiniteSet(of)
  BY <1>1, CalendarAssumption, FS_Subset
<1>4. \A s \in of : s \in Slots /\ s \in Selected(ask)
  BY <1>1
<1>. HIDE DEF of, at
<1>5. IntsOn(buckets, at) /\ IntsOn(before, of) /\ \A s \in at \ of : buckets[s] = 0
  BY <1>1, <1>2 DEF IntsOn, Ledger
<1>6. \A s \in of : buckets[s] = before[s]
  BY <1>4
<1>7. SumFunctionOnSet(buckets, of) = SumFunctionOnSet(buckets, at)
  BY <1>2, <1>3, <1>5, SumOnPart
<1>8. SumFunctionOnSet(buckets, of) = SumFunctionOnSet(before, of)
  BY <1>3, <1>5, <1>6, SumEqual
<1>. QED BY <1>7, <1>8 DEF Total, of, at

\* The points of an analysis sum to all that was stored for it.
LEMMA PointsSum ==
  ASSUME NEW ask, Even(ask), NEW buckets \in Ledger, NEW before \in Ledger,
         \A s \in Slots : buckets[s] = IF s \in Selected(ask) THEN before[s] ELSE 0
  PROVE  SumFunctionOnSet([start \in Starts(ask) |-> Total(buckets, At(ask, start))], Starts(ask))
           = Total(before, Selected(ask))
<1>. DEFINE I == Starts(ask)
            mine == Selected(ask)
            start(s) == PeriodStart(ask.zone, ask.granularity, s[3])
            M == {s \in Slots : start(s) \in I}
            h == [s \in M |-> start(s)]
            points == [i \in I |-> Total(buckets, At(ask, i))]
<1>1. M \in SUBSET Slots /\ IsFiniteSet(M) /\ IsFiniteSet(I)
  BY CalendarAssumption, FS_Subset, PointsCover
<1>2. mine \in SUBSET M
  BY PointsCover DEF Selected
<1>3. \A i \in I : At(ask, i) = {s \in M : h[s] = i}
  BY DEF At
<1>4. points = [i \in I |-> SumFunctionOnSet(buckets, {s \in M : h[s] = i})]
  <2>. HIDE DEF I, M, h
  <2>. QED BY <1>3 DEF Total
<1>5. \A s \in M : h[s] \in I
  OBVIOUS
<1>6. IsFiniteSet(mine)
  BY <1>1, <1>2, FS_Subset
<1>. HIDE DEF I, M, h, mine
<1>7. IntsOn(buckets, M) /\ IntsOn(before, mine)
  BY <1>1, <1>2 DEF IntsOn, Ledger
<1>8. SumFunctionOnSet(points, I) = SumFunctionOnSet(buckets, M)
  <2>1. SumFunctionOnSet([i \in I |-> SumFunctionOnSet(buckets, {s \in M : h[s] = i})], I)
          = SumFunctionOnSet(buckets, M)
    BY <1>1, <1>5, <1>7, SumPartition
  <2>. QED BY <1>4, <2>1
<1>9. \A s \in M \ mine : buckets[s] = 0
  BY <1>1 DEF mine
<1>10. SumFunctionOnSet(buckets, mine) = SumFunctionOnSet(buckets, M)
  BY <1>1, <1>2, <1>7, <1>9, SumOnPart
<1>11. \A s \in mine : buckets[s] = before[s]
  BY <1>1, <1>2 DEF mine
<1>12. SumFunctionOnSet(buckets, mine) = SumFunctionOnSet(before, mine)
  BY <1>6, <1>7, <1>11, SumEqual
<1>. QED BY <1>8, <1>10, <1>12 DEF Total, I, mine

\* The periods of the points are the periods of the interval, each once.
LEMMA PeriodsOfPoints ==
  ASSUME NEW ask, Even(ask)
  PROVE  /\ {CivilPeriod(ask, start) : start \in Starts(ask)}
              = {CivilPeriod(ask, t) : t \in From(ask)..(Until(ask) - 1)}
         /\ \A one, other \in Starts(ask) :
              CivilPeriod(ask, one) = CivilPeriod(ask, other) => one = other
<1>. DEFINE I == FirstPeriod(ask) .. LastPeriod(ask)
            times == From(ask)..(Until(ask) - 1)
<1>1. ASSUME NEW q \in I PROVE Begin(ask, q) \in Int /\ Period(ask, Begin(ask, q)) = q
  BY PeriodOfBegin
<1>2. Starts(ask) = {Begin(ask, p) : p \in I}
  BY StartsArePeriods
<1>3. \A t \in times : t \in Int /\ Period(ask, t) \in I
  <2>1. From(ask) \in Int /\ Until(ask) \in Int
    BY IntervalEnds DEF Even
  <2>2. \A t \in times : t \in Int /\ From(ask) <= t /\ t < Until(ask)
    BY <2>1
  <2>. QED BY <2>2, StartsArePeriods
<1>4. \A p \in I : \E t \in times : Period(ask, t) = p
  BY StartsArePeriods
<1>. HIDE DEF I, times
<1>5. \A start \in Starts(ask) : start \in Int /\ Period(ask, start) \in I
  BY <1>1, <1>2
<1>6. ASSUME NEW start \in Starts(ask)
      PROVE  \E t \in times : CivilPeriod(ask, t) = CivilPeriod(ask, start)
  <2>1. PICK t \in times : Period(ask, t) = Period(ask, start)
    BY <1>4, <1>5
  <2>. QED BY <1>3, <1>5, <2>1, PeriodNumbers
<1>7. ASSUME NEW t \in times
      PROVE  \E start \in Starts(ask) : CivilPeriod(ask, t) = CivilPeriod(ask, start)
  <2>1. PICK start \in Starts(ask) : Period(ask, t) = Period(ask, start)
    BY <1>1, <1>2, <1>3
  <2>. QED BY <1>3, <1>5, <2>1, PeriodNumbers
<1>8. {CivilPeriod(ask, start) : start \in Starts(ask)} = {CivilPeriod(ask, t) : t \in times}
  BY <1>6, <1>7
<1>9. ASSUME NEW one \in Starts(ask), NEW other \in Starts(ask),
             CivilPeriod(ask, one) = CivilPeriod(ask, other)
      PROVE  one = other
  <2>1. Period(ask, one) = Period(ask, other)
    BY <1>5, <1>9, PeriodNumbers
  <2>. QED BY <1>1, <1>2, <2>1
<1>. QED BY <1>8, <1>9 DEF times

-----------------------------------------------------------------------------
(* The theorems.                                                            *)

\* The inductive invariant of the reports.
THEOREM Invariant == Spec => []IInv
<1>1. Init => IInv
  <2>. SUFFICES ASSUME Init PROVE IInv
    OBVIOUS
  <2>1. Types
    BY LedgerOperators DEF Init, Types, Nobody, Idle, Nothing
  <2>2. Kinds /\ Ordered /\ \A s \in Slots : OnItsWay(s) /\ Seen(s)
    BY DEF Init, Kinds, Ordered, OnItsWay, Seen, Idle, NoAsk, Nobody
  <2>. QED BY <2>1, <2>2 DEF IInv
<1>2. IInv /\ [Next]_vars => IInv'
  <2>. SUFFICES ASSUME IInv, [Next]_vars PROVE IInv'
    OBVIOUS
  <2>1. Types' /\ Kinds' /\ Ordered'
    BY TypesStep, KindsStep, OrderedStep DEF IInv
  <2>2. ~since'.removed => \A s \in Slots : OnItsWay(s)'
    BY WayStep DEF IInv
  <2>3. \A s \in Slots : Seen(s)'
    BY SeenStep DEF IInv
  <2>. QED BY <2>1, <2>2, <2>3 DEF IInv
<1>. QED BY <1>1, <1>2, PTL DEF Spec

\* Whatever other flushes failed, restored or committed while the ranking
\* waited for its own, it misses nothing that had been settled for the civil
\* days asked for.
THEOREM RankingMissesNothing == Spec => []RankingComplete
<1>1. IInv => RankingComplete
  <2>. SUFFICES ASSUME IInv, report.pc = "answer", report.ask.kind = "ranking", ~since.removed,
                       NEW s \in Asked(report.ask)
                PROVE  report.models[s] >= since.settled[s]
    BY DEF RankingComplete, Answered
  <2>1. s \in Slots
    BY DEF Asked
  <2>2. since.settled[s] \in Nat /\ report.models[s] \in Nat
    BY <2>1 DEF IInv, Types, Ledger
  <2>. QED BY <2>1, <2>2 DEF IInv, OnItsWay
<1>. QED BY <1>1, Invariant, PTL

\* Whatever flushes, resets and prunes come between its queries, an analysis
\* answers with the civil periods that were asked for, each once, and what was
\* stored for them; and the models and the first bucket agree with the points as
\* far as the stored rows stayed.  By the hour this holds of zones that change
\* their clocks by whole hours.
THEOREM ReportsAreTrue == Spec => []ReportTrue
<1>1. IInv => ReportTrue
  <2>. SUFFICES ASSUME IInv, report.pc = "answer", report.ask.kind = "analysis",
                       report.ask.granularity = "hour" => ByWholeHours(report.ask.zone)
                PROVE  ReportTrue
    BY DEF ReportTrue, Answered
  <2>. DEFINE ask == report.ask
              before == since.before
              mine == {s \in Asked(ask) : s[1] = ask.key}
              of(start) == {s \in mine : CivilPeriod(ask, s[3]) = CivilPeriod(ask, start)}
              total == SumFunctionOnSet(Points, DOMAIN Points)
  <2>1. /\ Analysis(ask) /\ Even(ask) /\ ask \in Asks
        /\ report.buckets \in Ledger /\ before \in Ledger /\ report.models \in Ledger
    BY DEF IInv, Types, Kinds, Ordered, Analysis, Even
  <2>2. mine = Selected(ask)
    <3>1. ask.zone \in Zones /\ ask.from \in Days /\ ask.to \in Days
      BY <2>1, AskTypes
    <3>2. \A s \in Slots : Within(ask, s) <=> s \in Asked(ask)
      BY <3>1, IntervalIsDays
    <3>3. \A s \in Asked(ask) : s \in Slots
      BY DEF Asked
    <3>. QED BY <3>2, <3>3 DEF Selected
  <2>3. Points = [start \in Starts(ask) |-> Total(report.buckets, At(ask, start))]
    BY DEF Points, At
  <2>4. DOMAIN Points = Starts(ask)
    BY <2>3
  <2>5. \A s \in Slots : Seen(s)
    BY DEF IInv
  <2>6. \A s \in Slots : report.buckets[s] = IF s \in Selected(ask) THEN before[s] ELSE 0
    BY <2>5 DEF Seen
  <2>7. /\ {CivilPeriod(ask, start) : start \in DOMAIN Points}
             = {CivilPeriod(ask, t) : t \in From(ask)..(Until(ask) - 1)}
        /\ \A one, other \in DOMAIN Points :
             CivilPeriod(ask, one) = CivilPeriod(ask, other) => one = other
    BY <2>1, <2>4, PeriodsOfPoints
  <2>8. ASSUME NEW start \in DOMAIN Points PROVE Points[start] = Total(before, of(start))
    <3>1. Points[start] = Total(report.buckets, At(ask, start)) /\ start \in Starts(ask)
      BY <2>3, <2>4
    <3>2. of(start) = {s \in Selected(ask) : CivilPeriod(ask, s[3]) = CivilPeriod(ask, start)}
      BY <2>2
    <3>. HIDE DEF ask, before, of
    <3>. QED BY <2>1, <2>6, <3>1, <3>2, PointIsPeriod
  <2>9. total = Total(before, mine)
    <3>1. total = SumFunctionOnSet([start \in Starts(ask) |-> Total(report.buckets, At(ask, start))], Starts(ask))
      BY <2>3, <2>4
    <3>. HIDE DEF ask, before, mine, total
    <3>. QED BY <2>1, <2>2, <2>6, <3>1, PointsSum
  <2>10. mine \in SUBSET Slots /\ IsFiniteSet(Slots) /\ IsFiniteSet(mine)
    <3>1. mine \in SUBSET Slots
      BY <2>2 DEF Selected
    <3>. HIDE DEF mine
    <3>. QED BY <3>1, CalendarAssumption, FS_Subset
  <2>11. ASSUME ~since.removed
         PROVE  /\ total <= Total(report.models, mine)
                /\ \A s \in mine : report.buckets[s] > 0 => report.first <= s[3]
    <3>1. \A s \in mine : before[s] <= report.models[s]
      BY <2>2, <2>5, <2>10, <2>11 DEF Seen
    <3>2. \A s \in mine : report.buckets[s] > 0 => report.first <= s[3]
      BY <2>2, <2>5, <2>6, <2>10, <2>11 DEF Seen
    <3>. HIDE DEF mine, before, total
    <3>3. NatsOn(before, mine) /\ NatsOn(report.models, mine)
      BY <2>1, <2>10 DEF NatsOn, Ledger
    <3>4. SumFunctionOnSet(before, mine) <= SumFunctionOnSet(report.models, mine)
      BY <2>10, <3>1, <3>3, SumAtMost
    <3>. QED BY <2>9, <3>2, <3>4 DEF Total
  <2>12. ASSUME ~since.removed, ~since.added
         PROVE  total = Total(report.models, Slots)
    <3>1. \A s \in mine : before[s] = report.models[s]
      BY <2>2, <2>5, <2>10, <2>12 DEF Seen
    <3>2. \A s \in Slots \ mine : report.models[s] = 0
      BY <2>2, <2>5 DEF Seen
    <3>. HIDE DEF mine, before, total
    <3>3. IntsOn(report.models, mine) /\ IntsOn(report.models, Slots)
      BY <2>1, <2>10 DEF IntsOn, Ledger
    <3>4. SumFunctionOnSet(before, mine) = SumFunctionOnSet(report.models, mine)
      BY <2>10, <3>1, <3>3, SumEqual
    <3>5. SumFunctionOnSet(report.models, mine) = SumFunctionOnSet(report.models, Slots)
      BY <2>10, <3>2, <3>3, SumOnPart
    <3>. QED BY <2>9, <3>4, <3>5 DEF Total
  <2>. QED BY <2>7, <2>8, <2>9, <2>11, <2>12 DEF ReportTrue, Mine, Shown
<1>. QED BY <1>1, Invariant, PTL
=============================================================================

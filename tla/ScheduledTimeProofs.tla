-------------------------- MODULE ScheduledTimeProofs --------------------------
(* That an accepted pattern gives the sets it means, and that the search finds
   the first minute in all of them, for every calendar and units of any size.

   ParsedExactly is about a loop that has come to its end: SetsInv says what the
   sets are after each item.  FirstMatch speaks of minutes, the search of dates,
   hours and minutes of the hour: a turn of each loop passes over the minutes
   that share the part it looked at (SameHour, SomeDays, MonthEnds), and the parts
   the loops around it have looked at are in their sets (FoundInv).          *)
EXTENDS ScheduledTime, WellFoundedInduction, TLAPS

Pcs == {"parse", "failed", "crashed", "call", "month", "day", "hour", "minute", "found"}

TypeOK ==
    /\ pattern \in Patterns /\ field \in 1..6 /\ item \in Nat \ {0}
    /\ field <= 5 /\ field <= Len(pattern) => item <= Len(pattern[field])
    /\ sets \in [Fields -> SUBSET Nat]
    /\ pc \in Pcs /\ (pc \notin {"parse", "failed", "crashed"} => field = 6)
    /\ date \in 0..(NDays - 1) /\ hour \in 0..(HoursPerDay - 1)
    /\ minute \in 0..(MinutesPerHour - 1)
    /\ start \in Nat /\ swap \in Nat /\ calls \in Nat /\ wrapped \in BOOLEAN

(* Does an item stand for i in its field? *)
Means(f, it, i) ==
    /\ i % it.every = 0
    /\ \/ it.kind = "star" /\ Low[f] <= i
       \/ it.kind = "range" /\ it.start <= i /\ i <= it.end

(* The items of a field that have been read. *)
Read(f) ==
    IF f < field THEN 1..Len(pattern[f])
    ELSE IF f = field THEN 1..(item - 1) ELSE {}

SetsInv == \A f \in Fields :
    sets[f] = {i \in 0..High[f] : \E n \in Read(f) : Means(f, pattern[f][n], i)}

(* What the loops around the present one have found. *)
FoundInv ==
    /\ pc \in {"day", "hour", "minute", "found"} => Day(date).month \in sets[4]
    /\ pc \in {"hour", "minute", "found"} =>
          Day(date).day \in sets[3] /\ Day(date).weekday \in sets[5]
    /\ pc \in {"minute", "found"} => hour \in sets[2]
    /\ pc = "found" => minute \in sets[1]

(* The search is later than the start of the file, and no minute of the schedule
   is between them. *)
Passed(n) == \A m \in 0..(n - 1) : m * TicksPerMinute > start => ~Matches(m)
AheadInv ==
    ~wrapped /\ (Searching \/ pc = "found") =>
        Here * TicksPerMinute > start /\ Passed(Here)

IInv == TypeOK /\ SetsInv /\ FoundInv /\ AheadInv

-----------------------------------------------------------------------------
(* Division, as far as the search needs it.                                  *)

LEMMA Division ==
    ASSUME NEW n \in Nat, NEW b \in Nat \ {0}
    PROVE  /\ n \div b \in Nat /\ n % b \in 0..(b - 1)
           /\ (n \div b) * b \in Nat /\ n = (n \div b) * b + (n % b)
OBVIOUS

(* Multiples keep their order. *)
LEMMA Mono ==
    ASSUME NEW j \in Nat, NEW k \in Nat, NEW b \in Nat, j <= k
    PROVE  j * b <= k * b /\ j * b \in Nat /\ k * b \in Nat
OBVIOUS

(* A quotient is known from two multiples. *)
LEMMA Between ==
    ASSUME NEW b \in Nat \ {0}, NEW n \in Nat, NEW q \in Nat,
           q * b <= n, n < (q + 1) * b
    PROVE  n \div b = q /\ n % b = n - q * b
<1> DEFINE p == n \div b
           r == n % b
<1>1. p \in Nat /\ r \in 0..(b - 1) /\ n = p * b + r
  BY Division
<1> HIDE DEF p, r
<1>2. (p + 1) * b = p * b + b /\ (q + 1) * b = q * b + b
  BY <1>1
<1>3. p = q
  <2>1. CASE p < q
    <3>1. (p + 1) * b <= q * b /\ q * b \in Nat /\ (p + 1) * b \in Nat /\ p * b \in Nat
      BY <1>1, <2>1, Mono
    <3> QED
      BY <1>1, <1>2, <3>1
  <2>2. CASE q < p
    <3>1. (q + 1) * b <= p * b /\ p * b \in Nat /\ (q + 1) * b \in Nat /\ q * b \in Nat
      BY <1>1, <2>2, Mono
    <3> QED
      BY <1>1, <1>2, <3>1
  <2> QED
    BY <1>1, <2>1, <2>2
<1>4. r = n - q * b
  <2>1. q * b \in Nat
    OBVIOUS
  <2> QED
    BY <1>1, <1>3, <2>1
<1> QED
  BY <1>3, <1>4 DEF p, r

LEMMA Units ==
    /\ MinutesPerHour \in Nat \ {0} /\ HoursPerDay \in Nat \ {0} /\ TicksPerMinute \in Nat \ {0}
    /\ MinutesPerDay \in Nat \ {0} /\ NDays \in Nat \ {0}
<1>1. MinutesPerHour \in Nat \ {0} /\ HoursPerDay \in Nat \ {0} /\ TicksPerMinute \in Nat \ {0}
  BY UnitsAssumption
<1>2. MinutesPerDay \in Nat \ {0}
  BY <1>1 DEF MinutesPerDay
<1>3. NDays \in Nat \ {0}
  <2>1. NDays \in Nat
    BY CalendarAssumption DEF NDays
  <2> QED
    BY <2>1, CalendarAssumption
<1> QED
  BY <1>1, <1>2, <1>3

(* The minute of a date, an hour and a minute of the hour. *)
MinuteOf(d, h, mi) == d * MinutesPerDay + h * MinutesPerHour + mi

(* The minutes of an hour are those of a day. *)
LEMMA InDay ==
    ASSUME NEW h \in 0..(HoursPerDay - 1), NEW mi \in 0..(MinutesPerHour - 1)
    PROVE  /\ h * MinutesPerHour \in Nat
           /\ h * MinutesPerHour + mi < (h + 1) * MinutesPerHour
           /\ (h + 1) * MinutesPerHour = h * MinutesPerHour + MinutesPerHour
           /\ (h + 1) * MinutesPerHour <= MinutesPerDay
<1>1. h \in Nat /\ h + 1 \in Nat /\ h + 1 <= HoursPerDay /\ HoursPerDay \in Nat
  BY Units
<1>2. (h + 1) * MinutesPerHour <= HoursPerDay * MinutesPerHour
  BY <1>1, Units, Mono
<1> QED
  BY <1>1, <1>2, Units DEF MinutesPerDay

(* The parts of a minute of the calendar. *)
LEMMA Parts ==
    ASSUME NEW m \in Nat
    PROVE  /\ m \div MinutesPerDay \in Nat
           /\ (m \div MinutesPerHour) % HoursPerDay \in 0..(HoursPerDay - 1)
           /\ m % MinutesPerHour \in 0..(MinutesPerHour - 1)
           /\ m = MinuteOf(m \div MinutesPerDay, (m \div MinutesPerHour) % HoursPerDay,
                           m % MinutesPerHour)
<1> DEFINE a == m \div MinutesPerHour
           d == a \div HoursPerDay
           h == a % HoursPerDay
           mi == m % MinutesPerHour
<1>1. a \in Nat /\ mi \in 0..(MinutesPerHour - 1) /\ m = a * MinutesPerHour + mi
  BY Units, Division
<1>2. d \in Nat /\ h \in 0..(HoursPerDay - 1) /\ a = d * HoursPerDay + h
  <2> HIDE DEF a
  <2> QED
    BY <1>1, Units, Division
<1> HIDE DEF a, d, h, mi
<1>3. m = d * MinutesPerDay + (h * MinutesPerHour + mi)
  <2>1. a * MinutesPerHour = (d * HoursPerDay) * MinutesPerHour + h * MinutesPerHour
    BY <1>2, Units
  <2>2. (d * HoursPerDay) * MinutesPerHour = d * MinutesPerDay
    BY <1>2, Units DEF MinutesPerDay
  <2>3. h * MinutesPerHour \in Nat /\ d * MinutesPerDay \in Nat
    BY <1>2, Units
  <2> QED
    BY <1>1, <2>1, <2>2, <2>3
<1>4. m \div MinutesPerDay = d
  <2>1. h * MinutesPerHour + mi < MinutesPerDay /\ h * MinutesPerHour + mi \in Nat
    BY <1>1, <1>2, Units, InDay
  <2>2. (d + 1) * MinutesPerDay = d * MinutesPerDay + MinutesPerDay /\ d * MinutesPerDay \in Nat
    BY <1>2, Units
  <2>3. d * MinutesPerDay <= m /\ m < (d + 1) * MinutesPerDay
    BY <1>3, <2>1, <2>2, Units
  <2> QED
    BY <1>2, <2>3, Units, Between
<1>5. m = MinuteOf(d, h, mi)
  <2>1. h * MinutesPerHour \in Nat /\ d * MinutesPerDay \in Nat /\ mi \in Nat
    BY <1>1, <1>2, Units
  <2> QED
    BY <1>3, <2>1 DEF MinuteOf
<1> QED
  BY <1>1, <1>2, <1>4, <1>5 DEF h, mi, a

(* The minutes from some time on to the end of its day. *)
LEMMA SameDay ==
    ASSUME NEW d \in Nat, NEW h \in 0..(HoursPerDay - 1), NEW mi \in 0..(MinutesPerHour - 1),
           NEW m \in Nat, MinuteOf(d, h, mi) <= m, m < MinuteOf(d + 1, 0, 0)
    PROVE  m \div MinutesPerDay = d
<1>1. /\ d * MinutesPerDay \in Nat /\ h * MinutesPerHour \in Nat
      /\ 0 * MinutesPerHour = 0 /\ (d + 1) * MinutesPerDay \in Nat
  BY Units
<1>2. d * MinutesPerDay <= m /\ m < (d + 1) * MinutesPerDay
  BY <1>1 DEF MinuteOf
<1> QED
  BY <1>2, Units, Between

(* And to the end of its hour. *)
LEMMA SameHour ==
    ASSUME NEW d \in Nat, NEW h \in 0..(HoursPerDay - 1), NEW mi \in 0..(MinutesPerHour - 1),
           NEW m \in Nat, MinuteOf(d, h, mi) <= m, m < MinuteOf(d, h + 1, 0)
    PROVE  /\ m \div MinutesPerDay = d
           /\ (m \div MinutesPerHour) % HoursPerDay = h
           /\ m % MinutesPerHour = m - MinuteOf(d, h, 0)
<1> DEFINE q == d * HoursPerDay + h
<1>1. /\ d * MinutesPerDay \in Nat /\ h * MinutesPerHour \in Nat /\ q \in Nat
      /\ (h + 1) * MinutesPerHour = h * MinutesPerHour + MinutesPerHour
  BY Units
<1>2. /\ q * MinutesPerHour = d * MinutesPerDay + h * MinutesPerHour
      /\ (q + 1) * MinutesPerHour = d * MinutesPerDay + (h + 1) * MinutesPerHour
  <2>1. (d * HoursPerDay) * MinutesPerHour = d * MinutesPerDay
    BY Units DEF MinutesPerDay
  <2>2. q * MinutesPerHour = (d * HoursPerDay) * MinutesPerHour + h * MinutesPerHour
    BY Units
  <2>3. (q + 1) * MinutesPerHour = q * MinutesPerHour + MinutesPerHour
    BY <1>1, Units
  <2> HIDE DEF q
  <2> QED
    BY <1>1, <2>1, <2>2, <2>3, Units
<1>3. m \div MinutesPerHour = q /\ m % MinutesPerHour = m - q * MinutesPerHour
  <2> HIDE DEF q
  <2>1. q * MinutesPerHour <= m /\ m < (q + 1) * MinutesPerHour
    <3>1. (h + 1) * MinutesPerHour \in Nat
      BY <1>1, Units
    <3> QED
      BY <1>1, <1>2, <3>1 DEF MinuteOf
  <2> QED
    BY <1>1, <2>1, Units, Between
<1>4. q % HoursPerDay = h
  <2>1. d * HoursPerDay \in Nat /\ (d + 1) * HoursPerDay = d * HoursPerDay + HoursPerDay
    BY Units
  <2>2. d * HoursPerDay <= q /\ q < (d + 1) * HoursPerDay /\ q - d * HoursPerDay = h
    BY <2>1, Units
  <2> HIDE DEF q
  <2> QED
    BY <1>1, <2>2, Units, Between
<1>5. m \div MinutesPerDay = d
  <2>1. (h + 1) * MinutesPerHour <= MinutesPerDay
    <3>1. 0 \in 0..(MinutesPerHour - 1)
      BY Units
    <3> QED
      BY <3>1, InDay
  <2>2. (d + 1) * MinutesPerDay = d * MinutesPerDay + MinutesPerDay
    BY Units
  <2>3. d * MinutesPerDay <= m /\ m < (d + 1) * MinutesPerDay
    BY <1>1, <2>1, <2>2, Units DEF MinuteOf
  <2> QED
    BY <2>3, Units, Between
<1>6. q * MinutesPerHour = MinuteOf(d, h, 0)
  BY <1>1, <1>2 DEF MinuteOf
<1> HIDE DEF q
<1> QED
  BY <1>3, <1>4, <1>5, <1>6

(* The parts of Here. *)
LEMMA HereParts ==
    ASSUME TypeOK
    PROVE  /\ Here = MinuteOf(date, hour, minute) /\ Here \in Nat /\ date \in Nat
           /\ Here \div MinutesPerDay = date
           /\ (Here \div MinutesPerHour) % HoursPerDay = hour
           /\ Here % MinutesPerHour = minute
<1>1. /\ date \in Nat /\ hour \in 0..(HoursPerDay - 1) /\ minute \in 0..(MinutesPerHour - 1)
  BY Units DEF TypeOK
<1>2. Here = MinuteOf(date, hour, minute)
  BY DEF Here, MinuteOf
<1>3. /\ date * MinutesPerDay \in Nat /\ hour * MinutesPerHour \in Nat
      /\ (hour + 1) * MinutesPerHour = hour * MinutesPerHour + MinutesPerHour
  BY <1>1, Units
<1>4. /\ Here \in Nat /\ Here < MinuteOf(date, hour + 1, 0)
      /\ Here - MinuteOf(date, hour, 0) = minute
  BY <1>1, <1>2, <1>3, Units DEF MinuteOf
<1> QED
  BY <1>1, <1>2, <1>4, SameHour

(* And from some time on to before another day. *)
LEMMA SomeDays ==
    ASSUME NEW d \in Nat, NEW h \in 0..(HoursPerDay - 1), NEW mi \in 0..(MinutesPerHour - 1),
           NEW e \in Nat, NEW m \in Nat, MinuteOf(d, h, mi) <= m, m < MinuteOf(e, 0, 0)
    PROVE  m \div MinutesPerDay \in d..(e - 1)
<1> DEFINE q == m \div MinutesPerDay
           r == m % MinutesPerDay
<1>1. /\ d * MinutesPerDay \in Nat /\ h * MinutesPerHour \in Nat
      /\ 0 * MinutesPerHour = 0 /\ e * MinutesPerDay \in Nat
  BY Units
<1>2. d * MinutesPerDay <= m /\ m < e * MinutesPerDay
  BY <1>1 DEF MinuteOf
<1>3. q \in Nat /\ r \in 0..(MinutesPerDay - 1) /\ m = q * MinutesPerDay + r
  BY Units, Division
<1> HIDE DEF q, r
<1>4. q * MinutesPerDay \in Nat /\ (q + 1) * MinutesPerDay = q * MinutesPerDay + MinutesPerDay
  BY <1>3, Units
<1>5. d <= q
  <2>1. CASE q < d
    <3>1. (q + 1) * MinutesPerDay <= d * MinutesPerDay
      BY <1>3, <2>1, Units, Mono
    <3> QED
      BY <1>1, <1>2, <1>3, <1>4, <3>1, Units
  <2> QED
    BY <1>3, <2>1
<1>6. q < e
  <2>1. CASE e <= q
    <3>1. e * MinutesPerDay <= q * MinutesPerDay
      BY <1>3, <2>1, Units, Mono
    <3> QED
      BY <1>1, <1>2, <1>3, <1>4, <3>1, Units
  <2> QED
    BY <1>3, <2>1
<1> QED
  BY <1>3, <1>5, <1>6 DEF q

-----------------------------------------------------------------------------
(* The days of a month.                                                      *)

LEMMA Least ==
    ASSUME NEW S \in SUBSET Nat, S # {}
    PROVE  \E m \in S : \A k \in S : m <= k
<1> DEFINE R == {ss \in Nat \X Nat : ss[1] < ss[2]}
<1>1. IsWellFoundedOn(R, Nat)
  BY NatLessThanWellFounded DEF OpToRel
<1>2. PICK m \in S : \A j \in S : ~(<<j, m>> \in R)
  <2> HIDE DEF R
  <2> QED
    BY <1>1, WFMin
<1>3. ASSUME NEW k \in S PROVE m <= k
  <2>1. k \in Nat /\ m \in Nat /\ ~(<<k, m>> \in R)
    BY <1>2
  <2> QED
    BY <2>1
<1> QED
  BY <1>3

(* Where find_month goes on, and that it leaves the days of one month behind. *)
LEMMA MonthEnds ==
    ASSUME NEW d \in 0..(NDays - 1)
    PROVE  /\ NextMonthStart(d) \in (d + 1)..NDays
           /\ \A c \in d..(NextMonthStart(d) - 1) : Day(c).month = Day(d).month
<1> DEFINE S == {e \in (d + 1)..NDays : e = NDays \/ Day(e).day = 1}
           n == NextMonthStart(d)
<1>1. d \in Nat /\ NDays \in Nat /\ d + 1 <= NDays
  BY Units
<1>2. PICK e \in S : \A k \in S : e <= k
  <2>1. NDays \in S /\ S \subseteq Nat
    BY <1>1
  <2> HIDE DEF S
  <2> QED
    BY <2>1, Least
<1>3. \A c \in (d + 1)..(e - 1) : Day(c).day # 1
  BY <1>1, <1>2
<1>4. /\ n \in (d + 1)..NDays /\ \A c \in (d + 1)..(n - 1) : Day(c).day # 1
  BY <1>2, <1>3 DEF NextMonthStart
<1> HIDE DEF n
<1> DEFINE T == {c \in d..(n - 1) : Day(c).month # Day(d).month}
<1>5. T = {}
  <2>1. SUFFICES ASSUME T # {} PROVE FALSE
    OBVIOUS
  <2>2. T \subseteq Nat
    BY <1>1, <1>4
  <2>3. PICK c \in T : \A k \in T : c <= k
    <3> HIDE DEF T
    <3> QED
      BY <2>1, <2>2, Least
  <2>4. c \in (d + 1)..(n - 1) /\ c \in 1..(NDays - 1) /\ c - 1 \in d..(n - 1) /\ c \in Nat
    <3>1. c \in d..(n - 1) /\ c # d
      BY <2>3
    <3> QED
      BY <1>1, <1>4, <3>1
  <2>5. Day(c).month = Day(c - 1).month
    BY <1>4, <2>4, CalendarAssumption
  <2>6. c - 1 \notin T
    BY <2>3, <2>4
  <2> QED
    BY <2>3, <2>4, <2>5, <2>6
<1> QED
  BY <1>4, <1>5 DEF n

-----------------------------------------------------------------------------
(* The steps of the search.                                                  *)

(* The search is somewhere in the calendar. *)
LEMMA HereLater == ASSUME TypeOK' PROVE Here' \in Nat
<1> DEFINE d == date'
           h == hour'
           mi == minute'
<1>1. d \in Nat /\ h \in Nat /\ mi \in Nat
  BY Units DEF TypeOK, NDays
<1>2. Here' = d * MinutesPerDay + h * MinutesPerHour + mi
  BY DEF Here, MinutesPerDay
<1> HIDE DEF d, h, mi
<1>3. d * MinutesPerDay \in Nat /\ h * MinutesPerHour \in Nat
  BY <1>1, Units
<1> QED
  BY <1>1, <1>2, <1>3

(* A turn of a loop that passes only over minutes that are not of the schedule. *)
LEMMA GoneBy ==
    ASSUME TypeOK, TypeOK', AheadInv, Searching, ~wrapped, UNCHANGED <<sets, start>>,
           Here <= Here', \A m \in Here..(Here' - 1) : ~Matches(m)
    PROVE  AheadInv'
<1> DEFINE a == Here
           b == Here'
<1>1. a \in Nat /\ b \in Nat /\ a <= b /\ start \in Nat
  BY HereParts, HereLater DEF TypeOK
<1>2. a * TicksPerMinute > start /\ Passed(a)
  BY DEF AheadInv
<1>3. \A m : Matches(m)' <=> Matches(m)
  BY DEF Matches
<1>4. \A m \in a..(b - 1) : ~Matches(m)
  OBVIOUS
<1> HIDE DEF a, b
<1>5. b * TicksPerMinute > start
  <2>1. a * TicksPerMinute <= b * TicksPerMinute /\ a * TicksPerMinute \in Nat
        /\ b * TicksPerMinute \in Nat
    BY <1>1, Units, Mono
  <2> QED
    BY <1>1, <1>2, <2>1
<1>6. \A m \in 0..(b - 1) : m \in 0..(a - 1) \/ m \in a..(b - 1)
  BY <1>1
<1>7. \A m \in 0..(b - 1) : m * TicksPerMinute > start => ~Matches(m)
  BY <1>2, <1>4, <1>6 DEF Passed
<1>8. Passed(Here)'
  BY <1>3, <1>7 DEF Passed, b
<1> QED
  BY <1>5, <1>8 DEF AheadInv, b

(* What every turn of a loop leaves as it is. *)
LEMMA Aside ==
    ASSUME IInv, UNCHANGED <<parser, thread>>
    PROVE  /\ SetsInv' /\ UNCHANGED <<sets, start>>
           /\ (Searching /\ pc' \in Pcs /\ date' \in 0..(NDays - 1)
               /\ hour' \in 0..(HoursPerDay - 1) /\ minute' \in 0..(MinutesPerHour - 1)
               /\ wrapped' \in BOOLEAN) => TypeOK'
<1>1. UNCHANGED <<pattern, field, item, sets, start, swap, calls>>
  BY DEF parser, thread
<1>2. SetsInv'
  BY <1>1 DEF IInv, SetsInv, Read
<1>3. Searching => field = 6
  BY DEF IInv, TypeOK, Searching
<1> QED
  BY <1>1, <1>2, <1>3 DEF IInv, TypeOK, NDays

(* On to the beginning of a later day. *)
LEMMA GoToStep ==
    ASSUME IInv, Searching, UNCHANGED <<parser, thread>>, NEW e \in (date + 1)..NDays, GoTo(e),
           \/ pc' = "month"
           \/ pc' = "day" /\ e < NDays /\ Day(e).month \in sets[4],
           \A m \in Nat : Here <= m /\ m < MinuteOf(e, 0, 0) => ~Matches(m)
    PROVE  IInv'
<1>1. /\ date' = e % NDays /\ hour' = 0 /\ minute' = 0
      /\ wrapped' = (wrapped \/ e = NDays)
  BY DEF GoTo
<1>2. e \in Nat /\ NDays \in Nat \ {0} /\ date \in Nat /\ hour \in Nat /\ minute \in Nat
  BY Units DEF IInv, TypeOK
<1>3. 0 \in 0..(HoursPerDay - 1) /\ 0 \in 0..(MinutesPerHour - 1)
  BY Units
<1>4. TypeOK'
  <2>1. date' \in 0..(NDays - 1)
    BY <1>1, <1>2, Division
  <2>2. wrapped' \in BOOLEAN /\ pc' \in Pcs
    BY <1>1 DEF IInv, TypeOK, Pcs
  <2> QED
    BY <1>1, <1>3, <2>1, <2>2, Aside
<1>5. e < NDays => date' = e
  BY <1>1, <1>2
<1>6. FoundInv'
  BY <1>5, Aside DEF FoundInv
<1>7. AheadInv'
  <2>1. CASE wrapped'
    BY <2>1 DEF AheadInv
  <2>2. CASE ~wrapped'
    <3>1. ~wrapped /\ date' = e
      <4>1. ~wrapped /\ e # NDays
        BY <1>1, <2>2, Zenon
      <4> QED
        BY <1>2, <1>5, <4>1
    <3>2. Here' = MinuteOf(e, 0, 0) /\ Here \in Nat /\ Here' \in Nat
      BY <1>1, <1>4, <3>1, HereParts, HereLater DEF IInv, Here, MinuteOf
    <3>3. Here <= Here'
      <4>1. Here = MinuteOf(date, hour, minute) /\ Here \div MinutesPerDay = date
        BY HereParts DEF IInv
      <4>2. CASE Here' < Here
        <5>1. MinuteOf(e, 0, 0) <= Here /\ Here < MinuteOf(date + 1, 0, 0)
          <6> DEFINE d == date
          <6>1. /\ d * MinutesPerDay \in Nat
                /\ (d + 1) * MinutesPerDay = d * MinutesPerDay + MinutesPerDay
                /\ 0 * MinutesPerHour = 0
            BY <1>2, Units
          <6>2. hour * MinutesPerHour \in Nat /\ hour * MinutesPerHour + minute < MinutesPerDay
            <7>1. hour \in 0..(HoursPerDay - 1) /\ minute \in 0..(MinutesPerHour - 1)
              BY DEF IInv, TypeOK
            <7> QED
              BY <7>1, Units, InDay
          <6> HIDE DEF d
          <6>3. d * MinutesPerDay + hour * MinutesPerHour + minute
                    < (d + 1) * MinutesPerDay + 0 * MinutesPerHour + 0
            BY <1>2, <6>1, <6>2, Units
          <6> QED
            BY <3>2, <4>1, <4>2, <6>3 DEF MinuteOf, d
        <5>2. (date + 1) * MinutesPerDay <= e * MinutesPerDay
          BY <1>2, Units, Mono
        <5>3. /\ (date + 1) * MinutesPerDay \in Nat /\ e * MinutesPerDay \in Nat
              /\ 0 * MinutesPerHour = 0
          BY <1>2, Units
        <5>4. MinuteOf(date + 1, 0, 0) <= MinuteOf(e, 0, 0)
          BY <5>2, <5>3 DEF MinuteOf
        <5> QED
          BY <3>2, <4>2, <5>1, <5>3, <5>4 DEF MinuteOf
      <4> QED
        BY <3>2, <4>2
    <3>4. \A m \in Here..(Here' - 1) : ~Matches(m)
      <4>1. \A m \in Here..(Here' - 1) : m \in Nat /\ Here <= m /\ m < Here'
        BY <3>2
      <4> QED
        BY <3>2, <4>1
    <3> QED
      BY <1>4, <3>1, <3>3, <3>4, Aside, GoneBy DEF IInv
  <2> QED
    BY <2>1, <2>2
<1> QED
  BY <1>4, <1>6, <1>7, Aside DEF IInv

(* A minute of a day, or of an hour, that is not in the schedule is not. *)
LEMMA NotMatched ==
    ASSUME NEW m \in Nat
    PROVE  Matches(m) =>
               /\ m % MinutesPerHour \in sets[1]
               /\ (m \div MinutesPerHour) % HoursPerDay \in sets[2]
               /\ Day(m \div MinutesPerDay).day \in sets[3]
               /\ Day(m \div MinutesPerDay).month \in sets[4]
               /\ Day(m \div MinutesPerDay).weekday \in sets[5]
BY DEF Matches

(* A loop that finds its part leaves the rest to the next one. *)
LEMMA Inwards ==
    ASSUME IInv, Searching, UNCHANGED <<parser, thread>>, UNCHANGED search,
           pc' \in {"day", "hour", "minute", "found"},
           Day(date).month \in sets[4],
           pc' # "day" => Day(date).day \in sets[3] /\ Day(date).weekday \in sets[5],
           pc' \in {"minute", "found"} => hour \in sets[2],
           pc' = "found" => minute \in sets[1]
    PROVE  IInv'
<1>1. UNCHANGED <<date, hour, minute, wrapped>>
  BY DEF search
<1>2. TypeOK'
  <2>1. /\ date' \in 0..(NDays - 1) /\ hour' \in 0..(HoursPerDay - 1)
        /\ minute' \in 0..(MinutesPerHour - 1)
    BY <1>1 DEF IInv, TypeOK
  <2>2. wrapped' \in BOOLEAN /\ pc' \in Pcs
    BY <1>1 DEF IInv, TypeOK, Pcs
  <2> QED
    BY <2>1, <2>2, Aside
<1>3. FoundInv'
  BY <1>1, Aside DEF FoundInv
<1>4. AheadInv'
  BY <1>1, Aside DEF IInv, AheadInv, Passed, Matches, Here
<1> QED
  BY <1>2, <1>3, <1>4, Aside DEF IInv

LEMMA MonthStep == IInv /\ FindMonth => IInv'
<1> SUFFICES ASSUME IInv, FindMonth PROVE IInv'
  OBVIOUS
<1>1. pc = "month" /\ Searching /\ UNCHANGED <<parser, thread>> /\ TypeOK
  BY DEF FindMonth, Searching, IInv
<1>2. CASE Day(date).month \in sets[4] /\ pc' = "day" /\ UNCHANGED search
  BY <1>1, <1>2, Inwards
<1>3. CASE Day(date).month \notin sets[4] /\ NextMonth
  <2> DEFINE e == NextMonthStart(date)
  <2>1. /\ e \in (date + 1)..NDays /\ \A c \in date..(e - 1) : Day(c).month = Day(date).month
    BY <1>1, MonthEnds DEF TypeOK
  <2>2. GoTo(e) /\ pc' = "month"
    BY <1>3 DEF NextMonth
  <2>3. /\ date \in Nat /\ hour \in 0..(HoursPerDay - 1) /\ minute \in 0..(MinutesPerHour - 1)
        /\ Here = MinuteOf(date, hour, minute)
    BY <1>1, HereParts DEF TypeOK
  <2> HIDE DEF e
  <2>4. ASSUME NEW m \in Nat, Here <= m, m < MinuteOf(e, 0, 0) PROVE ~Matches(m)
    <3>1. e \in Nat
      BY <2>1, <2>3, Units
    <3>2. m \div MinutesPerDay \in date..(e - 1)
      BY <2>3, <2>4, <3>1, SomeDays
    <3>3. Day(m \div MinutesPerDay).month \notin sets[4]
      BY <1>3, <2>1, <3>2
    <3> QED
      BY <3>3, NotMatched
  <2> QED
    BY <1>1, <2>1, <2>2, <2>4, GoToStep
<1> QED
  BY <1>2, <1>3 DEF FindMonth

(* find_day goes on, in the month or not. *)
LEMMA NextDayStep ==
    ASSUME IInv, pc \in {"day", "hour", "minute"}, UNCHANGED <<parser, thread>>, NextDay,
           \A m \in Nat : Here <= m /\ m < MinuteOf(date + 1, 0, 0) => ~Matches(m)
    PROVE  IInv'
<1>1. Searching /\ date \in 0..(NDays - 1) /\ date \in Nat /\ NDays \in Nat \ {0}
  BY Units DEF IInv, TypeOK, Searching
<1>2. date + 1 \in (date + 1)..NDays
  BY <1>1
<1>3. CASE LastOfMonth(date)
  <2> DEFINE e == NextMonthStart(date)
  <2>1. e \in (date + 1)..NDays /\ \A c \in (date + 1)..(e - 1) : Day(c).day # 1
    <3>1. \E n \in (date + 1)..NDays : /\ n = NDays \/ Day(n).day = 1
                                       /\ \A c \in (date + 1)..(n - 1) : Day(c).day # 1
      <4>1. (date + 1)..(date + 1 - 1) = {}
        BY <1>1
      <4> QED
        BY <1>2, <1>3, <4>1 DEF LastOfMonth
    <3> QED
      BY <3>1 DEF NextMonthStart
  <2>2. GoTo(e) /\ pc' = "month"
    BY <1>3 DEF NextDay, NextMonth
  <2> HIDE DEF e
  <2>3. e = date + 1
    <3>1. CASE e > date + 1
      <4>1. date + 1 \in (date + 1)..(e - 1) /\ date + 1 # NDays
        BY <1>1, <2>1, <3>1
      <4> QED
        BY <1>3, <2>1, <4>1 DEF LastOfMonth
    <3> QED
      BY <1>1, <2>1, <3>1
  <2> QED
    BY <1>1, <1>2, <2>2, <2>3, GoToStep
<1>4. CASE ~LastOfMonth(date)
  <2>1. date + 1 < NDays /\ Day(date + 1).day # 1
    BY <1>1, <1>4 DEF LastOfMonth
  <2>2. Day(date + 1).month = Day(date).month
    <3> DEFINE next == date + 1
    <3>1. next \in 1..(NDays - 1) /\ next - 1 = date
      BY <1>1, <2>1
    <3> HIDE DEF next
    <3>2. Day(next).day # 1 => Day(next).month = Day(next - 1).month
      BY <3>1, CalendarAssumption
    <3> QED
      BY <2>1, <3>1, <3>2 DEF next
  <2>3. Day(date + 1).month \in sets[4]
    BY <2>2 DEF IInv, FoundInv
  <2>4. pc' = "day" /\ GoTo(date + 1)
    BY <1>4 DEF NextDay
  <2> QED
    BY <1>1, <1>2, <2>1, <2>3, <2>4, GoToStep
<1> QED
  BY <1>3, <1>4

LEMMA DayStep == IInv /\ FindDay => IInv'
<1> SUFFICES ASSUME IInv, FindDay PROVE IInv'
  OBVIOUS
<1>1. pc = "day" /\ Searching /\ UNCHANGED <<parser, thread>> /\ TypeOK
  BY DEF FindDay, Searching, IInv
<1>2. CASE /\ Day(date).day \in sets[3] /\ Day(date).weekday \in sets[5]
           /\ pc' = "hour" /\ UNCHANGED search
  BY <1>1, <1>2, Inwards DEF IInv, FoundInv, Pcs
<1>3. CASE ~(Day(date).day \in sets[3] /\ Day(date).weekday \in sets[5]) /\ NextDay
  <2>1. /\ date \in Nat /\ hour \in 0..(HoursPerDay - 1) /\ minute \in 0..(MinutesPerHour - 1)
        /\ Here = MinuteOf(date, hour, minute)
    BY <1>1, HereParts DEF TypeOK
  <2>2. ASSUME NEW m \in Nat, Here <= m, m < MinuteOf(date + 1, 0, 0) PROVE ~Matches(m)
    <3>1. m \div MinutesPerDay = date
      BY <2>1, <2>2, SameDay
    <3> QED
      BY <1>3, <3>1, NotMatched
  <2> QED
    BY <1>1, <1>3, <2>2, NextDayStep
<1> QED
  BY <1>2, <1>3 DEF FindDay

(* find_hour goes on, in the day or not. *)
LEMMA NextHourStep ==
    ASSUME IInv, pc \in {"hour", "minute"}, UNCHANGED <<parser, thread>>, NextHour,
           \A m \in Nat : Here <= m /\ m < MinuteOf(date, hour + 1, 0) => ~Matches(m)
    PROVE  IInv'
<1>1. /\ Searching /\ TypeOK /\ date \in Nat
      /\ hour \in 0..(HoursPerDay - 1) /\ minute \in 0..(MinutesPerHour - 1)
      /\ Here = MinuteOf(date, hour, minute) /\ Here \in Nat
  BY HereParts DEF IInv, TypeOK, Searching
<1>2. CASE hour = HoursPerDay - 1 /\ NextDay
  <2>1. MinuteOf(date, hour + 1, 0) = MinuteOf(date + 1, 0, 0)
    <3>1. /\ hour + 1 = HoursPerDay /\ HoursPerDay * MinutesPerHour = MinutesPerDay
          /\ (date + 1) * MinutesPerDay = date * MinutesPerDay + MinutesPerDay
          /\ date * MinutesPerDay \in Nat /\ 0 * MinutesPerHour = 0
      BY <1>1, <1>2, Units DEF MinutesPerDay
    <3> QED
      BY <3>1, Units DEF MinuteOf
  <2> QED
    BY <1>1, <1>2, <2>1, NextDayStep
<1>3. CASE /\ hour < HoursPerDay - 1
           /\ pc' = "hour" /\ hour' = hour + 1 /\ minute' = 0 /\ UNCHANGED <<date, wrapped>>
  <2>1. TypeOK'
    <3>1. hour' \in 0..(HoursPerDay - 1) /\ minute' \in 0..(MinutesPerHour - 1)
      BY <1>1, <1>3, Units
    <3>2. wrapped' \in BOOLEAN /\ pc' \in Pcs /\ date' \in 0..(NDays - 1)
      BY <1>1, <1>3 DEF TypeOK, Pcs
    <3> QED
      BY <1>1, <3>1, <3>2, Aside
  <2>2. FoundInv'
    BY <1>1, <1>3, Aside DEF IInv, FoundInv
  <2>3. Here' = MinuteOf(date, hour + 1, 0)
    BY <1>3 DEF Here, MinuteOf
  <2>4. Here <= Here' /\ Here' \in Nat
    <3>1. /\ (hour + 1) * MinutesPerHour = hour * MinutesPerHour + MinutesPerHour
          /\ hour * MinutesPerHour \in Nat /\ date * MinutesPerDay \in Nat
      BY <1>1, Units
    <3> QED
      BY <1>1, <2>3, <3>1, Units DEF MinuteOf
  <2>5. AheadInv'
    <3>1. CASE wrapped
      BY <1>3, <3>1 DEF AheadInv
    <3>2. CASE ~wrapped
      <4>1. \A m \in Here..(Here' - 1) : m \in Nat /\ Here <= m /\ m < Here'
        <5> DEFINE a == Here
                   b == Here'
        <5>1. a \in Nat /\ b \in Nat
          BY <1>1, <2>4
        <5> HIDE DEF a, b
        <5>2. \A m \in a..(b - 1) : m \in Nat /\ a <= m /\ m < b
          BY <5>1
        <5> QED
          BY <5>2 DEF a, b
      <4>2. \A m \in Here..(Here' - 1) : ~Matches(m)
        BY <2>3, <4>1
      <4> QED
        BY <1>1, <2>1, <2>4, <3>2, <4>2, Aside, GoneBy DEF IInv
    <3> QED
      BY <3>1, <3>2
  <2> QED
    BY <1>1, <2>1, <2>2, <2>5, Aside DEF IInv
<1> QED
  BY <1>2, <1>3 DEF NextHour

LEMMA HourStep == IInv /\ FindHour => IInv'
<1> SUFFICES ASSUME IInv, FindHour PROVE IInv'
  OBVIOUS
<1>1. pc = "hour" /\ Searching /\ UNCHANGED <<parser, thread>> /\ TypeOK
  BY DEF FindHour, Searching, IInv
<1>2. CASE hour \in sets[2] /\ pc' = "minute" /\ UNCHANGED search
  BY <1>1, <1>2, Inwards DEF IInv, FoundInv, Pcs
<1>3. CASE hour \notin sets[2] /\ NextHour
  <2>1. /\ date \in Nat /\ hour \in 0..(HoursPerDay - 1) /\ minute \in 0..(MinutesPerHour - 1)
        /\ Here = MinuteOf(date, hour, minute)
    BY <1>1, HereParts DEF TypeOK
  <2>2. ASSUME NEW m \in Nat, Here <= m, m < MinuteOf(date, hour + 1, 0) PROVE ~Matches(m)
    <3>1. (m \div MinutesPerHour) % HoursPerDay = hour
      BY <2>1, <2>2, SameHour
    <3> QED
      BY <1>3, <3>1, NotMatched
  <2> QED
    BY <1>1, <1>3, <2>2, NextHourStep
<1> QED
  BY <1>2, <1>3 DEF FindHour

LEMMA MinuteStep == IInv /\ FindMinute => IInv'
<1> SUFFICES ASSUME IInv, FindMinute PROVE IInv'
  OBVIOUS
<1>1. pc = "minute" /\ Searching /\ UNCHANGED <<parser, thread>> /\ TypeOK
  BY DEF FindMinute, Searching, IInv
<1>2. /\ date \in Nat /\ hour \in 0..(HoursPerDay - 1) /\ minute \in 0..(MinutesPerHour - 1)
      /\ Here = MinuteOf(date, hour, minute) /\ Here \in Nat /\ Here % MinutesPerHour = minute
  BY <1>1, HereParts DEF TypeOK
<1>3. CASE minute \in sets[1] /\ pc' = "found" /\ UNCHANGED search
  BY <1>1, <1>3, Inwards DEF IInv, FoundInv, Pcs
<1>4. minute \notin sets[1] => ~Matches(Here)
  BY <1>2, NotMatched
<1>5. CASE minute \notin sets[1] /\ minute = MinutesPerHour - 1 /\ NextHour
  <2>1. ASSUME NEW m \in Nat, Here <= m, m < MinuteOf(date, hour + 1, 0) PROVE ~Matches(m)
    <3>1. /\ (hour + 1) * MinutesPerHour = hour * MinutesPerHour + MinutesPerHour
          /\ hour * MinutesPerHour \in Nat /\ date * MinutesPerDay \in Nat
      BY <1>2, Units
    <3>2. MinuteOf(date, hour + 1, 0) = Here + 1
      BY <1>2, <1>5, <3>1, Units DEF MinuteOf
    <3>3. m = Here
      BY <1>2, <2>1, <3>2
    <3> QED
      BY <1>4, <1>5, <3>3
  <2> QED
    BY <1>1, <1>5, <2>1, NextHourStep
<1>6. CASE /\ minute \notin sets[1] /\ minute < MinutesPerHour - 1
           /\ minute' = minute + 1 /\ UNCHANGED <<pc, date, hour, wrapped>>
  <2>1. TypeOK'
    <3>1. hour' \in 0..(HoursPerDay - 1) /\ minute' \in 0..(MinutesPerHour - 1)
      BY <1>2, <1>6, Units
    <3>2. wrapped' \in BOOLEAN /\ pc' \in Pcs /\ date' \in 0..(NDays - 1)
      BY <1>1, <1>6 DEF TypeOK, Pcs
    <3> QED
      BY <1>1, <3>1, <3>2, Aside
  <2>2. FoundInv'
    BY <1>1, <1>6, Aside DEF IInv, FoundInv
  <2>3. Here' = Here + 1
    <3>1. hour * MinutesPerHour \in Nat /\ date * MinutesPerDay \in Nat
      BY <1>2, Units
    <3>2. Here' = MinuteOf(date, hour, minute + 1)
      BY <1>6 DEF Here, MinuteOf
    <3> QED
      BY <1>2, <3>1, <3>2 DEF MinuteOf
  <2>4. AheadInv'
    <3>1. CASE wrapped
      BY <1>6, <3>1 DEF AheadInv
    <3>2. CASE ~wrapped
      <4>1. \A m \in Here..(Here' - 1) : ~Matches(m)
        BY <1>2, <1>4, <1>6, <2>3
      <4>2. Here <= Here'
        BY <1>2, <2>3
      <4> QED
        BY <1>1, <2>1, <3>2, <4>1, <4>2, Aside, GoneBy DEF IInv
    <3> QED
      BY <3>1, <3>2
  <2> QED
    BY <1>1, <2>1, <2>2, <2>4, Aside DEF IInv
<1> QED
  BY <1>3, <1>5, <1>6 DEF FindMinute

-----------------------------------------------------------------------------
(* The output thread asks for the next time: the search begins at the minute
   after the one of the last swap. *)
LEMMA CallStep == IInv /\ Call => IInv'
<1> SUFFICES ASSUME IInv, Call PROVE IInv'
  OBVIOUS
<1> DEFINE f == From(swap)
<1>1. /\ pc = "call" /\ pc' = "month" /\ start' = swap /\ UNCHANGED <<parser, swap>>
      /\ date' = (f \div MinutesPerDay) % NDays
      /\ hour' = (f \div MinutesPerHour) % HoursPerDay
      /\ minute' = f % MinutesPerHour
      /\ wrapped' = (f \div MinutesPerDay >= NDays)
      /\ calls' = calls + 1
  BY DEF Call
<1>2. f \in Nat /\ f * TicksPerMinute > swap
      /\ \A m \in 0..(f - 1) : m * TicksPerMinute <= swap
  <2>1. swap \in Nat /\ swap + TicksPerMinute \in Nat
    BY Units DEF IInv, TypeOK
  <2> DEFINE r == (swap + TicksPerMinute) % TicksPerMinute
  <2>2. f \in Nat /\ r \in 0..(TicksPerMinute - 1)
        /\ swap + TicksPerMinute = f * TicksPerMinute + r
    BY <2>1, Units, Division DEF From
  <2> HIDE DEF f, r
  <2>3. f * TicksPerMinute \in Nat
    BY <2>2, Units
  <2>4. ASSUME NEW m \in 0..(f - 1) PROVE m * TicksPerMinute <= swap
    <3>1. m \in Nat /\ m + 1 \in Nat /\ m + 1 <= f
      BY <2>2, <2>4
    <3>2. (m + 1) * TicksPerMinute <= f * TicksPerMinute
      BY <2>2, <3>1, Units, Mono
    <3>3. /\ m * TicksPerMinute \in Nat
          /\ (m + 1) * TicksPerMinute = m * TicksPerMinute + TicksPerMinute
      BY <3>1, Units
    <3> QED
      BY <2>1, <2>2, <2>3, <3>2, <3>3, Units
  <2> QED
    BY <2>1, <2>2, <2>3, <2>4, Units
<1> HIDE DEF f
<1>3. /\ f \div MinutesPerDay \in Nat
      /\ (f \div MinutesPerHour) % HoursPerDay \in 0..(HoursPerDay - 1)
      /\ f % MinutesPerHour \in 0..(MinutesPerHour - 1)
      /\ f = MinuteOf(f \div MinutesPerDay, (f \div MinutesPerHour) % HoursPerDay,
                      f % MinutesPerHour)
  BY <1>2, Parts
<1>4. /\ UNCHANGED <<pattern, field, item, sets>> /\ start' \in Nat
  BY <1>1 DEF parser, IInv, TypeOK
<1>5. TypeOK'
  <2>1. date' \in 0..(NDays - 1)
    BY <1>1, <1>3, Units, Division
  <2>2. hour' \in 0..(HoursPerDay - 1) /\ minute' \in 0..(MinutesPerHour - 1)
    BY <1>1, <1>3
  <2>3. wrapped' \in BOOLEAN /\ pc' \in Pcs
    BY <1>1 DEF Pcs
  <2> QED
    BY <1>1, <1>4, <2>1, <2>2, <2>3 DEF IInv, TypeOK, NDays
<1>6. SetsInv' /\ FoundInv'
  BY <1>1, <1>4 DEF IInv, SetsInv, Read, FoundInv
<1>7. AheadInv'
  <2>1. CASE wrapped'
    BY <2>1 DEF AheadInv
  <2>2. CASE ~wrapped'
    <3> DEFINE d == f \div MinutesPerDay
    <3>1. d < NDays
      <4>1. ~(d >= NDays)
        BY <1>1, <2>2
      <4>2. d \in Nat /\ NDays \in Nat
        BY <1>3, Units
      <4> HIDE DEF d
      <4> QED
        BY <4>1, <4>2
    <3>2. date' = d
      <4>1. d \in Nat /\ date' = d % NDays
        BY <1>1, <1>3
      <4> HIDE DEF d
      <4> QED
        BY <3>1, <4>1, Units
    <3>3. Here' = f
      <4>1. Here' = MinuteOf(d, (f \div MinutesPerHour) % HoursPerDay, f % MinutesPerHour)
        BY <1>1, <3>2 DEF Here, MinuteOf
      <4> QED
        BY <1>3, <4>1
    <3>4. f * TicksPerMinute > start' /\ \A m \in 0..(f - 1) : ~(m * TicksPerMinute > start')
      <4>1. start' \in Nat /\ start' = swap
        BY <1>1, <1>4
      <4>2. \A m \in 0..(f - 1) : m * TicksPerMinute \in Nat
        BY <1>2, Units, Mono
      <4> QED
        BY <1>2, <4>1, <4>2
    <3>5. Passed(Here)'
      BY <3>3, <3>4 DEF Passed
    <3> QED
      BY <3>3, <3>4, <3>5 DEF AheadInv
  <2> QED
    BY <2>1, <2>2
<1> QED
  BY <1>5, <1>6, <1>7 DEF IInv

(* It starts at some time, and takes the times that are found. *)
LEMMA SwapStep ==
    ASSUME IInv, (\E now \in StartTimes : Parsed(now)) \/ Return
    PROVE  IInv'
<1>1. /\ swap' \in Nat /\ pc' = "call"
      /\ UNCHANGED <<pattern, field, item, sets, date, hour, minute, wrapped, start, calls>>
  <2>1. ASSUME NEW now \in StartTimes, Parsed(now) PROVE now \in Nat
    BY StartAssumption
  <2>2. Return => Here * TicksPerMinute \in Nat
    <3>1. Here \in Nat
      BY HereParts DEF IInv
    <3> QED
      BY <3>1, Units
  <2> QED
    BY <2>1, <2>2 DEF Parsed, Return, parser, search
<1>2. field = 6
  BY DEF Parsed, Return, IInv, TypeOK
<1>3. TypeOK'
  BY <1>1, <1>2 DEF IInv, TypeOK, Pcs, NDays
<1>4. SetsInv' /\ FoundInv' /\ AheadInv'
  BY <1>1 DEF IInv, SetsInv, Read, FoundInv, AheadInv, Searching
<1> QED
  BY <1>3, <1>4 DEF IInv

-----------------------------------------------------------------------------
(* The parser.                                                               *)

LEMMA Limits == \A f \in Fields : Low[f] \in Nat /\ High[f] \in Nat
BY UnitsAssumption DEF Fields, Low, High

(* What an item adds to its set is what it stands for. *)
LEMMA Adds ==
    ASSUME NEW f \in Fields, NEW it \in Item, it.kind # "error", InRange(f, it), it.every > 0
    PROVE  Stepped(First(f, it), Last(f, it), it.every) = {i \in 0..High[f] : Means(f, it, i)}
<1>1. /\ Low[f] \in Nat /\ High[f] \in Nat /\ it.start \in Nat /\ it.end \in Nat
      /\ it.kind = "star" \/ it.kind = "range"
  BY Limits DEF Item
<1>2. CASE it.kind = "star"
  BY <1>1, <1>2 DEF Stepped, First, Last, Means
<1>3. CASE it.kind = "range"
  BY <1>1, <1>3 DEF Stepped, First, Last, Means, InRange
<1> QED
  BY <1>1, <1>2, <1>3

LEMMA ItemStep == IInv /\ ParseItem => IInv'
<1> SUFFICES ASSUME IInv, ParseItem PROVE IInv'
  OBVIOUS
<1> DEFINE it == pattern[field][item]
           new == Stepped(First(field, it), Last(field, it), it.every)
<1>1. /\ pc = "parse" /\ field \in Fields /\ field <= Len(pattern)
      /\ it.kind # "error" /\ InRange(field, it) /\ it.every > 0
      /\ sets' = [sets EXCEPT ![field] = @ \cup new]
      /\ UNCHANGED <<pattern, pc, date, hour, minute, wrapped, start, swap, calls>>
  BY DEF ParseItem, search, thread, IInv, TypeOK, Fields
<1>2. /\ pattern \in Seq(Seq(Item)) /\ field \in 1..Len(pattern) /\ field \in 1..5
      /\ \A f \in 1..Len(pattern) : pattern[f] \in Seq(Item) /\ Len(pattern[f]) \in Nat \ {0}
  <2>1. pattern \in Seq(Seq(Item)) /\ \A f \in 1..Len(pattern) : Len(pattern[f]) > 0
    BY PatternsAssumption DEF IInv, TypeOK
  <2>2. \A f \in 1..Len(pattern) : pattern[f] \in Seq(Item)
    BY <2>1
  <2>3. field \in 1..Len(pattern) /\ field \in 1..5
    <3>1. Len(pattern) \in Nat
      BY <2>1
    <3> QED
      BY <1>1, <3>1 DEF Fields
  <2> QED
    BY <2>1, <2>2, <2>3
<1>3. item \in 1..Len(pattern[field]) /\ it \in Item
  <2>1. item \in 1..Len(pattern[field])
    <3>1. /\ item \in Nat \ {0}
          /\ field <= 5 /\ field <= Len(pattern) => item <= Len(pattern[field])
      BY DEF IInv, TypeOK
    <3>2. Len(pattern[field]) \in Nat /\ field <= 5
      BY <1>2
    <3> QED
      BY <1>1, <3>1, <3>2
  <2> QED
    BY <1>2, <2>1
<1>4. new = {i \in 0..High[field] : Means(field, it, i)}
  BY <1>1, <1>3, Adds
<1>5. \/ item < Len(pattern[field]) /\ item' = item + 1 /\ field' = field
      \/ item = Len(pattern[field]) /\ item' = 1 /\ field' = field + 1
  BY <1>2, <1>3 DEF ParseItem
<1>6. /\ sets' \in [Fields -> SUBSET Nat] /\ sets'[field] = sets[field] \cup new
      /\ \A f \in Fields : f # field => sets'[f] = sets[f]
  <2>1. new \subseteq Nat
    BY <1>4
  <2> HIDE DEF new
  <2> QED
    BY <1>1, <2>1 DEF IInv, TypeOK
<1>7. TypeOK'
  <2>1. /\ field' \in 1..6 /\ item' \in Nat \ {0}
        /\ field' <= 5 /\ field' <= Len(pattern') => item' <= Len(pattern'[field'])
    <3>1. CASE item < Len(pattern[field]) /\ item' = item + 1 /\ field' = field
      BY <1>1, <1>2, <1>3, <3>1
    <3>2. CASE item = Len(pattern[field]) /\ item' = 1 /\ field' = field + 1
      <4> DEFINE n == field + 1
      <4>1. n \in 1..6 /\ (n <= Len(pattern) => n \in 1..Len(pattern))
        BY <1>2
      <4>2. n <= Len(pattern) => Len(pattern[n]) \in Nat \ {0}
        BY <1>2, <4>1
      <4> HIDE DEF n
      <4>3. pattern' = pattern /\ field' = n
        BY <1>1, <3>2 DEF n
      <4> QED
        BY <3>2, <4>1, <4>2, <4>3
    <3> QED
      BY <1>5, <3>1, <3>2
  <2> QED
    BY <1>1, <1>6, <2>1 DEF IInv, TypeOK, NDays
<1>8. SetsInv'
  <2> SUFFICES ASSUME NEW f \in Fields
               PROVE  sets'[f] = {i \in 0..High[f] : \E n \in Read(f)' : Means(f, pattern[f][n], i)}
    BY <1>1 DEF SetsInv, Means
  <2>1. sets[f] = {i \in 0..High[f] : \E n \in Read(f) : Means(f, pattern[f][n], i)}
    BY DEF IInv, SetsInv
  <2>2. CASE f # field
    <3>1. Read(f)' = Read(f)
      <4>1. f \in Nat /\ (f < field \/ f > field) /\ 1..(1 - 1) = {}
        BY <1>2, <2>2 DEF Fields
      <4> QED
        BY <1>1, <1>2, <1>5, <4>1 DEF Read
    <3> QED
      BY <1>6, <2>1, <2>2, <3>1
  <2>3. CASE f = field
    <3>1. Read(f) = 1..(item - 1) /\ Read(f)' = 1..item
      BY <1>1, <1>2, <1>3, <1>5, <2>3 DEF Read
    <3>2. 1..item = 1..(item - 1) \cup {item}
      BY <1>3
    <3>3. \A i : (\E n \in 1..item : Means(f, pattern[f][n], i)) <=>
                 \/ \E n \in 1..(item - 1) : Means(f, pattern[f][n], i)
                 \/ Means(f, pattern[f][item], i)
      BY <3>2
    <3>4. sets'[f] = {i \in 0..High[f] : \E n \in 1..(item - 1) : Means(f, pattern[f][n], i)}
                     \cup {i \in 0..High[f] : Means(f, pattern[f][item], i)}
      BY <1>4, <1>6, <2>1, <2>3, <3>1
    <3> QED
      BY <3>1, <3>3, <3>4
  <2> QED
    BY <2>2, <2>3
<1>9. FoundInv' /\ AheadInv'
  BY <1>1 DEF FoundInv, AheadInv, Searching
<1> QED
  BY <1>7, <1>8, <1>9 DEF IInv

-----------------------------------------------------------------------------
LEMMA InitIInv == Init => IInv
<1> SUFFICES ASSUME Init PROVE IInv
  OBVIOUS
<1>1. TypeOK
  <2>1. pattern \in Seq(Seq(Item)) /\ \A f \in 1..Len(pattern) : Len(pattern[f]) > 0
    BY PatternsAssumption DEF Init
  <2>2. 1 <= Len(pattern) => 1 <= Len(pattern[1])
    <3>1. CASE 1 <= Len(pattern)
      <4>1. 1 \in 1..Len(pattern) /\ Len(pattern[1]) \in Nat
        BY <2>1, <3>1
      <4> QED
        BY <2>1, <4>1
    <3> QED
      BY <3>1
  <2>3. 0 \in 0..(NDays - 1) /\ 0 \in 0..(HoursPerDay - 1) /\ 0 \in 0..(MinutesPerHour - 1)
    BY Units
  <2>4. sets \in [Fields -> SUBSET Nat]
    BY DEF Init
  <2>5. /\ pattern \in Patterns /\ field = 1 /\ item = 1 /\ pc = "parse" /\ wrapped \in BOOLEAN
        /\ date = 0 /\ hour = 0 /\ minute = 0 /\ start = 0 /\ swap = 0 /\ calls = 0
    BY DEF Init
  <2> QED
    BY <2>2, <2>3, <2>4, <2>5 DEF TypeOK, Pcs
<1>2. SetsInv
  <2>1. \A f \in Fields : Read(f) = {} /\ sets[f] = {}
    BY DEF Init, Read, Fields
  <2> QED
    BY <2>1 DEF SetsInv
<1> QED
  BY <1>1, <1>2 DEF Init, IInv, FoundInv, AheadInv, Searching

LEMMA NextIInv == IInv /\ [Next]_vars => IInv'
<1> SUFFICES ASSUME IInv, [Next]_vars PROVE IInv'
  OBVIOUS
<1>1. CASE ParseFails \/ DivideByZero
  <2>1. /\ pc' \in {"failed", "crashed"}
        /\ UNCHANGED <<pattern, field, item, sets, date, hour, minute, wrapped, start, swap, calls>>
    BY <1>1 DEF ParseFails, DivideByZero, parser, search, thread
  <2>2. TypeOK'
    BY <2>1 DEF IInv, TypeOK, Pcs, NDays
  <2>3. SetsInv' /\ FoundInv' /\ AheadInv'
    BY <2>1 DEF IInv, SetsInv, Read, FoundInv, AheadInv, Searching
  <2> QED
    BY <2>2, <2>3 DEF IInv
<1>2. CASE UNCHANGED vars
  <2>1. UNCHANGED <<pattern, field, item, sets, pc,
                    date, hour, minute, wrapped, start, swap, calls>>
    BY <1>2 DEF vars, parser, search, thread
  <2>2. TypeOK'
    BY <2>1 DEF IInv, TypeOK, NDays
  <2>3. SetsInv' /\ FoundInv' /\ AheadInv'
    BY <2>1 DEF IInv, SetsInv, Read, FoundInv, AheadInv, Searching, Here, Passed, Matches
  <2> QED
    BY <2>2, <2>3 DEF IInv
<1> QED
  BY <1>1, <1>2, ItemStep, SwapStep, CallStep, MonthStep, DayStep, HourStep, MinuteStep
     DEF Next, Search

LEMMA Inductive == Spec => []IInv
BY InitIInv, NextIInv, PTL DEF Spec

(* Variables have their types: the parser stays within the pattern and the search
   within the calendar. *)
THEOREM TypeCorrect == Spec => []TypeOK
<1>1. IInv => TypeOK
  BY DEF IInv
<1> QED
  BY <1>1, Inductive, PTL

(* scheduled_time_parse gives each field of a pattern that it accepts the numbers
   that its items stand for, for all patterns. *)
THEOREM Accepted == Spec => []ParsedExactly
<1>1. IInv => ParsedExactly
  <2> SUFFICES ASSUME IInv, pc = "call", NEW f \in Fields
               PROVE  sets[f] = {i \in 0..High[f] : \E n \in 1..Len(pattern[f]) :
                                     Means(f, pattern[f][n], i)}
    BY DEF ParsedExactly, Means
  <2>1. Read(f) = 1..Len(pattern[f])
    BY DEF IInv, TypeOK, Read, Fields
  <2> QED
    BY <2>1 DEF IInv, SetsInv
<1> QED
  BY <1>1, Inductive, PTL

(* scheduled_time_next_match passes over no minute of the schedule that is later
   than the start of the file, and finds one of it that is: for every schedule,
   every calendar and every time. *)
THEOREM FirstFound == Spec => []FirstMatch
<1>1. IInv => FirstMatch
  <2> SUFFICES ASSUME IInv, ~wrapped PROVE FirstMatch
    BY DEF FirstMatch
  <2>1. Searching \/ pc = "found" => Here * TicksPerMinute > start /\ Passed(Here)
    BY DEF IInv, AheadInv
  <2>2. pc = "found" => Matches(Here)
    BY HereParts DEF IInv, FoundInv, Matches
  <2> QED
    BY <2>1, <2>2 DEF FirstMatch, Passed
<1> QED
  BY <1>1, Inductive, PTL
=============================================================================

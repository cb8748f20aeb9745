--------------------------- MODULE ScheduledTime ---------------------------
(* The schedule of pblog's file swaps (src/sniffer/scheduled_time.c): the
   parsing of a crontab-style pattern into five sets, and the search for the
   next minute that is in all of them.  The output thread calls the search
   again and again, a minute after the time it found last (pblog.c).

   The nested loops find_month, find_day, find_hour and find_minute are one
   action per turn.  Dates are numbers of days in Calendar, which begins again
   after its last day (wrapped); local time has no changes of its offset.  A
   pattern is its fields, each the items between its commas.

   Definitions named after another one (SteppedShort, ...) are that
   definition with a plausible mistake, used only to show that a property
   depends on the code being right.                                         *)
EXTENDS Integers, Sequences

CONSTANTS
    Calendar,           \* per day its month, its day of the month, its weekday
    MinutesPerHour, HoursPerDay, DaysPerMonth, MonthsPerYear, DaysPerWeek,
    TicksPerMinute,     \* the unit of the timestamps
    Patterns,           \* --swap-file-schedule
    StartTimes,         \* when the program may be started, in ticks
    MaxCalls            \* bound on the number of searches

NDays == Len(Calendar)
Day(d) == Calendar[d + 1]

ASSUME UnitsAssumption ==
    {MinutesPerHour, HoursPerDay, DaysPerMonth, MonthsPerYear, DaysPerWeek,
     TicksPerMinute, MaxCalls} \subseteq Nat \ {0}
ASSUME CalendarAssumption ==
    /\ Calendar \in Seq([month : 1..MonthsPerYear, day : 1..DaysPerMonth,
                         weekday : 1..DaysPerWeek])
    /\ NDays > 0 /\ Day(0).day = 1
    /\ \A d \in 1..(NDays - 1) :
          \/ Day(d).day = 1
          \/ Day(d).day = Day(d - 1).day + 1 /\ Day(d).month = Day(d - 1).month
ASSUME StartAssumption ==
    StartTimes \subseteq 0..(NDays * HoursPerDay * MinutesPerHour * TicksPerMinute - 1)

(* minute, hour, dayofmonth, month, dayofweek *)
Fields == 1..5
Low == <<0, 0, 1, 1, 0>>
High == <<MinutesPerHour - 1, HoursPerDay - 1, DaysPerMonth, MonthsPerYear, DaysPerWeek>>

Item == [kind : {"star", "range", "error"}, start : Nat, end : Nat, every : Nat]

ASSUME PatternsAssumption ==
    \A p \in Patterns : /\ p \in Seq(Seq(Item))
                        /\ \A f \in 1..Len(p) : Len(p[f]) > 0

VARIABLES
    pattern, field, item,   \* the string and the place of the parser in it
    sets,                   \* the ScheduledTime
    pc,                     \* which loop the program is in
    date, hour, minute,     \* where the search is
    start, swap, calls,     \* output thread: log_file->start, next_swap
    wrapped                 \* history: the search has left the calendar

search == <<date, hour, minute, wrapped>>
parser == <<pattern, field, item, sets>>
thread == <<start, swap, calls>>
vars == <<parser, pc, search, thread>>

Init ==
    /\ pattern \in Patterns /\ field = 1 /\ item = 1
    /\ sets = [f \in Fields |-> {}]
    /\ pc = "parse"
    /\ date = 0 /\ hour = 0 /\ minute = 0 /\ wrapped = FALSE
    /\ start = 0 /\ swap = 0 /\ calls = 0

-----------------------------------------------------------------------------
(* scheduled_time_parse and parse_set.                                      *)

First(f, it) == IF it.kind = "star" THEN Low[f] ELSE it.start
Last(f, it) == IF it.kind = "star" THEN High[f] ELSE it.end

(* The multiples of every from first to last. *)
SteppedShort(first, last, every) == {i \in first..(last - 1) : i % every = 0}
Stepped(first, last, every) == {i \in first..last : i % every = 0}

InRange(f, it) ==
    /\ First(f, it) <= Last(f, it)
    /\ Low[f] <= First(f, it) /\ Last(f, it) <= High[f]

ParseItem ==
    /\ pc = "parse" /\ field <= 5 /\ field <= Len(pattern)
    /\ LET it == pattern[field][item]
       IN  /\ it.kind # "error" /\ InRange(field, it) /\ it.every > 0
           /\ sets' = [sets EXCEPT ![field] =
                         @ \cup Stepped(First(field, it), Last(field, it), it.every)]
    /\ IF item < Len(pattern[field])
         THEN item' = item + 1 /\ UNCHANGED field
         ELSE item' = 1 /\ field' = field + 1
    /\ UNCHANGED <<pattern, pc, search, thread>>

(* A missing field, an item that is not one, or a range outside the field's. *)
ParseFails ==
    /\ pc = "parse" /\ field <= 5
    /\ \/ field > Len(pattern)
       \/ /\ field <= Len(pattern)
          /\ LET it == pattern[field][item] IN it.kind = "error" \/ ~InRange(field, it)
    /\ pc' = "failed"
    /\ UNCHANGED <<parser, search, thread>>

(* i % every with an every of zero. *)
DivideByZero ==
    /\ pc = "parse" /\ field <= 5 /\ field <= Len(pattern)
    /\ LET it == pattern[field][item]
       IN  it.kind # "error" /\ InRange(field, it) /\ it.every = 0
    /\ pc' = "crashed"
    /\ UNCHANGED <<parser, search, thread>>

(* The pattern has been read; the output thread starts at some time. *)
Parsed(now) ==
    /\ pc = "parse" /\ field > 5
    /\ swap' = now
    /\ pc' = "call"
    /\ UNCHANGED <<parser, search, start, calls>>

-----------------------------------------------------------------------------
(* The output thread opens a file: its period starts at the last swap, and the
   search for its end a minute later, seconds left out.                     *)
MinutesPerDay == HoursPerDay * MinutesPerHour

From(ticks) == (ticks + TicksPerMinute) \div TicksPerMinute

Call ==
    /\ pc = "call"
    /\ calls < MaxCalls /\ ~wrapped
    /\ calls' = calls + 1
    /\ start' = swap
    /\ date' = (From(swap) \div MinutesPerDay) % NDays
    /\ hour' = (From(swap) \div MinutesPerHour) % HoursPerDay
    /\ minute' = From(swap) % MinutesPerHour
    /\ wrapped' = (From(swap) \div MinutesPerDay >= NDays)
    /\ pc' = "month"
    /\ UNCHANGED <<parser, swap>>

(* The next turn of find_month: midnight of the first day of the next month. *)
LastOfMonth(d) == d + 1 = NDays \/ Day(d + 1).day = 1
NextMonthStart(d) == CHOOSE e \in (d + 1)..NDays :
    /\ e = NDays \/ Day(e).day = 1
    /\ \A c \in (d + 1)..(e - 1) : Day(c).day # 1

GoTo(d) ==
    /\ date' = d % NDays
    /\ wrapped' = (wrapped \/ d = NDays)
    /\ hour' = 0 /\ minute' = 0

MonthAgain == pc' = "month" /\ UNCHANGED search
NextMonth == pc' = "month" /\ GoTo(NextMonthStart(date))

(* find_day goes on with the next day, or returns FALSE to find_month. *)
NextDay ==
    IF LastOfMonth(date) THEN NextMonth ELSE pc' = "day" /\ GoTo(date + 1)

(* find_hour goes on with the next hour, or returns FALSE to find_day. *)
NextHourMinuteKept ==
    \/ hour = HoursPerDay - 1 /\ NextDay
    \/ /\ hour < HoursPerDay - 1
       /\ pc' = "hour" /\ hour' = hour + 1 /\ UNCHANGED <<date, minute, wrapped>>
NextHour ==
    \/ hour = HoursPerDay - 1 /\ NextDay
    \/ /\ hour < HoursPerDay - 1
       /\ pc' = "hour" /\ hour' = hour + 1 /\ minute' = 0 /\ UNCHANGED <<date, wrapped>>

FindMonth ==
    /\ pc = "month"
    /\ IF Day(date).month \in sets[4] THEN pc' = "day" /\ UNCHANGED search ELSE NextMonth
    /\ UNCHANGED <<parser, thread>>

FindDay ==
    /\ pc = "day"
    /\ IF Day(date).day \in sets[3] /\ Day(date).weekday \in sets[5]
         THEN pc' = "hour" /\ UNCHANGED search
         ELSE NextDay
    /\ UNCHANGED <<parser, thread>>

FindHour ==
    /\ pc = "hour"
    /\ IF hour \in sets[2] THEN pc' = "minute" /\ UNCHANGED search ELSE NextHour
    /\ UNCHANGED <<parser, thread>>

FindMinute ==
    /\ pc = "minute"
    /\ \/ minute \in sets[1] /\ pc' = "found" /\ UNCHANGED search
       \/ minute \notin sets[1] /\ minute = MinutesPerHour - 1 /\ NextHour
       \/ /\ minute \notin sets[1] /\ minute < MinutesPerHour - 1
          /\ minute' = minute + 1 /\ UNCHANGED <<pc, date, hour, wrapped>>
    /\ UNCHANGED <<parser, thread>>

(* The minute at which the search is. *)
Here == date * MinutesPerDay + hour * MinutesPerHour + minute

Return ==
    /\ pc = "found"
    /\ swap' = Here * TicksPerMinute
    /\ pc' = "call"
    /\ UNCHANGED <<parser, search, start, calls>>

Search == FindMonth \/ FindDay \/ FindHour \/ FindMinute \/ Return

Next ==
    \/ ParseItem \/ ParseFails \/ DivideByZero
    \/ \E now \in StartTimes : Parsed(now)
    \/ Call \/ Search

Spec == Init /\ [][Next]_vars

(* The search is sequential code: it runs. *)
FairSpec == Spec /\ WF_vars(Search)

-----------------------------------------------------------------------------
Searching == pc \in {"month", "day", "hour", "minute"}

(* Is minute m of the calendar one of the schedule? *)
Matches(m) ==
    LET d == Day(m \div MinutesPerDay)
    IN  /\ m % MinutesPerHour \in sets[1]
        /\ (m \div MinutesPerHour) % HoursPerDay \in sets[2]
        /\ d.day \in sets[3] /\ d.month \in sets[4] /\ d.weekday \in sets[5]

(* The search passes over no minute of the schedule that is later than the start
   of the file, and ends at one: what it finds is the first of them, and no file
   has an empty period. *)
FirstMatch == ~wrapped =>
    /\ Searching \/ pc = "found" =>
          \A m \in 0..(Here - 1) : m * TicksPerMinute > start => ~Matches(m)
    /\ pc = "found" => Matches(Here) /\ Here * TicksPerMinute > start

(* An accepted pattern gives in every field the multiples in its ranges. *)
ParsedExactly ==
    pc = "call" => \A f \in Fields : sets[f] = {i \in 0..High[f] :
        \E n \in 1..Len(pattern[f]) :
            LET it == pattern[f][n]
            IN  /\ i % it.every = 0
                /\ \/ it.kind = "star" /\ Low[f] <= i
                   \/ it.kind = "range" /\ it.start <= i /\ i <= it.end}

(* A search ends: the schedule has a next time. *)
SearchEnds == Searching ~> pc = "found"
=============================================================================

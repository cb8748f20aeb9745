-------------------------- MODULE MC_ScheduledTime --------------------------
(* A small calendar for ScheduledTime: two years of three months, of three, two
   and three days, in weeks of three days; days of three hours of two minutes. *)
EXTENDS ScheduledTime

MonthLengths == <<3, 2, 3, 3, 2, 3>>

Month(m) == [d \in 1..MonthLengths[m] |-> [month |-> ((m - 1) % 3) + 1, day |-> d]]
DaysInOrder == Month(1) \o Month(2) \o Month(3) \o Month(4) \o Month(5) \o Month(6)

MCCalendar == [n \in 1..Len(DaysInOrder) |->
    [month |-> DaysInOrder[n].month, day |-> DaysInOrder[n].day, weekday |-> (n % 3) + 1]]

Star == [kind |-> "star", start |-> 0, end |-> 0, every |-> 1]
Every(n) == [Star EXCEPT !.every = n]
Span(first, last, n) == [kind |-> "range", start |-> first, end |-> last, every |-> n]
One(n) == Span(n, n, 1)
Error == [Star EXCEPT !.kind = "error"]

(* Schedules with a next time. *)
Satisfiable == {
    <<<<One(0)>>, <<One(1)>>, <<Star>>, <<Star>>, <<Star>>>>,
    <<<<One(1)>>, <<Span(0, 2, 2)>>, <<One(1), One(3)>>, <<Star>>, <<Star>>>>,
    <<<<Star>>, <<One(2)>>, <<One(3)>>, <<Star>>, <<Span(1, 2, 1)>>>>,
    <<<<Every(2)>>, <<One(0)>>, <<One(2)>>, <<One(2)>>, <<Star>>>>,
    <<<<One(1)>>, <<One(2)>>, <<Star>>, <<Span(2, 3, 3)>>, <<One(3), One(0)>>>>,
    <<<<Star>>, <<Star>>, <<Star>>, <<Star>>, <<Star>>>>
}

Rejected == {
    <<<<One(0)>>, <<One(3)>>, <<Star>>, <<Star>>, <<Star>>>>,
    <<<<One(0)>>, <<Span(2, 1, 1)>>, <<Star>>, <<Star>>, <<Star>>>>,
    <<<<One(0)>>, <<Star, Error>>, <<Star>>, <<Star>>, <<Star>>>>,
    <<<<One(0)>>, <<Star>>, <<One(0)>>, <<Star>>, <<Star>>>>,
    <<<<One(0)>>, <<Star>>>>,
    <<<<Every(0)>>, <<Star>>, <<Star>>, <<Star>>, <<Star>>>>
}

MCPatterns == Satisfiable \cup Rejected

(* Any time of the first year's first two months. *)
MCStartTimes == 0..59
=============================================================================

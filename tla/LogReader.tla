----------------------------- MODULE LogReader -----------------------------
(* mod_logreader (httpd/mod_logreader.c): answers a request for the values of
   some signals between two times with a list of changes for each of them, each
   a time and the value from then on; "-" stands for values that change too fast
   to be drawn, null for nothing known.

   The answer is a function of the request and of the two tables.  The signals
   and the values of each of them are selected one after the other: each SELECT
   sees a snapshot, and the loop starts from nothing for every signal.
   Definitions named after another one (SeriesKept, ...) are that definition
   with a plausible mistake, used to show that a property depends on the code. *)
EXTENDS Integers, SequencesExt

Null == "null"
TooFast == "-"
Star == "*"

(* The arguments of a request: start, end and min are sequences of one number,
   or empty when they are not given; signals is the list of names.  bad are the
   arguments that are not numbers or names, a table in the path among them. *)
Arguments(names) ==
    [start : Seq(Int), end : Seq(Int), min : Seq(Int), signals : Seq(names \cup {Star}),
     bad : SUBSET {"table", "start", "end", "min", "signals"}]

(* logreader_handler: what it takes for an argument that is not given. *)
Given(argument, default) == IF argument = <<>> THEN default ELSE Head(argument)
Window(args) ==
    [start |-> Given(args.start, 0), end |-> Given(args.end, -1), min |-> Given(args.min, -1)]

(* logreader_handler: an error in place of an answer.  A star is a name only
   when it is alone. *)
Refused(args) ==
    \/ args.bad # {}
    \/ Window(args).start >= Window(args).end
    \/ args.min # <<>> /\ Head(args.min) < 0
    \/ args.signals = <<>>
    \/ Len(args.signals) > 1 /\ Star \in ToSet(args.signals)

(* build_signals_stmt: those of the names that the table of signals has. *)
Asked(args, registered) ==
    IF args.signals = <<Star>> THEN registered ELSE registered \cap ToSet(args.signals)

(* build_values_stmt: the WHERE clause, without a bound that is negative, and
   the order of the rows: each has a start of its own, by the primary key. *)
Selected(r, request) ==
    /\ request.start >= 0 => r.end >= request.start
    /\ request.end >= 0 => r.start < request.end
Before(rows, r) == {q \in rows : q.start < r.start}
Rows(table, request) ==
    LET rows == {r \in table : Selected(r, request)}
    IN  [n \in 1..Cardinality(rows) |->
            CHOOSE r \in rows : Cardinality(Before(rows, r)) = n - 1]

-----------------------------------------------------------------------------
(* do_select's loop over the rows: the answer so far, prev_end, and
   short_duration, that is, whether the row before was too short.           *)
NoRow == [out |-> <<>>, prevEnd |-> -1, short |-> FALSE]

Change(time, value) == [time |-> time, value |-> value]
IsShort(r, request) == r.end - r.start < request.min

(* A row that does not follow the one before ends what is known, and is no part
   of a series of short ones. *)
Gap(s, r) == r.start # s.prevEnd /\ s.prevEnd # -1
SeriesKept(s, r) == s.short
Series(s, r) == s.short /\ ~Gap(s, r)

EndKnown(s) == <<Change(s.prevEnd, Null)>>
Shows(s, r, request) ==
    IF ~IsShort(r, request) THEN <<Change(r.start, r.value)>>
    ELSE IF Series(s, r) THEN <<>> ELSE <<Change(r.start, TooFast)>>

Row(s, r, request) ==
    [out |-> s.out \o (IF Gap(s, r) THEN EndKnown(s) ELSE <<>>) \o Shows(s, r, request),
     prevEnd |-> r.end,
     short |-> IsShort(r, request)]

Answer(table, request) ==
    LET last == FoldLeft(LAMBDA s, r : Row(s, r, request), NoRow, Rows(table, request))
    IN  IF last.prevEnd # -1 THEN last.out \o EndKnown(last) ELSE last.out

(* do_select: an object with the answer for each signal.  When a statement fails
   before the first of them the client gets an error, and later text that is no
   object at all. *)
Outcomes(args) == IF Refused(args) THEN {"error"} ELSE {"object", "error", "broken"}
Object(args, registered, values) ==
    [s \in Asked(args, registered) |-> Answer({r \in values : r.id = s}, Window(args))]

-----------------------------------------------------------------------------
(* What an answer says of a time: the last change that is not later. *)
ShownAt(t, out) ==
    LET past == {k \in DOMAIN out : out[k].time <= t}
    IN  IF past = {} THEN Null ELSE out[Max(past)].value

(* What the rows of a signal say of it; empty intervals say nothing. *)
KnownAt(t, table, request) ==
    LET known == {r \in table : r.start <= t /\ t < r.end}
    IN  IF known = {} THEN {Null}
        ELSE {IF IsShort(r, request) THEN TooFast ELSE r.value : r \in known}
=============================================================================

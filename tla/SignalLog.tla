----------------------------- MODULE SignalLog -----------------------------
(* The log of the signals: what signallogger stores and what mod_logreader, at
   any time, answers to a request for it.                                   *)
EXTENDS SignalLogger, LogReader

CONSTANT Requests   \* the arguments that clients give

ASSUME RequestsAssumption == Requests \subseteq Arguments(Signals)

(* Between two runs the database has every state that it may have in one. *)
Answered == {args \in Requests : pc = "none" /\ "object" \in Outcomes(args)}

(* The times that a request is about: a bound below 0 is none. *)
LastEnd == Max({0} \cup {r.end : r \in values})
Times(window) ==
    {t \in 0..LastEnd : (window.start >= 0 => window.start <= t) /\ (window.end >= 0 => t < window.end)}

(* A request is answered for all of its signals that are known, and anywhere in
   its window the answer says what the table does: the value, that it changes
   too fast, or that nothing is known. *)
ShowsTable == Regular /\ "single" \notin odd =>
    \A args \in Answered :
        LET object == Object(args, registered, values) IN
        \A s \in DOMAIN object : \A t \in Times(Window(args)) :
            ShownAt(t, object[s]) \in KnownAt(t, {r \in values : r.id = s}, Window(args))
=============================================================================

------------------------------- MODULE Viewer -------------------------------
(* The viewer of the log (web/graph.js): rows of the signals' values along the
   time, drawn from the answers of mod_logreader.  TimeCanvas displays a part of
   blocks three times as long; a move out of the blocks, a zoom or another choice
   of signals builds them again.  A block is built in a new group that has a red
   rectangle until a reply comes.  Every build sends a request, and a reply is
   drawn in the group there is when it comes: requests are answered in any order,
   and while signallogger goes on storing intervals.

   A time in a model is a pixel of the most detailed view.  The timeline and the
   cursors draw themselves and are left out.  Definitions named after another
   one (WithinLeft, ...) are that definition with a plausible mistake, used to show
   that a property depends on the code.                                     *)
EXTENDS LogReader, FiniteSets

CONSTANTS
    Signals,
    Courses,        \* the sequences of intervals that signallogger may store
    Begun,          \* how many of them are there when the page is loaded
    Lengths,        \* the display lengths, which zooming doubles or halves
    Now, Targets,   \* the times that the display may be moved to
    Drags,          \* by how much it may be dragged
    First, End,     \* bound: where the display may start
    MinWidth,       \* MIN_WIDTH: what is narrower is drawn as too fast
    GraphWidth,     \* graph_width, in the same unit
    MaxBuilds       \* bound: groups built for one signal

ASSUME ViewerAssumption ==
    /\ Begun \in Nat /\ MaxBuilds \in Nat
    /\ \A l \in Lengths : l \in Nat \ {0} /\ l % 2 = 0
    /\ Targets \cup Drags \cup {Now, First, End} \subseteq Int
    /\ MinWidth \in Nat /\ GraphWidth \in Nat \ {0}

Blank == "blank"    \* where nothing has been drawn

(* What signallogger leaves in the table (SignalLogger): the intervals of a signal
   have starts of their own and no time in common, and the values are numbers. *)
ASSUME CoursesAssumption == \A c \in Courses :
    /\ Len(c) \in Nat /\ DOMAIN c = 1..Len(c) /\ Begun <= Len(c)
    /\ \A k \in DOMAIN c :
          /\ c[k].id \in Signals
          /\ c[k].start \in Nat /\ c[k].end \in Int /\ c[k].start <= c[k].end
          /\ c[k].value \notin {Null, TooFast, Blank}
    /\ \A j, k \in DOMAIN c : c[j].id = c[k].id /\ c[j] # c[k] =>
          c[j].start # c[k].start /\ (c[j].end <= c[k].start \/ c[k].end <= c[j].start)

VARIABLES
    course, stored,                 \* the intervals, and how many are stored
    displayStart, displayLength,    \* of TimeCanvas
    blockStart, blockLength,        \* of its BlockContext
    blocks,                         \* the SignalGraphBlock of each signal shown
    built,                          \* how many groups were built for each signal
    requests                        \* what was sent and has not come back

log == <<course, stored>>
window == <<displayStart, displayLength, blockStart, blockLength>>
vars == <<log, window, blocks, built, requests>>

(* SignalViewer: three times the display, around the time of the clock. *)
Init ==
    /\ course \in Courses /\ stored = Begun
    /\ displayLength \in Lengths /\ displayStart = Now - displayLength \div 2
    /\ blockLength = 3 * displayLength
    /\ blockStart = displayStart + (displayLength - blockLength) \div 2
    /\ blocks = <<>> /\ built = [s \in Signals |-> 0] /\ requests = {}

Values(n) == {course[k] : k \in 1..n}
StoreValue ==
    /\ stored < Len(course)
    /\ stored' = stored + 1
    /\ UNCHANGED <<course, window, blocks, built, requests>>

-----------------------------------------------------------------------------
(* build_block: what a block is drawn for, and asked for. *)
Cells(start, length) == start..(start + length - 1)
MinDuration(length) == (2 * MinWidth * length + 3 * GraphWidth) \div (2 * 3 * GraphWidth)
Query(s, start, length) ==
    [start |-> <<start>>, end |-> <<start + length>>, min |-> <<MinDuration(length)>>,
     signals |-> <<s>>, bad |-> {}]

(* since is the first group of the SignalGraphBlock and last the present one.
   History: asOf, the intervals stored when it was built; own, whether the reply
   to its own request is waited for, has been drawn or has failed; onTop, whether
   nothing has been drawn over it. *)
Group(since, last, start, length) ==
    [since |-> since, last |-> last, mark |-> TRUE, labelled |-> FALSE,
     picture |-> [t \in Cells(start, length) |-> Blank],
     asOf |-> stored, own |-> "waiting", onTop |-> FALSE]

Request(s, n, start, length) ==
    [signal |-> s, number |-> n, args |-> Query(s, start, length), reply |-> <<>>]

(* TimeCanvas.update: all blocks are built again, with labels to be drawn. *)
Update(start, length) ==
    /\ \A s \in DOMAIN blocks : built[s] < MaxBuilds
    /\ blocks' = [s \in DOMAIN blocks |->
           Group(blocks[s].since, built[s] + 1, start, length)]
    /\ requests' = requests \cup
           {Request(s, built[s] + 1, start, length) : s \in DOMAIN blocks}
    /\ built' = [s \in Signals |-> IF s \in DOMAIN blocks THEN built[s] + 1 ELSE built[s]]
    /\ blockStart' = start /\ blockLength' = length

(* TimeCanvas.moveTo, by the start of the display: the blocks are moved as long
   as they cover it. *)
WithinLeft(start) == blockStart <= start
Within(start) == blockStart <= start /\ start + displayLength <= blockStart + blockLength
MoveTo(start) ==
    /\ start \in First..End
    /\ displayStart' = start
    /\ IF Within(start) THEN UNCHANGED <<blockStart, blockLength, blocks, built, requests>>
       ELSE Update(start + (displayLength - blockLength) \div 2, blockLength)
    /\ UNCHANGED <<log, displayLength>>

Page == \E p \in {-1, 1} : MoveTo(displayStart + p * displayLength)
GoTo == \E t \in Targets : MoveTo(t - displayLength \div 2)
Drag == \E d \in Drags : MoveTo(displayStart + d)

(* TimeCanvas.zoomTo keeps the middle where it is. *)
Middle == displayStart + displayLength \div 2
Zoom == \E length \in Lengths :
    /\ length = 2 * displayLength \/ 2 * length = displayLength
    /\ displayStart' = Middle - length \div 2 /\ displayLength' = length
    /\ Update(Middle - (3 * length) \div 2, 3 * length)
    /\ UNCHANGED log

(* update_signals: new blocks for the signals chosen, of those that the page was
   loaded with; whenever one is added all of them are built twice, by set_sizes
   and by update. *)
Listed == {course[k].id : k \in 1..Begun}
Chosen == SetToAllKPermutations(Listed)
Times(q, k) == 2 * (Len(q) - k + 1)
Position(q, s) == CHOOSE k \in DOMAIN q : q[k] = s
UpdateSignals == \E q \in Chosen :
    LET Newest(s) == built[s] + Times(q, Position(q, s)) IN
    /\ \A s \in ToSet(q) : Newest(s) <= MaxBuilds
    /\ blocks' = [s \in ToSet(q) |-> Group(built[s] + 1, Newest(s), blockStart, blockLength)]
    /\ requests' = requests \cup
           UNION {{Request(s, n, blockStart, blockLength) : n \in (built[s] + 1)..Newest(s)} : s \in ToSet(q)}
    /\ built' = [s \in Signals |-> IF s \in ToSet(q) THEN Newest(s) ELSE built[s]]
    /\ UNCHANGED <<log, window>>

-----------------------------------------------------------------------------
(* mod_logreader: the reply, if it is not an error, is of the table as it is now. *)
Serve ==
    /\ \E q \in requests :
          /\ q.reply = <<>>
          /\ requests' = (requests \ {q}) \cup {[q EXCEPT !.reply = <<stored>>]}
    /\ UNCHANGED <<log, window, blocks, built>>

(* TextGraphBlock.build_block: a rectangle for each value, to where the next one
   begins; what is drawn later is on top. *)
Known(change) == change.value # Null
CoveringOn(out, t) == {k \in DOMAIN out : Known(out[k]) /\ out[k].time <= t}
Covering(out, t) == {k \in DOMAIN out :
    /\ Known(out[k]) /\ out[k].time <= t
    /\ k < Len(out) => t < out[k + 1].time}
Drawn(picture, out) == [t \in DOMAIN picture |->
    IF Covering(out, t) = {} THEN picture[t] ELSE out[Max(Covering(out, t))].value]

(* SignalGraphBlock.reply, for an answer or an error of mod_logreader. *)
Unmarked(b) == [b EXCEPT !.mark = FALSE]
DrawReplyOnly(b, out) == [Unmarked(b) EXCEPT !.picture = Drawn(@, out)]
DrawReply(b, out) == [Unmarked(b) EXCEPT !.picture = Drawn(@, out), !.labelled = TRUE]
TakeReply(b, q, data) ==
    LET answered == q.signal \in DOMAIN data
        own == q.number = b.last
        c == IF answered THEN DrawReply(b, data[q.signal]) ELSE Unmarked(b)
    IN  [c EXCEPT !.own = IF ~own THEN @ ELSE IF answered THEN "drawn" ELSE "failed",
                  !.onTop = IF answered THEN own ELSE @]

(* What is no answer goes to SignalGraphBlock.error, which only logs it. *)
LogError(b, q) == [b EXCEPT !.own = IF q.number = b.last THEN "failed" ELSE @]

(* The block may have been replaced by another one. *)
Current(q) == q.signal \in DOMAIN blocks /\ blocks[q.signal].since <= q.number
Reply ==
    /\ \E q \in requests : \E outcome \in Outcomes(q.args) :
          /\ q.reply # <<>>
          /\ requests' = requests \ {q}
          /\ IF ~Current(q) THEN UNCHANGED blocks
             ELSE blocks' = [blocks EXCEPT ![q.signal] = CASE
                      outcome = "object" -> TakeReply(@, q, Object(q.args, Signals, Values(Head(q.reply))))
                   [] outcome = "error" -> TakeReply(@, q, <<>>)
                   [] outcome = "broken" -> LogError(@, q)]
    /\ UNCHANGED <<log, window, built>>

User == Page \/ GoTo \/ Drag \/ Zoom \/ UpdateSignals
Next == StoreValue \/ User \/ Serve \/ Reply
Spec == Init /\ [][Next]_vars

(* The server and the browser bring every request to an end: only Reply takes
   one away. *)
Ended == \E q \in requests : q.reply # <<>> /\ requests' = requests \ {q}
FairSpec == Spec /\ WF_requests(Serve) /\ WF_requests(Ended)

-----------------------------------------------------------------------------
TypeOK ==
    /\ course \in Courses /\ stored \in Begun..Len(course)
    /\ displayLength \in Lengths /\ displayStart \in Int
    /\ blockStart \in Int /\ blockLength \in Nat
    /\ DOMAIN blocks \subseteq Signals
    /\ \A s \in DOMAIN blocks : DOMAIN blocks[s].picture = Cells(blockStart, blockLength)
    /\ built \in [Signals -> 0..MaxBuilds]

(* What is seen anywhere is so: the value is that of an interval, and what is
   drawn as too fast is too short for one of the views, whatever came late. *)
SeenAt(s, t) == {r \in Values(stored) : r.id = s /\ r.start <= t /\ t < r.end}
TooShort(r) == \E l \in Lengths : r.end - r.start < MinDuration(3 * l)
DrawnTrue ==
    \A s \in DOMAIN blocks : \A t \in DOMAIN blocks[s].picture :
        LET seen == blocks[s].picture[t]
        IN  \/ seen = Blank
            \/ \E r \in SeenAt(s, t) : seen = r.value
            \/ seen = TooFast /\ \E r \in SeenAt(s, t) : TooShort(r)

(* Once a group has the reply to its own request, wherever the display is moved
   without building another, whatever was stored by then is seen; and as the
   resolution asks for it, unless an older reply came later and was drawn over it. *)
Displayed == Cells(displayStart, displayLength)
ShowsKnown ==
    \A s \in DOMAIN blocks : blocks[s].own = "drawn" =>
        \A t \in Displayed : \A r \in SeenAt(s, t) \cap Values(blocks[s].asOf) :
            LET seen == blocks[s].picture[t] IN
            /\ t \in DOMAIN blocks[s].picture /\ seen # Blank
            /\ blocks[s].onTop => seen = IF r.end - r.start < MinDuration(blockLength) THEN TooFast ELSE r.value

(* When the user rests, every row comes to have its values and its label and no
   red mark, unless its own request fails. *)
Settled == \A s \in DOMAIN blocks :
    \/ blocks[s].own = "failed"
    \/ blocks[s].own = "drawn" /\ blocks[s].labelled /\ ~blocks[s].mark
Settles == <>[]Settled
=============================================================================

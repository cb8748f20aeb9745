---------------------------- MODULE SignalLogger ----------------------------
(* signallogger (src/signallogger/logger.c, signal_extractor.c): a program run
   now and then on the capture files of pblog.  It follows the value of every
   configured signal through the packets of the files and stores, for each
   value, from when to when the signal had it.

   A file of the archive is its name, which has a start and an end, and its
   packets.  A packet is its time and the values of the signals of its trace,
   the empty function when there is no such trace.  The database survives the
   runs of the program; what a run has inserted since START TRANSACTION is in
   pending until it is committed.  Failures of START TRANSACTION and of COMMIT
   are only logged, so that an insert may be a transaction of its own, or be
   added to one that a COMMIT should have ended.  Definitions named after another one
   (NoLastUnset, ...) are that definition with a plausible mistake, used to
   show that a property depends on the code.                                *)
EXTENDS Integers, FiniteSets, SequencesExt

CONSTANTS
    Signals, Values,
    Archives,       \* the sequences of files that pblog may leave, oldest first
    Half,           \* 2^31: times are compared as numbers of twice this range
    Stale           \* what the time of no packet may be (undefined behaviour)

None == [time |-> -1]

Packet == [time : Nat, values : UNION {[S -> Values] : S \in SUBSET Signals}]
File == [start : Nat, end : Nat, packets : Seq(Packet)]
Interval == [id : Signals, start : Nat, end : Int, value : Values]

ASSUME LoggerAssumption ==
    /\ None \notin [time : Nat, value : Values]
    /\ Half \in Nat \ {0}
    /\ Stale \subseteq Nat
    /\ Archives \subseteq Seq(File)

(* The samples of a signal: the packets with a value of it. *)
SamplesOf(a, s) == {p \in UNION {ToSet(f.packets) : f \in ToSet(a)} : s \in DOMAIN p.values}

(* p is not later than q.  Packets of one trace are of different times. *)
Precedes(p, q) ==
    /\ p.time <= q.time
    /\ DOMAIN p.values \cap DOMAIN q.values # {} => p.time < q.time

(* p has the values that its signals had in the packets before it. *)
Repeats(a, p) ==
    \A s \in DOMAIN p.values : \A q \in SamplesOf(a, s) :
        /\ q.time < p.time
        /\ \A o \in SamplesOf(a, s) : o.time <= q.time \/ p.time <= o.time
        => q.values[s] = p.values[s]

(* What pblog leaves: the periods of the files follow one another and so do the
   packets.  A packet that is older than its file is a request that the filter
   held back while the file before was written, and that is first in its file.
   It repeats the request before it of its key (pbfilter.c:365), which is the one
   before it of its trace when the requests of a trace have one function code
   (those with SAPs, which could have other keys, are skipped: logger.c:290). *)
Successive(a) ==
    /\ \A f \in ToSet(a) :
          /\ f.start < f.end
          /\ \A i, j \in DOMAIN f.packets : i < j => Precedes(f.packets[i], f.packets[j])
    /\ \A m, n \in DOMAIN a : m < n =>
          /\ a[m].end <= a[n].start
          /\ \A p \in ToSet(a[m].packets), q \in ToSet(a[n].packets) : Precedes(p, q)

HeldBackOnly(a) ==
    \A n \in DOMAIN a : \A i \in DOMAIN a[n].packets :
        LET p == a[n].packets[i]
        IN  p.time < a[n].start =>
                /\ i = 1 /\ Repeats(a, p)
                /\ \E m \in DOMAIN a : a[m].end = a[n].start /\ a[m].start <= p.time

ASSUME ArchivesAssumption == \A a \in Archives : Successive(a) /\ HeldBackOnly(a)

VARIABLES
    archive, written,   \* the files, and how many of them there are by now
    values,             \* the table of values of the database
    registered,         \* the signals in the other table
    transaction,        \* is a transaction open?
    pending,            \* values inserted by it
    pc, resume,         \* the program, and what it does after finishing traces
    todo,               \* app->packet_files, without those that have been read
    read,               \* how many packets of the first of them
    prevEnd,            \* app->prev_file_end_ns
    last,               \* last_timestamp_ns and last_value of each signal
    fresh, covered,     \* history: did the run start with no values, and store
                        \* all since; the files of such a run that went well
    odd                 \* history: has a file been given alone ("single"), or
                        \* the time of no packet been used ("stale")?

environment == <<archive, written>>
tables == <<values, registered, transaction, pending>>
progress == <<todo, read, prevEnd, last>>
history == <<covered, odd>>
vars == <<environment, tables, pc, resume, progress, fresh, history>>

NoLastUnset == [s \in Signals |-> [time |-> 0, value |-> CHOOSE v \in Values : TRUE]]
NoLast == [s \in Signals |-> None]

Init ==
    /\ archive \in Archives /\ written = 0
    /\ values = {} /\ registered = {} /\ transaction = FALSE /\ pending = {}
    /\ pc = "none" /\ resume = "none"
    /\ todo = <<>> /\ read = 0 /\ prevEnd = -1 /\ last = NoLast
    /\ fresh = FALSE /\ covered = {} /\ odd = {}

(* pblog renames a file that is complete. *)
NewFile ==
    /\ pc = "none" /\ written < Len(archive)
    /\ written' = written + 1
    /\ UNCHANGED <<archive, tables, pc, resume, progress, fresh, history>>

-----------------------------------------------------------------------------
(* extract_callback's interval for what a signal had until an end. *)
Until(s, end) == [id |-> s, start |-> last[s].time, end |-> end, value |-> last[s].value]

(* The primary key of the values is the signal and the start: an interval is
   not stored when there is one with its key, or when the insert fails. *)
SameKeyWithEnd(r, q) == r.id = q.id /\ r.start = q.start /\ r.end = q.end
SameKey(r, q) == r.id = q.id /\ r.start = q.start
Storable(rs) == {r \in rs : \A q \in values \cup pending : ~SameKey(r, q)}
Insert(stored) ==
    IF transaction THEN pending' = pending \cup stored /\ UNCHANGED values
    ELSE values' = values \cup stored /\ UNCHANGED pending
Store(rs) == \E stored \in SUBSET Storable(rs) :
    /\ Insert(stored)
    /\ fresh' = (fresh /\ stored = Storable(rs))

(* range_cmp compares the lower halves of the start times as signed numbers,
   and puts a file after one it takes for equal. *)
Lower(t) == ((t + Half) % (2 * Half)) - Half
Sorted(files) == \A m, n \in DOMAIN files :
    m < n => Lower(files[m].start) <= Lower(files[n].start)

(* select_packet_files: all files that have the prefix, in any order in which
   the tree may keep them, or one file, with no known times. *)
Prefix == {q \in SetToSeqs({archive[n] : n \in 1..written}) : Sorted(q)}
Single == {<<[archive[n] EXCEPT !.start = 0, !.end = 0]>> : n \in 1..written}

Begin ==
    /\ pc = "none" /\ written > 0
    /\ \/ todo' \in Prefix /\ fresh' = (values = {}) /\ UNCHANGED odd
       \/ todo' \in Single /\ fresh' = FALSE /\ odd' = odd \cup {"single"}
    /\ read' = 0 /\ prevEnd' = -1 /\ last' = NoLast
    /\ pc' = "register"
    /\ UNCHANGED <<environment, tables, resume, covered>>

(* insert_signal_data gives up at an insert that fails, and the run goes on. *)
Register ==
    /\ pc = "register"
    /\ \E inserted \in SUBSET Signals : registered' = registered \cup inserted
    /\ pc' = "file"
    /\ UNCHANGED <<environment, values, transaction, pending, resume, progress, fresh, history>>

-----------------------------------------------------------------------------
(* The program ends; what has not been committed is rolled back. *)
End(done) ==
    /\ pc' = "none" /\ resume' = "none"
    /\ todo' = <<>> /\ read' = 0 /\ prevEnd' = -1 /\ last' = NoLast
    /\ transaction' = FALSE /\ pending' = {}
    /\ covered' = covered \cup done
    /\ fresh' = FALSE
    /\ UNCHANGED <<environment, values, registered, odd>>

(* read_packet_file: unless the file goes on where the one before ended, the
   traces are finished. *)
FollowsAlways(file) == TRUE
Follows(file) == file.start = prevEnd

NextFile ==
    /\ pc = "file" /\ todo # <<>>
    /\ IF Follows(Head(todo)) THEN pc' = "open" /\ resume' = resume
       ELSE pc' = "finish" /\ resume' = "open"
    /\ UNCHANGED <<environment, tables, progress, fresh, history>>

LastFile ==
    /\ pc = "file" /\ todo = <<>>
    /\ pc' = "finish" /\ resume' = "end"
    /\ UNCHANGED <<environment, tables, progress, fresh, history>>

(* finish_trace, for one signal.  Its insert is a transaction of its own, unless
   one has been left open by a COMMIT that failed. *)
FinishSignal ==
    /\ pc = "finish"
    /\ \E s \in Signals :
          /\ last[s] # None
          /\ Store({Until(s, prevEnd)})
          /\ last' = [last EXCEPT ![s] = None]
    /\ UNCHANGED <<environment, registered, transaction, pc, resume, todo, read, prevEnd, history>>

Finished == pc = "finish" /\ last = NoLast
FinishDone ==
    /\ Finished /\ resume = "open"
    /\ pc' = "open"
    /\ UNCHANGED <<environment, tables, resume, progress, fresh, history>>

FinishEnd ==
    /\ Finished /\ resume = "end"
    /\ End(IF fresh THEN {archive[n] : n \in 1..written} ELSE {})

(* START TRANSACTION commits what an open transaction has; when it fails the
   file is read all the same. *)
Committed == values' = values \cup pending /\ pending' = {}
Start ==
    \/ Committed /\ transaction' = TRUE
    \/ UNCHANGED <<values, pending, transaction>>

Rewound == 0
Open ==
    /\ pc = "open"
    /\ prevEnd' = Head(todo).end
    /\ Start
    /\ pc' = "read" /\ read' = Rewound
    /\ UNCHANGED <<environment, registered, resume, todo, last, fresh, history>>

OpenFail == pc = "open" /\ End({})

-----------------------------------------------------------------------------
Packets == Head(todo).packets

(* The intervals that a packet ends: its signals with a new value. *)
Changed(p) == {s \in DOMAIN p.values : last[s] # None /\ last[s].value # p.values[s]}
Ended(p) == {Until(s, p.time) : s \in Changed(p)}
KeptOldValue(p) == [s \in Signals |->
    IF s \in DOMAIN p.values /\ last[s] = None
    THEN [time |-> p.time, value |-> p.values[s]]
    ELSE IF s \in Changed(p) THEN [last[s] EXCEPT !.time = p.time] ELSE last[s]]
Kept(p) == [s \in Signals |->
    IF s \in DOMAIN p.values /\ (last[s] = None \/ s \in Changed(p))
    THEN [time |-> p.time, value |-> p.values[s]] ELSE last[s]]

(* signal_extractor_extract for a packet that has data. *)
Extract ==
    /\ pc = "read" /\ read < Len(Packets)
    /\ LET p == Packets[read + 1]
       IN  Store(Ended(p)) /\ last' = Kept(p)
    /\ read' = read + 1
    /\ UNCHANGED <<environment, registered, transaction, pc, resume, todo, prevEnd, history>>

(* A capture that cannot be read to its end: no COMMIT. *)
ReadFail == pc = "read" /\ End({})

(* The file's last packet may be later than its name says.  Without a packet
   the pointer to its header has not been set. *)
LastTimes == IF Packets = <<>> THEN Stale ELSE {Last(Packets).time}
EndIgnored(t) == prevEnd

(* COMMIT; when it fails the transaction may be lost or still be open. *)
CommitOk == Committed /\ transaction' = FALSE /\ UNCHANGED fresh
CommitLost == pending' = {} /\ transaction' = FALSE /\ fresh' = FALSE /\ UNCHANGED values
CommitOpen == fresh' = FALSE /\ UNCHANGED <<values, pending, transaction>>

EndAt(t) == IF t > prevEnd THEN t ELSE prevEnd
Commit ==
    /\ pc = "read" /\ read = Len(Packets)
    /\ CommitOk \/ CommitLost \/ CommitOpen
    /\ \E t \in LastTimes : prevEnd' = EndAt(t)
    /\ odd' = odd \cup (IF Packets = <<>> THEN {"stale"} ELSE {})
    /\ todo' = Tail(todo)
    /\ pc' = "file"
    /\ UNCHANGED <<environment, registered, resume, read, last, covered>>

(* The program is killed, or crashes. *)
Kill == pc # "none" /\ End({})

-----------------------------------------------------------------------------
Next ==
    \/ NewFile \/ Begin \/ Register
    \/ NextFile \/ LastFile \/ FinishSignal \/ FinishDone \/ FinishEnd
    \/ Open \/ OpenFail \/ Extract \/ ReadFail \/ Commit \/ Kill

Spec == Init /\ [][Next]_vars

-----------------------------------------------------------------------------
(* Every variable has its type, and there is a file to read where one is read. *)
TypeOK ==
    /\ archive \in Archives /\ written \in 0..Len(archive)
    /\ values \subseteq Interval /\ pending \subseteq Interval
    /\ pc \in {"none", "register", "file", "finish", "open", "read"}
    /\ resume \in {"none", "open", "end"}
    /\ todo \in Seq(File) /\ read \in Nat
    /\ pc \in {"open", "read"} \/ (pc = "finish" /\ resume = "open") => todo # <<>>
    /\ prevEnd \in Int
    /\ last \in [Signals -> {None} \cup [time : Nat, value : Values]]
    /\ registered \subseteq Signals /\ transaction \in BOOLEAN /\ fresh \in BOOLEAN
    /\ ~transaction => pending = {}
    /\ covered \subseteq ToSet(archive) /\ odd \subseteq {"single", "stale"}

Samples(s) == SamplesOf(archive, s)
Inside(r, p) == r.start <= p.time /\ p.time < r.end

(* Files are read in their order, as range_cmp takes no two of them for equal or
   the later for the earlier, and every file ends where it says or later. *)
Regular ==
    /\ \A m, n \in DOMAIN archive : m < n => Lower(archive[m].start) < Lower(archive[n].start)
    /\ "stale" \notin odd

(* Nothing in the database is invented: an interval starts at a packet with its
   value, whatever fails and in whatever order the files are read. *)
StartsAtSample ==
    \A r \in values : \E p \in Samples(r.id) : p.time = r.start /\ p.values[r.id] = r.value

(* A signal has its value throughout an interval, whatever fails. *)
HoldsValue == Regular =>
    \A r \in values : \A p \in Samples(r.id) : Inside(r, p) => p.values[r.id] = r.value

(* Two intervals of a signal have no time in common, although runs are repeated,
   fail and are killed while pblog adds files.  (Files given alone are another
   matter: their intervals start in the middle of those of the archive.) *)
NoOverlap == Regular /\ "single" \notin odd =>
    \A r, q \in values : r.id = q.id /\ r # q => r.end <= q.start \/ q.end <= r.start

(* No interval goes on where nothing was captured: all of it is in the times of
   files, by their names or by their last packets. *)
CapturedUntil(f) == Max({f.end} \cup {p.time : p \in ToSet(f.packets)})
WithinCapture == Regular =>
    \A r \in values : \A t \in r.start..(r.end - 1) :
        \E f \in ToSet(archive) : f.start <= t /\ t < CapturedUntil(f)

(* A run on an empty table that goes well loses nothing: each sample of its
   files is in an interval of its signal with its value, or ends one. *)
Covered == Regular =>
    \A f \in covered : \A p \in ToSet(f.packets) : \A s \in DOMAIN p.values :
        \E r \in values :
            r.id = s /\ r.value = p.values[s] /\ r.start <= p.time /\ p.time <= r.end
=============================================================================

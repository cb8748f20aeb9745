------------------------------ MODULE PBFramer ------------------------------
(* The framer (src/sniffer/pbframer.c): a thread reads bytes from the serial
   line, finds the PROFIBUS telegrams in them and puts these, with timestamps,
   into a queue that the main loop empties.

   parse_data keeps its place between two reads in packet_start and packet_len
   alone; every stage of it is an action here, so that a read may end anywhere
   in a telegram.  The bytes are those of stream; packet_start and the buffer
   are kept as offsets into it (start and base), so that the move of a partial
   packet to the beginning of the buffer is base' = start.

   Main is the main loop: the queue's GSource, whose dispatch is pblog's
   packets_received, the setting of the properties after the thread has been
   started, and finalize.  Definitions named after another one (ReadLenWhole,
   WakeUpAbove, ...) are that definition with a plausible mistake, used
   only to show that a property depends on the code being right.            *)
EXTENDS Telegram

CONSTANTS
    Streams,            \* what may come over the line: sequences of bytes
    ReadSizes,          \* how many bytes a read may return
    BufferCapacity,     \* BUFFER_CAPACITY
    MinQueue,           \* framer->min_queue
    InitialMaxQueue, MaxQueue, \* INITIAL_MAX_QUEUE and --max-queue-length
    InitialSpeed, Speed, \* INITIAL_SPEED and --speed, in bytes per Second / 11
    Second,             \* G_TIME_SPAN_SECOND
    MaxLate             \* environment: how late the clock may be at a read

ASSUME StreamsAssumption == Streams \subseteq Seq(0..255)
ASSUME ReadSizesAssumption == ReadSizes \subseteq Nat \ {0}
ASSUME QueueAssumption ==
    MinQueue \in Nat \ {0} /\ InitialMaxQueue \in Nat /\ MaxQueue \in Nat
ASSUME TimeAssumption ==
    /\ Second \in Nat /\ MaxLate \in Nat
    /\ InitialSpeed \in Nat \ {0} /\ Speed \in Nat \ {0}

(* The buffer has room for the longest telegrams that may come. *)
ASSUME CapacityAssumption ==
    /\ BufferCapacity \in Nat /\ 14 <= BufferCapacity
    /\ \A s \in Streams : \A i \in 0..(Len(s) - 3) :
          Starts(s, i, SD2) /\ At(s, i, 1) = At(s, i, 2) => Total(s, i) <= BufferCapacity

VARIABLES
    stream, pos,        \* the line: all its bytes, how many have been read
    pc,                 \* the framer thread: the stage of parse_data, or the read
    start, base,        \* packet_start, input_buffer
    plen, len,          \* packet_len; bytes read and not yet in the packet
    bufTs, lastRead,    \* input_buffer_ts, last_read_ts
    maxQueue, speed,    \* framer->max_queue, framer->speed
    queue, lost,        \* the queue; lost_packets
    mainPc, woken,      \* main loop; a pending g_main_context_wakeup
    cancelled,          \* framer->cancel
    framed, lastTs,     \* history: where packets began; the last one's timestamp
    popped, reported    \* history: packets popped; losses in warnings

place == <<start, plen, len>>
line == <<stream, pos, base, bufTs, lastRead>>
sink == <<queue, lost, woken, framed, lastTs, reported>>
main == <<maxQueue, speed, mainPc, cancelled, popped>>
vars == <<pc, place, line, sink, main>>

Init ==
    /\ stream \in Streams /\ pos = 0
    /\ pc = "read" /\ start = 0 /\ base = 0 /\ plen = 0 /\ len = 0
    /\ bufTs = 0 /\ lastRead = 0
    /\ maxQueue = InitialMaxQueue /\ speed = InitialSpeed
    /\ queue = <<>> /\ lost = 0 /\ woken = FALSE
    /\ mainPc = "start" /\ cancelled = FALSE
    /\ framed = <<>> /\ lastTs = 0 /\ popped = 0 /\ reported = 0

(* BYTES_PERIOD: a byte is eleven bits on the line. *)
BytesPeriod(bytes) == (11 * Second * bytes) \div speed

-----------------------------------------------------------------------------
(* The framer thread reads.                                                 *)

(* The end of a read of r bytes is no earlier than the line allows, whatever
   the clock says. *)
ReadEndClock(now, r) == now
ReadEnd(now, r) ==
    IF now < lastRead + BytesPeriod(r) THEN lastRead + BytesPeriod(r) ELSE now

(* read_len: the room behind the partial packet. *)
ReadLenWhole == BufferCapacity
ReadLen == BufferCapacity - plen

Read(r, now) ==
    /\ pc = "read"
    /\ r <= ReadLen /\ r <= Len(stream) - pos
    /\ base' = start
    /\ pos' = pos + r /\ len' = r
    /\ lastRead' = ReadEnd(now, r)
    /\ bufTs' = lastRead' - BytesPeriod(plen + r)
    /\ pc' = "begin"
    /\ UNCHANGED <<stream, start, plen, sink, main>>

(* A read returns nothing at the end of the line, and when there is no room. *)
ReadEof ==
    /\ pc = "read"
    /\ pos = Len(stream) \/ ReadLen = 0
    /\ pc' = "done"
    /\ UNCHANGED <<place, line, sink, main>>

(* A failed read is reported, and the thread reads again. *)
ReadError(now) ==
    /\ pc = "read"
    /\ base' = start /\ bufTs' = now
    /\ UNCHANGED <<pc, place, stream, pos, lastRead, sink, main>>

ReadCancelled ==
    /\ pc = "read"
    /\ cancelled
    /\ pc' = "done"
    /\ UNCHANGED <<place, line, sink, main>>

-----------------------------------------------------------------------------
(* parse_data.                                                              *)

Byte(i) == stream[start + i + 1]

(* grow_packet: more data is needed for a packet of n bytes, or the packet is
   made n bytes long, if it is not already. *)
Short(n) == n > plen + len

More(n) ==
    /\ Short(n)
    /\ plen' = plen + len /\ len' = 0 /\ start' = start
    /\ pc' = "read"

Grow(n) ==
    /\ ~Short(n)
    /\ start' = start
    /\ IF plen < n THEN plen' = n /\ len' = len - (n - plen) ELSE UNCHANGED <<plen, len>>

(* "Skip invalid bytes": the n bytes of the packet so far; the parser begins
   again after them. *)
SkipAllRead(n) == ~Short(n) /\ start' = pos /\ plen' = 0 /\ len' = 0 /\ pc' = "begin"
Skip(n) ==
    /\ ~Short(n)
    /\ start' = start + n /\ plen' = 0 /\ len' = pos - start'
    /\ pc' = "begin"

Begin ==
    /\ pc = "begin"
    /\ \/ More(1)
       \/ ~Short(1) /\ Byte(0) \notin StartSymbols /\ Skip(1)
       \/ /\ Grow(1) /\ Byte(0) \in StartSymbols
          /\ pc' = IF Byte(0) = SC THEN "emit" ELSE "third"
    /\ UNCHANGED <<line, sink, main>>

Third ==
    /\ pc = "third"
    /\ \/ More(3)
       \/ Grow(3) /\ Byte(0) = SD4 /\ pc' = "emit"
       \/ ~Short(3) /\ Byte(0) = SD2 /\ Byte(1) # Byte(2) /\ Skip(3)
       \/ Grow(3) /\ Byte(0) # SD4 /\ (Byte(0) = SD2 => Byte(1) = Byte(2)) /\ pc' = "sixth"
    /\ UNCHANGED <<line, sink, main>>

Sixth ==
    /\ pc = "sixth"
    /\ \/ More(6)
       \/ ~Short(6) /\ Byte(0) = SD2 /\ Byte(3) # SD2 /\ Skip(3)
       \/ Grow(6) /\ (Byte(0) = SD2 => Byte(3) = SD2) /\ pc' = "body"
    /\ UNCHANGED <<line, sink, main>>

(* The length of a telegram whose first three bytes are there. *)
Length == CASE Byte(0) = SD1 -> 6 [] Byte(0) = SD2 -> Byte(1) + 6 [] Byte(0) = SD3 -> 14

(* Does the telegram end with ED, and is the sum of its data the byte before? *)
Verified ==
    /\ Byte(Length - 1) = ED
    /\ Byte(Length - 2) =
            Sum(stream, start + (IF Byte(0) = SD2 THEN 4 ELSE 1), start + Length - 3)

Body ==
    /\ pc = "body"
    /\ \/ More(Length)
       \/ ~Short(Length) /\ ~Verified /\ Skip(Length)
       \/ Grow(Length) /\ Verified /\ pc' = "emit"
    /\ UNCHANGED <<line, sink, main>>

(* The timestamp of the packet at packet_start. *)
Timestamp == bufTs + BytesPeriod(start - base)

(* max_queue is the number of packets above which the queue is full. *)
Room == Len(queue) <= maxQueue

(* The queue reports losses when it has room again. *)
ReportLossKept == reported' = reported + lost /\ UNCHANGED lost
ReportLoss == reported' = reported + lost /\ lost' = 0

(* Main is woken when the queue is worth it. *)
WakeUpAbove == woken' = (woken \/ Len(queue') > MinQueue)
WakeUp == woken' = (woken \/ Len(queue') >= MinQueue)

PacketDone ==
    /\ pc = "emit"
    /\ \/ /\ Room
          /\ queue' = Append(queue, [at |-> start, length |-> plen, timestamp |-> Timestamp])
          /\ ReportLoss
       \/ /\ ~Room
          /\ lost' = lost + 1
          /\ UNCHANGED <<queue, reported>>
    /\ WakeUp
    /\ framed' = Append(framed, start)
    /\ lastTs' = Timestamp
    /\ start' = start + plen /\ plen' = 0 /\ len' = len
    /\ pc' = "begin"
    /\ UNCHANGED <<line, main>>

-----------------------------------------------------------------------------
(* The main thread.                                                         *)

(* pblog sets the properties when the framer is already running. *)
ConfigureSpeed == maxQueue' = maxQueue /\ speed' = Speed
SetProperties == maxQueue' = MaxQueue /\ speed' = Speed
Configure ==
    /\ mainPc = "start"
    /\ SetProperties
    /\ mainPc' = "prepare"
    /\ UNCHANGED <<pc, place, line, sink, cancelled, popped>>

(* queue_prepare: the loop polls only if the queue is empty. *)
Prepare ==
    /\ mainPc = "prepare"
    /\ mainPc' = IF queue # <<>> THEN "drain" ELSE "poll"
    /\ UNCHANGED <<pc, place, line, sink, maxQueue, speed, cancelled, popped>>

(* The poll ends after a second, or when the context is woken. *)
PollEndsWoken == woken
PollEnds == TRUE

(* queue_check after the poll, which takes the wakeup. *)
Poll ==
    /\ mainPc = "poll"
    /\ PollEnds
    /\ mainPc' = IF queue # <<>> THEN "drain" ELSE "prepare"
    /\ woken' = FALSE
    /\ UNCHANGED <<pc, place, line, queue, lost, framed, lastTs, reported, maxQueue, speed,
                   cancelled, popped>>

(* packets_received pops until the queue is empty. *)
Pop ==
    /\ mainPc = "drain"
    /\ IF queue # <<>>
         THEN queue' = Tail(queue) /\ popped' = popped + 1 /\ UNCHANGED mainPc
         ELSE mainPc' = "prepare" /\ UNCHANGED <<queue, popped>>
    /\ UNCHANGED <<pc, place, line, lost, woken, framed, lastTs, reported, maxQueue, speed,
                   cancelled>>

(* The loop is quit and finalize cancels the thread ... *)
CancelNot == UNCHANGED cancelled
Cancel == cancelled' = TRUE
Quit ==
    /\ mainPc = "prepare"
    /\ Cancel
    /\ mainPc' = "join"
    /\ UNCHANGED <<pc, place, line, sink, maxQueue, speed, popped>>

(* ... and joins it; what is still in the queue is freed with it. *)
Join ==
    /\ mainPc = "join"
    /\ pc = "done"
    /\ mainPc' = "done"
    /\ UNCHANGED <<pc, place, line, sink, maxQueue, speed, cancelled, popped>>

-----------------------------------------------------------------------------
(* What the clock may say at the end of a read of r bytes: it may have been
   set back, be on time, or late. *)
Clock(r) == {lastRead - 1, lastRead + BytesPeriod(r), lastRead + BytesPeriod(r) + MaxLate}

Parse == Begin \/ Third \/ Sixth \/ Body \/ PacketDone

FramerStep == (\E r \in ReadSizes : \E now \in Clock(r) : Read(r, now)) \/ ReadEof \/ Parse

MainStep == Configure \/ Prepare \/ Poll \/ Pop \/ Join

Environment == (\E now \in Clock(0) : ReadError(now)) \/ ReadCancelled \/ Quit

Next == FramerStep \/ MainStep \/ Environment

Spec == Init /\ [][Next]_vars

(* Both threads run, and a read that is cancelled returns.  That bytes come, or
   that the user quits, is not promised. *)
FairSpec == Spec /\ WF_vars(Parse) /\ WF_vars(ReadCancelled) /\ WF_vars(MainStep)

-----------------------------------------------------------------------------
(* Every variable has its type; a packet of the queue is where its first byte
   is in the line, its length and its time. *)
TypeOK ==
    /\ stream \in Streams /\ pos \in 0..Len(stream)
    /\ pc \in {"read", "begin", "third", "sixth", "body", "emit", "done"}
    /\ {start, base, plen, len} \subseteq Nat
    /\ {bufTs, lastRead, lastTs} \subseteq Int
    /\ maxQueue \in {InitialMaxQueue, MaxQueue} /\ speed \in {InitialSpeed, Speed}
    /\ queue \in Seq([at : Nat, length : Nat, timestamp : Int])
    /\ {lost, popped, reported} \subseteq Nat
    /\ mainPc \in {"start", "prepare", "poll", "drain", "join", "done"}
    /\ woken \in BOOLEAN /\ cancelled \in BOOLEAN
    /\ framed \in Seq(Nat)

(* Every byte read is before the packet, in it or after it, and all of them
   from the packet on are in the buffer, which has room for the next read. *)
BufferHolds ==
    /\ start + plen + len = pos
    /\ base <= start
    /\ pos - base <= BufferCapacity
    /\ pc = "read" => len = 0 /\ plen < BufferCapacity

(* The queue never has more than one packet above its limit: the packet that
   finds it full is still queued, although the help of --max-queue-length says
   "Maximum number of packets allowed to be queued internally".  The limit that the thread starts with counts
   until main has emptied the queue once: from then on, when main waits, it is
   --max-queue-length. *)
QueueBound ==
    /\ Len(queue) <= (IF InitialMaxQueue > MaxQueue THEN InitialMaxQueue ELSE MaxQueue) + 1
    /\ mainPc = "poll" => Len(queue) <= MaxQueue + 1

(* Buffer and queue keep within their bounds, whatever is read and when. *)
WithinBounds == BufferHolds /\ QueueBound

(* Every packet found is delivered, in the queue, or counted as lost. *)
LossCounted == Len(framed) = popped + Len(queue) + lost + reported

(* How far a parser gets from i in one step; 0: it needs more bytes. *)
Advance(s, i) ==
    CASE i = Len(s) -> 0
      [] i < Len(s) /\ At(s, i, 0) \notin StartSymbols -> 1
      [] BadHeader(s, i) -> 3
      [] OTHER -> IF Has(s, i, Total(s, i)) THEN Total(s, i) ELSE 0

(* What a parser that has a whole line before it finds in it: from each offset
   on, where telegrams begin. *)
Found == [s \in Streams |->
    LET f[i \in 0..Len(s)] ==
            IF Advance(s, i) = 0 THEN <<>>
            ELSE (IF IsTelegram(s, i) THEN <<i>> ELSE <<>>) \o f[i + Advance(s, i)]
    IN  f]

(* What is framed does not depend on how the bytes come in reads: the packets
   so far and those still to be found in the rest of the line are the packets
   found in the line as a whole. *)
ChunkIndependent == framed \o Found[stream][start] = Found[stream][0]

(* "Don't signal the user until the queue has got this many entries or it
   hasn't been checked for a second": with as many entries main does not wait
   for the second to pass. *)
PromptWakeup == mainPc = "poll" /\ Len(queue) >= MinQueue => woken

(* The timestamps of the packets never go back, although the clock may.  This
   needs a byte period without a fraction (rounding adds up when a telegram
   comes byte by byte) and a --speed that is the one the thread started with. *)
TimeOrdered == [][framed # <<>> => lastTs <= lastTs']_vars

(* Packets in the queue are delivered although they are too few for a wakeup. *)
QueueDrained == (queue # <<>>) ~> (queue = <<>> \/ mainPc \in {"join", "done"})

(* finalize ends: the thread it joins notices the cancellation. *)
FinalizeEnds == (mainPc = "join") ~> (mainPc = "done")
=============================================================================

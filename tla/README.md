# A TLA+ model of pbsniffer

The repository holds tools that listen to PROFIBUS traffic on a serial line, log
it to pcapng files, extract signals from the logs into a database and show them
in a browser.  This directory holds specifications of its parts, written from
the source, TLC configurations that check them on small instances, and theorems
that TLAPS checks for all values of the constants.

    tlc -config <file>.cfg <Module>.tla
    tlapm <Module>Proofs.tla

## Inventory

| Part | State | Operations | Interacts with | What is hard | Correct when |
|---|---|---|---|---|---|
| pblog, log rotation (`src/sniffer/pblog.c`) | three `LogFile` slots, `write_file`, `next_file`, the output thread's copies of both, `next_swap`, a cancellable | `swap_file`, `get_log_file`, `packets_received`, `create_output_thread`, `close_log_file`, `app_cleanup` | framer queue, filter, schedule, pcapng writer | two threads, one condition variable for both directions, reads without the mutex, cancellation at any time, failing I/O | each packet in the file of its period, files written one after the other and renamed when they are left; no unused file left; the program ends (`CaptureLog`) |
| PBFramer (`pbframer.c`) | buffer, `packet_start`, `packet_len`, time of the last read, queue, `lost_packets` | read loop, `parse_data`, `packet_done`, queue source, `finalize` | serial stream, main loop | reads end anywhere, resynchronisation, bounded queue, clock set back, thread started before its properties are set | finds the telegrams of the line whatever the reads; bounds; ordered timestamps |
| PBFilter (`pbfilter.c`) | a transaction per key, last request key, whether it was passed on | `pb_filter_input`, `set_request`, `set_response` | `packet_output` | lost, late and foreign responses; requests passed on late | every change logged once, in order, with its request |
| ScheduledTime (`scheduled_time.c`) | five sets | `scheduled_time_parse`, `scheduled_time_next_match` | output thread | nested loops with resets, steps, schedules without a next time | next time of the schedule, always later, always found |
| pcapng writer (`pcapng.c`) | option chain | `write_block`, `add_option`, `write_enhanced_packet` | log files | padding, lengths, partial writes | well-formed blocks |
| pbsniffer (`sniffer.c`, `write_libpcap.c`) | parser state, file | `parse_byte`, `read_callback`, `check_checksum` | serial line | one byte at a time | agrees with the framer |
| hex2pcapng (`hex2pcapng.c`) | line buffer, current time | `read_callback`, `parse_line` | pcapng writer | lines split between reads or longer than the buffer | every line one packet |
| SignalExtractor (`signal_extractor.c`) | per signal its last value and interval | XML parser, `extract`, `finish_trace` | signallogger | end of a trace, gaps | intervals cover the log without overlap |
| signallogger (`logger.c`) | file list, database | `select_packet_files`, `read_packets`, `insert_signal_data` | database | interrupted runs, files that overlap | an interval once in the database |
| mod_logreader (`httpd/mod_logreader.c`) | none | `do_select`, `logreader_handler` | database | defaults of the arguments, gaps and series of short rows | shows in its window what the table has |
| web viewer (`web/graph.js`, `view_log.php`) | blocks, pending requests, window | `zoomTo`, `moveTo`, `update`, `SignalGraphBlock` | mod_logreader | late and reordered replies | draws nothing that is not so, shows what it was answered, comes to rest |
| pbwriter, serial line, GSD table, test programs, `doc/` | – | – | – | test tools, I/O settings, data | not modelled |

## Modules

**LogRotation** (proved about in **PblogProofs**) is the core.  `mainPc` and `outPc`
say where main and the output thread are; a critical section is one action, and
what a thread does outside the mutex is split wherever the other thread could
see the difference.  `writeFile`, `nextFile`, `slots`, `outWrite`, `outNext`,
`writeChanged`, `nextChanged` and `nextSwap` are the variables of the code;
`swaps`, `closes`, `opens`, `used`, `renamed` and `deleted` are history.  The
condition variable has no variable of its own: a thread in state `wait` is one
that waits on it, and a signal moves it on.  The one place where a thread still
holds the mutex between two steps is `sleep`, between the output thread's last
look at the condition and `g_cond_wait`; `LockFree` keeps main's critical
sections out of it, and `app_cleanup`, which takes no mutex, is not kept out.
Time counts periods of the schedule, and a packet is its timestamp.  Nothing in
`swap_file` makes main wait for the output thread to be done with earlier swaps, and
nothing does in the model: what is assumed of time is in the environment, where `Arrive`
brings packets of a later timestamp when `OnTime` says that the output thread has had
time for the earlier swaps.  Packets of one timestamp come as fast as they can.

**CaptureLog** is what pblog promises of its files, without threads and slots: the
files are numbered, `current` is the one that is written, and the actions are those
that are seen from outside (`Receive`, `Move` to the next file, `Write`, `Stop`, `Finish`
a file with its final name, `Discard` the one made ahead, `End`).  Its guards are the
promises: a file is moved to only when its period has begun, written only while it
is the current one, named once and only when it has been left.  **RotationRefinement**
states that LogRotation implements it (`KeepsFiles`, and with fairness
`KeepsFilesLive`): the current file is the number of swaps, and neither slots nor
indexes are seen.  **PblogProofs** proves it.

**Pblog** (with **MC_Pblog** and **PblogProofs**) composes the filter with the files: the
loop of `packets_received`, one action each for the first file, `g_async_queue_try_pop`
with its test of the end, the swap, and the filter's input with all that it lets
out.  It implements CaptureLog too, which stands for the rotation there; what
becomes of the final names, and whether the next file is really the one that `swap_file`
gets to, is left to LogRotation.  Packets are numbered for the filter; `periods` says in
which period of the schedule each has come: many may come in one, and none in
`Silence` periods less one.

**PBFramer** (with **MC_PBFramer** and **PBFramerProofs**) has one action per stage of `parse_data`,
with the real bytes of the telegrams.  The line is a sequence of bytes chosen at
the start; `packet_start` and the buffer are offsets into it.  `More`, `Grow`
and `Skip` are the three ways out of a stage (more data needed, packet grown,
invalid bytes skipped).  `Found` is what a parser that has the whole line before it finds
from each offset on, a recursive function of the line alone.  The main loop's source and
its poll, the late setting of the properties and `finalize` are actions of the main thread:
the framer's thread runs with `InitialMaxQueue` and `InitialSpeed` until `Configure` has set
`maxQueue` and `speed`.

**PBFilter** (checked in Pblog, and proved about in **PblogProofs**) has one action per
case of `pb_filter_input`.  A frame is the record of the fields the code
compares; `out` is everything given to the output callback.  A telegram too short to
be compared (`Stub`), which the framer lets pass, is never equal to another one.

**ScheduledTime** (with **MC_ScheduledTime** and **ScheduledTimeProofs**) has one action per turn of the
four loops of the search and one per item of a pattern, and the output thread's
repeated calls.  A calendar is data, so that a small one can be checked.

**SnifferParser** (with **MC_SnifferParser** and **SnifferParserProofs**) is pbsniffer's parser, one action per
case of `parse_byte`, which gets one byte at a time; when a byte is refused,
`read_callback` forgets the packet (`Reset`) and goes on with the next byte as a first one:
neither the refused byte nor those before it are parsed again.  **Telegram** has what both parsers
look for, the telegrams of a line of bytes, and the lengths and ends of each
kind; the framer and this parser are compared with the same operators.

**Pcapng** (proved about in **HexReaderProofs**) writes blocks piece by piece, by their lengths.
**HexReader** (with **MC_HexReader** and **HexReaderProofs**) EXTENDS it: `open_output` and `parse_line` start
the blocks, and since writing is synchronous, the reader goes on when the writer
is done (`pc = "none"`).  Each step of `HexNext` is a step of Pcapng's `Next` or leaves
its variables alone, which is proved (`Implements`), so that the theorems about Pcapng hold of
what hex2pcapng writes.
The input buffer is the part of the text before `pos`.  `After` is what the lines of a
text give by its n-th character, a recursive function of the text alone.

**SignalConfig** (proved about in **SignalLoggerProofs**) is the parser of the signals' configuration: one action per start
and end of an element that GLib's markup parser calls a handler for, with the
stack of open elements; `elements` and `declared` are history: the traces of the
document and the ids of their signals.  **SignalMask** computes a signal's value from the bytes of a
telegram, one action per step of the code (`MaskSpec`, also proved about in
SignalLoggerProofs).  `IsNumber` says of a number that it is the one that the bits or
bytes under the mask stand for.  **MC_SignalLog** checks both beside
the log, with which they share no variable: a behaviour is of one of the three.

**SignalLogger** (with **SignalLoggerProofs**) runs signallogger again and again while `NewFile` adds the files
that pblog completes: one action per choice of files, file opened, packet
extracted, signal finished, commit, and failure.  `values` and `registered` are the two
tables and `pending` what the open transaction has inserted.  A START TRANSACTION that
fails leaves the file's inserts to commit one by one, and a COMMIT that fails may have
lost the transaction or left it open for the next START to commit; the code goes on
after both.  **LogReader** has no state of its own: the answer of mod_logreader is a
function of the arguments and of the tables, or an error (`Refused`, `Outcomes`);
`ShownAt` is what an answer says of a time, `KnownAt` what the table does.
**LogReaderProofs** relates the two for any table, and the proofs about SignalLog and Viewer
use it.
**SignalLog** (with **MC_SignalLog**) composes SignalLogger and LogReader: at any time between two runs, the
tables are asked for all requests.

**Viewer** (with **MC_Viewer** and **ViewerProofs**) is the page that draws the answers, on top of LogReader:
the window of `TimeCanvas`, the blocks three times as long, and for each signal the
group that `build_block` made last, with the red rectangle, the label and what has been
drawn.  The table it is asked about grows along one of `Courses`, of which
`CoursesAssumption` says what `NoOverlap` does, and that a value is a number (`create_table.sql:1`).  A request is in `requests` from `getJSON` to its callback; `Serve` answers one from
the table as it is then, and `Reply` is `SignalGraphBlock.reply` or `error`, which draw into
the group that is there by now.  The user's actions are moving, dragging, zooming
and choosing signals.

Operators such as `ReadyAlways` or `PastFileByOne` stand before the operator
they vary.  They are that operator with a plausible mistake, and each property
is known to fail when the mistake is put in (`mutants` in `PROJECT.json`).

## Runs

| Run | Module, configuration | Shows |
|---|---|---|
| rotation_safety | RotationRefinement, `LogRotation_safety.cfg` | on a bus that is never silent for a whole period the rotation implements CaptureLog, writes to open files only, and its assertion holds, in the presence of I/O failures and of a stop at any time |
| rotation_silence | LogRotation, `LogRotation_silence.cfg` | **violated**: a burst after a silence swaps to a file that main has already left |
| rotation_live | RotationRefinement, `LogRotation_live.cfg` | it implements CaptureLog with fairness on a bus that is never silent: each packet in the file of its period, all files named, only unused ones deleted; a swap returns and the program ends |
| rotation_earlyquit | LogRotation, `LogRotation_earlyquit.cfg` | **violated**: stopped just after a swap, the file with the packets is deleted |
| rotation_lostwakeup | LogRotation, `LogRotation_lostwakeup.cfg` | **violated**: the wakeup of `app_cleanup` can be lost, the join then never returns |
| framer | MC_PBFramer, `MC_PBFramer.cfg` | chunk independence, buffer, queue, losses, wakeups, timestamps; packets are delivered, `finalize` ends |
| pblog | MC_Pblog, `MC_Pblog.cfg` | the filtered log is complete, paired, ordered and free of repetitions; without silences each packet is in the file of its period or let out by one that is, and the main loop writes as CaptureLog says |
| schedule | MC_ScheduledTime, `MC_ScheduledTime.cfg` | parsing gives the right sets, searches the next time, and they end |
| sniffer | MC_SnifferParser, `MC_SnifferParser.cfg` | nothing corrupted is logged, a clean line is found whole, the buffer is never full |
| log | MC_SignalLog, `MC_SignalLog.cfg` | the intervals hold the values, do not overlap and stay within the capture, through failures, kills and repeated runs; the answer to a request shows what the table has; the configuration's parser keeps its assertions, complete documents give complete signals, none is lost; a value is the number its mask stands for |
| hex | MC_HexReader, `MC_HexReader.cfg` | every line is one packet however the reads cut it, no byte is written past the packet buffer; blocks are as long as they say |
| viewer | MC_Viewer, `MC_Viewer.cfg` | what is drawn is in the table, what was answered is seen, every row comes to rest |

The three violated runs are the project's findings; `PROJECT.json` gives for each the
line of the code and the sentence it contradicts.

### Other places where the code and its words differ

Met while modelling, without a run of their own:

* `packet_done` (`pbframer.c:261`) queues while the length is at most `max_queue`, one
  packet more than the help of `--max-queue-length` (`pblog.c:370`) says; `WithinBounds`
  states what the code does.
* The default schedule `0 1 * * *` is 01:00 each day, its comment (`pblog.c:72`) says
  "Swap every hour".
* The libpcap writer returns what `g_output_stream_write` does, -1 for a failure, as a
  `gboolean` (`write_libpcap.c:38`), so that a header that cannot be written is not
  reported by `sniffer.c:604` and packets follow it.
* A weekday of 0 is accepted, as crontab does for Sunday, and compared with
  `g_date_get_weekday`, 1 to 7 (`scheduled_time.c:54`): with nothing else in the set the
  search never ends.
* A signal that changes with the last packet before a gap, at or after the end of
  its file, gets an interval from a time to the same time (`logger.c:664`), which
  the table's `CHECK(start < end)` (`create_table.sql:1`) refuses where it is enforced.
* A configuration that ends inside a label aborts at `g_assert(state.text == NULL)`
  (`signal_extractor.c:411`) if the read ends without an error; the model's status is
  then `aborted`.
* `--parse-ts` takes the number on a line for the time itself (`hex2pcapng.c:182`), its
  help (`hex2pcapng.c:70`) for the time since the previous packet.
* An `end` that is not given is -1 (`mod_logreader.c:328`), so that `start >= end` (line 374)
  refuses the request although the statement without a bound (line 174) is ready
  for it; only a negative start gets there.
* A block that is built twice draws both replies into its newest group
  (`graph.js:1164`); when the older one comes last its coarser or older picture stays
  on top (`ShowsKnown` says what is left).
* `range_cmp` (`logger.c:93`) compares 32 of 64 bits of the files' times as signed
  numbers; files on both sides of a change of sign are read in the wrong order.
  Properties of SignalLogger that need the order say so (`Regular`): a file that starts
  earlier has the smaller number.

### Bounds and assumptions on the environment

* LogRotation: `MaxTime = 4` opens up to six files, so that each of the three slots is
  used twice, and `MaxSwaps = 6` ends a burst after as many swaps.
* `MaxGap` is how many periods may pass between two packets: 1 means that the bus is never
  silent for a whole period.  It does not hold main up: it is the traffic that is
  restricted.  On such a bus main swaps once in a period, which CaptureLog's `Write` needs
  to promise that a packet is inside the period of its file.  With 3, a silence of two whole
  periods and the packets after it let main swap once per packet (`rotation_silence`).
* `MaxLag` is about the output thread's speed: a packet of a later timestamp finds it
  less than `MaxLag` swaps behind.  With 2 it has at most one swap left to handle when a
  period begins, which asks for little: a swap is normally an hour or a day after
  the one before, and the output thread needs milliseconds.  It says nothing of a burst,
  whose packets have one timestamp, nor of a thread that has ended.  The theorems that need
  `MaxGap <= 1` and `MaxLag <= 2` state both as hypotheses.  `rotation_silence` shows that the
  first is needed: after a silence no such speed of the output thread is enough.
* `EarlyQuit = FALSE` lets the user stop the program only while the output
  thread waits, with nothing left to handle, and bars a spurious wakeup of it from then
  until the program is cancelled, which could lead to the lost wakeup of
  `rotation_lostwakeup`; a stop at any time is in `rotation_safety` and in
  the runs that show what it does.  `IoMayFail` lets files fail to open, to be headed, to be
  renamed.  When one cannot be opened or headed, the output thread ends and main waits for
  ever at its next swap: the safety properties hold then too, and `SwapReturns` is checked
  without such failures.
* PBFramer: five lines with every kind of telegram and of error, each read in
  every split into reads of 1 and 13 bytes; a buffer one byte longer than the
  longest telegram; a queue limit of 3 until main has set the one of 2, on lines of up to
  seven telegrams.  The code starts with 10000 (`pbframer.c:193`).  The clock may be set back, on time or late at every read.  A byte takes a whole
  number of time units, as at the default speed (22 microseconds), and the speed
  set is the one the thread starts with: with a fraction, rounding adds up, and
  with another speed the first timestamps may go back.
* Pblog: six frames out of ten, enough for a key to be asked three times
  with all combinations of lost, foreign, changed and too short responses, in up to three
  periods (`MaxPeriod = 2`), so that a request may be held back over a swap.  `Silence = 1`: the
  bus is never silent for a whole period.  What the main loop does after longer silences is
  proved (`LogKeepsFiles`) and not run.
* ScheduledTime: a calendar of two years of three months, with hours of two
  minutes; each of the loops turns over.  `wrapped` marks a search that has left
  the calendar, where times can no longer be compared.

* SnifferParser: any three of thirteen telegrams and corrupted ones, with a limit
  of 9 bytes of data and a buffer of 16.  The code's numbers are 249 and 256: like
  there, the longest telegram admitted is one byte shorter than the buffer.
* SignalLogger: archives of three files, the second following the first and the
  third after a gap; the last packet of the first file in time or after its end;
  one signal with every course of values, or two; a file without packets; a file
  that begins with an earlier packet, as a request held back by the filter is; times
  that `range_cmp` orders wrongly.  `Half` stands for 2^31.  Any insert, open, read,
  START TRANSACTION or COMMIT may fail, and the program may be killed anywhere.
  The earlier packet repeats the value of its signal: with another value, between
  two runs, `finish_trace` (`signal_extractor.c:481`) would end its interval before a
  later one that the first run stored.  A file given alone makes
  intervals that start in the middle of others, so that `NoOverlap` and what
  depends on it is stated for histories without one (`odd`).  Requests have windows
  that begin before, in and after the intervals or have no bound, without and with
  a minimal duration, for named signals, for all of them, or with arguments that
  are refused.
* SignalConfig: up to three traces of up to two signals each, two addresses and
  two ids, so that both may be repeated; elements nested five deep.
* SignalMask: bytes of three bits and words of nine, with all masks over four
  bytes.  `ValueRight` is about masks within a byte or of whole bytes: of others the
  code adds the last byte unshifted.
* HexReader: three lines out of thirteen, in reads of 1, 3 and 20 characters, a
  buffer of six and packets of three bytes; the longest line is as long as the
  buffer and one longer.  A write that fails has written nothing or one byte.
  `MaxFile` and `MaxOptions` are large enough not to matter here.
* Viewer: one signal with four intervals, of which three are stored when the page is
  loaded, among them a short one and a gap; two lengths of the display, for one of
  which the short one is too short; the display may start from `First` to `End`, so
  that it leaves the blocks on both sides.  `MaxBuilds = 3` groups let two older replies
  come before and after the newest.  Times are pixels of the most detailed view: that
  JavaScript's numbers round nanoseconds is left out.

### Fairness

`LogRotation!FairSpec`: both threads are scheduled (weak fairness of their
steps) and main gets the mutex even when the output thread keeps taking it for a
moment (strong fairness of `swap_file`'s critical section).  Packets, the signal to
stop and spurious wakeups are not promised.  `PBFramer!FairSpec`: the parser and
the main loop run, the poll ends after its timeout, and a cancelled read
returns, which is what `g_input_stream_read` does with a cancellable; that bytes
come is not promised.  `ScheduledTime!FairSpec`: the search is sequential code.
`CaptureLog!FairSpec`: a file that is left gets its name and the program ends, which
LogRotation implements from the fairness of its threads.  `Viewer!FairSpec`: the server
answers and the browser calls back, for some answer or an error; the user may stop
or go on, within `MaxBuilds`.

## Proofs

`PblogProofs` has three parts: the rotation, the filter, and the main loop with both.  Of the
rotation it proves, for all values of the constants, `TypeOK`, `OneAhead`,
the output thread's assertion (`SlotFree`) and `DeleteOpen`, and with `MaxGap <= 1` and
`MaxLag <= 2` also `WriteSafe` and the action property `AdvanceValid`.  None of these is inductive.
The invariant has these parts: `CommonInv` relates the indexes to the history counters (each is its
counter modulo 3, and closes and opens are at most two apart); `OutInv`
says for each place of the output thread which slots are open, with which file;
and `MainInv` says that the slot main holds is the open file of its last swap.  The last
needs that main is at most two swaps ahead of what has been closed: only then is the file pointer found
in the next slot the new one and not that of three swaps ago.  That it is rests on
`DenseInv`: without a silence no packet is later than the period after the file's, so that
a swap takes the first packet of a new period, and that packet finds the output thread
on time.

It also proves that every step of the rotation is a step of
CaptureLog or leaves what it shows alone (`RotationKeepsFiles`), under the same two hypotheses.
Beyond the invariant above it needs what the history says of the files: those
renamed have been closed, the one deleted is never one with a name, and after an
orderly stop (`EarlyQuit` false) nor one with packets (`OnlyUnusedDeleted`).

Of the main loop it proves for all sets of frames `PblogTypeOK`, for all silences that the loop
with its filter implements CaptureLog (`WritesAsPromised`), and with `Silence <= 1` `FiledByTime`,
on top of the filter's invariant.  The file is never later than the period after the one
of the packet that is popped (`LoopInv`), and without a silence it is that packet's (`InTimeInv`);
whatever the filter lets out with its own time is the packet itself;
a request that comes with an older time is followed by the response that let it out.

Of the filter alone it proves for all sets of frames `FilterTypeOK`, `ResponseAfterRequest`,
`OutputInOrder`, `LogComplete` and `NoRepeat`.  The strengthening of the first says that when the
last request was passed on, it is the last entry of the log; of the order, that no
timestamp is later than now and none of the log later than the last request.
`LogComplete` needs beside `FilterTypeOK` that what is stored has its own key and kind; `NoRepeat`,
of two successive exchanges of a key in the log, that the requests differ or the second is
already followed by its response, which differs from that of the first unless it is too
short to be compared (`NoRepeatInv`).  Of the frames it is assumed that only a request has an alternating
bit (`FramesAssumption`): in a response these bits are the station type.

`PBFramerProofs` proves for all lines, sizes of reads, orders of the two threads and
settings of the clock and of the properties `TypeOK`, `WithinBounds`, `ChunkIndependent`, `Genuine` (each packet is a
telegram of the line), `LossCounted` and `PromptWakeup`.  `ParseInv` says for each stage of
`parse_data` what is known of the packet's first bytes: between two reads only `packet_start`
and `packet_len` are kept, so it must follow from these, and it does: the header that has been
read is right, and the packet is not complete.  With it each way out of a stage is a step
(`Advance`) of the parser of the whole line, and what was found before, followed by `Found`
from `packet_start` on, stays the same.  That `Found` satisfies the equation it is defined by
(`FoundEquation`) is proved by induction from the end of the line (`Downward`).  What is assumed: bytes are 0 to 255, and the buffer
has room for the longest telegram of the lines, as 1024 bytes have for 261.  `TimeOrdered` is
proved when a byte takes a whole number `p` of time units and the speed set is the
first one; the invariant (`TimeInv`) says that the last timestamp is at least `p` times
the bytes behind it before the end of the last read.

`SnifferParserProofs` proves for all lines `NeverTooLong`, `FoundClosed` and `FindsAll`.  The bytes in
the buffer have passed the checks that are made at the first, the third and the sixth byte, so
that between two of them the length alone says which (`Checked`): a packet in the buffer
is shorter than its telegram, and SD2 has a length that is admitted.  What is written is then a telegram of
`Telegram`, and what is dropped none that is admitted; on a clean line the packets
found and the telegrams from the current one on are always all of them (`CleanInv`).  What is
assumed of the limits holds of the code's 249 and 256: the longest telegram that is admitted is
shorter than the buffer.

`HexReaderProofs` proves of the writer, for options and packets of all lengths, `TypeOK` and
`BlockAsSaid`.  The strengthening says after each part of a block how much of it has
been written, and that all bodies come in whole words: `write_block` says the length
before its own padding, which is therefore always empty.  Of hex2pcapng it proves for all
inputs and sizes of reads `PacketFits`, that it implements Pcapng's specification
(`Implements`), and so `BlockAsSaid` again.  `packet_buffer` rests on the buffer of the
lines: the line at hand is always shorter than that (`LineIn`, from the invariant
`Reading`), and a byte takes two characters or the last one (`TwoEach`), by induction from
the end of the line as for `Found`.  What is assumed is that the writer takes packets of each
length up to the buffer's.

It also proves `ChunkIndependent` (`SamePackets`).  `PacketsInv` says that packets and time are what
`After` says up to `Place`, the next line of the buffer; a line of the text begins there or, when
the buffer was full, a whole number of buffers before (`Cut`), so that what is left in the buffer
is what `LineOf` leaves of the line.  Between two reads the buffer has no end of a line.  That `After`
satisfies its equation is proved by induction from the first character (`Upward`).

`ScheduledTimeProofs` proves for all patterns, starts and units, and all calendars in which
days follow one another in their months, `TypeOK`, `ParsedExactly` and `FirstMatch`.
The sets have after each item what the items so far mean (`SetsInv`).  The
search is ahead of the start of the file and no minute of the schedule is between
(`AheadInv`), and what the loops around the present one looked for, they have found
(`FoundInv`): a turn of a loop passes over all minutes with the part that was refused, those
of an hour, a day or the rest of a month.  `FirstMatch` is about a search that does not
leave the calendar; that it comes to an end is model-checked.

`SignalLoggerProofs` has three parts, for SignalLogger, for the configuration and for the masks.  It proves for archives of any number of files, packets and signals
`TypeOK`, `StartsAtSample`, `HoldsValue`, `WithinCapture`, `NoOverlap` and `Covered`.  The table alone
does not say where its intervals come from; the strengthening says of what is pending in a
transaction, of the value kept of each signal and of the files still to be read that they
come from the archive.  The last four hold when files are read in their order (`Regular`)
and rest on where a run is (`PositionInv`, `Seen`): what is kept of a signal goes on to there
without a gap, with its latest sample and none of another value since (`KeptAt`); where
nothing is kept, no sample goes on to there (`NoneAt`); a run that has stored all has each
sample in an interval or in what is kept (`AllStored`).  Intervals of different runs are related
by `SpansInv`, which speaks of the archive and not of the run: within an interval every sample
continues the one before it, and where one starts none does.  What is assumed of an
archive (`ArchivesAssumption`) is what pblog and its filter leave: files and packets follow one
another (`CaptureLog`, `OutputInOrder`), and a packet that is older than its file is the
first one, a request that repeats the one before it (`WritesAsPromised`, `LogFiledByTime`): this is
so on a bus that is never silent for a whole period of pblog's schedule.
The filter compares requests of one key, which is finer than a trace: that the trace has
no other request in between is an assumption on the bus, that a master asks a
station for its data with one function code.

Of the answers it proves `ShowsTable`.  Between two runs the table has what one needs to be
answered from (`Apart`): finitely many intervals of a signal, with starts of their own and no
time in common, which is `NoOverlap`, with `LengthInv` that none ends before it starts and
`RowsInv` that no two start together.

Of the configuration it proves for documents of any size, addresses and ids `AssertionsHold`,
`ConfigComplete` and `TracesDeclared`.  How deep the parser is decides which of its pointers
are set (`AtDepth`), so that an element in a wrong place, which is refused before a handler is
called, cannot break an assertion; only the signal being read may be incomplete, and it is the
first of its trace (`Complete`); a trace has the signals of the last element with its
addresses (`InReverse`).  `KeysAssumption`: no address is the null pointer.

Of the masks it proves `ValueRight` for bytes and words of any width.  `MaskInv` says
which bytes of the number `value` has after each turn of the loop (`Taken`), where what is shifted out of the word does not
matter as the mask is no wider than it, and what `value` is once it has been shifted down and
before its sign (`Right`).  A sum with the bits of the sign replaces those above the mask.
The lemmas beneath are about division (`Divided`, `Quotient`, `Digits`) and powers of two;
of these the provers know nothing, and that 2^(n+1) is twice 2^n comes from the
number of subsets of a set (`FS_SUBSET`).

`LogReaderProofs` is about the answer to a request for any table that is `Apart`, any window and
any minimal duration (`AnswerSays`): its changes are in the order of their times (`Rising`), at any
time it has the value of an interval there or none, and in its window it says what the table does.
The loop over the rows looks at one and the one before it; `Scanned` says of the first n rows
that the changes found so far are right before the start of the last one and show that one
from there on.  A next row changes nothing before its own start, except that it may end the one before.

`ViewerProofs` proves for all signals, courses of the table, moves and zooms of the display
and orders of replies `TypeOK`, `DrawnTrue` and `ShowsKnown`.  For the first, what
`AnswerSays` says outside of a request's window matters, since a late reply is drawn in
a block of another view.  The second is of the block of a row and not of the display alone,
so that it stays true wherever the display is moved in it (`Full`).  `RequestsInv` says that
a request with the number of a group asks for this group's own cells, and that its answer is
of no earlier table than the group; a reply that is drawn later hides a value with a
value, or with the mark for too fast, and never with nothing.

The `TypeOK` of these modules are proved and not run; TLC checks the properties
that have a mutant.

Only model-checked: everything under fairness, which are the refinement `KeepsFilesLive` and
what must come about in the framer, the schedule and the viewer, and that nothing deadlocks.  Liveness and
`ENABLED` are beyond the prover.  The library's induction theorems are too, as they take an
operator; what a recursive function computes can still be proved where a set of numbers
does, with the smallest element that is not in it (`WFMin`), as for `Found`, `Telegrams`,
`BytesOf` and `After`.  The properties of the three violated runs are false of
the code; `AdvanceValid` is proved for a bus without silences.

## Plan

Every invariant and action property that the passing runs check is proved.  What could follow:

1. An abstract log of signals that SignalLogger implements; the framer's queue in
   front of Pblog.
2. The rest of the viewer, if it gets state of its own: cursors that follow the
   display, snapping to values.

## Not modelled

Contents and wording of files, warnings and messages; GObject registration;
reference counts (a failed interface description, `pblog.c:247`, and a failed rename
unreference once too often); changes of the local time's offset; of the viewer its timeline, cursors, snapping and
layout, and the rounding of times by JavaScript; pbwriter, a test tool of one thread
that copies a capture to a pseudo terminal; the settings of the serial line and the
GSD table, which have no behaviour of their own; the configuration of Apache.

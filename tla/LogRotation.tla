---------------------------- MODULE LogRotation ----------------------------
(* The rotation of pblog's capture files (src/sniffer/pblog.c).

   Two threads share three LogFile slots.  The main thread writes packets to
   the slot write_file and, when a packet is not before the end of that file,
   moves on to the slot next_file (swap_file).  The output thread opens the
   file of the next slot ahead of time and closes and renames the file main
   has left (create_output_thread).  write_file and next_file are written by
   main alone; a slot's file pointer, written by the output thread alone, is
   what says that a slot is ready.

   Definitions named after another one (ReadyAlways, PastStart, ...)
   are that definition with a plausible mistake; they are used only to show
   that a property depends on the code being right.

   One mutex and one condition variable serve both directions.  A critical
   section is one action: the only place where a thread holds the mutex
   between two actions is the output thread's step from its last look at the
   condition to g_cond_wait (outPc = "sleep"), which matters because app_cleanup
   cancels and signals without the mutex.

   Time counts periods of the swap schedule, so the k-th file opened covers
   the timestamps k-1 to k, its end excluded.  Packets are their timestamps;
   the filter and the contents of the files are left out.                  *)
EXTENDS Integers

CONSTANTS
    MaxTime,    \* bound on the timestamps of the packets
    MaxSwaps,   \* bound on the swaps, after which no packets come
    MaxGap,     \* environment: periods a packet may be later than the one before
    MaxLag,     \* environment: a later packet finds the output thread fewer swaps behind
    EarlyQuit,  \* may the signal to stop come while the output thread is busy?
    IoMayFail   \* may opening, heading or renaming a file fail?

ASSUME BoundsAssumption ==
    MaxTime \in Nat /\ MaxSwaps \in Nat /\ MaxGap \in Nat /\ MaxLag \in Nat
ASSUME FlagsAssumption == EarlyQuit \in BOOLEAN /\ IoMayFail \in BOOLEAN

Slots == 0..2
NULL == 0           \* files and their streams are numbered from 1

VARIABLES
    writeFile, nextFile,        \* app->write_file, app->next_file
    slots,                      \* app->log_files
    cancelled,                  \* app->cancel
    mainPc, log, ts, packet,    \* main: where it is, its log_file, the packet
    outPc, outWrite, outNext,   \* output thread: where it is, its two indexes
    writeChanged, nextChanged, nextSwap,
    swaps, closes, opens,       \* history: how often each index has advanced
    used, renamed, deleted      \* history: files with packets, files by fate

mainVars == <<mainPc, log, ts, packet>>
outVars == <<outPc, outWrite, outNext, writeChanged, nextChanged, nextSwap>>
indexes == <<writeFile, nextFile, swaps>>
counts == <<closes, opens>>
disk == <<used, renamed, deleted>>
vars == <<indexes, slots, cancelled, mainVars, outVars, counts, disk>>

MainPcs == {"idle", "pop", "swap", "wait", "write", "cancel", "signal", "join", "done"}
OutPcs == {"look", "sleep", "wait", "decide", "open", "replace", "header", "publish",
           "signal", "close", "rename", "cancelClose", "cancelDelete", "done"}

LogFile == [start : Nat, end : Nat, file : Nat, stream : Nat]

(* Index arithmetic of pblog.c: indexes of log_files are modulo 3. *)
Succ(i) == (i + 1) % 3

(* The end of a slot's use: both pointers are NULL. *)
ClearedButFile(slot) == [slot EXCEPT !.stream = NULL]
Cleared(slot) == [slot EXCEPT !.stream = NULL, !.file = NULL]

(* Schedule: scheduled_time_next_match only ever moves on, by one period. *)
NextMatch(t) == t + 1

(* Swaps main has made and the output thread has not finished handling. *)
Lag == swaps - closes

InitIndexes == writeFile = 0 /\ nextFile = 1

Init ==
    /\ InitIndexes
    /\ slots = [i \in Slots |-> [start |-> 0, end |-> 0, file |-> NULL, stream |-> NULL]]
    /\ cancelled = FALSE
    /\ mainPc = "idle" /\ log = 0 /\ ts = 0 /\ packet = FALSE
    /\ outPc = "look" /\ outWrite = 0 /\ outNext = 0
    /\ writeChanged = FALSE /\ nextChanged = FALSE /\ nextSwap = 0
    /\ swaps = 0 /\ closes = 0 /\ opens = 0
    /\ used = {} /\ renamed = {} /\ deleted = {}

-----------------------------------------------------------------------------
(* The main thread.                                                         *)

(* Each thread signals only when the other is the one that may be waiting. *)
SignalOut == outPc' = IF outPc = "wait" THEN "look" ELSE outPc
SignalMainForgotten == UNCHANGED mainPc
SignalMain == mainPc' = IF mainPc = "wait" THEN "swap" ELSE mainPc

LockFree == outPc # "sleep"

(* Is there a file in slot i?  swap_file asks it of the slot it moves to. *)
ReadyAlways(i) == TRUE
Ready(i) == slots[i].file # NULL

(* packets_received is dispatched; get_log_file looks at the file pointer of
   the slot it writes without the mutex. *)
Dispatch ==
    /\ mainPc = "idle"
    /\ swaps < MaxSwaps
    /\ packet' = FALSE
    /\ IF slots[writeFile].file # NULL
         THEN mainPc' = "pop" /\ log' = writeFile
         ELSE mainPc' = "swap" /\ UNCHANGED log
    /\ UNCHANGED <<indexes, slots, cancelled, ts, outVars, counts, disk>>

(* Is a packet with timestamp t past the file main writes? *)
PastStart(t) == slots[log].start <= t
Past(t) == slots[log].end <= t

(* A packet is popped and its timestamp compared, without the mutex, with the
   end of the file. *)
PopPacket(t) ==
    /\ mainPc = "pop"
    /\ t <= MaxTime
    /\ ts' = t
    /\ packet' = TRUE
    /\ mainPc' = IF Past(t) THEN "swap" ELSE "write"
    /\ UNCHANGED <<indexes, slots, cancelled, log, outVars, counts, disk>>

PopEmpty ==
    /\ mainPc = "pop"
    /\ mainPc' = "idle"
    /\ UNCHANGED <<indexes, slots, cancelled, log, ts, packet, outVars, counts, disk>>

(* The slot swap_file moves to: the branch for equal indexes comes first. *)
SwapTarget == IF nextFile = writeFile THEN Succ(nextFile) ELSE nextFile

(* swap_file finds the file of the next slot and moves on to it. *)
Swap ==
    /\ mainPc = "swap"
    /\ LockFree
    /\ Ready(SwapTarget)
    /\ writeFile' = SwapTarget
    /\ nextFile' = Succ(SwapTarget)
    /\ swaps' = swaps + 1
    /\ log' = SwapTarget
    /\ mainPc' = IF packet THEN "write" ELSE "pop"
    /\ SignalOut
    /\ UNCHANGED <<slots, cancelled, ts, packet, outWrite, outNext, writeChanged,
                   nextChanged, nextSwap, counts, disk>>

(* swap_file finds no file there and waits on the condition variable. *)
SwapWait ==
    /\ mainPc = "swap"
    /\ LockFree
    /\ ~Ready(SwapTarget)
    /\ nextFile' = SwapTarget
    /\ mainPc' = "wait"
    /\ IF nextFile' # nextFile THEN SignalOut ELSE UNCHANGED outPc
    /\ UNCHANGED <<writeFile, swaps, slots, cancelled, log, ts, packet, outWrite, outNext,
                   writeChanged, nextChanged, nextSwap, counts, disk>>

(* g_cond_wait may return without a signal. *)
SpuriousMain ==
    /\ mainPc = "wait"
    /\ mainPc' = "swap"
    /\ UNCHANGED <<indexes, slots, cancelled, log, ts, packet, outVars, counts, disk>>

(* packet_output; a packet for a closed stream is lost with a warning. *)
WritePacket ==
    /\ mainPc = "write"
    /\ used' = used \cup ({slots[log].stream} \ {NULL})
    /\ mainPc' = "pop"
    /\ UNCHANGED <<indexes, slots, cancelled, log, ts, packet, outVars, counts,
                   renamed, deleted>>

(* SIGINT or SIGTERM ends the main loop, which notices between dispatches. *)
Quit ==
    /\ mainPc = "idle"
    /\ EarlyQuit \/ (outPc = "wait" /\ Lag = 0)
    /\ mainPc' = "cancel"
    /\ UNCHANGED <<indexes, slots, cancelled, log, ts, packet, outVars, counts, disk>>

(* app_cleanup: neither the flag nor the signal is given under the mutex. *)
Cancel ==
    /\ mainPc = "cancel"
    /\ cancelled' = TRUE
    /\ mainPc' = "signal"
    /\ UNCHANGED <<indexes, slots, log, ts, packet, outVars, counts, disk>>

CleanupSignal ==
    /\ mainPc = "signal"
    /\ mainPc' = "join"
    /\ SignalOut
    /\ UNCHANGED <<indexes, slots, cancelled, log, ts, packet, outWrite, outNext,
                   writeChanged, nextChanged, nextSwap, counts, disk>>

(* g_thread_join returns; what is still in the slots is dropped as it is. *)
Join ==
    /\ mainPc = "join"
    /\ outPc = "done"
    /\ slots' = [i \in Slots |-> Cleared(slots[i])]
    /\ mainPc' = "done"
    /\ UNCHANGED <<indexes, cancelled, log, ts, packet, outVars, counts, disk>>

-----------------------------------------------------------------------------
(* The output thread.                                                       *)

(* The condition for which the output thread waits. *)
NoChangeUnlessCancelled == nextFile = outNext /\ writeFile = outWrite
NoChange == nextFile = outNext /\ writeFile = outWrite /\ ~cancelled

(* Under the mutex: go on if an index has changed or on cancellation. *)
Look ==
    /\ outPc = "look"
    /\ IF NoChange
         THEN outPc' = "sleep" /\ UNCHANGED <<nextChanged, writeChanged>>
         ELSE /\ outPc' = "decide"
              /\ nextChanged' = (nextFile # outNext)
              /\ writeChanged' = (writeFile # outWrite)
    /\ UNCHANGED <<indexes, slots, cancelled, mainVars, outWrite, outNext, nextSwap,
                   counts, disk>>

(* g_cond_wait joins the waiters and gives up the mutex. *)
Sleep ==
    /\ outPc = "sleep"
    /\ outPc' = "wait"
    /\ UNCHANGED <<indexes, slots, cancelled, mainVars, outWrite, outNext,
                   writeChanged, nextChanged, nextSwap, counts, disk>>

SpuriousOut ==
    /\ outPc = "wait"
    /\ EarlyQuit \/ mainPc # "cancel"
    /\ outPc' = "look"
    /\ UNCHANGED <<indexes, slots, cancelled, mainVars, outWrite, outNext,
                   writeChanged, nextChanged, nextSwap, counts, disk>>

(* Without the mutex: cancellation first, then the next file, then the old. *)
Decide ==
    /\ outPc = "decide"
    /\ outPc' = CASE cancelled -> "cancelClose"
                  [] ~cancelled /\ nextChanged -> "open"
                  [] OTHER -> "close"
    /\ UNCHANGED <<indexes, slots, cancelled, mainVars, outWrite, outNext,
                   writeChanged, nextChanged, nextSwap, counts, disk>>

(* The next slot gets its period; the code asserts that it has no file. *)
BeginOpen ==
    /\ outPc = "open"
    /\ outNext' = Succ(outNext)
    /\ opens' = opens + 1
    /\ nextSwap' = NextMatch(nextSwap)
    /\ slots' = [slots EXCEPT ![outNext'].start = nextSwap, ![outNext'].end = nextSwap']
    /\ outPc' = "replace"
    /\ UNCHANGED <<indexes, cancelled, mainVars, outWrite, writeChanged, nextChanged,
                   closes, disk>>

(* g_file_replace creates the file; it fails once the program is cancelled. *)
OpenOk ==
    /\ outPc = "replace"
    /\ ~cancelled
    /\ slots' = [slots EXCEPT ![outNext].stream = opens]
    /\ outPc' = "header"
    /\ UNCHANGED <<indexes, cancelled, mainVars, outWrite, outNext, writeChanged,
                   nextChanged, nextSwap, counts, disk>>

(* The thread ends for good when it cannot open a file. *)
OpenFail ==
    /\ outPc = "replace"
    /\ IoMayFail \/ cancelled
    /\ outPc' = "done"
    /\ UNCHANGED <<indexes, slots, cancelled, mainVars, outWrite, outNext,
                   writeChanged, nextChanged, nextSwap, counts, disk>>

HeaderOk ==
    /\ outPc = "header"
    /\ outPc' = "publish"
    /\ UNCHANGED <<indexes, slots, cancelled, mainVars, outWrite, outNext,
                   writeChanged, nextChanged, nextSwap, counts, disk>>

(* A failed section header clears the stream, a failed interface description
   does not; both end the thread. *)
HeaderFail ==
    /\ outPc = "header"
    /\ IoMayFail
    /\ \E s \in {NULL, opens} : slots' = [slots EXCEPT ![outNext].stream = s]
    /\ outPc' = "done"
    /\ UNCHANGED <<indexes, cancelled, mainVars, outWrite, outNext, writeChanged,
                   nextChanged, nextSwap, counts, disk>>

(* Under the mutex the slot gets its file; the signal follows the unlock. *)
Publish ==
    /\ outPc = "publish"
    /\ slots' = [slots EXCEPT ![outNext].file = opens]
    /\ outPc' = "signal"
    /\ UNCHANGED <<indexes, cancelled, mainVars, outWrite, outNext, writeChanged,
                   nextChanged, nextSwap, counts, disk>>

PublishSignal ==
    /\ outPc = "signal"
    /\ SignalMain
    /\ outPc' = IF writeChanged THEN "close" ELSE "look"
    /\ UNCHANGED <<indexes, slots, cancelled, log, ts, packet, outWrite, outNext,
                   writeChanged, nextChanged, nextSwap, counts, disk>>

(* close_log_file has nothing to do for the slot of the start. *)
CloseNothing ==
    /\ outPc = "close"
    /\ slots[outWrite].file = NULL
    /\ outWrite' = Succ(outWrite)
    /\ closes' = closes + 1
    /\ outPc' = "look"
    /\ UNCHANGED <<indexes, slots, cancelled, mainVars, outNext, writeChanged,
                   nextChanged, nextSwap, opens, disk>>

(* close_log_file, without the mutex: the stream first ... *)
CloseStream ==
    /\ outPc = "close"
    /\ slots[outWrite].file # NULL
    /\ slots' = [slots EXCEPT ![outWrite].stream = NULL]
    /\ outPc' = "rename"
    /\ UNCHANGED <<indexes, cancelled, mainVars, outWrite, outNext, writeChanged,
                   nextChanged, nextSwap, counts, disk>>

(* g_file_set_display_name; its failure is only reported. *)
GiveName(file) ==
    \/ renamed' = renamed \cup {file}
    \/ IoMayFail /\ UNCHANGED renamed

(* ... then the file gets its final name and its pointer is cleared. *)
Rename ==
    /\ outPc = "rename"
    /\ GiveName(slots[outWrite].file)
    /\ slots' = [slots EXCEPT ![outWrite] = Cleared(@)]
    /\ outWrite' = Succ(outWrite)
    /\ closes' = closes + 1
    /\ outPc' = "look"
    /\ UNCHANGED <<indexes, cancelled, mainVars, outNext, writeChanged, nextChanged,
                   nextSwap, opens, used, deleted>>

(* Has the output thread a file that it takes for unused? *)
NextUnused == outNext # outWrite

(* On cancellation the file being written is closed, with the time of day
   as its end, and renamed. *)
CancelClose ==
    /\ outPc = "cancelClose"
    /\ IF slots[outWrite].file # NULL
         THEN /\ GiveName(slots[outWrite].file)
              /\ slots' = [slots EXCEPT ![outWrite] = [Cleared(@) EXCEPT !.end = ts + 1]]
         ELSE UNCHANGED <<slots, renamed>>
    /\ outPc' = IF NextUnused THEN "cancelDelete" ELSE "done"
    /\ UNCHANGED <<indexes, cancelled, mainVars, outWrite, outNext, writeChanged,
                   nextChanged, nextSwap, counts, used, deleted>>

(* "Close and delete unused file" *)
CancelDelete ==
    /\ outPc = "cancelDelete"
    /\ deleted' = deleted \cup {slots[outNext].file}
    /\ slots' = [slots EXCEPT ![outNext] = Cleared(@)]
    /\ outPc' = "done"
    /\ UNCHANGED <<indexes, cancelled, mainVars, outWrite, outNext, writeChanged,
                   nextChanged, nextSwap, counts, used, renamed>>

-----------------------------------------------------------------------------
(* The assumption on time: between a packet and a later one the output thread
   gets less than MaxLag swaps behind, unless it has ended.  Packets of one
   timestamp may come in a burst, which leaves it no time at all. *)
OnTime == Lag < MaxLag \/ outPc = "done"

Arrive ==
    /\ swaps < MaxSwaps
    /\ \E t \in ts..(ts + MaxGap) : (t > ts => OnTime) /\ PopPacket(t)

(* What main does without waiting for anything outside the program. *)
MainStep == PopEmpty \/ Swap \/ SwapWait \/ WritePacket \/ Cancel \/ CleanupSignal \/ Join

OutStep ==
    \/ Look \/ Sleep \/ Decide
    \/ BeginOpen \/ OpenOk \/ OpenFail \/ HeaderOk \/ HeaderFail \/ Publish \/ PublishSignal
    \/ CloseNothing \/ CloseStream \/ Rename
    \/ CancelClose \/ CancelDelete

Environment == Dispatch \/ Arrive \/ Quit \/ SpuriousMain \/ SpuriousOut

Next == MainStep \/ OutStep \/ Environment

Spec == Init /\ [][Next]_vars

(* Both threads are scheduled, and main gets the mutex even if the output
   thread keeps taking it for a moment.  Packets, signals and spurious wakeups
   are not promised. *)
FairSpec == Spec /\ WF_vars(MainStep) /\ SF_vars(Swap \/ SwapWait) /\ WF_vars(OutStep)

-----------------------------------------------------------------------------
(* Every variable has its type. *)
TypeOK ==
    /\ writeFile \in Slots /\ nextFile \in Slots
    /\ slots \in [Slots -> LogFile]
    /\ cancelled \in BOOLEAN
    /\ mainPc \in MainPcs /\ log \in Slots /\ ts \in Nat /\ packet \in BOOLEAN
    /\ outPc \in OutPcs /\ outWrite \in Slots /\ outNext \in Slots
    /\ writeChanged \in BOOLEAN /\ nextChanged \in BOOLEAN /\ nextSwap \in Nat
    /\ swaps \in Nat /\ closes \in Nat /\ opens \in Nat
    /\ used \subseteq Nat /\ renamed \subseteq Nat /\ deleted \subseteq Nat

(* The comment at app->next_file: "Always equal to or one ahead of write_file".
   It is in fact always one ahead, so swap_file's branch for equal indexes is
   never taken. *)
OneAhead == nextFile = Succ(writeFile)

(* The assertion of the output thread, log_file->file == NULL: it never opens
   a file over one it has not closed. *)
SlotFree == outPc = "open" => slots[Succ(outNext)].file = NULL

(* A packet is written to the open stream of the file main has swapped to, and
   never to one the output thread is closing, unless a silence came before. *)
WriteSafe == mainPc = "write" => slots[log].stream = swaps /\ slots[log].file = swaps

(* The comment at app->write_file: "Only advances if next file is valid", that
   is, if it is the open file of the next period and not one already used.
   swap_file takes any file pointer for that, also the one that the output
   thread has not yet cleared: after a silence a burst gets to it. *)
AdvanceValid ==
    [][swaps' # swaps => /\ slots[writeFile'].file = swaps'
                         /\ slots[writeFile'].stream = swaps']_vars

(* Cancellation finds an open file in the slot it is about to delete: the code
   uses its stream and file without a test. *)
DeleteOpen == outPc = "cancelDelete" => slots[outNext].file # NULL /\ slots[outNext].stream # NULL

(* "Close and delete unused file": what cancellation deletes holds no packets. *)
UnusedDeleted == used \cap deleted = {}

(* Main does not wait for ever for the next file. *)
SwapReturns == (mainPc \in {"swap", "wait"}) ~> (mainPc \in {"pop", "write"})

(* "Wait for a change": the output thread notices cancellation, so that
   app_cleanup, which joins it, ends. *)
CleanupEnds == cancelled ~> (mainPc = "done")
=============================================================================

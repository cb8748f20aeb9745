------------------------------- MODULE Pblog -------------------------------
(* pblog --filter: the main loop (packets_received in src/sniffer/pblog.c)
   between the filter (PBFilter) and the files (CaptureLog, which LogRotation
   implements).

   Each packet first moves the log to the file of its time; then the filter is
   told where to put what it lets out, and given the packet.  What it lets out
   may be a request that came before, when another file was written.

   PBFilter's timestamps number the packets.  What the files go by is the
   period of the swap schedule that a packet comes in, as in LogRotation: the
   f-th file covers the time f-1 to f, its end excluded.  Any number of packets
   may come in a period, and none in Silence periods less one.              *)
EXTENDS PBFilter, Functions

CONSTANTS
    Silence,    \* periods a packet may be later than the one before
    MaxPeriod   \* bound on the periods

ASSUME SilenceAssumption == Silence \in Nat /\ MaxPeriod \in Nat

VARIABLES
    periods,    \* the periods in which the packets popped have come
    pc,         \* "pop", "swap" or "input", in the loop of packets_received
    file,       \* log_file, as the number of its file
    place       \* the files that the packets of out were written to

pblogVars == <<filterVars, periods, pc, file, place>>

(* The period of the last packet that has been popped. *)
Popped == IF periods = <<>> THEN 0 ELSE periods[Len(periods)]

Log == INSTANCE CaptureLog WITH
    Gap <- Silence, Orderly <- TRUE, Reliable <- TRUE,
    current <- file, now <- Popped, used <- Range(place),
    final <- {}, discarded <- {}, stopped <- FALSE, ended <- FALSE

PblogInit == FilterInit /\ periods = <<>> /\ pc = "pop" /\ file = 0 /\ place = <<>>

(* get_log_file: the first packets find no file. *)
FirstFile ==
    /\ pc = "pop" /\ file = 0
    /\ file' = 1
    /\ UNCHANGED <<filterVars, periods, pc, place>>

EndOf(f) == f

(* Is a packet of period t past the end of the file? *)
PastFileByOne(f, t) == EndOf(f) < t
PastFile(f, t) == EndOf(f) <= t

Pop ==
    /\ pc = "pop" /\ file # 0 /\ now < MaxInputs
    /\ \E t \in Popped..(Popped + Silence) :
           /\ t <= MaxPeriod
           /\ periods' = Append(periods, t)
           /\ pc' = IF PastFile(file, t) THEN "swap" ELSE "input"
    /\ UNCHANGED <<filterVars, file, place>>

(* swap_file, once, to the next file, as LogRotation has it while main does not
   get a round of the slots ahead. *)
SwapFile ==
    /\ pc = "swap"
    /\ file' = file + 1
    /\ pc' = "input"
    /\ UNCHANGED <<filterVars, periods, place>>

(* pb_filter_set_output gives the filter the file before each packet. *)
OutputFirst == 1
Output == file

(* pb_filter_input, and packet_output for all that it lets out. *)
Input ==
    /\ pc = "input"
    /\ FilterNext
    /\ place' = place \o [i \in 1..(Len(out') - Len(out)) |-> Output]
    /\ pc' = "pop"
    /\ UNCHANGED <<periods, file>>

PblogNext == FirstFile \/ Pop \/ SwapFile \/ Input

PblogSpec == PblogInit /\ [][PblogNext]_pblogVars

-----------------------------------------------------------------------------
PblogTypeOK ==
    /\ FilterTypeOK
    /\ pc \in {"pop", "swap", "input"} /\ file \in Nat
    /\ periods \in Seq(Nat) /\ Len(periods) = now + (IF pc = "pop" THEN 0 ELSE 1)
    /\ place \in Seq(Nat) /\ Len(place) = Len(out)

StartOf(f) == EndOf(f - 1)
PeriodOf(p) == periods[p.ts]
InPeriodOf(i) == StartOf(place[i]) <= PeriodOf(out[i]) /\ PeriodOf(out[i]) < EndOf(place[i])

(* A request that was held back, with the response that let it out. *)
HeldBack(i) ==
    /\ IsRequest(out[i]) /\ PeriodOf(out[i]) < StartOf(place[i])
    /\ i < Len(out) /\ ~IsRequest(out[i + 1])
    /\ out[i + 1].key = out[i].key /\ place[i + 1] = place[i] /\ InPeriodOf(i + 1)

(* Every packet in a file belongs to the period of the file, but for a request
   that was held back when an earlier file was written, and then the response
   to it is next in the file.  This is so on a bus that is never silent for a
   whole period (Silence <= 1): swap_file is called once for a packet, so after
   a silence the files lag behind the packets. *)
FiledByTime == \A i \in 1..Len(out) : InPeriodOf(i) \/ HeldBack(i)

(* The main loop writes to the files as CaptureLog promises: one after the
   other, none before its period, and after a silence to those whose period is
   over. *)
WritesAsPromised == Log!Spec
=============================================================================

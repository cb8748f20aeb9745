----------------------------- MODULE CaptureLog -----------------------------
(* What pblog promises of its capture files (src/sniffer/pblog.c), without the
   threads, the three slots and the mutex that keep the promise: one file per
   period of the swap schedule, each written in turn by the packets of the
   bus, given its final name when it is left, and never written again.

   Files are numbered from 1; the f-th covers the timestamps f-1 to f, its end
   excluded.  LogRotation implements this specification.                    *)
EXTENDS Integers

CONSTANTS
    Gap,        \* periods a packet may be later than the one before
    Orderly,    \* does the signal to stop find no file still to be closed?
    Reliable    \* do all files get their names?

VARIABLES
    current,    \* the file that is written, 0 before the first
    now,        \* the timestamp of the last packet
    used,       \* the files with packets
    final,      \* the files with their final names
    discarded,  \* the files made ahead and deleted
    stopped,    \* is the program asked to stop?
    ended       \* has it stopped?

vars == <<current, now, used, final, discarded, stopped, ended>>

Init ==
    /\ current = 0 /\ now = 0
    /\ used = {} /\ final = {} /\ discarded = {}
    /\ stopped = FALSE /\ ended = FALSE

(* A packet comes; packets come in order. *)
Receive ==
    /\ ~stopped
    /\ \E t \in now..(now + Gap) : now' = t
    /\ UNCHANGED <<current, used, final, discarded, stopped, ended>>

(* The next file, which is the next period's and does not start later than
   the packet that is to be written to it. *)
Move ==
    /\ ~stopped
    /\ current <= now
    /\ current' = current + 1
    /\ UNCHANGED <<now, used, final, discarded, stopped, ended>>

(* A packet is written to the current file.  With a packet in every period it
   is inside the period of the file; after a silence it may be past its end. *)
Write ==
    /\ ~stopped
    /\ current # 0 /\ current <= now + 1
    /\ Gap <= 1 => now < current
    /\ used' = used \cup {current}
    /\ UNCHANGED <<current, now, final, discarded, stopped, ended>>

Stop ==
    /\ ~stopped
    /\ stopped' = TRUE
    /\ UNCHANGED <<current, now, used, final, discarded, ended>>

(* Is f to be closed: has it been left, or will it not be written any more? *)
Left(f) == f \in 1..current /\ (f < current \/ stopped)

(* A file that is left gets its final name, once. *)
Finish(f) ==
    /\ Left(f)
    /\ f \notin final \cup discarded
    /\ final' = final \cup {f}
    /\ UNCHANGED <<current, now, used, discarded, stopped, ended>>

(* The file made ahead is deleted: at most one, never one with a final name,
   and when the stop is orderly not one with packets. *)
Discard ==
    /\ stopped
    /\ discarded = {}
    /\ \E f \in 1..(current + 1) \ final :
           /\ Orderly => f \notin used
           /\ discarded' = {f}
    /\ UNCHANGED <<current, now, used, final, stopped, ended>>

(* After an orderly stop with nothing failing, no packet is left in a file
   without its final name. *)
End ==
    /\ stopped /\ ~ended
    /\ Orderly /\ Reliable => used \subseteq final
    /\ ended' = TRUE
    /\ UNCHANGED <<current, now, used, final, discarded, stopped>>

FinishNext == \E f \in 1..current : Finish(f)

Next == Receive \/ Move \/ Write \/ Stop \/ FinishNext \/ Discard \/ End

Spec == Init /\ [][Next]_vars

(* Every file that is left is finished, and the program ends when asked. *)
FairSpec == Spec /\ WF_vars(FinishNext) /\ WF_vars(End)
=============================================================================

------------------------- MODULE RotationRefinement -------------------------
(* LogRotation implements CaptureLog: its two threads, three slots and one
   condition variable are seen from outside as one sequence of files.

   The file being written is the number of swaps main has made; which slot
   it is in, and how far the output thread has come, is not seen.           *)
EXTENDS LogRotation

Files == INSTANCE CaptureLog WITH
    Gap <- MaxGap, Orderly <- ~EarlyQuit, Reliable <- ~IoMayFail,
    current <- swaps, now <- ts, final <- renamed, discarded <- deleted,
    stopped <- cancelled, ended <- (mainPc = "done")

(* On a bus that is never silent for a whole period, whatever the threads do,
   packets go to one file after the other, each left for good before it is
   named, and when the stop is orderly only an unused file is deleted. *)
KeepsFiles == Files!Spec

(* ... and when nothing fails and the stop is orderly, every file that is left
   gets its name, and pblog ends. *)
KeepsFilesLive == Files!FairSpec
=============================================================================

---------------------------- MODULE PblogProofs ----------------------------
(* Proofs about pblog: its files, its filter and the main loop around it.

   The first part is about LogRotation, and that it implements CaptureLog.  The inductive
   invariant of LogRotation has two halves.

   OutInv is about the output thread alone: which files its three slots hold
   at each of its steps.  The files are numbered, so the indexes modulo 3 are
   the remainders of counters, and the slots always hold a window of at most
   three consecutive files.  It needs no assumption on time, since the output
   thread is the only one to change a slot.

   MainInv places main's file in that window.  It needs a bus that is never
   silent for a whole period and an output thread that has at most one swap
   left to handle when a period begins (MaxGap <= 1, MaxLag <= 2): with two
   still to be handled, the next swap would reach a slot whose old file is not closed
   yet.  That there are no more rests on DenseInv, which makes every swap wait
   for the first packet of its period.

   For CaptureLog, FilesInv adds what has become of the files that are in no
   slot any more.

   The second part is about PBFilter alone: what the log contains, for every set
   of frames and however many of them arrive; the third about Pblog: the invariants of the filter
   carry over to the main loop, and with the place of the packet at hand,
   LoopInv and InTimeInv, they say which file everything it lets out is in. *)
EXTENDS Pblog, RotationRefinement, TLAPS

InCleanup == mainPc \in {"signal", "join", "done"}

(* Slot of the f-th file; the slot holds that file, open. *)
At(f) == f % 3
Holds(s, f) == /\ s[At(f)].file = f /\ s[At(f)].stream = f
               /\ s[At(f)].start + 1 = f /\ s[At(f)].end = f
HoldsOld(s, f) == IF f = 0 THEN s[At(0)].file = NULL ELSE Holds(s, f)
Empty(s, f) == s[At(f)].file = NULL

(* One file ahead of the one being closed next, or nothing opened yet. *)
Steady ==
    \/ opens = 0 /\ closes = 0 /\ Empty(slots, 0) /\ Empty(slots, 1) /\ Empty(slots, 2)
    \/ /\ opens = closes + 1
       /\ HoldsOld(slots, closes) /\ Holds(slots, opens) /\ Empty(slots, opens + 1)

(* A file is being opened. *)
Opening ==
    \/ /\ ~writeChanged /\ opens = 1 /\ closes = 0
       /\ Empty(slots, 0) /\ Empty(slots, 1) /\ Empty(slots, 2)
    \/ /\ writeChanged /\ opens = closes + 2
       /\ HoldsOld(slots, closes) /\ Holds(slots, opens - 1) /\ Empty(slots, opens)

(* It is published, and the file main has left is still there. *)
Three == opens = closes + 2 /\ Holds(slots, opens - 1) /\ Holds(slots, opens)

OutInv ==
    /\ outWrite = closes % 3 /\ outNext = opens % 3 /\ nextSwap = opens
    /\ outPc \in {"look", "sleep", "wait", "decide", "open", "cancelClose"} => Steady
    /\ outPc = "decide" => \/ opens = 0 /\ nextChanged /\ ~writeChanged
                           \/ opens # 0 /\ nextChanged = writeChanged /\ (nextChanged \/ cancelled)
    /\ outPc = "open" => (writeChanged <=> opens # 0)
    /\ outPc \in {"replace", "header", "publish"} => Opening
    /\ outPc = "done" /\ ~cancelled => Opening
    /\ outPc \in {"header", "publish"} => /\ slots[outNext].stream = opens
    /\ outPc \in {"replace", "header", "publish"} =>
           slots[outNext].start + 1 = opens /\ slots[outNext].end = opens
    /\ outPc = "signal" => IF writeChanged THEN Three /\ HoldsOld(slots, closes)
                                           ELSE Steady /\ opens = 1
    /\ outPc = "close" => Three /\ HoldsOld(slots, closes)
    /\ outPc = "rename" => Three /\ closes # 0 /\ slots[outWrite].file = closes
    /\ outPc = "cancelDelete" => slots[outNext].file # NULL /\ slots[outNext].stream # NULL
    /\ outPc \in {"cancelClose", "cancelDelete"} => cancelled

Published == IF outPc \in {"replace", "header", "publish", "done"} THEN opens - 1 ELSE opens

MainInv ==
    /\ writeFile = swaps % 3
    /\ closes <= swaps /\ swaps <= closes + 2
    /\ ~cancelled => swaps <= Published
    /\ outPc \in {"decide", "open", "replace", "header", "publish", "signal", "close", "rename"}
          /\ writeChanged => closes < swaps
    /\ outPc \in {"close", "rename"} => writeChanged
    /\ mainPc \in {"pop", "write"} => log = writeFile /\ swaps # 0
    /\ mainPc \in {"swap", "wait"} => IF packet THEN swaps <= ts /\ swaps # 0 ELSE swaps = 0
    /\ mainPc \in {"swap", "wait"} /\ packet => swaps <= closes + 1
    /\ swaps <= ts + 1

(* With a packet in every period main is never more than one file behind. *)
DenseInv ==
    /\ swaps = 0 => ts = 0
    /\ mainPc \in {"idle", "pop", "write"} /\ swaps # 0 => ts < swaps
    /\ mainPc \in {"swap", "wait"} /\ packet => ts = swaps

CommonInv == (cancelled <=> InCleanup) /\ OneAhead /\ (opens = 0 => swaps = 0 /\ writeFile = 0)

IInv == TypeOK /\ CommonInv /\ OutInv
IInvLag == IInv /\ MainInv /\ DenseInv

-----------------------------------------------------------------------------
(* Three consecutive files have three different slots, and there is no fourth. *)
LEMMA ModThree ==
    ASSUME NEW n \in Nat
    PROVE  /\ n % 3 \in Slots
           /\ Succ(n % 3) = (n + 1) % 3 /\ Succ((n + 1) % 3) = (n + 2) % 3
           /\ Succ((n + 2) % 3) = n % 3
           /\ n % 3 # (n + 1) % 3 /\ n % 3 # (n + 2) % 3 /\ (n + 1) % 3 # (n + 2) % 3
           /\ (n + 3) % 3 = n % 3
           /\ \A i \in Slots : i = n % 3 \/ i = (n + 1) % 3 \/ i = (n + 2) % 3
BY DEF Succ, Slots

LEMMA SuccType == \A i \in Slots : Succ(i) \in Slots /\ Succ(i) # i
BY DEF Succ, Slots

(* Writing two of the pointers of a slot keeps its type. *)
LEMMA ClearedType == \A s \in LogFile : Cleared(s) \in LogFile
BY DEF Cleared, LogFile, NULL

(* Naming a file adds its number. *)
LEMMA GiveNameType ==
    ASSUME renamed \subseteq Nat, NEW f \in Nat, GiveName(f)
    PROVE  renamed' \subseteq Nat
BY DEF GiveName

-----------------------------------------------------------------------------
(* Every step of the program keeps the types. *)
LEMMA TypeStep == TypeOK /\ [Next]_vars => TypeOK'
<1> SUFFICES ASSUME TypeOK, [Next]_vars PROVE TypeOK'
  OBVIOUS
<1> USE BoundsAssumption, FlagsAssumption
    DEF TypeOK, MainPcs, OutPcs, LogFile, indexes, mainVars, outVars, counts, disk
<1>1. CASE Dispatch
  BY <1>1 DEF Dispatch
<1>2. CASE PopEmpty
  BY <1>2 DEF PopEmpty
<1>3. CASE Swap
  BY <1>3, SuccType DEF Swap, SwapTarget, SignalOut
<1>4. CASE SwapWait
  BY <1>4, SuccType DEF SwapWait, SwapTarget, SignalOut
<1>5. CASE SpuriousMain
  BY <1>5 DEF SpuriousMain
<1>6. CASE WritePacket
  BY <1>6 DEF WritePacket, NULL
<1>7. CASE Quit
  BY <1>7 DEF Quit
<1>8. CASE Cancel
  BY <1>8 DEF Cancel
<1>9. CASE CleanupSignal
  BY <1>9 DEF CleanupSignal, SignalOut
<1>10. CASE Join
  BY <1>10, ClearedType DEF Join, Cleared
<1>11. CASE Look
  BY <1>11 DEF Look
<1>12. CASE Sleep
  BY <1>12 DEF Sleep
<1>13. CASE SpuriousOut
  BY <1>13 DEF SpuriousOut
<1>14. CASE Decide
  BY <1>14 DEF Decide
<1>15. CASE BeginOpen
  BY <1>15, SuccType DEF BeginOpen, NextMatch
<1>16. CASE OpenOk
  BY <1>16 DEF OpenOk
<1>17. CASE OpenFail
  BY <1>17 DEF OpenFail
<1>18. CASE HeaderOk
  BY <1>18 DEF HeaderOk
<1>19. CASE HeaderFail
  BY <1>19 DEF HeaderFail, NULL
<1>20. CASE Publish
  BY <1>20 DEF Publish
<1>21. CASE PublishSignal
  BY <1>21 DEF PublishSignal, SignalMain
<1>22. CASE CloseNothing
  BY <1>22, SuccType DEF CloseNothing
<1>23. CASE CloseStream
  BY <1>23 DEF CloseStream, NULL
<1>24. CASE Rename
  <2>1. renamed' \subseteq Nat
    BY <1>24, GiveNameType DEF Rename
  <2> QED
    BY <1>24, <2>1, SuccType, ClearedType DEF Rename
<1>25. CASE CancelClose
  <2>1. renamed' \subseteq Nat
    BY <1>25, GiveNameType DEF CancelClose
  <2>2. slots' \in [Slots -> LogFile]
    <3>1. [Cleared(slots[outWrite]) EXCEPT !.end = ts + 1] \in LogFile
      <4>1. Cleared(slots[outWrite]) \in LogFile
        BY ClearedType
      <4>2. ts + 1 \in Nat
        OBVIOUS
      <4> HIDE DEF TypeOK
      <4> QED
        BY <4>1, <4>2
    <3> QED
      BY <1>25, <3>1 DEF CancelClose
  <2> QED
    BY <1>25, <2>1, <2>2 DEF CancelClose
<1>26. CASE CancelDelete
  BY <1>26, ClearedType DEF CancelDelete
<1>27. ASSUME NEW t \in ts..(ts + MaxGap), PopPacket(t) PROVE TypeOK'
  BY <1>27 DEF PopPacket
<1>28. CASE UNCHANGED vars
  BY <1>28 DEF vars
<1> QED
  BY <1>1, <1>2, <1>3, <1>4, <1>5, <1>6, <1>7, <1>8, <1>9, <1>10, <1>11, <1>12, <1>13, <1>14,
     <1>15, <1>16, <1>17, <1>18, <1>19, <1>20, <1>21, <1>22, <1>23, <1>24, <1>25, <1>26,
     <1>27, <1>28
     DEF Next, MainStep, OutStep, Environment, Arrive

(* The first state has the types. *)
LEMMA TypeInit == Init => TypeOK
<1> SUFFICES ASSUME Init PROVE TypeOK
  OBVIOUS
<1>1. slots \in [Slots -> LogFile]
  BY DEF Init, LogFile, NULL
<1>2. mainPc \in MainPcs /\ outPc \in OutPcs
  BY DEF Init, MainPcs, OutPcs
<1>3. writeFile \in Slots /\ nextFile \in Slots /\ 0 \in Slots
  BY DEF Init, InitIndexes, Slots
<1> QED
  BY <1>1, <1>2, <1>3 DEF Init, TypeOK

(* The type invariant, for every value of the constants: in particular the
   indexes never leave log_files[3]. *)
THEOREM TypeCorrect == Spec => []TypeOK
<1>1. Init => TypeOK
  BY TypeInit
<1>2. TypeOK /\ [Next]_vars => TypeOK'
  BY TypeStep
<1> QED
  BY <1>1, <1>2, PTL DEF Spec

-----------------------------------------------------------------------------
(* What is known of a slot stays known when only other slots are written. *)
LEMMA SlotFrame ==
    ASSUME NEW s, NEW t, NEW i \in Slots, \A j \in Slots \ {i} : t[j] = s[j],
           NEW f \in Nat, At(f) # i
    PROVE  /\ Holds(s, f) => Holds(t, f)
           /\ HoldsOld(s, f) => HoldsOld(t, f)
           /\ Empty(s, f) => Empty(t, f)
<1>1. At(f) \in Slots /\ t[At(f)] = s[At(f)]
  BY ModThree DEF At
<1> QED
  BY <1>1 DEF Holds, HoldsOld, Empty, At

(* The file being opened is outside the window that Opening describes. *)
LEMMA OpeningFrame ==
    ASSUME Opening, opens \in Nat, closes \in Nat, outNext = opens % 3,
           UNCHANGED <<opens, closes, outNext, writeChanged>>,
           \A i \in Slots \ {outNext} : slots'[i] = slots[i],
           slots'[outNext].file = slots[outNext].file
    PROVE  Opening'
<1>1. \A i \in Slots : slots'[i].file = slots[i].file
  OBVIOUS
<1>2. CASE writeChanged
  <2>1. /\ opens = closes + 2
        /\ HoldsOld(slots, closes) /\ Holds(slots, opens - 1) /\ Empty(slots, opens)
    BY <1>2 DEF Opening
  <2>2. /\ At(closes) # outNext /\ At(opens - 1) # outNext /\ opens - 1 \in Nat
        /\ outNext \in Slots
    BY <2>1, ModThree DEF At
  <2>3. HoldsOld(slots', closes) /\ Holds(slots', opens - 1)
    BY <2>1, <2>2, SlotFrame
  <2>4. Empty(slots', opens)
    BY <1>1, <2>1, <2>2 DEF Empty, At
  <2> QED
    BY <1>2, <2>1, <2>3, <2>4 DEF Opening
<1>3. CASE ~writeChanged
  BY <1>1, <1>3 DEF Opening, Empty, At, Slots
<1> QED
  BY <1>2, <1>3

(* What main does leaves the output thread's half alone, but for waking it. *)
LEMMA OutFrame ==
    ASSUME OutInv, cancelled => cancelled',
           UNCHANGED <<slots, counts, outWrite, outNext, writeChanged, nextChanged, nextSwap>>,
           outPc' = outPc \/ (outPc = "wait" /\ outPc' = "look")
    PROVE  OutInv'
BY DEF OutInv, counts, Steady, Opening, Three, Holds, HoldsOld, Empty

(* The output thread's half of the invariant is inductive. *)
LEMMA OutInvStep == IInv /\ [Next]_vars => OutInv'
<1> SUFFICES ASSUME IInv, [Next]_vars PROVE OutInv'
  OBVIOUS
<1> USE DEF IInv
<1>1. CASE Dispatch \/ PopEmpty \/ SpuriousMain \/ WritePacket \/ Quit \/ Cancel
  BY <1>1, OutFrame DEF Dispatch, PopEmpty, SpuriousMain, WritePacket, Quit, Cancel,
     outVars, TypeOK
<1>2. ASSUME NEW t \in ts..(ts + MaxGap), PopPacket(t) PROVE OutInv'
  BY <1>2, OutFrame DEF PopPacket, outVars
<1>3. CASE Swap \/ SwapWait \/ CleanupSignal
  BY <1>3, OutFrame DEF Swap, SwapWait, CleanupSignal, SignalOut, indexes, outVars
<1>4. CASE Join
  BY <1>4 DEF Join, outVars, counts, OutInv, CommonInv, InCleanup
<1>5. CASE Look
  <2>1. Steady' /\ Steady
    BY <1>5 DEF Look, counts, OutInv, Steady, Holds, HoldsOld, Empty
  <2>2. CASE opens = 0
    <3>1. nextFile # outNext /\ writeFile = outWrite
      BY <2>1, <2>2 DEF Steady, CommonInv, OneAhead, Succ, OutInv, TypeOK
    <3> QED
      BY <1>5, <2>1, <2>2, <3>1 DEF Look, counts, OutInv
  <2>3. CASE opens # 0
    <3>1. outWrite \in Slots /\ writeFile \in Slots /\ outNext = Succ(outWrite)
      BY <2>1, <2>3, ModThree DEF Steady, OutInv, TypeOK
    <3>2. nextFile # outNext <=> writeFile # outWrite
      BY <3>1 DEF CommonInv, OneAhead, Succ, Slots
    <3> QED
      BY <1>5, <2>1, <2>3, <3>2 DEF Look, NoChange, counts, OutInv, TypeOK
  <2> QED
    BY <2>2, <2>3
<1>6. CASE Sleep \/ SpuriousOut
  BY <1>6 DEF Sleep, SpuriousOut, counts, OutInv, Steady, Holds, HoldsOld, Empty
<1>7. CASE Decide
  BY <1>7 DEF Decide, counts, OutInv, Steady, Holds, HoldsOld, Empty, TypeOK, NULL
<1>8. CASE BeginOpen
  <2>1. /\ opens \in Nat /\ closes \in Nat /\ opens' = opens + 1 /\ closes' = closes
        /\ outNext' = At(opens + 1) /\ At(opens + 1) \in Slots
        /\ nextSwap = opens /\ nextSwap' = opens + 1
    <3>1. opens \in Nat /\ closes \in Nat /\ outNext = opens % 3 /\ nextSwap = opens
      BY DEF OutInv, TypeOK
    <3>2. outNext' = Succ(outNext)
      BY <1>8 DEF BeginOpen
    <3> QED
      BY <1>8, <3>1, <3>2, ModThree DEF BeginOpen, NextMatch, At
  <2>2. \A i \in Slots \ {outNext'} : slots'[i] = slots[i]
    BY <1>8, <2>1 DEF BeginOpen, TypeOK
  <2>3. /\ slots'[outNext'].file = slots[outNext'].file
        /\ slots'[outNext'].start = opens /\ slots'[outNext'].end = opens + 1
    BY <1>8, <2>1 DEF BeginOpen, TypeOK, LogFile
  <2>4. \A i \in Slots : slots'[i].file = slots[i].file
    BY <2>2, <2>3
  <2>5. Opening'
    <3>1. CASE opens = 0
      BY <1>8, <2>1, <2>4, <3>1 DEF BeginOpen, OutInv, Steady, Opening, Empty, At, Slots
    <3>2. CASE opens # 0
      <4>1. /\ opens = closes + 1
            /\ HoldsOld(slots, closes) /\ Holds(slots, opens) /\ Empty(slots, opens + 1)
        BY <1>8, <3>2 DEF BeginOpen, OutInv, Steady
      <4>2. HoldsOld(slots', closes) /\ Holds(slots', opens)
        <5>1. At(closes) # outNext' /\ At(opens) # outNext'
          BY <2>1, <4>1, ModThree DEF At
        <5> QED
          BY <2>1, <2>2, <4>1, <5>1, SlotFrame
      <4>3. Empty(slots', opens + 1)
        BY <2>1, <2>4, <4>1 DEF Empty
      <4> QED
        BY <1>8, <2>1, <3>2, <4>1, <4>2, <4>3 DEF BeginOpen, OutInv, Opening
    <3> QED
      BY <3>1, <3>2
  <2> QED
    BY <1>8, <2>1, <2>3, <2>5 DEF BeginOpen, OutInv, At
<1>9. CASE OpenOk
  <2>1. \A i \in Slots \ {outNext} : slots'[i] = slots[i]
    BY <1>9 DEF OpenOk, TypeOK
  <2>2. /\ slots'[outNext].stream = opens /\ slots'[outNext].file = slots[outNext].file
        /\ slots'[outNext].start = slots[outNext].start
        /\ slots'[outNext].end = slots[outNext].end
    BY <1>9 DEF OpenOk, TypeOK, LogFile
  <2>3. Opening'
    BY <1>9, <2>1, <2>2, OpeningFrame DEF OpenOk, OutInv, TypeOK, counts
  <2> QED
    BY <1>9, <2>2, <2>3 DEF OpenOk, OutInv, counts
<1>10. CASE OpenFail \/ HeaderOk
  BY <1>10 DEF OpenFail, HeaderOk, OutInv, Opening, counts, Holds, HoldsOld, Empty
<1>11. CASE HeaderFail
  <2>1. /\ \A i \in Slots \ {outNext} : slots'[i] = slots[i]
        /\ slots'[outNext].file = slots[outNext].file
    BY <1>11 DEF HeaderFail, TypeOK, LogFile
  <2>2. Opening'
    BY <1>11, <2>1, OpeningFrame DEF HeaderFail, OutInv, TypeOK, counts
  <2> QED
    BY <1>11, <2>2 DEF HeaderFail, OutInv, counts
<1>12. CASE Publish
  <2>1. /\ opens \in Nat /\ closes \in Nat /\ opens' = opens /\ closes' = closes
        /\ outNext = At(opens) /\ At(opens) \in Slots
    BY <1>12, ModThree DEF Publish, OutInv, TypeOK, counts, At
  <2>2. \A i \in Slots \ {outNext} : slots'[i] = slots[i]
    BY <1>12 DEF Publish, TypeOK
  <2>3. Holds(slots', opens)
    BY <1>12, <2>1 DEF Publish, OutInv, TypeOK, LogFile, Holds
  <2>4. CASE ~writeChanged
    <3>1. opens = 1 /\ closes = 0 /\ Empty(slots, 0) /\ Empty(slots, 2)
      BY <1>12, <2>4 DEF Publish, OutInv, Opening
    <3>2. HoldsOld(slots', 0) /\ Empty(slots', 2)
      BY <2>1, <2>2, <3>1 DEF Empty, HoldsOld, At, Slots
    <3> QED
      BY <1>12, <2>1, <2>3, <2>4, <3>1, <3>2 DEF Publish, OutInv, Steady
  <2>5. CASE writeChanged
    <3>1. /\ opens = closes + 2 
          /\ HoldsOld(slots, closes) /\ Holds(slots, opens - 1)
      BY <1>12, <2>5 DEF Publish, OutInv, Opening
    <3>2. At(closes) # outNext /\ At(opens - 1) # outNext /\ opens - 1 \in Nat
      BY <2>1, <3>1, ModThree DEF At
    <3>3. HoldsOld(slots', closes) /\ Holds(slots', opens - 1)
      BY <2>1, <2>2, <3>1, <3>2, SlotFrame
    <3> QED
      BY <1>12, <2>1, <2>3, <2>5, <3>1, <3>3 DEF Publish, OutInv, Three
  <2> QED
    BY <2>4, <2>5 DEF TypeOK
<1>13. CASE PublishSignal
  BY <1>13 DEF PublishSignal, OutInv, counts, Steady, Three, Holds, HoldsOld, Empty
<1>14. CASE CloseNothing
  <2>1. /\ opens \in Nat /\ closes \in Nat /\ opens' = opens /\ closes' = closes + 1
        /\ outWrite = At(closes) /\ outWrite' = At(closes + 1) /\ slots' = slots
    BY <1>14, ModThree DEF CloseNothing, OutInv, TypeOK, At
  <2>2. opens = closes + 2 /\ Holds(slots, opens - 1) /\ Holds(slots, opens)
    BY <1>14 DEF CloseNothing, OutInv, Three
  <2>3. HoldsOld(slots', closes') /\ Holds(slots', opens')
    BY <2>1, <2>2 DEF HoldsOld
  <2>4. Empty(slots', opens' + 1)
    BY <1>14, <2>1, <2>2, ModThree DEF CloseNothing, Empty, At
  <2> QED
    BY <1>14, <2>1, <2>2, <2>3, <2>4 DEF CloseNothing, OutInv, Steady, At
<1>15. CASE CloseStream
  <2>1. /\ opens \in Nat /\ closes \in Nat /\ opens' = opens /\ closes' = closes
        /\ outWrite = At(closes) /\ At(closes) \in Slots
    BY <1>15, ModThree DEF CloseStream, OutInv, TypeOK, counts, At
  <2>2. /\ opens = closes + 2 /\ Holds(slots, opens - 1) /\ Holds(slots, opens)
        /\ HoldsOld(slots, closes)
    BY <1>15 DEF CloseStream, OutInv, Three
  <2>3. closes # 0 /\ slots'[outWrite].file = closes
    BY <1>15, <2>1, <2>2 DEF CloseStream, HoldsOld, Holds, At, TypeOK, LogFile
  <2>4. Holds(slots', opens - 1) /\ Holds(slots', opens)
    <3>1. \A i \in Slots \ {outWrite} : slots'[i] = slots[i]
      BY <1>15 DEF CloseStream, TypeOK
    <3>2. At(opens - 1) # outWrite /\ At(opens) # outWrite /\ opens - 1 \in Nat
      BY <2>1, <2>2, ModThree DEF At
    <3> QED
      BY <2>1, <2>2, <3>1, <3>2, SlotFrame
  <2> QED
    BY <1>15, <2>1, <2>2, <2>3, <2>4 DEF CloseStream, OutInv, Three
<1>16. CASE Rename
  <2>1. /\ opens \in Nat /\ closes \in Nat /\ opens' = opens /\ closes' = closes + 1
        /\ outWrite = At(closes) /\ At(closes) \in Slots /\ outWrite' = At(closes + 1)
    BY <1>16, ModThree DEF Rename, OutInv, TypeOK, At
  <2>2. opens = closes + 2 /\ Holds(slots, opens - 1) /\ Holds(slots, opens)
    BY <1>16 DEF Rename, OutInv, Three
  <2>3. Holds(slots', opens - 1) /\ Holds(slots', opens)
    <3>1. \A i \in Slots \ {outWrite} : slots'[i] = slots[i]
      BY <1>16 DEF Rename, TypeOK
    <3>2. At(opens - 1) # outWrite /\ At(opens) # outWrite /\ opens - 1 \in Nat
      BY <2>1, <2>2, ModThree DEF At
    <3> QED
      BY <2>1, <2>2, <3>1, <3>2, SlotFrame
  <2>4. Empty(slots', opens' + 1)
    <3>1. At(opens + 1) = outWrite
      BY <2>1, <2>2, ModThree DEF At
    <3>2. slots'[outWrite].file = NULL
      BY <1>16 DEF Rename, Cleared, TypeOK, LogFile
    <3> QED
      BY <2>1, <3>1, <3>2 DEF Empty
  <2> QED
    BY <1>16, <2>1, <2>2, <2>3, <2>4 DEF Rename, OutInv, Steady, HoldsOld, At
<1>17. CASE CancelClose
  <2>1. /\ opens \in Nat /\ closes \in Nat /\ outWrite = At(closes) /\ outNext = At(opens)
        /\ At(opens) \in Slots
    BY <1>17, ModThree DEF CancelClose, OutInv, TypeOK, At
  <2>2. ASSUME outNext # outWrite
        PROVE  slots'[outNext].file # NULL /\ slots'[outNext].stream # NULL
    <3>1. Holds(slots, opens) /\ opens # 0
      BY <1>17, <2>1, <2>2 DEF CancelClose, OutInv, Steady
    <3>2. slots'[outNext] = slots[outNext]
      BY <1>17, <2>1, <2>2 DEF CancelClose, TypeOK
    <3> QED
      BY <2>1, <3>1, <3>2 DEF Holds, NULL
  <2> QED
    BY <1>17, <2>2 DEF CancelClose, NextUnused, OutInv, counts
<1>18. CASE CancelDelete
  BY <1>18 DEF CancelDelete, OutInv, counts
<1>19. CASE UNCHANGED vars
  BY <1>19, OutFrame DEF vars, outVars
<1> QED
  BY <1>1, <1>2, <1>3, <1>4, <1>5, <1>6, <1>7, <1>8, <1>9, <1>10, <1>11, <1>12, <1>13,
     <1>14, <1>15, <1>16, <1>17, <1>18, <1>19
     DEF Next, MainStep, OutStep, Environment, Arrive

-----------------------------------------------------------------------------
(* Before anything is opened no slot is ready, so main cannot have swapped. *)
LEMMA NotReady ==
    ASSUME IInv, opens = 0, ~cancelled, NEW i \in Slots
    PROVE  ~Ready(i)
<1>1. opens \in Nat /\ closes \in Nat /\ outPc \in OutPcs
  BY DEF IInv, TypeOK
<1>2. outPc \in {"look", "sleep", "wait", "decide", "open", "cancelClose"}
  BY <1>1 DEF IInv, OutInv, Opening, Three, OutPcs
<1>3. Steady
  BY <1>2 DEF IInv, OutInv
<1> QED
  BY <1>1, <1>3 DEF Steady, Empty, At, Slots, Ready

(* The facts about the indexes and the flag that both halves use. *)
LEMMA CommonInvStep == IInv /\ [Next]_vars => CommonInv'
<1> SUFFICES ASSUME IInv, [Next]_vars PROVE CommonInv'
  OBVIOUS
<1> USE DEF CommonInv, InCleanup, OneAhead
<1>1. CommonInv /\ TypeOK
  BY DEF IInv
<1>2. CASE Dispatch \/ PopEmpty \/ SpuriousMain \/ WritePacket \/ Quit \/ Cancel \/ CleanupSignal
           \/ Join
  BY <1>1, <1>2 DEF Dispatch, PopEmpty, SpuriousMain, WritePacket, Quit, Cancel, CleanupSignal,
     Join, indexes, counts
<1>3. ASSUME NEW t \in ts..(ts + MaxGap), PopPacket(t) PROVE CommonInv'
  BY <1>1, <1>3 DEF PopPacket, indexes, counts
<1>4. CASE Swap
  <2>1. SwapTarget \in Slots /\ ~cancelled
    BY <1>1, <1>4, SuccType DEF Swap, SwapTarget, TypeOK
  <2>2. opens # 0
    BY <1>4, <2>1, NotReady DEF Swap
  <2> QED
    BY <1>1, <1>4, <2>1, <2>2 DEF Swap, counts
<1>5. CASE SwapWait
  <2>1. SwapTarget = nextFile
    BY <1>1, SuccType DEF SwapTarget, TypeOK
  <2> QED
    BY <1>1, <1>5, <2>1 DEF SwapWait, counts
<1>6. CASE SpuriousOut \/ Look \/ Sleep \/ Decide \/ OpenOk \/ OpenFail \/ HeaderOk
           \/ HeaderFail \/ Publish \/ CloseNothing \/ CloseStream \/ Rename \/ CancelClose
           \/ CancelDelete
  BY <1>1, <1>6 DEF SpuriousOut, Look, Sleep, Decide, OpenOk, OpenFail, HeaderOk, HeaderFail,
     Publish, CloseNothing, CloseStream, Rename, CancelClose, CancelDelete, indexes, counts,
     mainVars
<1>7. CASE PublishSignal
  BY <1>1, <1>7 DEF PublishSignal, SignalMain, indexes, counts
<1>8. CASE BeginOpen
  BY <1>1, <1>8 DEF BeginOpen, indexes, mainVars, TypeOK
<1>9. CASE UNCHANGED vars
  BY <1>1, <1>9 DEF vars, indexes, counts, mainVars
<1> QED
  BY <1>2, <1>3, <1>4, <1>5, <1>6, <1>7, <1>8, <1>9
     DEF Next, MainStep, OutStep, Environment, Arrive

(* The invariant that needs no assumption on time holds in every state. *)
LEMMA IInvCorrect == Spec => []IInv
<1>1. Init => IInv
  <2> SUFFICES ASSUME Init PROVE IInv
    OBVIOUS
  <2>1. CommonInv
    BY DEF Init, InitIndexes, CommonInv, InCleanup, OneAhead, Succ
  <2>2. Steady
    BY DEF Init, Steady, Empty, At, Slots
  <2>3. OutInv
    BY <2>2 DEF Init, OutInv
  <2> QED
    BY <2>1, <2>3, TypeInit DEF IInv
<1>2. IInv /\ [Next]_vars => IInv'
  BY TypeStep, CommonInvStep, OutInvStep DEF IInv
<1> QED
  BY <1>1, <1>2, PTL DEF Spec

(* The comment at app->next_file, made exact: next_file is always one ahead of
   write_file, however the threads interleave, so the branch of swap_file for
   equal indexes is never taken. *)
THEOREM OneAheadAlways == Spec => []OneAhead
<1>1. IInv => OneAhead
  BY DEF IInv, CommonInv
<1> QED
  BY <1>1, IInvCorrect, PTL

(* The assertion of the output thread never fails, however far main is ahead:
   the file a slot held has been closed and cleared before the slot is used
   again. *)
THEOREM AssertionHolds == Spec => []SlotFree
<1>1. IInv => SlotFree
  <2> SUFFICES ASSUME IInv, outPc = "open" PROVE slots[Succ(outNext)].file = NULL
    BY DEF SlotFree
  <2>1. opens \in Nat /\ closes \in Nat /\ Succ(outNext) = At(opens + 1) /\ Steady
    BY ModThree DEF IInv, OutInv, TypeOK, At
  <2> QED
    BY <2>1 DEF Steady, Empty, At
<1> QED
  BY <1>1, IInvCorrect, PTL

(* Cancellation never passes a NULL stream or file to the calls that close and
   delete the unused file, which test neither. *)
THEOREM DeleteOpenAlways == Spec => []DeleteOpen
<1>1. IInv => DeleteOpen
  BY DEF IInv, OutInv, DeleteOpen
<1> QED
  BY <1>1, IInvCorrect, PTL

-----------------------------------------------------------------------------
(* The two files after the one the output thread closes next: published and
   open, or not there yet. *)
LEMMA Window ==
    ASSUME IInv, ~cancelled, NEW f \in {closes + 1, closes + 2}
    PROVE  IF f <= Published THEN Holds(slots, f) ELSE Empty(slots, f)
<1>1. opens \in Nat /\ closes \in Nat /\ f \in Nat /\ outPc \in OutPcs
  BY DEF IInv, TypeOK
<1>2. ASSUME Steady, Published = opens
      PROVE  IF f <= Published THEN Holds(slots, f) ELSE Empty(slots, f)
  BY <1>1, <1>2 DEF Steady
<1>3. ASSUME Opening, Published = opens - 1
      PROVE  IF f <= Published THEN Holds(slots, f) ELSE Empty(slots, f)
  BY <1>1, <1>3 DEF Opening
<1>4. ASSUME Three, Published = opens
      PROVE  IF f <= Published THEN Holds(slots, f) ELSE Empty(slots, f)
  BY <1>1, <1>4 DEF Three
<1>5. \/ Steady /\ Published = opens
      \/ Opening /\ Published = opens - 1
      \/ Three /\ Published = opens
  BY <1>1 DEF IInv, OutInv, Published, OutPcs
<1> QED
  BY <1>2, <1>3, <1>4, <1>5

(* The file main has swapped to is in its slot, open, until main leaves it. *)
LEMMA Current ==
    ASSUME IInvLag, ~cancelled
    PROVE  IF swaps = 0 THEN slots[writeFile].file = NULL ELSE Holds(slots, swaps)
<1>1. /\ opens \in Nat /\ closes \in Nat /\ swaps \in Nat /\ outPc \in OutPcs
      /\ writeChanged \in BOOLEAN
  BY DEF IInvLag, IInv, TypeOK
<1>2. closes <= swaps /\ swaps <= closes + 2 /\ swaps <= Published /\ writeFile = At(swaps)
  BY DEF IInvLag, MainInv, At
<1>3. CASE closes < swaps
  <2>1. swaps \in {closes + 1, closes + 2}
    BY <1>1, <1>2, <1>3
  <2> QED
    BY <1>1, <1>2, <1>3, <2>1, Window DEF IInvLag
<1>4. CASE closes = swaps
  <2>1. outPc # "rename" /\ outPc # "close" /\ outPc # "cancelDelete"
    BY <1>1, <1>4 DEF IInvLag, IInv, OutInv, MainInv
  <2>2. Steady \/ Opening
    BY <1>1, <1>4, <2>1 DEF IInvLag, IInv, OutInv, MainInv, OutPcs
  <2>3. CASE swaps = 0
    <3>1. slots[At(0)].file = NULL
      BY <1>1, <1>4, <2>2, <2>3 DEF Steady, Opening, HoldsOld, Empty
    <3> QED
      BY <1>2, <2>3, <3>1
  <2>4. CASE swaps # 0
    BY <1>1, <1>4, <2>2, <2>4 DEF Steady, Opening, HoldsOld
  <2> QED
    BY <2>3, <2>4
<1> QED
  BY <1>1, <1>2, <1>3, <1>4

(* A packet of a new period finds at most one swap still to be handled, also
   when the output thread has ended. *)
LEMMA Handled ==
    ASSUME MaxLag <= 2, IInvLag, ~cancelled, OnTime
    PROVE  swaps <= closes + 1
<1>1. opens \in Nat /\ closes \in Nat /\ swaps \in Nat /\ MaxLag \in Nat
  BY BoundsAssumption DEF IInvLag, IInv, TypeOK
<1>2. CASE Lag < MaxLag
  BY <1>1, <1>2 DEF Lag
<1>3. CASE outPc = "done"
  <2>1. Opening
    BY <1>3 DEF IInvLag, IInv, OutInv
  <2> QED
    BY <1>1, <1>3, <2>1 DEF Opening, Published, IInvLag, MainInv
<1> QED
  BY <1>2, <1>3 DEF OnTime

(* What swap_file moves to is the next file, published and open: with at most
   one earlier swap still to be handled, the slot cannot hold an older one. *)
LEMMA NextFile ==
    ASSUME IInvLag, Swap
    PROVE  /\ SwapTarget = At(swaps + 1) /\ ~cancelled
           /\ swaps + 1 <= Published /\ swaps + 1 <= closes + 2
           /\ Holds(slots, swaps + 1)
<1>1. /\ opens \in Nat /\ closes \in Nat /\ swaps \in Nat /\ outPc \in OutPcs
      /\ writeFile \in Slots /\ ~cancelled
  BY DEF IInvLag, IInv, TypeOK, CommonInv, InCleanup, Swap
<1>2. SwapTarget = At(swaps + 1) /\ At(swaps + 1) \in Slots
  BY <1>1, SuccType, ModThree DEF SwapTarget, IInvLag, IInv, CommonInv, OneAhead, MainInv, At
<1>3. closes <= swaps /\ swaps <= Published
  BY <1>1 DEF IInvLag, MainInv
<1>4. swaps <= closes + 1
  BY <1>1 DEF IInvLag, MainInv, Swap
<1>5. swaps + 1 \in {closes + 1, closes + 2}
  BY <1>1, <1>3, <1>4
<1>6. ~Empty(slots, swaps + 1)
  BY <1>2 DEF Swap, Ready, Empty
<1> QED
  BY <1>1, <1>2, <1>4, <1>5, <1>6, Window DEF IInvLag

(* Main's half of the invariant is inductive. *)
LEMMA MainInvStep ==
    ASSUME MaxGap <= 1, MaxLag <= 2, IInvLag, [Next]_vars
    PROVE  MainInv'
<1>1. TypeOK /\ CommonInv /\ OutInv /\ MainInv
  BY DEF IInvLag, IInv
<1> USE <1>1
<1>2. CASE Dispatch
  <2>1. ~cancelled
    BY <1>2 DEF Dispatch, CommonInv, InCleanup
  <2>2. swaps # 0 <=> slots[writeFile].file # NULL
    BY <2>1, Current DEF Holds, TypeOK, NULL, MainInv, At
  <2> QED
    BY <1>2, <2>2 DEF Dispatch, MainInv, indexes, outVars, counts, Published
<1>3. ASSUME NEW t \in ts..(ts + MaxGap), t > ts => OnTime, PopPacket(t) PROVE MainInv'
  <2>1. ~cancelled /\ swaps # 0 /\ log = At(swaps) /\ t \in Nat /\ ts \in Nat /\ ts <= t
    BY <1>3, BoundsAssumption DEF PopPacket, CommonInv, InCleanup, MainInv, TypeOK, At
  <2>2. slots[log].end = swaps
    BY <2>1, Current DEF Holds
  <2>3. swaps \in Nat /\ closes \in Nat /\ ts < swaps
    BY <1>3, <2>1 DEF TypeOK, IInvLag, DenseInv, PopPacket
  <2>4. Past(t) => swaps <= closes + 1
    BY <1>3, <2>1, <2>2, <2>3, Handled DEF Past
  <2> QED
    BY <1>3, <2>1, <2>2, <2>3, <2>4
       DEF PopPacket, Past, MainInv, indexes, outVars, counts, Published
<1>4. CASE PopEmpty \/ SpuriousMain \/ WritePacket \/ Quit \/ Cancel \/ Join
  BY <1>4 DEF PopEmpty, SpuriousMain, WritePacket, Quit, Cancel, Join, MainInv, indexes,
     outVars, counts, Published
<1>5. CASE CleanupSignal
  BY <1>5 DEF CleanupSignal, SignalOut, MainInv, indexes, counts, Published, CommonInv,
     InCleanup
<1>6. CASE Swap
  <2>1. /\ SwapTarget = At(swaps + 1) /\ ~cancelled
        /\ swaps + 1 <= Published /\ swaps + 1 <= closes + 2
    BY <1>6, NextFile
  <2>2. swaps \in Nat /\ closes \in Nat /\ ts \in Nat /\ swaps' = swaps + 1
    BY <1>6 DEF Swap, TypeOK
  <2>3. Published' = Published
    BY <1>6 DEF Swap, SignalOut, Published, counts
  <2>4. IF packet THEN swaps <= ts ELSE swaps = 0
    BY <1>6 DEF Swap, MainInv
  <2> QED
    BY <1>6, <2>1, <2>2, <2>3, <2>4 DEF Swap, SignalOut, MainInv, counts, At
<1>7. CASE SwapWait
  <2>1. nextFile' = nextFile
    BY <1>7, SuccType DEF SwapWait, SwapTarget, TypeOK, CommonInv, OneAhead
  <2>2. outPc' = outPc
    BY <1>7, <2>1 DEF SwapWait
  <2> QED
    BY <1>7, <2>2 DEF SwapWait, MainInv, counts, Published
<1>8. CASE Look
  <2>1. writeFile # outWrite => closes < swaps
    BY DEF MainInv, OutInv, TypeOK
  <2>2. outPc' = "decide" /\ writeChanged' => writeFile # outWrite
    BY <1>8 DEF Look
  <2>3. outPc' \in {"sleep", "decide"}
    BY <1>8 DEF Look
  <2> QED
    BY <1>8, <2>1, <2>2, <2>3 DEF Look, MainInv, indexes, mainVars, counts, Published
<1>9. CASE Sleep \/ SpuriousOut
  BY <1>9 DEF Sleep, SpuriousOut, MainInv, indexes, mainVars, counts, Published
<1>10. CASE Decide
  BY <1>10 DEF Decide, MainInv, OutInv, TypeOK, indexes, mainVars, counts, Published
<1>11. CASE BeginOpen
  BY <1>11 DEF BeginOpen, MainInv, TypeOK, indexes, mainVars, Published
<1>12. CASE OpenOk \/ OpenFail \/ HeaderOk \/ HeaderFail \/ Publish
  BY <1>12 DEF OpenOk, OpenFail, HeaderOk, HeaderFail, Publish, MainInv, TypeOK, indexes,
     mainVars, counts, Published
<1>13. CASE PublishSignal
  BY <1>13 DEF PublishSignal, SignalMain, MainInv, indexes, counts, Published
<1>14. CASE CloseStream
  BY <1>14 DEF CloseStream, MainInv, indexes, mainVars, counts, Published
<1>15. CASE CloseNothing \/ Rename
  <2>1. closes < swaps /\ closes \in Nat /\ swaps \in Nat
    BY <1>15 DEF CloseNothing, Rename, MainInv, TypeOK
  <2> QED
    BY <1>15, <2>1 DEF CloseNothing, Rename, MainInv, indexes, mainVars, Published
<1>16. CASE CancelClose \/ CancelDelete
  BY <1>16 DEF CancelClose, CancelDelete, OutInv, MainInv, indexes, mainVars, counts, Published
<1>17. CASE UNCHANGED vars
  BY <1>17 DEF vars, MainInv, indexes, mainVars, outVars, counts, Published
<1> QED
  BY <1>2, <1>3, <1>4, <1>5, <1>6, <1>7, <1>8, <1>9, <1>10, <1>11, <1>12, <1>13, <1>14,
     <1>15, <1>16, <1>17 DEF Next, MainStep, OutStep, Environment, Arrive

(* What the proofs use of the invariants of LogRotation. *)
LEMMA Facts ==
    ASSUME IInvLag
    PROVE  /\ swaps \in Nat /\ closes \in Nat /\ opens \in Nat /\ ts \in Nat
           /\ closes <= swaps
           /\ cancelled <=> mainPc \in {"signal", "join", "done"}
           /\ outPc = "rename" =>
                  slots[outWrite].file = closes /\ closes # 0 /\ closes < swaps
           /\ outPc \in {"cancelClose", "cancelDelete"} => cancelled
           /\ mainPc \in MainPcs /\ outPc \in OutPcs
<1>1. TypeOK /\ CommonInv /\ OutInv /\ MainInv
  BY DEF IInvLag, IInv
<1> QED
  BY <1>1 DEF TypeOK, CommonInv, InCleanup, OutInv, MainInv

(* A swap makes the next file the current one, which does not start after the
   packet at hand. *)
LEMMA SwapMoves ==
    ASSUME IInvLag, Swap
    PROVE  /\ swaps' = swaps + 1 /\ ~cancelled
           /\ swaps <= ts /\ (packet \/ swaps = 0)
<1>1. IF packet THEN swaps <= ts ELSE swaps = 0
  BY DEF IInvLag, MainInv, Swap
<1> QED
  BY <1>1, Facts DEF Swap

(* Packets that come in every period keep main up to date. *)
LEMMA DenseStep ==
    ASSUME MaxGap <= 1, IInvLag, [Next]_vars
    PROVE  DenseInv'
<1> USE Facts DEF IInvLag, DenseInv, MainPcs
<1>1. CASE PopEmpty \/ SpuriousMain \/ WritePacket \/ Quit \/ Cancel \/ CleanupSignal
           \/ Join \/ SwapWait
  BY <1>1 DEF PopEmpty, SpuriousMain, WritePacket, Quit, Cancel, CleanupSignal, Join,
     SwapWait, indexes
<1>2. CASE Dispatch
  <2>1. swaps # 0 <=> slots[writeFile].file # NULL
    BY <1>2, Current DEF Dispatch, Holds, NULL, IInvLag, MainInv, At
  <2> QED
    BY <1>2, <2>1 DEF Dispatch, indexes
<1>3. ASSUME NEW t \in ts..(ts + MaxGap), PopPacket(t) PROVE DenseInv'
  <2>1. ~cancelled /\ swaps # 0 /\ log = At(swaps) /\ ts < swaps
    BY <1>3 DEF PopPacket, IInvLag, MainInv, At
  <2>2. slots[log].end = swaps
    BY <2>1, Current DEF Holds
  <2>3. t \in Nat /\ t <= swaps
    BY <2>1, BoundsAssumption
  <2> QED
    BY <1>3, <2>1, <2>2, <2>3 DEF PopPacket, Past, indexes
<1>4. CASE Swap
  BY <1>4, SwapMoves DEF Swap
<1>5. CASE SpuriousOut \/ Look \/ Sleep \/ Decide \/ BeginOpen \/ OpenOk \/ OpenFail \/ HeaderOk
           \/ HeaderFail \/ Publish \/ CloseStream \/ CancelClose \/ CancelDelete
           \/ CloseNothing \/ Rename
  BY <1>5 DEF SpuriousOut, Look, Sleep, Decide, BeginOpen, OpenOk, OpenFail, HeaderOk,
     HeaderFail, Publish, CloseStream, CancelClose, CancelDelete, CloseNothing, Rename,
     indexes, mainVars
<1>6. CASE PublishSignal
  BY <1>6 DEF PublishSignal, SignalMain, indexes
<1>7. CASE UNCHANGED vars
  BY <1>7 DEF vars, indexes, mainVars
<1> QED
  BY <1>1, <1>2, <1>3, <1>4, <1>5, <1>6, <1>7
     DEF Next, MainStep, OutStep, Environment, Arrive

(* Both halves together, under the assumption on time. *)
LEMMA IInvLagCorrect == ASSUME MaxGap <= 1, MaxLag <= 2 PROVE Spec => []IInvLag
<1>1. Init => MainInv /\ DenseInv
  BY DEF Init, InitIndexes, MainInv, DenseInv, Published
<1>2. IInvLag /\ [Next]_vars => MainInv' /\ DenseInv'
  BY MainInvStep, DenseStep
<1> QED
  BY <1>1, <1>2, IInvCorrect, PTL DEF Spec, IInvLag

(* On a bus that is never silent for a whole period, with an output thread that
   has at most one swap left to handle when a period begins, a packet only goes
   to the open stream of the file main has swapped to, never to a file that is
   being closed, renamed or deleted. *)
THEOREM WriteSafeAlways == ASSUME MaxGap <= 1, MaxLag <= 2 PROVE Spec => []WriteSafe
<1>1. IInvLag => WriteSafe
  <2> SUFFICES ASSUME IInvLag, mainPc = "write"
               PROVE  slots[log].stream = swaps /\ slots[log].file = swaps
    BY DEF WriteSafe
  <2>1. ~cancelled /\ swaps # 0 /\ log = At(swaps)
    BY DEF IInvLag, IInv, CommonInv, InCleanup, MainInv, At
  <2> QED
    BY <2>1, Current DEF Holds
<1> QED
  BY <1>1, IInvLagCorrect, PTL

(* The comment at app->write_file, "Only advances if next file is valid": main
   moves on only to the published, open file of the next period.  It holds under
   the same assumption, and only then: after a silence swap_file is called for
   packet after packet of a burst, and takes a file it has already left. *)
THEOREM AdvanceValidAlways == ASSUME MaxGap <= 1, MaxLag <= 2 PROVE Spec => AdvanceValid
<1>1. ASSUME IInvLag, [Next]_vars, swaps' # swaps
      PROVE  slots[writeFile'].file = swaps' /\ slots[writeFile'].stream = swaps'
  <2>1. Swap
    BY <1>1 DEF Next, MainStep, OutStep, Environment, Arrive, vars, indexes, Dispatch, PopPacket,
       PopEmpty, SwapWait, SpuriousMain, WritePacket, Quit, Cancel, CleanupSignal, Join, Look,
       Sleep, SpuriousOut, Decide, BeginOpen, OpenOk, OpenFail, HeaderOk, HeaderFail, Publish,
       PublishSignal, CloseNothing, CloseStream, Rename, CancelClose, CancelDelete
  <2> QED
    BY <1>1, <2>1, NextFile DEF Swap, Holds
<1> QED
  BY <1>1, IInvLagCorrect, PTL DEF Spec, AdvanceValid

-----------------------------------------------------------------------------
(* Names are given in the order of the files, each once, and deletion is the
   last step of the output thread. *)
NamedInv ==
    /\ used \subseteq 1..swaps
    /\ renamed \subseteq 1..closes
    /\ closes \in renamed => outPc \in {"cancelDelete", "done"}
    /\ outPc = "cancelDelete" => slots[outNext].file = closes + 1
    /\ deleted # {} => outPc = "done" /\ cancelled

(* An orderly stop finds the output thread with nothing left to do. *)
OrderlyInv ==
    ~EarlyQuit =>
        /\ mainPc \in {"cancel", "signal", "join", "done"} => closes = swaps
        /\ mainPc = "cancel" => outPc = "wait"
        /\ mainPc \in {"signal", "join", "done"} =>
               outPc \in {"wait", "look", "decide", "cancelClose", "cancelDelete", "done"}

(* Without failures no file that is closed is left without its name. *)
ReliableInv ==
    ~IoMayFail =>
        /\ \A f \in 1..(closes - 1) : f \in renamed
        /\ ~EarlyQuit /\ cancelled /\ outPc \in {"cancelDelete", "done"} =>
               \A f \in 1..closes : f \in renamed

FilesInv == NamedInv /\ OrderlyInv /\ ReliableInv

(* What CaptureLog sees of a state. *)
seen == <<swaps, ts, used, renamed, deleted, cancelled, mainPc = "done">>

-----------------------------------------------------------------------------
(* The slot of the file that is closed: that file, or nothing at the start. *)
LEMMA ClosingSlot ==
    ASSUME IInvLag, outPc \in {"close", "cancelClose"}
    PROVE  IF closes = 0 THEN slots[outWrite].file = NULL
                         ELSE slots[outWrite].file = closes /\ closes # NULL
<1>1. outWrite = At(closes) /\ OutInv /\ closes \in Nat
  BY DEF IInvLag, IInv, OutInv, TypeOK, At
<1>2. CASE outPc = "close"
  BY <1>1, <1>2 DEF OutInv, HoldsOld, Holds, NULL
<1>3. CASE outPc = "cancelClose"
  <2>1. Steady
    BY <1>1, <1>3 DEF OutInv
  <2> QED
    BY <1>1, <2>1 DEF Steady, HoldsOld, Holds, Empty, NULL
<1> QED
  BY <1>2, <1>3

(* What cancellation deletes is the file after the one it has closed. *)
LEMMA UnusedSlot ==
    ASSUME IInvLag, outPc = "cancelClose", NextUnused
    PROVE  slots[outNext].file = closes + 1
<1>1. outWrite = At(closes) /\ outNext = At(opens) /\ Steady
  BY DEF IInvLag, IInv, OutInv, At
<1> QED
  BY <1>1 DEF Steady, Holds, NextUnused

(* A packet is written to the file main has swapped to. *)
LEMMA WritesCurrent ==
    ASSUME IInvLag, WritePacket
    PROVE  used' = used \cup {swaps} /\ swaps # 0 /\ swaps <= ts + 1 /\ ~cancelled
<1>1. ~cancelled /\ swaps # 0 /\ log = writeFile /\ swaps <= ts + 1
  BY Facts DEF WritePacket, IInvLag, MainInv
<1>2. slots[log].stream = swaps
  BY <1>1, Current DEF Holds, IInvLag, MainInv, At
<1> QED
  BY <1>1, <1>2, Facts DEF WritePacket, NULL

-----------------------------------------------------------------------------
LEMMA NamedStep ==
    ASSUME IInvLag, FilesInv, [Next]_vars
    PROVE  NamedInv'
<1> USE Facts DEF FilesInv, NamedInv, OutPcs
<1>1. CASE Dispatch \/ PopEmpty \/ SwapWait \/ SpuriousMain \/ Quit \/ Cancel \/ CleanupSignal
  BY <1>1 DEF Dispatch, PopEmpty, SwapWait, SpuriousMain, Quit, Cancel, CleanupSignal,
     SignalOut, indexes, counts, disk, outVars
<1>2. ASSUME NEW t \in ts..(ts + MaxGap), PopPacket(t) PROVE NamedInv'
  BY <1>2 DEF PopPacket, indexes, counts, disk, outVars
<1>3. CASE Join
  BY <1>3 DEF Join, indexes, counts, disk, outVars
<1>4. CASE Swap
  <2>1. used' \subseteq 1..swaps'
    BY <1>4, SwapMoves DEF Swap, disk
  <2> QED
    BY <1>4, <2>1 DEF Swap, SignalOut, counts, disk
<1>5. CASE WritePacket
  <2>1. swaps' = swaps
    BY <1>5 DEF WritePacket, indexes
  <2>2. used' = used \cup {swaps} /\ swaps \in 1..swaps
    BY <1>5, WritesCurrent
  <2>3. used' \subseteq 1..swaps'
    BY <2>1, <2>2
  <2> QED
    BY <1>5, <2>3 DEF WritePacket, counts, outVars
<1>6. CASE Look \/ Sleep \/ SpuriousOut \/ Decide \/ OpenOk \/ OpenFail \/ HeaderOk
           \/ HeaderFail \/ Publish \/ CloseStream \/ BeginOpen
  BY <1>6 DEF Look, Sleep, SpuriousOut, Decide, OpenOk, OpenFail, HeaderOk, HeaderFail,
     Publish, CloseStream, BeginOpen, indexes, counts, disk
<1>7. CASE PublishSignal
  BY <1>7 DEF PublishSignal, SignalMain, indexes, counts, disk
<1>8. CASE CloseNothing
  BY <1>8 DEF CloseNothing, indexes, disk
<1>9. CASE Rename
  <2>1. slots[outWrite].file = closes /\ closes \in 1..closes /\ closes' = closes + 1
    BY <1>9 DEF Rename
  <2>2. renamed' \subseteq 1..closes
    BY <1>9, <2>1 DEF Rename, GiveName
  <2>3. renamed' \subseteq 1..closes' /\ closes' \notin renamed'
    BY <2>1, <2>2
  <2> QED
    BY <1>9, <2>3 DEF Rename, indexes
<1>10. CASE CancelClose
  <2>1. closes \notin renamed /\ deleted = {}
    BY <1>10 DEF CancelClose
  <2>2. renamed' \subseteq 1..closes
    BY <1>10, ClosingSlot DEF CancelClose, GiveName
  <2>3. outPc' = "cancelDelete" => slots'[outNext].file = closes + 1
    <3> SUFFICES ASSUME NextUnused PROVE slots'[outNext].file = closes + 1
      BY <1>10 DEF CancelClose
    <3>1. slots'[outNext] = slots[outNext]
      BY <1>10 DEF CancelClose, NextUnused, IInvLag, IInv, TypeOK
    <3> QED
      BY <1>10, <3>1, UnusedSlot DEF CancelClose
  <2> QED
    BY <1>10, <2>1, <2>2, <2>3 DEF CancelClose, indexes, counts
<1>11. CASE CancelDelete
  BY <1>11 DEF CancelDelete, indexes, counts
<1>12. CASE UNCHANGED vars
  BY <1>12 DEF vars, indexes, counts, disk, outVars
<1> QED
  BY <1>1, <1>2, <1>3, <1>4, <1>5, <1>6, <1>7, <1>8, <1>9, <1>10, <1>11, <1>12
     DEF Next, MainStep, OutStep, Environment, Arrive

LEMMA OrderlyStep ==
    ASSUME IInvLag, FilesInv, [Next]_vars
    PROVE  OrderlyInv'
<1> SUFFICES ASSUME ~EarlyQuit PROVE OrderlyInv'
  BY DEF OrderlyInv
<1> USE Facts DEF FilesInv, OrderlyInv, MainPcs, OutPcs
<1>1. CASE Dispatch \/ PopEmpty \/ SpuriousMain \/ Cancel \/ Join \/ WritePacket
  BY <1>1 DEF Dispatch, PopEmpty, SpuriousMain, Cancel, Join, WritePacket,
     indexes, counts, outVars
<1>2. ASSUME NEW t \in ts..(ts + MaxGap), PopPacket(t) PROVE OrderlyInv'
  BY <1>2 DEF PopPacket
<1>3. CASE Quit
  BY <1>3 DEF Quit, Lag, indexes, counts, outVars
<1>4. CASE Swap \/ SwapWait \/ CleanupSignal
  BY <1>4 DEF Swap, SwapWait, CleanupSignal, SignalOut, indexes, counts
<1>5. CASE SpuriousOut \/ Look \/ Sleep \/ Decide \/ BeginOpen \/ OpenOk \/ OpenFail \/ HeaderOk
           \/ HeaderFail \/ Publish \/ CloseStream \/ CancelClose \/ CancelDelete
  BY <1>5 DEF SpuriousOut, Look, NoChange, Sleep, Decide, BeginOpen, OpenOk, OpenFail,
     HeaderOk, HeaderFail, Publish, CloseStream, CancelClose, CancelDelete,
     indexes, mainVars, counts
<1>6. CASE PublishSignal
  BY <1>6 DEF PublishSignal, SignalMain, indexes, counts
<1>7. CASE CloseNothing \/ Rename
  BY <1>7 DEF CloseNothing, Rename, mainVars
<1>8. CASE UNCHANGED vars
  BY <1>8 DEF vars, indexes, counts, mainVars, outVars
<1> QED
  BY <1>1, <1>2, <1>3, <1>4, <1>5, <1>6, <1>7, <1>8
     DEF Next, MainStep, OutStep, Environment, Arrive

LEMMA ReliableStep ==
    ASSUME IInvLag, FilesInv, [Next]_vars
    PROVE  ReliableInv'
<1> SUFFICES ASSUME ~IoMayFail PROVE ReliableInv'
  BY DEF ReliableInv
<1> USE Facts DEF FilesInv, ReliableInv, OutPcs
<1>1. CASE Dispatch \/ PopEmpty \/ SpuriousMain \/ WritePacket \/ Quit \/ Join
           \/ Swap \/ SwapWait \/ CleanupSignal
  BY <1>1 DEF Dispatch, PopEmpty, SpuriousMain, WritePacket, Quit, Join, Swap, SwapWait,
     CleanupSignal, SignalOut, counts, disk, outVars
<1>2. ASSUME NEW t \in ts..(ts + MaxGap), PopPacket(t) PROVE ReliableInv'
  BY <1>2 DEF PopPacket, counts, disk, outVars
<1>3. CASE Cancel
  BY <1>3 DEF Cancel, OrderlyInv, counts, disk, outVars
<1>4. CASE SpuriousOut \/ Look \/ Sleep \/ Decide \/ BeginOpen \/ OpenOk \/ HeaderOk
           \/ HeaderFail \/ Publish \/ CloseStream
  BY <1>4 DEF SpuriousOut, Look, Sleep, Decide, BeginOpen, OpenOk, HeaderOk, HeaderFail,
     Publish, CloseStream, counts, disk
<1>5. CASE OpenFail
  BY <1>5 DEF OpenFail, OrderlyInv, counts, disk
<1>6. CASE PublishSignal
  BY <1>6 DEF PublishSignal, SignalMain, counts, disk
<1>7. CASE CloseNothing
  <2>1. closes = 0
    BY <1>7, ClosingSlot DEF CloseNothing
  <2> QED
    BY <1>7, <2>1 DEF CloseNothing, disk
<1>8. CASE Rename
  <2>1. renamed' = renamed \cup {closes} /\ closes' = closes + 1
    BY <1>8 DEF Rename, GiveName
  <2>2. \A f \in 1..(closes' - 1) : f \in renamed'
    BY <2>1
  <2> QED
    BY <1>8, <2>2 DEF Rename
<1>9. CASE CancelClose
  <2>1. \A f \in 1..closes : f \in renamed'
    <3>1. CASE closes = 0
      BY <3>1
    <3>2. CASE closes # 0
      <4>1. renamed' = renamed \cup {closes}
        BY <1>9, <3>2, ClosingSlot DEF CancelClose, GiveName
      <4> QED
        BY <4>1
    <3> QED
      BY <3>1, <3>2
  <2> QED
    BY <1>9, <2>1 DEF CancelClose, counts
<1>10. CASE CancelDelete
  BY <1>10 DEF CancelDelete, counts
<1>11. CASE UNCHANGED vars
  BY <1>11 DEF vars, counts, disk, outVars
<1> QED
  BY <1>1, <1>2, <1>3, <1>4, <1>5, <1>6, <1>7, <1>8, <1>9, <1>10, <1>11
     DEF Next, MainStep, OutStep, Environment, Arrive

-----------------------------------------------------------------------------
(* A step that leaves alone what CaptureLog sees is no step of it. *)
LEMMA Unseen == UNCHANGED seen => UNCHANGED Files!vars
BY DEF seen, Files!vars

(* Every step of the threads is a step of CaptureLog or none. *)
LEMMA FilesStep ==
    ASSUME IInvLag, FilesInv, [Next]_vars
    PROVE  [Files!Next]_(Files!vars)
<1> USE Facts DEF FilesInv
<1>1. CASE Dispatch \/ PopEmpty \/ SwapWait \/ SpuriousMain \/ Quit \/ CleanupSignal
  <2>1. UNCHANGED seen
    BY <1>1 DEF Dispatch, PopEmpty, SwapWait, SpuriousMain, Quit, CleanupSignal, seen,
       indexes, disk
  <2> QED
    BY <2>1, Unseen
<1>2. ASSUME NEW t \in ts..(ts + MaxGap), PopPacket(t) PROVE Files!Receive
  BY <1>2 DEF PopPacket, Files!Receive, indexes, disk
<1>3. CASE Swap
  <2>1. Files!Move
    BY <1>3, SwapMoves DEF Swap, Files!Move, disk
  <2> QED
    BY <2>1 DEF Files!Next
<1>4. CASE WritePacket
  <2>1. MaxGap <= 1 => ts < swaps
    BY <1>4, WritesCurrent DEF WritePacket, IInvLag, DenseInv
  <2>2. Files!Write
    BY <1>4, <2>1, WritesCurrent DEF WritePacket, Files!Write, indexes
  <2> QED
    BY <2>2 DEF Files!Next
<1>5. CASE Cancel
  BY <1>5 DEF Cancel, Files!Next, Files!Stop, indexes, disk
<1>6. CASE Join
  <2>1. ~EarlyQuit /\ ~IoMayFail => used \subseteq renamed
    BY <1>6 DEF Join, NamedInv, OrderlyInv, ReliableInv
  <2> QED
    BY <1>6, <2>1 DEF Join, Files!Next, Files!End, indexes, disk
<1>7. CASE SpuriousOut \/ Look \/ Sleep \/ Decide \/ BeginOpen \/ OpenOk \/ OpenFail \/ HeaderOk
           \/ HeaderFail \/ Publish \/ CloseStream \/ CloseNothing
  <2>1. UNCHANGED seen
    BY <1>7 DEF SpuriousOut, Look, Sleep, Decide, BeginOpen, OpenOk, OpenFail, HeaderOk,
       HeaderFail, Publish, CloseStream, CloseNothing, seen, indexes, mainVars, disk
  <2> QED
    BY <2>1, Unseen
<1>8. CASE PublishSignal
  <2>1. UNCHANGED seen
    BY <1>8 DEF PublishSignal, SignalMain, seen, indexes, disk
  <2> QED
    BY <2>1, Unseen
<1>9. CASE Rename
  <2>1. closes \in 1..swaps /\ closes < swaps /\ closes \notin renamed \cup deleted
    BY <1>9 DEF Rename, NamedInv
  <2>2. renamed' = renamed \cup {closes} \/ renamed' = renamed
    BY <1>9 DEF Rename, GiveName
  <2>3. UNCHANGED <<swaps, ts, used, deleted, cancelled, mainPc = "done">>
    BY <1>9 DEF Rename, indexes, mainVars
  <2>4. CASE renamed' = renamed \cup {closes}
    <3>1. Files!Finish(closes)
      BY <2>1, <2>3, <2>4 DEF Files!Finish, Files!Left
    <3> QED
      BY <2>1, <3>1 DEF Files!Next, Files!FinishNext
  <2>5. CASE renamed' = renamed
    BY <2>3, <2>5, Unseen DEF seen
  <2> QED
    BY <2>2, <2>4, <2>5
<1>10. CASE CancelClose
  <2>1. cancelled /\ closes \notin renamed \cup deleted
    BY <1>10 DEF CancelClose, NamedInv
  <2>2. \/ closes \in 1..swaps /\ renamed' = renamed \cup {closes}
        \/ renamed' = renamed
    BY <1>10, ClosingSlot DEF CancelClose, GiveName
  <2>3. UNCHANGED <<swaps, ts, used, deleted, cancelled, mainPc = "done">>
    BY <1>10 DEF CancelClose, indexes, mainVars
  <2>4. CASE closes \in 1..swaps /\ renamed' = renamed \cup {closes}
    <3>1. Files!Finish(closes)
      BY <2>1, <2>3, <2>4 DEF Files!Finish, Files!Left
    <3> QED
      BY <2>4, <3>1 DEF Files!Next, Files!FinishNext
  <2>5. CASE renamed' = renamed
    BY <2>3, <2>5, Unseen DEF seen
  <2> QED
    BY <2>2, <2>4, <2>5
<1>11. CASE CancelDelete
  <2>1. cancelled /\ deleted = {} /\ deleted' = {closes + 1}
    BY <1>11 DEF CancelDelete, NamedInv
  <2>2. closes + 1 \in 1..(swaps + 1) \ renamed
    BY <1>11 DEF CancelDelete, NamedInv
  <2>3. ~EarlyQuit => closes + 1 \notin used
    BY <1>11 DEF CancelDelete, NamedInv, OrderlyInv
  <2>4. UNCHANGED <<swaps, ts, used, renamed, cancelled, mainPc = "done">>
    BY <1>11 DEF CancelDelete, indexes, mainVars
  <2>5. Files!Discard
    BY <2>1, <2>2, <2>3, <2>4 DEF Files!Discard
  <2> QED
    BY <2>5 DEF Files!Next
<1>12. CASE UNCHANGED vars
  BY <1>12, Unseen DEF vars, seen, indexes, mainVars, disk
<1> QED
  BY <1>1, <1>2, <1>3, <1>4, <1>5, <1>6, <1>7, <1>8, <1>9, <1>10, <1>11, <1>12
     DEF Next, MainStep, OutStep, Environment, Arrive, Files!Next

LEMMA FilesInvInit == Init => FilesInv
BY DEF Init, FilesInv, NamedInv, OrderlyInv, ReliableInv

(* Under the same assumption the two threads keep every promise of CaptureLog:
   files are written one after the other, inside their periods, named once and
   only when they are left, and when the stop is orderly and nothing fails no
   packet is deleted or left without a final name. *)
THEOREM RotationKeepsFiles == ASSUME MaxGap <= 1, MaxLag <= 2 PROVE Spec => KeepsFiles
<1>1. Init => Files!Init
  BY DEF Init, InitIndexes, Files!Init
<1>2. IInvLag /\ FilesInv /\ [Next]_vars => FilesInv' /\ [Files!Next]_(Files!vars)
  BY NamedStep, OrderlyStep, ReliableStep, FilesStep DEF FilesInv
<1>3. Spec => []IInvLag
  BY IInvLagCorrect
<1> QED
  BY <1>1, <1>2, <1>3, FilesInvInit, PTL DEF Spec, KeepsFiles, Files!Spec

(* In particular, under that assumption, an orderly stop deletes no file with
   packets: "Close and delete unused file". *)
THEOREM OnlyUnusedDeleted ==
    ASSUME MaxGap <= 1, MaxLag <= 2, ~EarlyQuit
    PROVE  Spec => []UnusedDeleted
<1>1. Init => UnusedDeleted
  BY DEF Init, UnusedDeleted
<1>2. ASSUME IInvLag, FilesInv, UnusedDeleted, [Next]_vars
      PROVE  UnusedDeleted'
  <2>1. [Files!Next]_(Files!vars)
    BY <1>2, FilesStep
  <2>2. CASE Files!Write
    <3>1. deleted = {} /\ deleted' = {}
      BY <1>2, <2>2, Facts DEF Files!Write, FilesInv, NamedInv
    <3> QED
      BY <3>1 DEF UnusedDeleted
  <2>3. CASE Files!Discard
    BY <2>3 DEF Files!Discard, UnusedDeleted
  <2>4. CASE UNCHANGED <<used, deleted>>
    BY <1>2, <2>4 DEF UnusedDeleted
  <2> QED
    BY <2>1, <2>2, <2>3, <2>4 DEF Files!Next, Files!vars, Files!Receive, Files!Move,
       Files!Stop, Files!FinishNext, Files!Finish, Files!End
<1>3. IInvLag /\ FilesInv /\ [Next]_vars => FilesInv'
  BY NamedStep, OrderlyStep, ReliableStep DEF FilesInv
<1>4. Spec => []IInvLag
  BY IInvLagCorrect
<1> QED
  BY <1>1, <1>2, <1>3, <1>4, FilesInvInit, PTL DEF Spec

-----------------------------------------------------------------------------
(* A known transaction holds a request of its own key, and a response that is
   no request. *)
TransInv ==
    \A k \in Keys :
        /\ trans[k].request # None => /\ IsRequest(trans[k].request)
                                      /\ trans[k].request.key = k
        /\ trans[k].response # None => /\ ~IsRequest(trans[k].response)
                                       /\ trans[k].response.key = k

(* While the request of lastReqKey waits for its response and has been logged,
   it is the last packet of the log. *)
PendingInv ==
    lastReqKey # NoKey /\ lastReqOutput =>
        /\ out # <<>>
        /\ IsRequest(out[Len(out)]) /\ out[Len(out)].key = lastReqKey

FilterInv == FilterTypeOK /\ TransInv /\ PendingInv /\ ResponseAfterRequest

(* Nothing is logged between a request and its response, so a request that is
   logged late is still the newest. *)
TimeInv ==
    /\ \A k \in Keys : trans[k].request.ts <= now
    /\ \A i \in 1..Len(out) : out[i].ts <= now
    /\ lastReqKey # NoKey => \A i \in 1..Len(out) : out[i].ts <= trans[lastReqKey].request.ts

-----------------------------------------------------------------------------
(* The key of a frame that has one. *)
LEMMA KeyIn == \A f \in Frames : HasKey(f) => KeyOf(f) \in Keys
BY DEF Keys

LEMMA MatchKeyIn ==
    ASSUME FilterTypeOK, NEW f \in Frames, HasKey(f)
    PROVE  MatchKey(f) \in Keys
<1>1. KeyOf(f) \in Keys /\ KeyOf(f).src \in 0..127
  BY KeyIn, FramesAssumption DEF KeyOf
<1>2. AddressEq(KeyOf(f), lastReqKey) => lastReqKey # NoKey
  BY <1>1 DEF AddressEq, NoKey
<1> QED
  BY <1>1, <1>2 DEF MatchKey, FilterTypeOK

LEMMA NoKeyNotIn == NoKey \notin Keys
<1>1. \A f \in Frames : KeyOf(f).src \in 0..127
  BY FramesAssumption DEF KeyOf
<1>2. NoKey.src \notin 0..127
  BY DEF NoKey
<1> QED
  BY <1>1, <1>2 DEF Keys

(* NULL is not a packet. *)
LEMMA NoneNotIn == None \notin Packets
<1>1. None.key \notin Keys
  BY NoKeyNotIn DEF None
<1> QED
  BY <1>1 DEF Packets

(* A frame received now is a packet. *)
LEMMA PacketIn ==
    ASSUME FilterTypeOK, Tick, NEW f \in Frames, NEW k \in Keys
    PROVE  /\ Packet(f, k) \in Packets /\ Packet(f, k) # None /\ now' \in 0..MaxInputs
           /\ Packet(f, k).frame = f /\ Packet(f, k).key = k /\ Packet(f, k).ts = now'
           /\ now' = now + 1 /\ now \in Nat
<1>1. now' \in 1..MaxInputs /\ now' = now + 1 /\ now \in Nat
  BY InputsAssumption DEF Tick, FilterTypeOK
<1>2. Packet(f, k) \in Packets
  BY <1>1 DEF Packet, Packets
<1> QED
  BY <1>1, <1>2, NoneNotIn DEF Packet

-----------------------------------------------------------------------------
(* The log of a response. *)
LEMMA AnswerIn ==
    ASSUME FilterTypeOK, NEW k \in Keys, trans[k].request \in Packets, NEW p \in Packets,
           NEW changed \in BOOLEAN
    PROVE  Answer(p, k, changed) \in Seq(Packets)
BY DEF Answer, FilterTypeOK

LEMMA FilterTypeStep == FilterTypeOK /\ [FilterNext]_filterVars => FilterTypeOK'
<1> SUFFICES ASSUME FilterTypeOK, [FilterNext]_filterVars PROVE FilterTypeOK'
  OBVIOUS
<1>1. ASSUME NEW f \in Frames, Request(f) PROVE FilterTypeOK'
  <2> DEFINE k == MatchKey(f)
  <2>1. k \in Keys
    BY <1>1, MatchKeyIn DEF Request, HasKey
  <2> HIDE DEF k
  <2>2. Packet(f, k) \in Packets /\ Packet(f, k) # None /\ now' \in 0..MaxInputs
    BY <1>1, <2>1, PacketIn DEF Request
  <2>3. /\ trans' = [trans EXCEPT ![k].request = Packet(f, k)] /\ lastReqKey' = k
        /\ out' \in {out, Append(out, Packet(f, k))} /\ lastReqOutput' \in BOOLEAN
    BY <1>1 DEF Request, SetRequest, ReqOutput, k
  <2>4. trans'[k].request # None
    BY <2>1, <2>2, <2>3 DEF FilterTypeOK
  <2> QED
    <3>1. trans' \in [Keys -> [request : Packets \cup {None}, response : Packets \cup {None}]]
      BY <2>1, <2>2, <2>3 DEF FilterTypeOK
    <3>2. out' \in Seq(Packets)
      <4>1. out \in Seq(Packets)
        BY DEF FilterTypeOK
      <4>2. Append(out, Packet(f, k)) \in Seq(Packets)
        BY <2>2, <4>1
      <4> QED
        BY <2>3, <4>1, <4>2
    <3> QED
      BY <2>1, <2>2, <2>3, <2>4, <3>1, <3>2 DEF FilterTypeOK
<1>2. ASSUME NEW f \in Frames, Tick, lastReqKey \in Keys, Accept(f) PROVE FilterTypeOK'
  <2> DEFINE p == Packet(f, lastReqKey)
  <2>1. p \in Packets /\ p # None /\ now' \in 0..MaxInputs
    BY <1>2, PacketIn
  <2>2. trans[lastReqKey].request \in Packets
    BY <1>2, NoKeyNotIn DEF FilterTypeOK
  <2> HIDE DEF p
  <2>3. trans' \in [Keys -> [request : Packets \cup {None}, response : Packets \cup {None}]]
    BY <1>2, <2>1 DEF Accept, FilterTypeOK, p
  <2>4. out' \in Seq(Packets)
    <3>1. \E changed \in BOOLEAN : out' = Answer(p, lastReqKey, changed)
      BY <1>2 DEF Accept, p
    <3> QED
      BY <1>2, <2>1, <2>2, <3>1, AnswerIn
  <2> QED
    BY <1>2, <2>1, <2>3, <2>4 DEF Accept, FilterTypeOK
<1>3. ASSUME NEW f \in Frames, Response(f) PROVE FilterTypeOK'
  <2>1. lastReqKey \in Keys
    BY <1>3, MatchKeyIn DEF Response, HasKey
  <2> QED
    BY <1>2, <1>3, <2>1 DEF Response
<1>4. ASSUME NEW f \in Frames, Ack(f) PROVE FilterTypeOK'
  BY <1>2, <1>4 DEF Ack, FilterTypeOK
<1>5. ASSUME NEW f \in Frames, Ignored(f) \/ ResponseMismatch(f) \/ AckUnexpected(f)
      PROVE  FilterTypeOK'
  <2>1. now' \in 0..MaxInputs
    BY <1>5, InputsAssumption DEF Ignored, ResponseMismatch, AckUnexpected, Tick, FilterTypeOK
  <2>2. trans' = trans /\ out' = out /\ lastReqOutput' \in BOOLEAN
    BY <1>5 DEF Ignored, ResponseMismatch, AckUnexpected, FilterTypeOK
  <2>3. lastReqKey' \in {lastReqKey, NoKey}
    BY <1>5 DEF Ignored, ResponseMismatch, AckUnexpected
  <2> QED
    BY <2>1, <2>2, <2>3 DEF FilterTypeOK
<1>6. CASE UNCHANGED filterVars
  BY <1>6 DEF filterVars, FilterTypeOK
<1> QED
  BY <1>1, <1>3, <1>4, <1>5, <1>6 DEF FilterNext

(* What a step does to the log and the request it waits for, action by action. *)
LEMMA PairStep == FilterInv /\ [FilterNext]_filterVars => (TransInv /\ PendingInv /\ ResponseAfterRequest)'
<1> SUFFICES ASSUME FilterInv, [FilterNext]_filterVars PROVE (TransInv /\ PendingInv /\ ResponseAfterRequest)'
  OBVIOUS
<1>0. FilterTypeOK /\ TransInv /\ PendingInv /\ ResponseAfterRequest /\ out \in Seq(Packets)
  BY DEF FilterInv, FilterTypeOK
<1>1. ASSUME NEW f \in Frames, Request(f)
      PROVE  (TransInv /\ PendingInv /\ ResponseAfterRequest)'
  <2> DEFINE k == MatchKey(f)
             p == Packet(f, k)
  <2>1. k \in Keys
    BY <1>0, <1>1, MatchKeyIn DEF Request, HasKey
  <2>2. p \in Packets /\ p.key = k /\ IsRequest(p)
    BY <1>0, <1>1, <2>1, PacketIn DEF Request, IsRequest
  <2>3. /\ trans' = [trans EXCEPT ![k].request = p] /\ lastReqKey' = k
        /\ \/ out' = out /\ lastReqOutput' = FALSE
           \/ out' = Append(out, p) /\ lastReqOutput' = TRUE
    BY <1>1 DEF Request, SetRequest, ReqOutput
  <2> HIDE DEF k, p
  <2>4. TransInv'
    BY <1>0, <2>1, <2>2, <2>3 DEF TransInv, FilterTypeOK
  <2>5. CASE out' = out /\ lastReqOutput' = FALSE
    BY <1>0, <2>4, <2>5 DEF PendingInv, ResponseAfterRequest
  <2>6. CASE out' = Append(out, p) /\ lastReqOutput' = TRUE
    <3>1. /\ Len(out') = Len(out) + 1 /\ out'[Len(out')] = p
          /\ \A i \in 1..Len(out) : out'[i] = out[i]
      BY <1>0, <2>2, <2>6
    <3>2. PendingInv'
      BY <1>0, <2>2, <2>3, <3>1, <2>6 DEF PendingInv
    <3>3. ResponseAfterRequest'
      BY <1>0, <2>2, <3>1 DEF ResponseAfterRequest
    <3> QED
      BY <2>4, <3>2, <3>3
  <2> QED
    BY <2>3, <2>5, <2>6
<1>2. ASSUME NEW f \in Frames, ~(f.kind = "request"), Tick, lastReqKey \in Keys, Accept(f)
      PROVE  (TransInv /\ PendingInv /\ ResponseAfterRequest)'
  <2> DEFINE k == lastReqKey
             p == Packet(f, k)
             q == trans[k].request
  <2>1. p \in Packets /\ p.key = k /\ ~IsRequest(p)
    BY <1>0, <1>2, PacketIn DEF IsRequest
  <2>2. q \in Packets /\ q.key = k /\ IsRequest(q)
    BY <1>0, <1>2, NoKeyNotIn DEF FilterTypeOK, TransInv
  <2>3. trans' = [trans EXCEPT ![k].response = p] /\ lastReqKey' = NoKey
    BY <1>2 DEF Accept
  <2>4. TransInv' /\ PendingInv'
    BY <1>0, <1>2, <2>1, <2>3 DEF TransInv, PendingInv, FilterTypeOK
  <2>5. \/ lastReqOutput /\ out' = Append(out, p)
        \/ out' = Append(Append(out, q), p)
        \/ out' = out
    BY <1>2 DEF Accept, Answer
  <2> HIDE DEF p, q
  <2>6. CASE lastReqOutput /\ out' = Append(out, p)
    <3>1. /\ Len(out') = Len(out) + 1 /\ out'[Len(out')] = p
          /\ \A i \in 1..Len(out) : out'[i] = out[i]
      BY <1>0, <2>1, <2>6
    <3>2. Len(out) > 0 /\ IsRequest(out[Len(out)]) /\ out[Len(out)].key = k
      BY <1>0, <1>2, <2>6, NoKeyNotIn DEF PendingInv
    <3>3. ResponseAfterRequest'
      BY <1>0, <2>1, <3>1, <3>2 DEF ResponseAfterRequest
    <3> QED
      BY <2>4, <3>3
  <2>7. CASE out' = Append(Append(out, q), p)
    <3>1. /\ Len(out') = Len(out) + 2
          /\ out'[Len(out) + 2] = p /\ out'[Len(out) + 1] = q
          /\ \A i \in 1..Len(out) : out'[i] = out[i]
      BY <1>0, <2>1, <2>2, <2>7
    <3>2. ResponseAfterRequest'
      BY <1>0, <2>1, <2>2, <3>1 DEF ResponseAfterRequest
    <3> QED
      BY <2>4, <3>2
  <2>8. CASE out' = out
    BY <1>0, <2>4, <2>8 DEF ResponseAfterRequest
  <2> QED
    BY <2>5, <2>6, <2>7, <2>8
<1>3. ASSUME NEW f \in Frames, Response(f)
      PROVE  (TransInv /\ PendingInv /\ ResponseAfterRequest)'
  <2>1. lastReqKey \in Keys
    BY <1>0, <1>3, MatchKeyIn DEF Response, HasKey
  <2> QED
    BY <1>2, <1>3, <2>1 DEF Response
<1>4. ASSUME NEW f \in Frames, Ack(f)
      PROVE  (TransInv /\ PendingInv /\ ResponseAfterRequest)'
  BY <1>0, <1>2, <1>4 DEF Ack, FilterTypeOK
<1>5. ASSUME NEW f \in Frames, Ignored(f) \/ ResponseMismatch(f) \/ AckUnexpected(f)
      PROVE  (TransInv /\ PendingInv /\ ResponseAfterRequest)'
  <2>1. trans' = trans /\ out' = out
    BY <1>5 DEF Ignored, ResponseMismatch, AckUnexpected
  <2>2. PendingInv'
    BY <1>0, <1>5 DEF Ignored, ResponseMismatch, AckUnexpected, PendingInv
  <2> QED
    BY <1>0, <2>1, <2>2 DEF TransInv, ResponseAfterRequest
<1>6. CASE UNCHANGED filterVars
  BY <1>0, <1>6 DEF filterVars, TransInv, PendingInv, ResponseAfterRequest
<1> QED
  BY <1>1, <1>3, <1>4, <1>5, <1>6 DEF FilterNext

(* The first state. *)
LEMMA InitInv == FilterInit => FilterInv /\ TimeInv
<1> SUFFICES ASSUME FilterInit PROVE FilterInv /\ TimeInv
  OBVIOUS
<1>1. FilterTypeOK
  <2>1. trans \in [Keys -> [request : Packets \cup {None}, response : Packets \cup {None}]]
    BY DEF FilterInit
  <2>2. out \in Seq(Packets)
    BY DEF FilterInit
  <2>3. now \in 0..MaxInputs
    BY InputsAssumption DEF FilterInit
  <2>4. lastReqKey = NoKey /\ lastReqOutput \in BOOLEAN
    BY DEF FilterInit
  <2> QED
    BY <2>1, <2>2, <2>3, <2>4 DEF FilterTypeOK
<1> QED
  BY <1>1 DEF FilterInit, FilterInv, TransInv, PendingInv, ResponseAfterRequest, TimeInv, None

(* The type invariant: last_req_key is the key of a stored request whenever it
   is a key, so pb_filter_input's lookups for a response never fail. *)
THEOREM FilterTypeCorrect == FilterSpec => []FilterTypeOK
<1> QED
  BY InitInv, FilterTypeStep, PTL DEF FilterSpec, FilterInv

(* In the log every response stands directly after the request it answers,
   for any traffic. *)
THEOREM PairedLog == FilterSpec => []ResponseAfterRequest
<1>1. FilterInv /\ [FilterNext]_filterVars => FilterInv'
  BY FilterTypeStep, PairStep DEF FilterInv
<1> QED
  BY <1>1, InitInv, PTL DEF FilterSpec, FilterInv

-----------------------------------------------------------------------------
(* Timestamps are numbers, that of a missing packet included. *)
LEMMA Times ==
    ASSUME FilterTypeOK
    PROVE  /\ now \in Nat
           /\ \A k \in Keys : trans[k].request.ts \in Nat
           /\ \A i \in 1..Len(out) : out[i].ts \in Nat /\ out[i] \in Packets
<1>1. \A p \in Packets \cup {None} : p.ts \in Nat
  BY InputsAssumption DEF Packets, None
<1> QED
  BY <1>1, InputsAssumption DEF FilterTypeOK

(* A log in order stays so when a packet no older than its packets follows. *)
LEMMA AppendInOrder ==
    ASSUME NEW s \in Seq(Packets), NEW p \in Packets, NEW n \in Nat, p.ts \in Nat,
           \A i \in 1..Len(s) : s[i].ts \in Nat /\ s[i].ts <= p.ts,
           \A i, j \in 1..Len(s) : i < j => s[i].ts <= s[j].ts
    PROVE  /\ Append(s, p) \in Seq(Packets)
           /\ \A i, j \in 1..Len(Append(s, p)) : i < j => Append(s, p)[i].ts <= Append(s, p)[j].ts
           /\ p.ts <= n => \A i \in 1..Len(Append(s, p)) :
                              Append(s, p)[i].ts \in Nat /\ Append(s, p)[i].ts <= n
<1>1. /\ Append(s, p) \in Seq(Packets) /\ Len(Append(s, p)) = Len(s) + 1 /\ Len(s) \in Nat
      /\ Append(s, p)[Len(s) + 1] = p /\ \A i \in 1..Len(s) : Append(s, p)[i] = s[i]
  OBVIOUS
<1> QED
  BY <1>1

LEMMA TimeStep ==
    FilterInv /\ FilterInv' /\ TimeInv /\ OutputInOrder /\ [FilterNext]_filterVars => TimeInv' /\ OutputInOrder'
<1> SUFFICES ASSUME FilterInv, FilterInv', TimeInv, OutputInOrder, [FilterNext]_filterVars
             PROVE  TimeInv' /\ OutputInOrder'
  OBVIOUS
<1>0. FilterTypeOK /\ out \in Seq(Packets)
  BY DEF FilterInv, FilterTypeOK
<1>1. ASSUME NEW f \in Frames, Request(f) PROVE TimeInv' /\ OutputInOrder'
  <2> DEFINE k == MatchKey(f)
             p == Packet(f, k)
  <2>1. k \in Keys
    BY <1>0, <1>1, MatchKeyIn DEF Request, HasKey
  <2>2. p \in Packets /\ p.ts = now + 1 /\ now' = now + 1 /\ now \in Nat
    BY <1>0, <1>1, <2>1, PacketIn DEF Request
  <2>3. /\ trans' = [trans EXCEPT ![k].request = p] /\ lastReqKey' = k
        /\ out' = out \/ out' = Append(out, p)
    BY <1>1 DEF Request, SetRequest
  <2> HIDE DEF k, p
  <2>4. \A l \in Keys : trans'[l].request.ts <= now'
    BY <1>0, <2>1, <2>2, <2>3, Times DEF FilterTypeOK, TimeInv
  <2>5. trans'[k].request.ts = now'
    BY <1>0, <2>1, <2>2, <2>3 DEF FilterTypeOK
  <2>6. \A i \in 1..Len(out) : out[i].ts \in Nat /\ out[i].ts <= p.ts /\ out[i].ts <= now'
    BY <1>0, <2>2, Times DEF TimeInv
  <2>7. (\A i \in 1..Len(out') : out'[i].ts <= now') /\ OutputInOrder'
    <3>1. CASE out' = out
      BY <2>6, <3>1 DEF OutputInOrder
    <3>2. CASE out' = Append(out, p)
      <4>1. now' \in Nat /\ p.ts <= now' /\ p.ts \in Nat
        BY <2>2
      <4> QED
        BY <1>0, <2>2, <2>6, <3>2, <4>1, AppendInOrder DEF OutputInOrder
    <3> QED
      BY <2>3, <3>1, <3>2
  <2> QED
    BY <2>3, <2>4, <2>5, <2>7 DEF TimeInv
<1>2. ASSUME NEW f \in Frames, Tick, lastReqKey \in Keys, Accept(f)
      PROVE  TimeInv' /\ OutputInOrder'
  <2> DEFINE k == lastReqKey
             p == Packet(f, k)
             q == trans[k].request
  <2>1. p \in Packets /\ p.ts = now + 1 /\ now' = now + 1 /\ now \in Nat
    BY <1>0, <1>2, PacketIn
  <2>2. q \in Packets /\ q.ts \in Nat /\ q.ts <= now
    BY <1>0, <1>2, NoKeyNotIn, Times DEF FilterTypeOK, TimeInv
  <2>3. trans' = [trans EXCEPT ![k].response = p] /\ lastReqKey' = NoKey
    BY <1>2 DEF Accept
  <2>4. \/ out' = Append(out, p) \/ out' = Append(Append(out, q), p) \/ out' = out
    BY <1>2 DEF Accept, Answer
  <2> HIDE DEF p
  <2>5. \A l \in Keys : trans'[l].request.ts <= now'
    BY <1>0, <1>2, <2>1, <2>3, Times DEF FilterTypeOK, TimeInv
  <2>6. \A i \in 1..Len(out) : /\ out[i].ts \in Nat /\ out[i].ts <= q.ts /\ out[i].ts <= p.ts
                               /\ out[i].ts <= now'
    BY <1>0, <1>2, <2>1, <2>2, NoKeyNotIn, Times DEF TimeInv
  <2> HIDE DEF q
  <2>7. now' \in Nat /\ p.ts <= now' /\ p.ts \in Nat /\ q.ts <= p.ts /\ q.ts <= now'
    BY <2>1, <2>2
  <2>8. (\A i \in 1..Len(out') : out'[i].ts <= now') /\ OutputInOrder'
    <3>1. CASE out' = out
      BY <2>6, <3>1 DEF OutputInOrder
    <3>2. CASE out' = Append(out, p)
      BY <1>0, <2>1, <2>6, <2>7, <3>2, AppendInOrder DEF OutputInOrder
    <3>3. CASE out' = Append(Append(out, q), p)
      <4> DEFINE s == Append(out, q)
      <4>1. /\ s \in Seq(Packets)
            /\ \A i, j \in 1..Len(s) : i < j => s[i].ts <= s[j].ts
            /\ \A i \in 1..Len(s) : s[i].ts \in Nat /\ s[i].ts <= p.ts
        BY <1>0, <2>2, <2>6, <2>7, AppendInOrder DEF OutputInOrder
      <4> HIDE DEF s
      <4>2. out' = Append(s, p)
        BY <3>3 DEF s
      <4> QED
        BY <2>1, <2>7, <4>1, <4>2, AppendInOrder DEF OutputInOrder
    <3> QED
      BY <2>4, <3>1, <3>2, <3>3
  <2> QED
    BY <2>3, <2>5, <2>8 DEF TimeInv
<1>3. ASSUME NEW f \in Frames, Response(f) PROVE TimeInv' /\ OutputInOrder'
  <2>1. lastReqKey \in Keys
    BY <1>0, <1>3, MatchKeyIn DEF Response, HasKey
  <2> QED
    BY <1>2, <1>3, <2>1 DEF Response
<1>4. ASSUME NEW f \in Frames, Ack(f) PROVE TimeInv' /\ OutputInOrder'
  BY <1>0, <1>2, <1>4 DEF Ack, FilterTypeOK
<1>5. ASSUME NEW f \in Frames, Ignored(f) \/ ResponseMismatch(f) \/ AckUnexpected(f)
      PROVE  TimeInv' /\ OutputInOrder'
  <2>1. trans' = trans /\ out' = out /\ now' = now + 1 /\ lastReqKey' \in {lastReqKey, NoKey}
    BY <1>5 DEF Ignored, ResponseMismatch, AckUnexpected, Tick
  <2> QED
    BY <1>0, <2>1, Times DEF TimeInv, OutputInOrder
<1>6. CASE UNCHANGED filterVars
  BY <1>6 DEF filterVars, TimeInv, OutputInOrder
<1> QED
  BY <1>1, <1>3, <1>4, <1>5, <1>6 DEF FilterNext

(* The timestamps of the log never decrease, although requests are logged
   late. *)
THEOREM LogInOrder == FilterSpec => []OutputInOrder
<1>1. FilterInit => FilterInv /\ TimeInv /\ OutputInOrder
  BY InitInv DEF FilterInit, OutputInOrder
<1>2. FilterInv /\ [FilterNext]_filterVars => FilterInv'
  BY FilterTypeStep, PairStep DEF FilterInv
<1>3. FilterInv /\ TimeInv /\ OutputInOrder /\ [FilterNext]_filterVars => (TimeInv /\ OutputInOrder)'
  BY <1>2, TimeStep
<1> QED
  BY <1>1, <1>2, <1>3, PTL DEF FilterSpec

-----------------------------------------------------------------------------
(* What the log says of the transactions.                                    *)

(* Frames that differ at most in the alternating bit. *)
LEMMA PlainFrames ==
    ASSUME NEW f \in Frames, NEW g \in Frames
    PROVE  /\ [g EXCEPT !.alt = f.alt] = f <=> [g EXCEPT !.alt = FALSE] = [f EXCEPT !.alt = FALSE]
           /\ g.alt = f.alt /\ [g EXCEPT !.alt = FALSE] = [f EXCEPT !.alt = FALSE] => g = f
<1>1. /\ f = [kind |-> f.kind, src |-> f.src, dst |-> f.dst, ssap |-> f.ssap,
              dsap |-> f.dsap, fc |-> f.fc, alt |-> f.alt, pdu |-> f.pdu]
      /\ g = [kind |-> g.kind, src |-> g.src, dst |-> g.dst, ssap |-> g.ssap,
              dsap |-> g.dsap, fc |-> g.fc, alt |-> g.alt, pdu |-> g.pdu]
  BY FramesAssumption
<1> QED
  BY <1>1

(* packets_equal tells packets apart as Alike does, but for stubs. *)
LEMMA EqualIsAlike ==
    ASSUME NEW f \in Frames, NEW p \in Packets \cup {None}, NEW q, q.frame = f
    PROVE  /\ Equal(p, f) => p \in Packets /\ Alike(p, q)
           /\ /\ p \in Packets /\ f.pdu # Stub /\ (IsRequest(p) <=> f.kind = "request")
              /\ Alike(p, q)
              => Equal(p, f)
<1>1. p \in Packets => p # None /\ p.frame \in Frames
  BY NoneNotIn DEF Packets
<1>2. Equal(p, f) => p \in Packets /\ Alike(p, q)
  BY <1>1, PlainFrames DEF Equal, Alike
<1>3. ASSUME p \in Packets, f.pdu # Stub, IsRequest(p) <=> f.kind = "request", Alike(p, q)
      PROVE  Equal(p, f)
  <2>1. CASE f.kind = "request"
    BY <1>1, <1>3, <2>1, PlainFrames DEF Equal, Alike
  <2>2. CASE f.kind # "request"
    <3>1. p.frame.alt = f.alt
      BY <1>1, <1>3, <2>2, FramesAssumption DEF IsRequest
    <3> QED
      BY <1>1, <1>3, <3>1, PlainFrames DEF Equal, Alike
  <2> QED
    BY <2>1, <2>2
<1> QED
  BY <1>2, <1>3

(* What is known of a log that has become longer by one packet. *)
LEMMA LongerByOne ==
    ASSUME NEW seq \in Seq(Packets), NEW p \in Packets
    PROVE  /\ Append(seq, p) \in Seq(Packets) /\ Len(Append(seq, p)) = Len(seq) + 1
           /\ Len(seq) \in Nat /\ Append(seq, p)[Len(seq) + 1] = p
           /\ \A i \in 1..Len(seq) : Append(seq, p)[i] = seq[i]
OBVIOUS

LEMMA TwoLonger ==
    ASSUME NEW seq \in Seq(Packets), NEW q \in Packets, NEW p \in Packets
    PROVE  /\ Len(Append(Append(seq, q), p)) = Len(seq) + 2 /\ Len(seq) \in Nat
           /\ Append(Append(seq, q), p)[Len(seq) + 1] = q
           /\ Append(Append(seq, q), p)[Len(seq) + 2] = p
           /\ \A i \in 1..Len(seq) : Append(Append(seq, q), p)[i] = seq[i]
OBVIOUS

LEMMA LoggedLast ==
    ASSUME NEW seq \in Seq(Packets), NEW p \in Packets
    PROVE  LastLogged(p, Append(seq, p))
<1>1. Len(seq) + 1 \in 1..Len(Append(seq, p)) /\ Append(seq, p)[Len(seq) + 1] = p
  BY LongerByOne
<1>2. \A j \in (Len(seq) + 1 + 1)..Len(Append(seq, p)) : FALSE
  BY LongerByOne
<1>3. SamePlace(p, p) /\ Alike(p, p)
  BY DEF SamePlace, Alike
<1> QED
  BY <1>1, <1>2, <1>3 DEF LastLogged

LEMMA LoggedStill ==
    ASSUME NEW seq \in Seq(Packets), NEW p \in Packets, NEW q, LastLogged(q, seq),
           ~SamePlace(p, q)
    PROVE  LastLogged(q, Append(seq, p))
<1>1. PICK i \in 1..Len(seq) : /\ SamePlace(seq[i], q) /\ Alike(seq[i], q)
                               /\ \A j \in (i + 1)..Len(seq) : ~SamePlace(seq[j], q)
  BY DEF LastLogged
<1>2. i \in 1..Len(Append(seq, p)) /\ Append(seq, p)[i] = seq[i]
  BY LongerByOne
<1>3. ASSUME NEW j \in (i + 1)..Len(Append(seq, p))
      PROVE  ~SamePlace(Append(seq, p)[j], q)
  <2>1. CASE j = Len(seq) + 1
    BY <2>1, LongerByOne
  <2>2. CASE j # Len(seq) + 1
    <3>1. j \in (i + 1)..Len(seq) /\ Append(seq, p)[j] = seq[j]
      BY <2>2, LongerByOne
    <3> QED
      BY <1>1, <3>1
  <2> QED
    BY <2>1, <2>2
<1> QED
  BY <1>1, <1>2, <1>3 DEF LastLogged

LEMMA LoggedLike ==
    ASSUME NEW seq, NEW p, NEW q, LastLogged(q, seq), SamePlace(q, p), Alike(q, p)
    PROVE  LastLogged(p, seq)
BY DEF LastLogged, SamePlace, Alike

(* The last packet of a key and a direction is the one the filter knows. *)
IsLast(i, q) == SamePlace(out[i], q) /\ \A j \in (i + 1)..Len(out) : ~SamePlace(out[j], q)

LEMMA LastIsAlike ==
    ASSUME out \in Seq(Packets), NEW q, LastLogged(q, out), NEW i \in 1..Len(out), IsLast(i, q)
    PROVE  Alike(out[i], q)
<1>0. SamePlace(out[i], q) /\ \A j \in (i + 1)..Len(out) : ~SamePlace(out[j], q)
  BY DEF IsLast
<1>1. PICK n \in 1..Len(out) : /\ SamePlace(out[n], q) /\ Alike(out[n], q)
                               /\ \A j \in (n + 1)..Len(out) : ~SamePlace(out[j], q)
  BY DEF LastLogged
<1>2. ~(i < n) /\ ~(n < i)
  BY <1>0, <1>1
<1> QED
  BY <1>1, <1>2

(* A packet that is logged is known by the transaction of its key. *)
Known ==
    \A i \in 1..Len(out) :
        /\ IsRequest(out[i]) => trans[out[i].key].request # None
        /\ ~IsRequest(out[i]) => trans[out[i].key].response # None

LogInv == Known /\ LogComplete

(* What a request changes. *)
RequestChange(f, k, p) ==
    /\ k \in Keys /\ p \in Packets /\ p.frame = f /\ p.key = k /\ IsRequest(p)
    /\ trans' = [trans EXCEPT ![k].request = p]
    /\ \/ Equal(trans[k].request, f) /\ out' = out
       \/ ~Equal(trans[k].request, f) /\ out' = Append(out, p)

(* What a response to request q of transaction k changes. *)
ResponseChange(f, k, p, q) ==
    /\ k \in Keys /\ p \in Packets /\ p.frame = f /\ p.key = k /\ ~IsRequest(p)
    /\ q = trans[k].request /\ q \in Packets /\ q.key = k /\ IsRequest(q)
    /\ trans' = [trans EXCEPT ![k].response = p]
    /\ \/ out' = Append(out, p) /\ out # <<>> /\ IsRequest(out[Len(out)])
       \/ ~Equal(trans[k].response, f) /\ out' = Append(Append(out, q), p)
       \/ Equal(trans[k].response, f) /\ out' = out

LEMMA Changes ==
    ASSUME FilterInv, [FilterNext]_filterVars
    PROVE  \/ \E f \in Frames : \E k, p : RequestChange(f, k, p)
           \/ \E f \in Frames : \E k, p, q : ResponseChange(f, k, p, q)
           \/ UNCHANGED <<trans, out>>
<1>0. FilterTypeOK /\ TransInv /\ PendingInv
  BY DEF FilterInv
<1>1. ASSUME NEW f \in Frames, Request(f)
      PROVE  \E k, p : RequestChange(f, k, p)
  <2> DEFINE k == MatchKey(f)
             p == Packet(f, k)
  <2>1. k \in Keys
    BY <1>0, <1>1, MatchKeyIn DEF Request, HasKey
  <2>2. p \in Packets /\ p.frame = f /\ p.key = k /\ IsRequest(p)
    BY <1>0, <1>1, <2>1, PacketIn DEF Request, IsRequest
  <2>3. /\ trans' = [trans EXCEPT ![k].request = p]
        /\ out' = IF ~Equal(trans[k].request, f) THEN Append(out, p) ELSE out
    BY <1>1 DEF Request, SetRequest
  <2> HIDE DEF k, p
  <2> QED
    BY <2>1, <2>2, <2>3 DEF RequestChange
<1>2. ASSUME NEW f \in Frames, f.kind # "request", Tick, lastReqKey \in Keys, Accept(f)
      PROVE  \E k, p, q : ResponseChange(f, k, p, q)
  <2> DEFINE k == lastReqKey
             p == Packet(f, k)
             q == trans[k].request
  <2>1. p \in Packets /\ p.frame = f /\ p.key = k /\ ~IsRequest(p)
    BY <1>0, <1>2, PacketIn DEF IsRequest
  <2>2. q \in Packets /\ q.key = k /\ IsRequest(q)
    BY <1>0, <1>2, NoKeyNotIn DEF FilterTypeOK, TransInv
  <2>3. /\ trans' = [trans EXCEPT ![k].response = p]
        /\ out' = Answer(p, k, ~Equal(trans[k].response, f))
    BY <1>2 DEF Accept
  <2> HIDE DEF p
  <2>4. CASE lastReqOutput
    <3>1. out # <<>> /\ IsRequest(out[Len(out)])
      BY <1>0, <1>2, <2>4, NoKeyNotIn DEF PendingInv
    <3>2. out' = Append(out, p)
      BY <2>3, <2>4 DEF Answer
    <3> QED
      BY <1>2, <2>1, <2>2, <2>3, <3>1, <3>2 DEF ResponseChange
  <2>5. CASE ~lastReqOutput /\ ~Equal(trans[k].response, f)
    <3>1. out' = Append(Append(out, q), p)
      BY <2>3, <2>5 DEF Answer
    <3> QED
      BY <1>2, <2>1, <2>2, <2>3, <2>5, <3>1 DEF ResponseChange
  <2>6. CASE ~lastReqOutput /\ Equal(trans[k].response, f)
    <3>1. out' = out
      BY <2>3, <2>6 DEF Answer
    <3> QED
      BY <1>2, <2>1, <2>2, <2>3, <2>6, <3>1 DEF ResponseChange
  <2> QED
    BY <2>4, <2>5, <2>6
<1>3. ASSUME NEW f \in Frames, Response(f)
      PROVE  \E k, p, q : ResponseChange(f, k, p, q)
  <2>1. lastReqKey \in Keys /\ f.kind # "request"
    BY <1>0, <1>3, MatchKeyIn DEF Response, HasKey
  <2> QED
    BY <1>2, <1>3, <2>1 DEF Response
<1>4. ASSUME NEW f \in Frames, Ack(f)
      PROVE  \E k, p, q : ResponseChange(f, k, p, q)
  BY <1>0, <1>2, <1>4 DEF Ack, FilterTypeOK
<1>5. ASSUME NEW f \in Frames, Ignored(f) \/ ResponseMismatch(f) \/ AckUnexpected(f)
      PROVE  UNCHANGED <<trans, out>>
  BY <1>5 DEF Ignored, ResponseMismatch, AckUnexpected
<1>6. CASE UNCHANGED filterVars
  BY <1>6 DEF filterVars
<1> QED
  BY <1>1, <1>3, <1>4, <1>5, <1>6 DEF FilterNext

(* Packets of other keys, and of the other direction, are in another place. *)
LEMMA OtherPlace ==
    ASSUME NEW p, NEW q, p.key # q.key \/ ~(IsRequest(p) <=> IsRequest(q))
    PROVE  ~SamePlace(p, q)
BY DEF SamePlace

LEMMA CompleteRequest ==
    ASSUME FilterTypeOK, TransInv, LogComplete, NEW f \in Frames, NEW k, NEW p, RequestChange(f, k, p)
    PROVE  LogComplete'
<1>1. /\ k \in Keys /\ p \in Packets /\ p.frame = f /\ p.key = k /\ IsRequest(p)
      /\ trans' = [trans EXCEPT ![k].request = p] /\ out \in Seq(Packets)
  BY DEF RequestChange, FilterTypeOK
<1>2. ASSUME NEW l \in Keys
      PROVE  /\ trans'[l].response = trans[l].response
             /\ l # k => trans'[l].request = trans[l].request
             /\ l = k => trans'[l].request = p
  BY <1>1 DEF FilterTypeOK
<1>3. CASE Equal(trans[k].request, f) /\ out' = out
  <2>1. SamePlace(trans[k].request, p) /\ Alike(trans[k].request, p)
    <3>1. trans[k].request \in Packets \cup {None}
      BY <1>1 DEF FilterTypeOK
    <3>2. trans[k].request \in Packets /\ Alike(trans[k].request, p)
      BY <1>1, <1>3, <3>1, EqualIsAlike
    <3> QED
      BY <1>1, <3>2, NoneNotIn DEF TransInv, SamePlace
  <2>2. LastLogged(trans[k].request, out)
    BY <1>1, <1>3 DEF Equal, LogComplete
  <2>3. LastLogged(p, out)
    BY <2>1, <2>2, LoggedLike
  <2> QED
    BY <1>2, <1>3, <2>3 DEF LogComplete
<1>4. CASE out' = Append(out, p)
  <2>1. ASSUME NEW l \in Keys, trans[l].response # None
        PROVE  LastLogged(trans[l].response, out')
    <3>1. ~SamePlace(p, trans[l].response)
      BY <1>1, <2>1, OtherPlace DEF TransInv
    <3> QED
      BY <1>1, <1>4, <2>1, <3>1, LoggedStill DEF LogComplete
  <2>2. ASSUME NEW l \in Keys, l # k, trans[l].request # None
        PROVE  LastLogged(trans[l].request, out')
    <3>1. ~SamePlace(p, trans[l].request)
      BY <1>1, <2>2, OtherPlace DEF TransInv
    <3> QED
      BY <1>1, <1>4, <2>2, <3>1, LoggedStill DEF LogComplete
  <2>3. LastLogged(p, out')
    BY <1>1, <1>4, LoggedLast
  <2> QED
    BY <1>2, <2>1, <2>2, <2>3 DEF LogComplete
<1> QED
  BY <1>3, <1>4 DEF RequestChange

LEMMA CompleteResponse ==
    ASSUME FilterTypeOK, TransInv, LogComplete, NEW f \in Frames, NEW k, NEW p, NEW q,
           ResponseChange(f, k, p, q)
    PROVE  LogComplete'
<1>1. /\ k \in Keys /\ p \in Packets /\ p.frame = f /\ p.key = k /\ ~IsRequest(p)
      /\ q = trans[k].request /\ q \in Packets /\ q.key = k /\ IsRequest(q)
      /\ trans' = [trans EXCEPT ![k].response = p] /\ out \in Seq(Packets) /\ q # None
  BY NoneNotIn DEF ResponseChange, FilterTypeOK
<1>2. ASSUME NEW l \in Keys
      PROVE  /\ trans'[l].request = trans[l].request
             /\ l # k => trans'[l].response = trans[l].response
             /\ l = k => trans'[l].response = p
  BY <1>1 DEF FilterTypeOK
<1>3. CASE Equal(trans[k].response, f) /\ out' = out
  <2>1. SamePlace(trans[k].response, p) /\ Alike(trans[k].response, p)
    <3>1. trans[k].response \in Packets \cup {None}
      BY <1>1 DEF FilterTypeOK
    <3>2. trans[k].response \in Packets /\ Alike(trans[k].response, p)
      BY <1>1, <1>3, <3>1, EqualIsAlike
    <3> QED
      BY <1>1, <3>2, NoneNotIn DEF TransInv, SamePlace, IsRequest
  <2>2. LastLogged(trans[k].response, out)
    BY <1>1, <1>3 DEF Equal, LogComplete
  <2>3. LastLogged(p, out)
    BY <2>1, <2>2, LoggedLike
  <2> QED
    BY <1>2, <1>3, <2>3 DEF LogComplete
<1>4. ASSUME NEW seq \in Seq(Packets), out' = Append(seq, p),
             \A l \in Keys :
                 /\ trans[l].request # None => LastLogged(trans[l].request, seq)
                 /\ l # k /\ trans[l].response # None => LastLogged(trans[l].response, seq)
      PROVE  LogComplete'
  <2>1. ASSUME NEW l \in Keys, trans[l].request # None
        PROVE  LastLogged(trans[l].request, out')
    <3>1. ~SamePlace(p, trans[l].request)
      BY <1>1, <2>1, OtherPlace DEF TransInv
    <3> QED
      BY <1>1, <1>4, <2>1, <3>1, LoggedStill
  <2>2. ASSUME NEW l \in Keys, l # k, trans[l].response # None
        PROVE  LastLogged(trans[l].response, out')
    <3>1. ~SamePlace(p, trans[l].response)
      BY <1>1, <2>2, OtherPlace DEF TransInv
    <3> QED
      BY <1>1, <1>4, <2>2, <3>1, LoggedStill
  <2>3. LastLogged(p, out')
    BY <1>1, <1>4, LoggedLast
  <2> QED
    BY <1>2, <2>1, <2>2, <2>3 DEF LogComplete
<1>5. CASE out' = Append(out, p)
  BY <1>1, <1>4, <1>5 DEF LogComplete
<1>6. CASE out' = Append(Append(out, q), p)
  <2> DEFINE seq == Append(out, q)
  <2>1. seq \in Seq(Packets) /\ LastLogged(q, seq)
    BY <1>1, LoggedLast, LongerByOne
  <2>2. ASSUME NEW l \in Keys, l # k, trans[l].request # None
        PROVE  LastLogged(trans[l].request, seq)
    <3>1. ~SamePlace(q, trans[l].request)
      BY <1>1, <2>2, OtherPlace DEF TransInv
    <3> QED
      BY <1>1, <2>2, <3>1, LoggedStill DEF LogComplete
  <2>3. ASSUME NEW l \in Keys, trans[l].response # None
        PROVE  LastLogged(trans[l].response, seq)
    <3>1. ~SamePlace(q, trans[l].response)
      BY <1>1, <2>3, OtherPlace DEF TransInv
    <3> QED
      BY <1>1, <2>3, <3>1, LoggedStill DEF LogComplete
  <2>4. out' = Append(seq, p)
    BY <1>6
  <2> HIDE DEF seq
  <2> QED
    BY <1>1, <1>4, <2>1, <2>2, <2>3, <2>4
<1> QED
  BY <1>3, <1>5, <1>6 DEF ResponseChange

LEMMA CompleteStep ==
    ASSUME FilterInv, LogComplete, [FilterNext]_filterVars
    PROVE  LogComplete'
<1>1. FilterTypeOK /\ TransInv
  BY DEF FilterInv
<1>2. CASE UNCHANGED <<trans, out>>
  BY <1>2 DEF LogComplete
<1> QED
  BY <1>1, <1>2, Changes, CompleteRequest, CompleteResponse

(* Nothing that changed is missing from the log. *)
THEOREM NothingMissing == FilterSpec => []LogComplete
<1>1. FilterInit => FilterInv /\ LogComplete
  BY InitInv DEF FilterInit, LogComplete
<1>2. FilterInv /\ LogComplete /\ [FilterNext]_filterVars => FilterInv' /\ LogComplete'
  BY FilterTypeStep, PairStep, CompleteStep DEF FilterInv
<1> QED
  BY <1>1, <1>2, PTL DEF FilterSpec

-----------------------------------------------------------------------------
(* Repeated exchanges.                                                       *)

LEMMA KnownStep ==
    ASSUME FilterInv, Known, [FilterNext]_filterVars
    PROVE  Known'
<1>0. FilterTypeOK /\ out \in Seq(Packets)
  BY DEF FilterInv, FilterTypeOK
<1>1. CASE UNCHANGED <<trans, out>>
  BY <1>1 DEF Known
<1>2. ASSUME NEW f \in Frames, NEW k, NEW p, RequestChange(f, k, p)
      PROVE  Known'
  <2>1. /\ k \in Keys /\ p \in Packets /\ p.key = k /\ IsRequest(p) /\ p # None
        /\ trans' = [trans EXCEPT ![k].request = p]
    BY <1>2, NoneNotIn DEF RequestChange
  <2>2. \A l \in Keys : /\ trans[l].request # None => trans'[l].request # None
                        /\ trans[l].response # None => trans'[l].response # None
                        /\ trans'[k].request # None
    BY <1>0, <2>1 DEF FilterTypeOK
  <2>3. \A i \in 1..Len(out) : out[i].key \in Keys
    BY <1>0, Times DEF Packets
  <2>4. CASE out' = out
    BY <2>2, <2>3, <2>4 DEF Known
  <2>5. CASE out' = Append(out, p)
    <3>1. /\ Len(out') = Len(out) + 1 /\ Len(out) \in Nat /\ out'[Len(out) + 1] = p
          /\ \A i \in 1..Len(out) : out'[i] = out[i]
      BY <1>0, <2>1, <2>5, LongerByOne
    <3>2. \A i \in 1..Len(out') : i \in 1..Len(out) \/ i = Len(out) + 1
      BY <3>1
    <3> QED
      BY <2>1, <2>2, <2>3, <3>1, <3>2 DEF Known
  <2> QED
    BY <1>2, <2>4, <2>5 DEF RequestChange
<1>3. ASSUME NEW f \in Frames, NEW k, NEW p, NEW q, ResponseChange(f, k, p, q)
      PROVE  Known'
  <2>1. /\ k \in Keys /\ p \in Packets /\ p.key = k /\ ~IsRequest(p) /\ p # None
        /\ q \in Packets /\ q.key = k /\ IsRequest(q) /\ q = trans[k].request /\ q # None
        /\ trans' = [trans EXCEPT ![k].response = p]
    BY <1>3, NoneNotIn DEF ResponseChange
  <2>2. \A l \in Keys : /\ trans[l].request # None => trans'[l].request # None
                        /\ trans[l].response # None => trans'[l].response # None
                        /\ trans'[k].request # None /\ trans'[k].response # None
    BY <1>0, <2>1 DEF FilterTypeOK
  <2>3. \A i \in 1..Len(out) : out[i].key \in Keys
    BY <1>0, Times DEF Packets
  <2>4. CASE out' = out
    BY <2>2, <2>3, <2>4 DEF Known
  <2>5. CASE out' = Append(out, p)
    <3>1. /\ Len(out') = Len(out) + 1 /\ Len(out) \in Nat /\ out'[Len(out) + 1] = p
          /\ \A i \in 1..Len(out) : out'[i] = out[i]
      BY <1>0, <2>1, <2>5, LongerByOne
    <3>2. \A i \in 1..Len(out') : i \in 1..Len(out) \/ i = Len(out) + 1
      BY <3>1
    <3> QED
      BY <2>1, <2>2, <2>3, <3>1, <3>2 DEF Known
  <2>6. CASE out' = Append(Append(out, q), p)
    <3>1. /\ Len(out') = Len(out) + 2 /\ Len(out) \in Nat
          /\ out'[Len(out) + 1] = q /\ out'[Len(out) + 2] = p
          /\ \A i \in 1..Len(out) : out'[i] = out[i]
      BY <1>0, <2>1, <2>6, TwoLonger
    <3>2. \A i \in 1..Len(out') : i \in 1..Len(out) \/ i = Len(out) + 1 \/ i = Len(out) + 2
      BY <3>1
    <3> QED
      BY <2>1, <2>2, <2>3, <3>1, <3>2 DEF Known
  <2> QED
    BY <1>3, <2>4, <2>5, <2>6 DEF ResponseChange
<1> QED
  BY <1>1, <1>2, <1>3, Changes

(* Two requests of one key in the log without another between them. *)
Successive(seq, i, j) ==
    /\ i < j /\ IsRequest(seq[i]) /\ IsRequest(seq[j]) /\ seq[i].key = seq[j].key
    /\ \A l \in (i + 1)..(j - 1) : ~(IsRequest(seq[l]) /\ seq[l].key = seq[i].key)

(* LoggedAnswer, of any log. *)
AnswerTo(seq, i) ==
    IF i < Len(seq) /\ ~IsRequest(seq[i + 1]) THEN <<[seq[i + 1].frame EXCEPT !.alt = FALSE]>>
    ELSE <<>>

(* A request like the one before it is logged only with a response that is
   unlike the one before it, which then is there at once. *)
Told(seq, i, j) ==
    Successive(seq, i, j) /\ seq[j].frame.pdu # Stub
    => \/ ~Alike(seq[i], seq[j])
       \/ /\ j < Len(seq) /\ ~IsRequest(seq[j + 1])
          /\ seq[j + 1].frame.pdu # Stub => AnswerTo(seq, i) # AnswerTo(seq, j)

NoRepeatInv == \A i, j \in 1..Len(out) : Told(out, i, j)

(* What has been said of the log stays true when it grows. *)
LEMMA OldTold ==
    ASSUME NEW seq, NEW longer, Len(seq) \in Nat, Len(longer) \in Nat, Len(seq) <= Len(longer),
           \A i \in 1..Len(seq) : longer[i] = seq[i],
           NEW i \in 1..Len(seq), NEW j \in 1..Len(seq), Told(seq, i, j)
    PROVE  Told(longer, i, j)
<1> SUFFICES ASSUME Successive(longer, i, j), longer[j].frame.pdu # Stub
             PROVE  \/ ~Alike(longer[i], longer[j])
                    \/ /\ j < Len(longer) /\ ~IsRequest(longer[j + 1])
                       /\ longer[j + 1].frame.pdu # Stub
                          => AnswerTo(longer, i) # AnswerTo(longer, j)
  BY DEF Told
<1>1. longer[i] = seq[i] /\ longer[j] = seq[j] /\ i < j
  BY DEF Successive
<1>2. Successive(seq, i, j)
  <2>1. \A l \in (i + 1)..(j - 1) : l \in 1..Len(seq)
    OBVIOUS
  <2> QED
    BY <1>1, <2>1 DEF Successive
<1>3. AnswerTo(longer, i) = AnswerTo(seq, i)
  <2>1. i + 1 \in 1..Len(seq) /\ i < Len(seq) /\ i < Len(longer)
    BY <1>1
  <2>2. longer[i + 1] = seq[i + 1]
    BY <2>1
  <2> QED
    BY <2>1, <2>2 DEF AnswerTo
<1>4. CASE j < Len(seq)
  <2>1. j + 1 \in 1..Len(seq) /\ j < Len(longer)
    BY <1>1, <1>4
  <2>2. longer[j + 1] = seq[j + 1]
    BY <2>1
  <2>3. AnswerTo(longer, j) = AnswerTo(seq, j)
    BY <1>4, <2>1, <2>2 DEF AnswerTo
  <2> QED
    BY <1>1, <1>2, <1>3, <1>4, <2>1, <2>2, <2>3 DEF Told
<1>5. CASE ~(j < Len(seq))
  BY <1>1, <1>2, <1>5 DEF Told
<1> QED
  BY <1>4, <1>5

(* The request before the one that is logged now is like the one stored. *)
LEMMA LikeBefore ==
    ASSUME FilterTypeOK, TransInv, LogInv, NEW k \in Keys, NEW i \in 1..Len(out),
           IsRequest(out[i]), out[i].key = k,
           \A l \in (i + 1)..Len(out) : ~(IsRequest(out[l]) /\ out[l].key = k)
    PROVE  trans[k].request \in Packets /\ Alike(out[i], trans[k].request)
<1>1. trans[k].request # None
  BY DEF LogInv, Known
<1>2. /\ trans[k].request \in Packets /\ IsRequest(trans[k].request)
      /\ trans[k].request.key = k /\ LastLogged(trans[k].request, out)
  BY <1>1 DEF FilterTypeOK, TransInv, LogInv, LogComplete
<1>3. SamePlace(out[i], trans[k].request)
  BY <1>2 DEF SamePlace, IsRequest
<1>4. \A l \in (i + 1)..Len(out) : ~SamePlace(out[l], trans[k].request)
  BY <1>2 DEF SamePlace, IsRequest
<1>5. IsLast(i, trans[k].request) /\ out \in Seq(Packets)
  BY <1>3, <1>4 DEF IsLast, FilterTypeOK
<1> QED
  BY <1>2, <1>5, LastIsAlike

(* And so is the response logged with it. *)
LEMMA AnswerBefore ==
    ASSUME FilterTypeOK, TransInv, LogInv, ResponseAfterRequest, NEW k \in Keys, NEW i \in 1..Len(out),
           IsRequest(out[i]), out[i].key = k, i < Len(out), ~IsRequest(out[i + 1]),
           \A l \in (i + 1)..Len(out) : ~(IsRequest(out[l]) /\ out[l].key = k)
    PROVE  trans[k].response \in Packets /\ Alike(out[i + 1], trans[k].response)
<1>0. Len(out) \in Nat /\ i + 1 \in 1..Len(out)
  BY DEF FilterTypeOK
<1>1. out[i + 1].key = k
  <2>1. out[(i + 1) - 1].key = out[i + 1].key
    BY <1>0 DEF ResponseAfterRequest
  <2>2. (i + 1) - 1 = i
    BY <1>0
  <2> QED
    BY <2>1, <2>2
<1>2. trans[k].response # None
  BY <1>0, <1>1 DEF LogInv, Known
<1>3. /\ trans[k].response \in Packets /\ ~IsRequest(trans[k].response)
      /\ trans[k].response.key = k /\ LastLogged(trans[k].response, out)
  BY <1>2 DEF FilterTypeOK, TransInv, LogInv, LogComplete
<1>4. SamePlace(out[i + 1], trans[k].response)
  BY <1>1, <1>3 DEF SamePlace, IsRequest
<1>5. ASSUME NEW l \in ((i + 1) + 1)..Len(out)
      PROVE  ~SamePlace(out[l], trans[k].response)
  <2>1. l \in 1..Len(out) /\ l - 1 \in (i + 1)..Len(out)
    BY <1>0
  <2>2. ~IsRequest(out[l]) => IsRequest(out[l - 1]) /\ out[l - 1].key = out[l].key
    BY <2>1 DEF ResponseAfterRequest
  <2> QED
    BY <1>3, <2>1, <2>2 DEF SamePlace, IsRequest
<1>6. IsLast(i + 1, trans[k].response) /\ out \in Seq(Packets)
  BY <1>4, <1>5 DEF IsLast, FilterTypeOK
<1> QED
  BY <1>0, <1>3, <1>6, LastIsAlike

LEMMA RepeatRequest ==
    ASSUME FilterInv, LogInv, NoRepeatInv, NEW f \in Frames, NEW k, NEW p, RequestChange(f, k, p)
    PROVE  NoRepeatInv'
<1>0. FilterTypeOK /\ TransInv /\ out \in Seq(Packets)
  BY DEF FilterInv, FilterTypeOK
<1>1. k \in Keys /\ p \in Packets /\ p.frame = f /\ p.key = k /\ IsRequest(p)
  BY DEF RequestChange
<1>2. CASE out' = out
  BY <1>2 DEF NoRepeatInv
<1>3. CASE ~Equal(trans[k].request, f) /\ out' = Append(out, p)
  <2> DEFINE n == Len(out)
  <2>1. /\ Len(out') = n + 1 /\ n \in Nat /\ out'[n + 1] = p
        /\ \A i \in 1..n : out'[i] = out[i]
    BY <1>0, <1>1, <1>3, LongerByOne
  <2>2. \A i, j \in 1..n : Told(out', i, j)
    BY <1>0, <2>1, OldTold DEF NoRepeatInv
  <2>3. ASSUME NEW i \in 1..n, Successive(out', i, n + 1), p.frame.pdu # Stub
        PROVE  ~Alike(out'[i], out'[n + 1])
    <3>1. /\ IsRequest(out[i]) /\ out[i].key = k
          /\ \A l \in (i + 1)..n : ~(IsRequest(out[l]) /\ out[l].key = k)
      BY <1>1, <2>1, <2>3 DEF Successive
    <3>2. trans[k].request \in Packets /\ Alike(out[i], trans[k].request)
      BY <1>0, <1>1, <3>1, LikeBefore
    <3>3. IsRequest(trans[k].request) /\ f.kind = "request"
      BY <1>0, <1>1, <3>2, NoneNotIn DEF TransInv, IsRequest
    <3>4. ~Alike(trans[k].request, p)
      BY <1>1, <1>3, <2>3, <3>2, <3>3, EqualIsAlike
    <3> QED
      BY <2>1, <3>2, <3>4 DEF Alike
  <2>4. \A i \in 1..n : Told(out', i, n + 1)
    BY <2>1, <2>3 DEF Told
  <2>5. \A i, j \in 1..(n + 1) : Told(out', i, j)
    <3>1. \A i, j \in 1..(n + 1) : Successive(out', i, j) => i \in 1..n
      BY <2>1 DEF Successive
    <3>2. \A j \in 1..(n + 1) : j \in 1..n \/ j = n + 1
      BY <2>1
    <3>3. \A i, j : ~Successive(out', i, j) => Told(out', i, j)
      BY DEF Told
    <3> QED
      BY <2>2, <2>4, <3>1, <3>2, <3>3
  <2> QED
    BY <2>1, <2>5 DEF NoRepeatInv
<1> QED
  BY <1>2, <1>3 DEF RequestChange

LEMMA RepeatResponse ==
    ASSUME FilterInv, LogInv, NoRepeatInv, NEW f \in Frames, NEW k, NEW p, NEW q,
           ResponseChange(f, k, p, q)
    PROVE  NoRepeatInv'
<1>0. FilterTypeOK /\ TransInv /\ ResponseAfterRequest /\ out \in Seq(Packets)
  BY DEF FilterInv, FilterTypeOK
<1>1. /\ k \in Keys /\ p \in Packets /\ p.frame = f /\ p.key = k /\ ~IsRequest(p)
      /\ q \in Packets /\ q.key = k /\ IsRequest(q)
  BY DEF ResponseChange
<1>2. CASE out' = out
  BY <1>2 DEF NoRepeatInv
<1> DEFINE n == Len(out)
<1>3. CASE out' = Append(out, p)
  <2>1. /\ Len(out') = n + 1 /\ n \in Nat /\ out'[n + 1] = p
        /\ \A i \in 1..n : out'[i] = out[i]
    BY <1>0, <1>1, <1>3, LongerByOne
  <2>2. \A i, j \in 1..n : Told(out', i, j)
    BY <1>0, <2>1, OldTold DEF NoRepeatInv
  <2>3. \A i, j \in 1..(n + 1) : Successive(out', i, j) => i \in 1..n /\ j \in 1..n
    BY <1>1, <2>1 DEF Successive
  <2>4. \A i, j : ~Successive(out', i, j) => Told(out', i, j)
    BY DEF Told
  <2> QED
    BY <2>1, <2>2, <2>3, <2>4 DEF NoRepeatInv
<1>4. CASE ~Equal(trans[k].response, f) /\ out' = Append(Append(out, q), p)
  <2>1. /\ Len(out') = n + 2 /\ n \in Nat /\ out'[n + 1] = q /\ out'[n + 2] = p
        /\ \A i \in 1..n : out'[i] = out[i]
    BY <1>0, <1>1, <1>4, TwoLonger
  <2>2. \A i, j \in 1..n : Told(out', i, j)
    BY <1>0, <2>1, OldTold DEF NoRepeatInv
  <2>3. AnswerTo(out', n + 1) = <<[p.frame EXCEPT !.alt = FALSE]>>
    <3>1. n + 1 < Len(out') /\ n + 1 + 1 = n + 2
      BY <2>1
    <3> QED
      BY <1>1, <2>1, <3>1 DEF AnswerTo
  <2>4. ASSUME NEW i \in 1..n, Successive(out', i, n + 1), p.frame.pdu # Stub
        PROVE  AnswerTo(out', i) # AnswerTo(out', n + 1)
    <3>1. /\ IsRequest(out[i]) /\ out[i].key = k
          /\ \A l \in (i + 1)..n : ~(IsRequest(out[l]) /\ out[l].key = k)
      BY <1>1, <2>1, <2>4 DEF Successive
    <3>2. CASE i < n /\ ~IsRequest(out[i + 1])
      <4>1. trans[k].response \in Packets /\ Alike(out[i + 1], trans[k].response)
        BY <1>0, <1>1, <3>1, <3>2, AnswerBefore
      <4>2. ~IsRequest(trans[k].response) /\ f.kind # "request"
        BY <1>0, <1>1, <4>1, NoneNotIn DEF TransInv, IsRequest
      <4>3. ~Alike(trans[k].response, p)
        BY <1>1, <1>4, <2>4, <4>1, <4>2, EqualIsAlike
      <4>4. ~Alike(out[i + 1], p)
        BY <4>1, <4>3 DEF Alike
      <4>5. AnswerTo(out', i) = <<[out[i + 1].frame EXCEPT !.alt = FALSE]>>
        <5>1. i < Len(out') /\ i + 1 \in 1..n
          BY <2>1, <3>2
        <5> QED
          BY <2>1, <3>2, <5>1 DEF AnswerTo
      <4> QED
        BY <2>3, <4>4, <4>5 DEF Alike
    <3>3. CASE ~(i < n /\ ~IsRequest(out[i + 1]))
      <4>1. IsRequest(out'[i + 1])
        <5>1. CASE i < n
          <6>1. i + 1 \in 1..n
            BY <2>1, <5>1
          <6> QED
            BY <2>1, <3>3, <5>1, <6>1
        <5>2. CASE ~(i < n)
          <6>1. i + 1 = n + 1
            BY <2>1, <5>2
          <6> QED
            BY <1>1, <2>1, <6>1
        <5> QED
          BY <5>1, <5>2
      <4>2. AnswerTo(out', i) = <<>>
        BY <4>1 DEF AnswerTo
      <4> QED
        BY <2>3, <4>2
    <3> QED
      BY <3>2, <3>3
  <2>5. \A i \in 1..n : Told(out', i, n + 1)
    <3>1. n + 1 < Len(out') /\ out'[(n + 1) + 1] = p /\ out'[(n + 1) + 1].frame.pdu = p.frame.pdu
      BY <2>1
    <3> QED
      BY <1>1, <2>4, <3>1 DEF Told
  <2>6. \A i, j \in 1..(n + 2) : Successive(out', i, j) => i \in 1..n /\ (j \in 1..n \/ j = n + 1)
    <3>1. \A i, j \in 1..(n + 2) : Successive(out', i, j) => i < j /\ j # n + 2
      BY <1>1, <2>1 DEF Successive
    <3> QED
      BY <2>1, <3>1
  <2>7. \A i, j : ~Successive(out', i, j) => Told(out', i, j)
    BY DEF Told
  <2> QED
    BY <2>1, <2>2, <2>5, <2>6, <2>7 DEF NoRepeatInv
<1> QED
  BY <1>2, <1>3, <1>4 DEF ResponseChange

LEMMA RepeatStep ==
    ASSUME FilterInv, LogInv, NoRepeatInv, [FilterNext]_filterVars
    PROVE  NoRepeatInv'
<1>1. CASE UNCHANGED <<trans, out>>
  BY <1>1 DEF NoRepeatInv
<1> QED
  BY <1>1, Changes, RepeatRequest, RepeatResponse

(* Two successive exchanges of one key in the log differ, in the request or in
   the response. *)
THEOREM NothingTwice == FilterSpec => []NoRepeat
<1>1. FilterInit => FilterInv /\ LogInv /\ NoRepeatInv
  BY InitInv DEF FilterInit, LogInv, Known, LogComplete, NoRepeatInv
<1>2. FilterInv /\ LogInv /\ NoRepeatInv /\ [FilterNext]_filterVars => (FilterInv /\ LogInv /\ NoRepeatInv)'
  BY FilterTypeStep, PairStep, CompleteStep, KnownStep, RepeatStep DEF FilterInv, LogInv
<1>3. NoRepeatInv => NoRepeat
  BY DEF NoRepeatInv, NoRepeat, Told, Successive, AnswerTo, LoggedAnswer, Whole
<1> QED
  BY <1>1, <1>2, <1>3, PTL DEF FilterSpec

-----------------------------------------------------------------------------
(* The main loop.                                                           *)

(* The periods of the packets never decrease, and no file is begun before a
   packet of its period has come. *)
LoopInv ==
    /\ pc \in {"pop", "swap", "input"} /\ file \in Nat
    /\ periods \in Seq(Nat) /\ Len(periods) = now + (IF pc = "pop" THEN 0 ELSE 1)
    /\ \A i, j \in 1..Len(periods) : i <= j => periods[i] <= periods[j]
    /\ file = 0 => pc = "pop" /\ now = 0
    /\ file <= Popped + 1
    /\ pc = "swap" => file <= Popped

(* Without a silence the packet at hand is inside the period of the file when
   the filter gets it. *)
InTimeInv ==
    Silence <= 1 =>
        /\ pc \in {"pop", "input"} /\ file # 0 => Popped < file
        /\ pc = "swap" => Popped = file

PlaceInv == place \in Seq(Nat) /\ Len(place) = Len(out)

FiledInv == Silence <= 1 => FiledByTime

PblogInv == FilterInv /\ TimeInv /\ LoopInv /\ InTimeInv /\ PlaceInv /\ FiledInv

-----------------------------------------------------------------------------
(* The period of the last packet bounds those of all. *)
LEMMA LastPeriod ==
    ASSUME LoopInv, now \in Nat
    PROVE  /\ Popped \in Nat
           /\ \A i \in 1..Len(periods) : periods[i] \in Nat /\ periods[i] <= Popped
           /\ pc # "pop" => now + 1 \in 1..Len(periods) /\ Popped = periods[now + 1]
<1>1. periods \in Seq(Nat) /\ Len(periods) = now + (IF pc = "pop" THEN 0 ELSE 1)
  BY DEF LoopInv
<1>2. CASE periods = <<>>
  BY <1>1, <1>2 DEF Popped
<1>3. CASE periods # <<>>
  <2>1. Len(periods) \in 1..Len(periods) /\ Popped = periods[Len(periods)]
    BY <1>1, <1>3 DEF Popped
  <2> QED
    BY <1>1, <2>1 DEF LoopInv
<1> QED
  BY <1>2, <1>3

(* One packet more, no earlier than the last. *)
LEMMA NextPeriod ==
    ASSUME LoopInv, now \in Nat, pc = "pop",
           NEW t \in Popped..(Popped + Silence), periods' = Append(periods, t)
    PROVE  /\ t \in Nat /\ Popped <= t /\ Popped' = t
           /\ periods' \in Seq(Nat) /\ Len(periods') = now + 1
           /\ \A i \in 1..now : periods'[i] = periods[i]
           /\ \A i, j \in 1..Len(periods') : i <= j => periods'[i] <= periods'[j]
<1>1. /\ Popped \in Nat /\ periods \in Seq(Nat) /\ Len(periods) = now
      /\ \A i \in 1..now : periods[i] \in Nat /\ periods[i] <= Popped
  BY LastPeriod DEF LoopInv
<1>2. t \in Nat /\ Popped <= t
  BY <1>1, SilenceAssumption
<1>3. /\ periods' \in Seq(Nat) /\ Len(periods') = now + 1 /\ periods'[now + 1] = t
      /\ \A i \in 1..now : periods'[i] = periods[i]
  BY <1>1, <1>2
<1>4. periods' # <<>>
  BY <1>3
<1>5. Popped' = t
  BY <1>3, <1>4 DEF Popped
<1>6. \A i, j \in 1..(now + 1) : i <= j => periods'[i] <= periods'[j]
  BY <1>1, <1>2, <1>3 DEF LoopInv
<1> QED
  BY <1>2, <1>3, <1>5, <1>6

(* A step of the loop is a step of the filter or none. *)
LEMMA FilterStep == [PblogNext]_pblogVars => [FilterNext]_filterVars
BY DEF PblogNext, FirstFile, Pop, SwapFile, Input, pblogVars

(* What the filter lets out at one packet: nothing, the packet, or a request
   of its transaction and the packet, which is then a response. *)
LEMMA LetOut ==
    ASSUME FilterInv, TimeInv, FilterNext
    PROVE  /\ now \in Nat /\ now' = now + 1 /\ out \in Seq(Packets)
           /\ \/ out' = out
              \/ \E p \in Packets : p.ts = now + 1 /\ out' = Append(out, p)
              \/ \E p, q \in Packets :
                    /\ p.ts = now + 1 /\ q.ts \in Nat /\ q.ts <= now
                    /\ IsRequest(q) /\ ~IsRequest(p) /\ q.key = p.key
                    /\ out' = Append(Append(out, q), p)
<1>0. FilterTypeOK /\ TransInv /\ now \in Nat /\ out \in Seq(Packets)
  BY Times DEF FilterInv, FilterTypeOK
<1>1. PICK f \in Frames : \/ Request(f) \/ Response(f) \/ Ack(f)
                          \/ Ignored(f) \/ ResponseMismatch(f) \/ AckUnexpected(f)
  BY DEF FilterNext
<1>2. now' = now + 1
  BY <1>1 DEF Request, Response, Ack, Ignored, ResponseMismatch, AckUnexpected, Tick
<1>3. CASE Request(f)
  <2> DEFINE p == Packet(f, MatchKey(f))
  <2>1. p \in Packets /\ p.ts = now + 1
    BY <1>0, <1>3, MatchKeyIn, PacketIn DEF Request, HasKey
  <2>2. out' = out \/ out' = Append(out, p)
    BY <1>3 DEF Request
  <2> QED
    BY <1>0, <1>2, <2>1, <2>2
<1>4. CASE Response(f) \/ Ack(f)
  <2> DEFINE p == Packet(f, lastReqKey)
             q == trans[lastReqKey].request
  <2>1. lastReqKey \in Keys /\ Tick /\ Accept(f) /\ f.kind \in {"response", "ack"}
    BY <1>0, <1>4, MatchKeyIn DEF Response, Ack, HasKey, FilterTypeOK
  <2>2. p \in Packets /\ p.ts = now + 1 /\ p.key = lastReqKey /\ p.frame = f
    BY <1>0, <2>1, PacketIn
  <2>3. q \in Packets /\ q.ts \in Nat /\ q.ts <= now /\ IsRequest(q) /\ q.key = lastReqKey
    BY <1>0, <2>1, NoKeyNotIn, Times DEF FilterTypeOK, TimeInv, TransInv
  <2>4. out' = out \/ out' = Append(out, p) \/ out' = Append(Append(out, q), p)
    BY <2>1 DEF Accept, Answer
  <2>5. ~IsRequest(p)
    BY <2>1, <2>2 DEF IsRequest
  <2> HIDE DEF p, q
  <2> QED
    BY <1>0, <1>2, <2>2, <2>3, <2>4, <2>5
<1>5. CASE Ignored(f) \/ ResponseMismatch(f) \/ AckUnexpected(f)
  BY <1>0, <1>2, <1>5 DEF Ignored, ResponseMismatch, AckUnexpected
<1> QED
  BY <1>1, <1>3, <1>4, <1>5

-----------------------------------------------------------------------------
(* The loop keeps the packet and the file together. *)
LEMMA LoopStep ==
    ASSUME PblogInv, [PblogNext]_pblogVars
    PROVE  LoopInv' /\ InTimeInv'
<1>0. now \in Nat /\ LoopInv /\ InTimeInv /\ Popped \in Nat
  BY Times, LastPeriod DEF PblogInv, FilterInv
<1>1. CASE FirstFile
  <2>1. Popped' = Popped /\ file' = 1 /\ UNCHANGED <<now, periods, pc>>
    BY <1>1 DEF FirstFile, filterVars, Popped
  <2>2. Popped = 0 /\ pc = "pop"
    BY <1>0, <1>1 DEF FirstFile, LoopInv, Popped
  <2> QED
    BY <1>0, <2>1, <2>2 DEF LoopInv, InTimeInv
<1>2. CASE Pop
  <2>1. PICK t \in Popped..(Popped + Silence) :
            /\ periods' = Append(periods, t)
            /\ pc' = IF PastFile(file, t) THEN "swap" ELSE "input"
    BY <1>2 DEF Pop
  <2>2. /\ t \in Nat /\ Popped <= t /\ Popped' = t
        /\ periods' \in Seq(Nat) /\ Len(periods') = now + 1
        /\ \A i, j \in 1..Len(periods') : i <= j => periods'[i] <= periods'[j]
    BY <1>0, <1>2, <2>1, NextPeriod DEF Pop
  <2>3. now' = now /\ file' = file /\ file # 0 /\ file \in Nat /\ pc = "pop"
    BY <1>0, <1>2 DEF Pop, filterVars, LoopInv
  <2>4. pc' = IF file <= t THEN "swap" ELSE "input"
    BY <2>1 DEF PastFile, EndOf
  <2>5. LoopInv'
    BY <1>0, <2>2, <2>3, <2>4 DEF LoopInv
  <2>6. InTimeInv'
    <3> SUFFICES ASSUME Silence <= 1 PROVE InTimeInv'
      BY DEF InTimeInv
    <3>1. t <= file
      BY <1>0, <2>3, SilenceAssumption DEF InTimeInv
    <3> QED
      BY <2>2, <2>3, <2>4, <3>1 DEF InTimeInv
  <2> QED
    BY <2>5, <2>6
<1>3. CASE SwapFile
  <2>1. Popped' = Popped /\ file' = file + 1 /\ UNCHANGED <<now, periods>>
        /\ pc = "swap" /\ pc' = "input"
    BY <1>3 DEF SwapFile, filterVars, Popped
  <2> QED
    BY <1>0, <2>1 DEF LoopInv, InTimeInv
<1>4. CASE Input
  <2>1. now' = now + 1
    BY <1>4, LetOut DEF Input, PblogInv
  <2>2. Popped' = Popped /\ file' = file /\ periods' = periods /\ pc = "input" /\ pc' = "pop"
    BY <1>4 DEF Input, Popped
  <2> QED
    BY <1>0, <2>1, <2>2 DEF LoopInv, InTimeInv
<1>5. CASE UNCHANGED pblogVars
  BY <1>0, <1>5 DEF pblogVars, filterVars, Popped, LoopInv, InTimeInv
<1> QED
  BY <1>1, <1>2, <1>3, <1>4, <1>5 DEF PblogNext

(* What was filed stays filed when one packet more is popped or written. *)
LEMMA KeptFiled ==
    ASSUME out \in Seq(Packets), place \in Seq(Nat), Len(place) = Len(out), FiledByTime,
           \A i \in 1..Len(out) : out'[i] = out[i] /\ place'[i] = place[i],
           \A i \in 1..Len(out) : periods'[out[i].ts] = periods[out[i].ts],
           Len(out') >= Len(out), Len(out') \in Nat
    PROVE  \A i \in 1..Len(out) : (InPeriodOf(i) \/ HeldBack(i))'
BY DEF FiledByTime, InPeriodOf, HeldBack, PeriodOf

(* Everything is written to the file of the packet at hand. *)
LEMMA PlaceStep ==
    ASSUME PblogInv, [PblogNext]_pblogVars
    PROVE  PlaceInv' /\ FiledInv'
<1>0. /\ now \in Nat /\ LoopInv /\ PlaceInv /\ FiledInv /\ out \in Seq(Packets) /\ file \in Nat
      /\ Len(out) \in Nat /\ Popped \in Nat
      /\ \A i \in 1..Len(out) : out[i].ts \in 1..now
  <2>1. FilterTypeOK /\ LoopInv /\ TimeInv
    BY DEF PblogInv, FilterInv
  <2>2. now \in Nat /\ \A i \in 1..Len(out) : out[i] \in Packets /\ out[i].ts \in Nat
    BY <2>1, Times
  <2>3. \A i \in 1..Len(out) : out[i].ts \in 1..now
    BY <2>1, <2>2, InputsAssumption DEF TimeInv, Packets
  <2> QED
    BY <2>1, <2>2, <2>3, LastPeriod DEF PblogInv, FilterTypeOK, LoopInv
<1>1. CASE FirstFile \/ Pop \/ SwapFile \/ UNCHANGED pblogVars
  <2>1. out' = out /\ place' = place
    BY <1>1 DEF FirstFile, Pop, SwapFile, pblogVars, filterVars
  <2>2. \A i \in 1..Len(out) : periods'[out[i].ts] = periods[out[i].ts]
    <3>1. CASE Pop
      BY <1>0, <3>1, NextPeriod DEF Pop
    <3>2. CASE FirstFile \/ SwapFile \/ UNCHANGED pblogVars
      BY <3>2 DEF FirstFile, SwapFile, pblogVars
    <3> QED
      BY <1>1, <3>1, <3>2
  <2>3. FiledByTime => FiledByTime'
    BY <1>0, <2>1, <2>2, KeptFiled DEF PlaceInv, FiledByTime
  <2> QED
    BY <1>0, <2>1, <2>3 DEF PlaceInv, FiledInv
<1>2. CASE Input
  <2>1. /\ file # 0 /\ file <= Popped + 1 /\ Popped = periods[now + 1]
        /\ \A i \in 1..now : periods[i] \in Nat /\ periods[i] <= Popped
        /\ Silence <= 1 => Popped < file
        /\ periods' = periods
    <3>1. pc = "input" /\ periods' = periods
      BY <1>2 DEF Input
    <3>2. 1..now \subseteq 1..Len(periods) /\ file # 0 /\ file <= Popped + 1
      BY <1>0, <3>1 DEF LoopInv
    <3> QED
      BY <1>0, <3>1, <3>2, LastPeriod DEF PblogInv, InTimeInv
  <2>2. place' = place \o [i \in 1..(Len(out') - Len(out)) |-> file]
    BY <1>2 DEF Input, Output
  <2>3. CASE out' = out
    <3>1. place' = place
      BY <1>0, <2>2, <2>3 DEF PlaceInv
    <3>2. FiledByTime => FiledByTime'
      BY <1>0, <2>1, <2>3, <3>1, KeptFiled DEF PlaceInv, FiledByTime
    <3> QED
      BY <1>0, <2>3, <3>1, <3>2 DEF PlaceInv, FiledInv
  <2>4. ASSUME NEW p \in Packets, p.ts = now + 1, out' = Append(out, p)
        PROVE  PlaceInv' /\ FiledInv'
    <3>1. /\ Len(out') = Len(out) + 1 /\ out'[Len(out) + 1] = p
          /\ \A i \in 1..Len(out) : out'[i] = out[i]
      BY <1>0, <2>4
    <3>2. place' = place \o [i \in 1..1 |-> file]
      BY <1>0, <2>2, <3>1
    <3>3. /\ place' \in Seq(Nat) /\ Len(place') = Len(out) + 1 /\ place'[Len(out) + 1] = file
          /\ \A i \in 1..Len(out) : place'[i] = place[i]
      BY <1>0, <3>2 DEF PlaceInv
    <3>4. ASSUME Silence <= 1 PROVE \A i \in {Len(out) + 1} : InPeriodOf(i)'
      BY <1>0, <2>1, <2>4, <3>1, <3>3, <3>4 DEF InPeriodOf, StartOf, EndOf, PeriodOf
    <3>5. ASSUME Silence <= 1 PROVE \A i \in 1..Len(out) : (InPeriodOf(i) \/ HeldBack(i))'
      <4>1. /\ \A i \in 1..Len(out) : out'[i] = out[i] /\ place'[i] = place[i]
            /\ \A i \in 1..Len(out) : periods'[out[i].ts] = periods[out[i].ts]
            /\ Len(out') >= Len(out) /\ Len(out') \in Nat
        BY <1>0, <2>1, <3>1, <3>3
      <4>2. FiledByTime /\ place \in Seq(Nat) /\ Len(place) = Len(out)
        BY <1>0, <3>5 DEF PlaceInv, FiledInv
      <4> QED
        BY <1>0, <4>1, <4>2, KeptFiled
    <3>6. FiledInv'
      BY <1>0, <3>1, <3>4, <3>5 DEF FiledByTime, FiledInv
    <3> QED
      BY <3>1, <3>3, <3>6 DEF PlaceInv
  <2>5. ASSUME NEW p \in Packets, NEW q \in Packets,
               p.ts = now + 1, q.ts \in Nat, q.ts <= now,
               IsRequest(q), ~IsRequest(p), q.key = p.key, out' = Append(Append(out, q), p)
        PROVE  PlaceInv' /\ FiledInv'
    <3>1. /\ Len(out') = Len(out) + 2 /\ out'[Len(out) + 1] = q /\ out'[Len(out) + 2] = p
          /\ \A i \in 1..Len(out) : out'[i] = out[i]
      BY <1>0, <2>5
    <3>2. place' = place \o [i \in 1..2 |-> file]
      BY <1>0, <2>2, <3>1
    <3>3. /\ place' \in Seq(Nat) /\ Len(place') = Len(out) + 2
          /\ place'[Len(out) + 1] = file /\ place'[Len(out) + 2] = file
          /\ \A i \in 1..Len(out) : place'[i] = place[i]
      BY <1>0, <3>2 DEF PlaceInv
    <3>4. ASSUME Silence <= 1 PROVE \A i \in {Len(out) + 2} : InPeriodOf(i)'
      BY <1>0, <2>1, <2>5, <3>1, <3>3, <3>4 DEF InPeriodOf, StartOf, EndOf, PeriodOf
    <3>5. ASSUME Silence <= 1
          PROVE  \A i \in {Len(out) + 1} : (InPeriodOf(i) \/ HeldBack(i))'
      <4>1. Len(out) + 1 < Len(out') /\ (Len(out) + 1) + 1 = Len(out) + 2
        BY <1>0, <3>1
      <4>2. q.ts \in 1..now
        BY <1>0, <2>5, InputsAssumption DEF Packets
      <4>3. PeriodOf(q)' = periods[q.ts] /\ periods[q.ts] \in Nat /\ periods[q.ts] < file
        BY <1>0, <2>1, <3>5, <4>2 DEF PeriodOf
      <4>4. CASE file - 1 <= periods[q.ts]
        BY <2>1, <3>1, <3>3, <4>3, <4>4 DEF InPeriodOf, StartOf, EndOf, PeriodOf
      <4>5. CASE periods[q.ts] < file - 1
        <5>1. IsRequest(q) /\ ~IsRequest(p) /\ p.key = q.key
          BY <2>5
        <5> QED
          BY <2>1, <3>1, <3>3, <3>4, <3>5, <4>1, <4>3, <4>5, <5>1
             DEF HeldBack, IsRequest, StartOf, EndOf, PeriodOf
      <4> QED
        BY <1>0, <4>3, <4>4, <4>5
    <3>6. ASSUME Silence <= 1 PROVE \A i \in 1..Len(out) : (InPeriodOf(i) \/ HeldBack(i))'
      <4>1. /\ \A i \in 1..Len(out) : out'[i] = out[i] /\ place'[i] = place[i]
            /\ \A i \in 1..Len(out) : periods'[out[i].ts] = periods[out[i].ts]
            /\ Len(out') >= Len(out) /\ Len(out') \in Nat
        BY <1>0, <2>1, <3>1, <3>3
      <4>2. FiledByTime /\ place \in Seq(Nat) /\ Len(place) = Len(out)
        BY <1>0, <3>6 DEF PlaceInv, FiledInv
      <4> QED
        BY <1>0, <4>1, <4>2, KeptFiled
    <3>7. FiledInv'
      BY <1>0, <3>1, <3>4, <3>5, <3>6 DEF FiledByTime, FiledInv
    <3> QED
      BY <3>1, <3>3, <3>7 DEF PlaceInv
  <2>6. \/ out' = out
        \/ \E p \in Packets : p.ts = now + 1 /\ out' = Append(out, p)
        \/ \E p, q \in Packets :
              /\ p.ts = now + 1 /\ q.ts \in Nat /\ q.ts <= now
              /\ IsRequest(q) /\ ~IsRequest(p) /\ q.key = p.key
              /\ out' = Append(Append(out, q), p)
    BY <1>2, LetOut DEF Input, PblogInv
  <2> QED
    BY <2>3, <2>4, <2>5, <2>6
<1> QED
  BY <1>1, <1>2 DEF PblogNext

(* The invariants of the loop, from which the theorems follow. *)
LEMMA PblogInvariant == PblogSpec => [](PblogInv /\ OutputInOrder)
<1>1. PblogInit => PblogInv /\ OutputInOrder
  <2> SUFFICES ASSUME PblogInit PROVE PblogInv /\ OutputInOrder
    OBVIOUS
  <2>1. FilterInv /\ TimeInv
    BY InitInv DEF PblogInit
  <2>2. out = <<>> /\ place = <<>> /\ periods = <<>> /\ now = 0 /\ file = 0 /\ pc = "pop"
    BY DEF PblogInit, FilterInit
  <2>3. LoopInv /\ InTimeInv /\ PlaceInv /\ FiledInv /\ OutputInOrder
    BY <2>2 DEF LoopInv, InTimeInv, Popped, PlaceInv, FiledInv, FiledByTime, OutputInOrder
  <2> QED
    BY <2>1, <2>3 DEF PblogInv
<1>2. PblogInv /\ OutputInOrder /\ [PblogNext]_pblogVars => (PblogInv /\ OutputInOrder)'
  <2> SUFFICES ASSUME PblogInv, OutputInOrder, [PblogNext]_pblogVars
               PROVE  PblogInv' /\ OutputInOrder'
    OBVIOUS
  <2>1. FilterInv' /\ TimeInv' /\ OutputInOrder'
    <3>1. [FilterNext]_filterVars /\ FilterInv /\ TimeInv
      BY FilterStep DEF PblogInv
    <3>2. FilterInv'
      BY <3>1, FilterTypeStep, PairStep DEF FilterInv
    <3> QED
      BY <3>1, <3>2, TimeStep
  <2> QED
    BY <2>1, LoopStep, PlaceStep DEF PblogInv
<1> QED
  BY <1>1, <1>2, PTL DEF PblogSpec

(* In the main loop of pblog, on a bus that is never silent for a whole period
   of the schedule, a packet is in the file of its period, but for a request
   that was held back, and that is followed by its response in the same file. *)
THEOREM LogFiledByTime == ASSUME Silence <= 1 PROVE PblogSpec => []FiledByTime
<1>1. PblogInv => FiledByTime
  BY DEF PblogInv, FiledInv
<1> QED
  BY <1>1, PblogInvariant, PTL

(* The state of the loop has its type: every packet let out has a file. *)
THEOREM PblogTypeCorrect == PblogSpec => []PblogTypeOK
<1>1. PblogInv => PblogTypeOK
  BY DEF PblogInv, FilterInv, LoopInv, PlaceInv, PblogTypeOK
<1> QED
  BY <1>1, PblogInvariant, PTL

-----------------------------------------------------------------------------
(* The files written, when n packets more are written to f. *)
LEMMA RangeAppend ==
    ASSUME NEW s \in Seq(Nat), NEW f \in Nat, NEW n \in {1, 2}
    PROVE  Range(s \o [i \in 1..n |-> f]) = Range(s) \cup {f}
<1> DEFINE t == [i \in 1..n |-> f]
           r == s \o t
<1> DEFINE m == Len(s)
<1>1. t \in Seq(Nat) /\ Len(t) = n /\ (\A i \in 1..n : t[i] = f) /\ m \in Nat
  OBVIOUS
<1>2. DOMAIN s = 1..m /\ DOMAIN r = 1..(m + n)
  BY <1>1
<1>3. \A i \in 1..m : r[i] = s[i]
  BY <1>1
<1>4. \A i \in (m + 1)..(m + n) : r[i] = f
  <2> TAKE i \in (m + 1)..(m + n)
  <2>1. i - m \in 1..n /\ i \in 1..(m + n) /\ i > m
    BY <1>1
  <2>2. r[i] = t[i - m]
    BY <1>1, <2>1
  <2> QED
    BY <1>1, <2>1, <2>2
<1> HIDE DEF t, r, m
<1>5. m + 1 \in (m + 1)..(m + n) /\ m + 1 \in 1..(m + n)
  BY <1>1
<1>6. \A i \in 1..(m + n) : i \in 1..m \/ i \in (m + 1)..(m + n)
  BY <1>1
<1>7. 1..m \subseteq 1..(m + n)
  BY <1>1
<1>8. \A i \in DOMAIN r : (i \in DOMAIN s /\ r[i] = s[i]) \/ r[i] = f
  BY <1>2, <1>3, <1>4, <1>6
<1>9. \A i \in DOMAIN s : i \in DOMAIN r /\ r[i] = s[i]
  BY <1>2, <1>3, <1>7
<1>10. m + 1 \in DOMAIN r /\ r[m + 1] = f
  BY <1>2, <1>4, <1>5
<1>11. Range(r) = Range(s) \cup {f}
  BY <1>8, <1>9, <1>10 DEF Range
<1> QED
  BY <1>11 DEF r, t

-----------------------------------------------------------------------------
(* What the filter lets out is written to the file at hand, or it lets out
   nothing. *)
LEMMA InputWrites ==
    ASSUME PblogInv, Input
    PROVE  Log!Write \/ UNCHANGED Log!vars
<1>1. /\ now \in Nat /\ out \in Seq(Packets) /\ Len(out) \in Nat
      /\ place \in Seq(Nat) /\ file \in Nat /\ file # 0
      /\ file <= Popped + 1 /\ (Silence <= 1 => Popped < file)
  BY LetOut DEF Input, PblogInv, LoopInv, InTimeInv, PlaceInv
<1>2. Popped' = Popped /\ file' = file
  BY DEF Popped, Input
<1>3. Range(place)' \in {Range(place), Range(place) \cup {file}}
  <2>1. Len(out') - Len(out) \in {0, 1, 2}
    BY <1>1, LetOut DEF Input, PblogInv
  <2>2. place' = place \o [i \in 1..(Len(out') - Len(out)) |-> file]
    BY DEF Input, Output
  <2>3. CASE Len(out') - Len(out) = 0
    <3>1. place' = place
      BY <1>1, <2>2, <2>3
    <3> QED
      BY <3>1
  <2>4. CASE Len(out') - Len(out) \in {1, 2}
    BY <1>1, <2>2, <2>4, RangeAppend
  <2> QED
    BY <2>1, <2>3, <2>4
<1>4. CASE Range(place)' = Range(place)
  BY <1>2, <1>4 DEF Log!vars
<1>5. CASE Range(place)' = Range(place) \cup {file}
  BY <1>1, <1>2, <1>5 DEF Log!Write
<1> QED
  BY <1>3, <1>4, <1>5

LEMMA LogStep ==
    ASSUME PblogInv, [PblogNext]_pblogVars
    PROVE  [Log!Next]_(Log!vars)
<1>0. now \in Nat /\ LoopInv /\ file \in Nat /\ Popped \in Nat
  BY Times, LastPeriod DEF PblogInv, FilterInv, LoopInv
<1>1. CASE FirstFile
  <2>1. Popped' = Popped /\ file' = 1 /\ file = 0 /\ place' = place
    BY <1>1 DEF FirstFile, Popped
  <2>2. Log!Move
    BY <1>0, <2>1 DEF Log!Move
  <2> QED
    BY <2>2 DEF Log!Next
<1>2. CASE Pop
  <2>1. file' = file /\ place' = place /\ Popped' \in Popped..(Popped + Silence)
    BY <1>0, <1>2, NextPeriod DEF Pop
  <2>2. Log!Receive
    BY <2>1 DEF Log!Receive
  <2> QED
    BY <2>2 DEF Log!Next
<1>3. CASE SwapFile
  <2>1. Popped' = Popped /\ file' = file + 1 /\ place' = place /\ file <= Popped
    BY <1>0, <1>3 DEF SwapFile, Popped, LoopInv
  <2>2. Log!Move
    BY <2>1 DEF Log!Move
  <2> QED
    BY <2>2 DEF Log!Next
<1>4. CASE Input
  BY <1>4, InputWrites DEF Log!Next
<1>5. CASE UNCHANGED pblogVars
  BY <1>5 DEF pblogVars, Popped, Log!vars
<1> QED
  BY <1>1, <1>2, <1>3, <1>4, <1>5 DEF PblogNext

(* The loop with its filter keeps the promise of CaptureLog, for any traffic and
   with silences of any length: it goes on to the next file only with a packet
   that does not come before it, and writes only to the file it has come to,
   which never starts after the packet.  Without a silence of a whole period
   that packet is inside its period. *)
THEOREM LogKeepsFiles == PblogSpec => WritesAsPromised
<1>1. PblogInit => Log!Init
  <2> SUFFICES ASSUME PblogInit PROVE Log!Init
    OBVIOUS
  <2>1. file = 0 /\ Popped = 0 /\ place = <<>>
    BY DEF PblogInit, FilterInit, Popped
  <2>2. Range(place) = {}
    BY <2>1 DEF Range
  <2> QED
    BY <2>1, <2>2 DEF Log!Init
<1>2. PblogInv /\ [PblogNext]_pblogVars => [Log!Next]_(Log!vars)
  BY LogStep
<1> QED
  BY <1>1, <1>2, PblogInvariant, PTL DEF PblogSpec, Log!Spec, WritesAsPromised
=============================================================================

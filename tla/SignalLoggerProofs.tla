------------------------ MODULE SignalLoggerProofs ------------------------
(* What signallogger stores, for all archives that pblog may leave, whatever
   fails and however often the program is run: every interval starts at a packet
   that has its value (NothingInvented); and, when the files are read in their
   order, the signal has that value throughout it (TrueThroughout), all of it
   was captured (OnlyCaptured), no two of a signal have a time in common
   (Disjoint), and a run on an empty table that goes well misses no sample
   (NothingLost).

   None of them is inductive: an interval is made of what is kept of a signal
   since an earlier packet, perhaps of an earlier file, and is inserted in a
   transaction before it is committed.  IInv says of what is kept and of what is
   pending that it starts at a sample, and that the files still to be read are
   those of the archive, which a file given alone is only by its packets.

   For the order, PositionInv says where a run is: n files have been read and
   some packets of the next (Seen), and then

   - what is kept of a signal goes on, without a file missing (Joined), to where
     the run is: its latest sample that was read is in a file from which all go
     on, has the value, and so have all of them since (KeptAt);
   - where nothing is kept, no sample that was read goes on to there (NoneAt);
   - a run that has stored all has each sample that was read in an interval or
     in what is kept (AllStored).

   That two intervals do not overlap follows from SpansInv: within an interval
   each sample continues the one before it, and where one starts no sample does.
   It is here that the archive's order matters: a packet that is older than its
   file repeats the values of the one before (HeldBackOnly), so that it can end
   an interval early but start none within another.

   What is answered from the table between two runs is true of it (AnswersTable),
   because its intervals are Apart: NoOverlap, and no two start together, RowsInv.

   The module begins with the configuration of the signals: that its reading keeps
   its assertions and loses nothing, for all documents, with any addresses,
   ids and nesting, and without a bound on traces and signals.

   What signal_list_start and trace_start assert depends on how deep the parser
   is in the document and not on which elements are open (AtDepth): there is a
   trace from the second element on and a signal from the third on.  A signal
   may be incomplete only while it is read, as the first of its trace
   (Complete), and a trace has the signals of the last element with its
   addresses (InReverse).

   It ends with the value of a signal, for bytes and words of any width: of whole
   bytes those before the next one are the digits of what has been put together
   (Taken), and the bits of one byte are digits of a part of it (DigitsIn).     *)
EXTENDS SignalConfig, SignalMask, SignalLog, LogReaderProofs,
        SequenceTheorems, FiniteSetTheorems, FunctionTheorems, TLAPS

Signal == [id : Ids, label : BOOLEAN, mask : BOOLEAN]
IdsOf(list) == [n \in DOMAIN list |-> list[n].id]

(* Element n is the last one with address k. *)
IsLast(list, k, n) ==
    list[n] = k /\ \A m \in DOMAIN list : list[m] = k => m <= n

ConfigTypeOK ==
    /\ status \in {"parsing", "failed", "aborted", "ok"}
    /\ open \in Seq({"signal-list", "trace", "signal", "label", "mask", "type"})
    /\ DOMAIN traces \subseteq Keys /\ \A k \in DOMAIN traces : traces[k] \in Seq(Signal)
    /\ trace \in Keys \cup {NoTrace} /\ building \in BOOLEAN /\ text \in BOOLEAN
    /\ elements \in Seq(Keys) /\ declared \in Seq(Seq(Ids))
    /\ Len(declared) = Len(elements)

AtDepth == Parsing =>
    /\ Len(open) < 2 => trace = NoTrace
    /\ Len(open) >= 2 => trace \in DOMAIN traces /\ elements # <<>> /\ trace = Last(elements)
    /\ building <=> Len(open) >= 3
    /\ Len(open) >= 3 => traces[trace] # <<>>

(* The n-th signal of trace k is being read. *)
Read(k, n) == Len(open) >= 3 /\ k = trace /\ n = 1
Complete == Parsing =>
    \A k \in DOMAIN traces : \A n \in DOMAIN traces[k] :
        Read(k, n) \/ (traces[k][n].label /\ traces[k][n].mask)

InReverse ==
    /\ DOMAIN traces = ToSet(elements)
    /\ \A k \in DOMAIN traces : \E n \in DOMAIN elements :
          IsLast(elements, k, n) /\ IdsOf(traces[k]) = Reverse(declared[n])

ConfigInv == ConfigTypeOK /\ AtDepth /\ Complete /\ InReverse /\ ConfigComplete

-----------------------------------------------------------------------------
(* To add a signal at the front of a list, and at the end of another one. *)
LEMMA Prepended ==
    ASSUME NEW S, NEW s \in Seq(S), NEW x \in S
    PROVE  /\ <<x>> \o s \in Seq(S) /\ Len(<<x>> \o s) = Len(s) + 1 /\ Len(s) \in Nat
           /\ (<<x>> \o s)[1] = x
           /\ \A i \in 2..(Len(s) + 1) : i - 1 \in 1..Len(s) /\ (<<x>> \o s)[i] = s[i - 1]
<1>1. <<x>> \in Seq(S) /\ Len(<<x>>) = 1 /\ <<x>>[1] = x /\ Len(s) \in Nat
  OBVIOUS
<1> DEFINE one == <<x>>
<1>2. one \in Seq(S) /\ Len(one) = 1 /\ one[1] = x
  BY <1>1
<1> HIDE DEF one
<1>3. one \o s \in Seq(S) /\ Len(one \o s) = Len(one) + Len(s)
  BY <1>2, ConcatProperties
<1>4. \A i \in 1..(Len(one) + Len(s)) :
        (one \o s)[i] = IF i <= Len(one) THEN one[i] ELSE s[i - Len(one)]
  BY <1>2, ConcatProperties
<1>5. (one \o s)[1] = x
  BY <1>1, <1>2, <1>4
<1>6. \A i \in 2..(Len(s) + 1) : i - 1 \in 1..Len(s) /\ (one \o s)[i] = s[i - 1]
  <2> SUFFICES ASSUME NEW i \in 2..(Len(s) + 1)
               PROVE  i - 1 \in 1..Len(s) /\ (one \o s)[i] = s[i - 1]
    OBVIOUS
  <2>1. i - 1 \in 1..Len(s) /\ i \in 1..(1 + Len(s)) /\ ~(i <= 1)
    BY <1>1
  <2> QED
    BY <1>2, <1>4, <2>1
<1> QED
  BY <1>1, <1>2, <1>3, <1>5, <1>6 DEF one

LEMMA ReverseAppend ==
    ASSUME NEW S, NEW s \in Seq(S), NEW x \in S
    PROVE  Reverse(Append(s, x)) = <<x>> \o Reverse(s)
<1>1. Len(s) \in Nat /\ Len(Append(s, x)) = Len(s) + 1 /\ Append(s, x) \in Seq(S)
  OBVIOUS
<1>2. Reverse(s) \in Seq(S) /\ Len(Reverse(s)) = Len(s)
  BY <1>1 DEF Reverse
<1>3. /\ Reverse(Append(s, x)) \in Seq(S) /\ <<x>> \o Reverse(s) \in Seq(S)
      /\ Len(Reverse(Append(s, x))) = Len(s) + 1
      /\ Len(<<x>> \o Reverse(s)) = Len(s) + 1
  <2>1. <<x>> \o Reverse(s) \in Seq(S) /\ Len(<<x>> \o Reverse(s)) = Len(s) + 1
    BY <1>2, Prepended
  <2> QED
    BY <1>1, <2>1 DEF Reverse
<1>4. ASSUME NEW i \in 1..(Len(s) + 1)
      PROVE  Reverse(Append(s, x))[i] = (<<x>> \o Reverse(s))[i]
  <2>1. Reverse(Append(s, x))[i] = Append(s, x)[(Len(s) + 1 - i) + 1]
    BY <1>1 DEF Reverse
  <2>2. CASE i = 1
    BY <1>1, <1>2, <2>1, <2>2, Prepended
  <2>3. CASE i > 1
    <3>1. i - 1 \in 1..Len(s) /\ (Len(s) + 1 - i) + 1 \in 1..Len(s)
      BY <1>1, <2>3
    <3>2. (<<x>> \o Reverse(s))[i] = Reverse(s)[i - 1]
      <4>1. i \in 2..(Len(Reverse(s)) + 1)
        BY <1>2, <2>3
      <4> QED
        BY <1>2, <4>1, Prepended
    <3>3. Reverse(s)[i - 1] = s[(Len(s) - (i - 1)) + 1]
      BY <1>1, <3>1 DEF Reverse
    <3>4. Append(s, x)[(Len(s) + 1 - i) + 1] = s[(Len(s) + 1 - i) + 1]
      BY <1>1, <3>1
    <3>5. (Len(s) - (i - 1)) + 1 = (Len(s) + 1 - i) + 1
      BY <1>1
    <3> QED
      BY <2>1, <3>2, <3>3, <3>4, <3>5
  <2>4. i = 1 \/ i > 1
    BY <1>1
  <2> QED
    BY <2>2, <2>3, <2>4
<1> QED
  BY <1>1, <1>3, <1>4

(* The ids of a list. *)
LEMMA IdsType ==
    ASSUME NEW list \in Seq(Signal)
    PROVE  IdsOf(list) \in Seq(Ids) /\ Len(IdsOf(list)) = Len(list)
<1>1. DOMAIN list = 1..Len(list) /\ Len(list) \in Nat /\ \A n \in 1..Len(list) : list[n] \in Signal
  OBVIOUS
<1> QED
  BY <1>1 DEF IdsOf, Signal

LEMMA IdsPrepend ==
    ASSUME NEW list \in Seq(Signal), NEW s \in Signal
    PROVE  IdsOf(<<s>> \o list) = <<s.id>> \o IdsOf(list)
<1> DEFINE new == <<s>> \o list
<1>1. new \in Seq(Signal) /\ Len(new) = Len(list) + 1 /\ Len(list) \in Nat
      /\ new[1] = s /\ \A n \in 2..Len(new) : new[n] = list[n - 1]
      /\ s.id \in Ids
  BY Prepended DEF Signal
<1>2. IdsOf(list) \in Seq(Ids) /\ Len(IdsOf(list)) = Len(list)
  BY IdsType
<1>3. /\ <<s.id>> \o IdsOf(list) \in Seq(Ids) /\ Len(<<s.id>> \o IdsOf(list)) = Len(list) + 1
      /\ (<<s.id>> \o IdsOf(list))[1] = s.id
      /\ \A i \in 2..(Len(list) + 1) : (<<s.id>> \o IdsOf(list))[i] = IdsOf(list)[i - 1]
  <2> DEFINE ids == IdsOf(list)
  <2>1. ids \in Seq(Ids) /\ Len(ids) = Len(list)
    BY <1>2
  <2> HIDE DEF ids
  <2>2. /\ <<s.id>> \o ids \in Seq(Ids) /\ Len(<<s.id>> \o ids) = Len(ids) + 1
        /\ (<<s.id>> \o ids)[1] = s.id
        /\ \A i \in 2..(Len(ids) + 1) : (<<s.id>> \o ids)[i] = ids[i - 1]
    <3>1. s.id \in Ids
      BY DEF Signal
    <3> QED
      BY <2>1, <3>1, Prepended
  <2> QED
    BY <2>1, <2>2 DEF ids
<1> HIDE DEF new
<1>4. IdsOf(new) \in Seq(Ids) /\ Len(IdsOf(new)) = Len(list) + 1
  BY <1>1, IdsType
<1>5. ASSUME NEW i \in 1..(Len(list) + 1) PROVE IdsOf(new)[i] = (<<s.id>> \o IdsOf(list))[i]
  <2>1. IdsOf(new)[i] = new[i].id
    BY <1>1 DEF IdsOf
  <2>2. CASE i = 1
    BY <1>1, <1>3, <2>1, <2>2
  <2>3. CASE i > 1
    <3>1. i - 1 \in 1..Len(list) /\ i \in 2..(Len(list) + 1)
      BY <1>1, <2>3
    <3>2. (<<s.id>> \o IdsOf(list))[i] = IdsOf(list)[i - 1]
      BY <1>3, <3>1
    <3>3. IdsOf(list)[i - 1] = list[i - 1].id
      BY <3>1 DEF IdsOf
    <3>4. new[i] = list[i - 1]
      BY <1>1, <3>1
    <3> QED
      BY <2>1, <3>2, <3>3, <3>4
  <2>4. i = 1 \/ i > 1
    BY <1>1
  <2> QED
    BY <2>2, <2>3, <2>4
<1>6. IdsOf(new) = <<s.id>> \o IdsOf(list)
  <2> DEFINE x == IdsOf(new)
             y == <<s.id>> \o IdsOf(list)
  <2>1. x \in Seq(Ids) /\ y \in Seq(Ids) /\ Len(x) = Len(y) /\ \A i \in 1..Len(x) : x[i] = y[i]
    BY <1>1, <1>3, <1>4, <1>5
  <2> HIDE DEF x, y
  <2>2. x = y
    BY <2>1
  <2> QED
    BY <2>2 DEF x, y
<1> QED
  BY <1>6 DEF new

(* To change the first signal, but not its id. *)
LEMMA FirstChanged ==
    ASSUME NEW list \in Seq(Signal), list # <<>>, NEW s \in Signal, s.id = Head(list).id
    PROVE  LET new == <<s>> \o Tail(list)
           IN  /\ new \in Seq(Signal) /\ new # <<>> /\ DOMAIN new = DOMAIN list
               /\ new[1] = s /\ \A n \in DOMAIN list : n # 1 => new[n] = list[n]
               /\ IdsOf(new) = IdsOf(list)
<1> DEFINE rest == Tail(list)
           new == <<s>> \o rest
<1>1. /\ Len(list) \in Nat /\ Len(list) > 0 /\ DOMAIN list = 1..Len(list) /\ Head(list) = list[1]
      /\ rest \in Seq(Signal) /\ Len(rest) = Len(list) - 1
      /\ \A n \in 1..Len(rest) : rest[n] = list[n + 1]
  OBVIOUS
<1> HIDE DEF rest
<1>2. /\ new \in Seq(Signal) /\ Len(new) = Len(list) /\ DOMAIN new = DOMAIN list /\ new # <<>>
      /\ new[1] = s /\ \A n \in 2..Len(new) : new[n] = rest[n - 1]
  <2>1. /\ new \in Seq(Signal) /\ Len(new) = Len(rest) + 1
        /\ new[1] = s /\ \A n \in 2..(Len(rest) + 1) : new[n] = rest[n - 1]
    <3>1. rest \in Seq(Signal)
      BY <1>1
    <3> QED
      BY <3>1, Prepended
  <2> HIDE DEF new
  <2> QED
    BY <1>1, <2>1
<1> HIDE DEF new
<1>3. \A n \in DOMAIN list : n # 1 => new[n] = list[n]
  <2> SUFFICES ASSUME NEW n \in DOMAIN list, n # 1 PROVE new[n] = list[n]
    OBVIOUS
  <2>1. n \in 2..Len(new) /\ n - 1 \in 1..Len(rest) /\ (n - 1) + 1 = n
    BY <1>1, <1>2
  <2> QED
    BY <1>1, <1>2, <2>1
<1>4. \A n \in DOMAIN list : new[n].id = list[n].id
  BY <1>1, <1>2, <1>3
<1>5. IdsOf(new) = IdsOf(list)
  BY <1>2, <1>4 DEF IdsOf
<1> QED
  BY <1>2, <1>3, <1>5 DEF new, rest

(* A change of the signal that is being read. *)
LEMMA BecomeStep ==
    ASSUME ConfigTypeOK, AtDepth, Parsing, Len(open) >= 3, NEW s \in Signal, s.id = Current.id, Become(s)
    PROVE  /\ DOMAIN traces' = DOMAIN traces
           /\ \A k \in DOMAIN traces : /\ traces'[k] \in Seq(Signal)
                                       /\ DOMAIN traces'[k] = DOMAIN traces[k]
                                       /\ IdsOf(traces'[k]) = IdsOf(traces[k])
           /\ \A k \in DOMAIN traces : \A n \in DOMAIN traces[k] :
                 ~(k = trace /\ n = 1) => traces'[k][n] = traces[k][n]
           /\ traces'[trace] # <<>> /\ traces'[trace][1] = s
<1>1. Len(open) \in Nat /\ trace \in DOMAIN traces /\ traces[trace] \in Seq(Signal) /\ traces[trace] # <<>>
  BY DEF ConfigTypeOK, AtDepth
<1> DEFINE new == <<s>> \o Tail(traces[trace])
<1>2. /\ new \in Seq(Signal) /\ new # <<>> /\ DOMAIN new = DOMAIN traces[trace]
      /\ new[1] = s /\ \A n \in DOMAIN traces[trace] : n # 1 => new[n] = traces[trace][n]
      /\ IdsOf(new) = IdsOf(traces[trace])
  BY <1>1, FirstChanged DEF Current
<1>3. traces' = [traces EXCEPT ![trace] = new]
  BY DEF Become
<1> HIDE DEF new
<1>4. /\ DOMAIN traces' = DOMAIN traces /\ traces'[trace] = new
      /\ \A k \in DOMAIN traces : k # trace => traces'[k] = traces[k]
  BY <1>1, <1>3
<1>5. ASSUME NEW k \in DOMAIN traces
      PROVE  /\ traces'[k] \in Seq(Signal) /\ DOMAIN traces'[k] = DOMAIN traces[k]
             /\ IdsOf(traces'[k]) = IdsOf(traces[k])
             /\ \A n \in DOMAIN traces[k] : ~(k = trace /\ n = 1) => traces'[k][n] = traces[k][n]
  <2>1. CASE k = trace
    BY <1>2, <1>4, <2>1
  <2>2. CASE k # trace
    BY <1>4, <2>2 DEF ConfigTypeOK
  <2> QED
    BY <2>1, <2>2
<1> QED
  BY <1>2, <1>4, <1>5
(* To go one element deeper, and back. *)
Elements == {"signal-list", "trace", "signal", "label", "mask", "type"}

LEMMA EnterStep ==
    ASSUME ConfigTypeOK, NEW e \in Elements, Enter(e)
    PROVE  open' \in Seq(Elements) /\ Len(open') = Len(open) + 1 /\ Len(open) \in Nat
BY DEF ConfigTypeOK, Enter, Elements

LEMMA LeaveStep ==
    ASSUME ConfigTypeOK, open # <<>>, Leave
    PROVE  /\ open' \in Seq(Elements) /\ Len(open') = Len(open) - 1 /\ Len(open') \in Nat
           /\ Len(open) \in Nat /\ Len(open) > 0
<1>1. open \in Seq(Elements) /\ Len(open) \in Nat /\ Len(open) > 0
  BY DEF ConfigTypeOK, Elements
<1> DEFINE m == Len(open) - 1
<1>2. m \in Int /\ 1 \in Int /\ m >= 0 /\ m - 1 + 1 = m /\ \A i \in 1..m : open[i] \in Elements
  BY <1>1
<1> HIDE DEF m
<1>3. SubSeq(open, 1, m) \in Seq(Elements) /\ Len(SubSeq(open, 1, m)) = m
  BY <1>2, SubSeqProperties
<1> QED
  BY <1>1, <1>2, <1>3 DEF Leave, Front, m

(* The signal that is being read. *)
LEMMA Reading ==
    ASSUME ConfigTypeOK, AtDepth, Parsing, Len(open) >= 3
    PROVE  /\ trace \in DOMAIN traces /\ trace \in Keys /\ traces[trace] \in Seq(Signal)
           /\ traces[trace] # <<>> /\ Current = traces[trace][1] /\ Current \in Signal
           /\ 1 \in DOMAIN traces[trace]
<1>1. /\ Len(open) \in Nat /\ trace \in DOMAIN traces /\ traces[trace] \in Seq(Signal)
      /\ traces[trace] # <<>> /\ trace \in Keys
  BY DEF ConfigTypeOK, AtDepth
<1> DEFINE list == traces[trace]
<1> HIDE DEF list
<1>2. list \in Seq(Signal) /\ list # <<>>
  BY <1>1 DEF list
<1>3. Head(list) = list[1] /\ list[1] \in Signal /\ 1 \in DOMAIN list
  BY <1>2
<1> QED
  BY <1>1, <1>3 DEF Current, list

(* The ids of the traces do not change. *)
LEMMA SameIds ==
    ASSUME InReverse, UNCHANGED <<elements, declared>>, DOMAIN traces' = DOMAIN traces,
           \A k \in DOMAIN traces : IdsOf(traces'[k]) = IdsOf(traces[k])
    PROVE  InReverse'
<1>1. \A k, n : IsLast(elements, k, n)' <=> IsLast(elements, k, n)
  BY DEF IsLast
<1> QED
  BY <1>1 DEF InReverse

(* A step within a signal that changes no trace. *)
LEMMA StepWithin ==
    ASSUME ConfigInv, Parsing, Len(open) >= 3, status' = "parsing", open' \in Seq(Elements),
           Len(open') >= 3, text' \in BOOLEAN, UNCHANGED <<traces, trace, building, elements, declared>>
    PROVE  ConfigInv'
<1> USE DEF ConfigInv
<1>1. ConfigTypeOK'
  BY DEF ConfigTypeOK, Elements
<1>2. AtDepth' /\ Complete'
  <2>1. Len(open) \in Nat /\ Len(open') \in Nat
    BY DEF ConfigTypeOK
  <2>2. AtDepth'
    BY <2>1 DEF AtDepth, Parsing
  <2>3. \A k, n : Read(k, n)' <=> Read(k, n)
    BY DEF Read
  <2> QED
    BY <2>2, <2>3 DEF Complete, Parsing
<1>3. InReverse'
  BY SameIds DEF InReverse
<1>4. ConfigComplete'
  BY DEF ConfigComplete
<1> QED
  BY <1>1, <1>2, <1>3, <1>4

(* A step that changes the signal that is read, and stays within it. *)
LEMMA ChangeWithin ==
    ASSUME ConfigInv, Parsing, Len(open) >= 3, status' = "parsing", open' \in Seq(Elements),
           Len(open') >= 3, text' \in BOOLEAN, UNCHANGED <<trace, building, elements, declared>>,
           NEW s \in Signal, s.id = Current.id, Become(s)
    PROVE  ConfigInv'
<1> USE DEF ConfigInv
<1>1. /\ DOMAIN traces' = DOMAIN traces
      /\ \A k \in DOMAIN traces : /\ traces'[k] \in Seq(Signal)
                                  /\ DOMAIN traces'[k] = DOMAIN traces[k]
                                  /\ IdsOf(traces'[k]) = IdsOf(traces[k])
      /\ \A k \in DOMAIN traces : \A n \in DOMAIN traces[k] :
            ~(k = trace /\ n = 1) => traces'[k][n] = traces[k][n]
      /\ traces'[trace] # <<>>
  BY BecomeStep
<1>2. Len(open) \in Nat /\ Len(open') \in Nat
  BY DEF ConfigTypeOK
<1>3. ConfigTypeOK'
  BY <1>1 DEF ConfigTypeOK, Elements
<1>4. AtDepth'
  BY <1>1, <1>2 DEF AtDepth, Parsing
<1>5. Complete'
  <2> SUFFICES ASSUME NEW k \in DOMAIN traces, NEW n \in DOMAIN traces[k], ~(k = trace /\ n = 1)
               PROVE  traces'[k][n].label /\ traces'[k][n].mask
    BY <1>1 DEF Complete, Read
  <2>1. traces[k][n].label /\ traces[k][n].mask
    BY DEF Complete, Read
  <2> QED
    BY <1>1, <2>1
<1>6. InReverse'
  BY <1>1, SameIds
<1>7. ConfigComplete'
  BY DEF ConfigComplete
<1> QED
  BY <1>3, <1>4, <1>5, <1>6, <1>7

(* A step that ends the reading, but not of a complete document. *)
LEMMA StepFails ==
    ASSUME ConfigInv, status' = "failed", UNCHANGED <<open, trace, building, elements, declared>>,
           text' \in BOOLEAN, DOMAIN traces' = DOMAIN traces,
           \A k \in DOMAIN traces : traces'[k] \in Seq(Signal) /\ IdsOf(traces'[k]) = IdsOf(traces[k])
    PROVE  ConfigInv'
<1> USE DEF ConfigInv
<1>1. ConfigTypeOK'
  BY DEF ConfigTypeOK
<1>2. InReverse'
  BY SameIds
<1> QED
  BY <1>1, <1>2 DEF AtDepth, Complete, ConfigComplete, Parsing

-----------------------------------------------------------------------------
LEMMA InitConfigInv == ConfigInit => ConfigInv
<1> SUFFICES ASSUME ConfigInit PROVE ConfigInv
  OBVIOUS
<1>1. DOMAIN traces = {} /\ Len(open) = 0 /\ Len(declared) = 0 /\ Len(elements) = 0
  BY DEF ConfigInit
<1>2. ToSet(elements) = {}
  BY DEF ConfigInit, ToSet
<1>3. ConfigTypeOK
  <2>1. \A S : <<>> \in Seq(S)
    OBVIOUS
  <2>2. open \in Seq(Elements) /\ elements \in Seq(Keys) /\ declared \in Seq(Seq(Ids))
    BY <2>1 DEF ConfigInit
  <2> QED
    BY <1>1, <2>2 DEF ConfigInit, ConfigTypeOK, Elements
<1> QED
  BY <1>1, <1>2, <1>3 DEF ConfigInit, ConfigInv, AtDepth, Complete, InReverse, ConfigComplete, Parsing

(* The end of the document, after which an incomplete one is not "ok". *)
LEMMA EndOfFileStep ==
    ASSUME ConfigInv, EndOfFile
    PROVE  ConfigInv'
<1> USE DEF ConfigInv
<1>1. status' \in {"aborted", "ok"} /\ UNCHANGED <<open, traces, trace, building, text, elements, declared>>
  BY DEF EndOfFile, state, document
<1>2. ConfigTypeOK'
  BY <1>1 DEF ConfigTypeOK
<1>3. InReverse'
  BY <1>1, SameIds DEF InReverse
<1>4. ConfigComplete'
  <2> SUFFICES ASSUME open = <<>>, NEW k \in DOMAIN traces, NEW s \in ToSet(traces[k])
               PROVE  s.label /\ s.mask
    BY <1>1 DEF ConfigComplete
  <2>1. PICK n \in DOMAIN traces[k] : s = traces[k][n]
    BY DEF ToSet
  <2>2. ~Read(k, n)
    BY DEF Read
  <2> QED
    BY <2>1, <2>2 DEF Complete, EndOfFile
<1> QED
  BY <1>1, <1>2, <1>3, <1>4 DEF AtDepth, Complete, Parsing

(* A step outside of the signals that changes no trace: the list begins, or it
   or a trace ends. *)
LEMMA StepOutside ==
    ASSUME ConfigInv, Parsing, status' = "parsing", open' \in Seq(Elements), Len(open) < 3,
           Len(open') < 2, trace' = NoTrace, UNCHANGED <<traces, building, text, elements, declared>>
    PROVE  ConfigInv'
<1> USE DEF ConfigInv
<1>1. Len(open) \in Nat /\ Len(open') \in Nat
  BY DEF ConfigTypeOK
<1>2. ConfigTypeOK'
  BY DEF ConfigTypeOK, Elements
<1>3. AtDepth'
  BY <1>1 DEF AtDepth, Parsing
<1>4. Complete'
  BY <1>1 DEF Complete, Read, Parsing
<1>5. InReverse'
  BY SameIds DEF InReverse
<1> QED
  BY <1>2, <1>3, <1>4, <1>5 DEF ConfigComplete

(* The places of the elements when there is one more. *)
LEMMA OneMore ==
    ASSUME NEW list \in Seq(Keys), NEW key \in Keys
    PROVE  LET more == Append(list, key)
           IN  /\ more \in Seq(Keys) /\ more # <<>> /\ Last(more) = key /\ Len(more) = Len(list) + 1
               /\ DOMAIN more = DOMAIN list \cup {Len(list) + 1}
               /\ ToSet(more) = ToSet(list) \cup {key}
               /\ IsLast(more, key, Len(list) + 1)
               /\ \A k, n : k # key /\ n \in DOMAIN list /\ IsLast(list, k, n) => IsLast(more, k, n)
<1> DEFINE more == Append(list, key)
           l == Len(list)
<1>1. /\ more \in Seq(Keys) /\ Len(more) = l + 1 /\ l \in Nat /\ DOMAIN list = 1..l
      /\ more[l + 1] = key /\ \A n \in 1..l : more[n] = list[n]
  OBVIOUS
<1> HIDE DEF more, l
<1>2. DOMAIN more = 1..(l + 1) /\ more # <<>> /\ Last(more) = key
  BY <1>1 DEF Last
<1>3. DOMAIN more = DOMAIN list \cup {l + 1}
  BY <1>1, <1>2
<1>4. ToSet(more) = ToSet(list) \cup {key}
  BY <1>1, <1>3 DEF ToSet
<1>5. IsLast(more, key, l + 1)
  BY <1>1, <1>2 DEF IsLast
<1>6. ASSUME NEW k, NEW n \in DOMAIN list, k # key, IsLast(list, k, n) PROVE IsLast(more, k, n)
  BY <1>1, <1>3, <1>6 DEF IsLast
<1> QED
  BY <1>1, <1>2, <1>3, <1>4, <1>5, <1>6 DEF more, l

LEMMA StartTraceStep ==
    ASSUME ConfigInv, StartTrace
    PROVE  ConfigInv'
<1> USE DEF ConfigInv
<1>1. PICK key \in Keys :
        /\ trace' = key
        /\ traces' = [k \in DOMAIN traces \cup {key} |-> IF k = key THEN <<>> ELSE traces[k]]
        /\ elements' = Append(elements, key)
  BY DEF StartTrace
<1>2. /\ Parsing /\ status' = "parsing" /\ Len(open) = 1 /\ Enter("trace")
      /\ declared' = Append(declared, <<>>) /\ UNCHANGED <<building, text>>
  BY DEF StartTrace, Parsing, List
<1>3. open' \in Seq(Elements) /\ Len(open') = 2
  BY <1>2, EnterStep DEF Elements
<1> DEFINE l == Len(elements)
<1>4. /\ elements' \in Seq(Keys) /\ elements' # <<>> /\ Last(elements') = key
      /\ DOMAIN elements' = DOMAIN elements \cup {l + 1} /\ Len(elements') = l + 1
      /\ ToSet(elements') = ToSet(elements) \cup {key}
      /\ IsLast(elements', key, l + 1)
      /\ \A k, n : k # key /\ n \in DOMAIN elements /\ IsLast(elements, k, n) => IsLast(elements', k, n)
  <2>1. elements \in Seq(Keys)
    BY DEF ConfigTypeOK
  <2> QED
    BY <1>1, <2>1, OneMore
<1>5. /\ DOMAIN traces' = DOMAIN traces \cup {key} /\ traces'[key] = <<>>
      /\ \A k \in DOMAIN traces : k # key => traces'[k] = traces[k]
  BY <1>1
<1>6. /\ declared' \in Seq(Seq(Ids)) /\ Len(declared') = l + 1 /\ declared'[l + 1] = <<>>
      /\ \A n \in DOMAIN elements : declared'[n] = declared[n]
  <2>1. /\ declared \in Seq(Seq(Ids)) /\ Len(declared) = l /\ <<>> \in Seq(Ids)
        /\ DOMAIN elements = 1..l /\ l \in Nat
    BY DEF ConfigTypeOK
  <2> HIDE DEF l
  <2> QED
    BY <1>2, <2>1
<1> HIDE DEF l
<1>7. ConfigTypeOK'
  <2>1. \A k \in DOMAIN traces' : k \in Keys /\ traces'[k] \in Seq(Signal)
    <3>1. <<>> \in Seq(Signal) /\ \A k \in DOMAIN traces : k \in Keys /\ traces[k] \in Seq(Signal)
      BY DEF ConfigTypeOK
    <3>2. \A k \in DOMAIN traces' : k = key \/ (k \in DOMAIN traces /\ k # key)
      BY <1>5
    <3> QED
      BY <1>5, <3>1, <3>2
  <2> QED
    BY <1>1, <1>2, <1>3, <1>4, <1>6, <2>1 DEF ConfigTypeOK, Elements
<1>8. AtDepth'
  BY <1>1, <1>2, <1>3, <1>4, <1>5 DEF AtDepth, Parsing
<1>9. Complete'
  <2>1. \A k, n : ~Read(k, n)
    BY <1>2 DEF Read
  <2>2. DOMAIN traces'[key] = {}
    BY <1>5
  <2> QED
    BY <1>2, <1>5, <2>1, <2>2 DEF Complete
<1>10. InReverse'
  <2>1. DOMAIN traces' = ToSet(elements')
    BY <1>4, <1>5 DEF InReverse
  <2>2. ASSUME NEW k \in DOMAIN traces'
        PROVE  \E n \in DOMAIN elements' :
                   IsLast(elements', k, n) /\ IdsOf(traces'[k]) = Reverse(declared'[n])
    <3>1. CASE k = key
      <4>1. IdsOf(<<>>) = <<>> /\ Reverse(<<>>) = <<>>
        BY DEF IdsOf, Reverse
      <4> QED
        BY <1>4, <1>5, <1>6, <3>1, <4>1
    <3>2. CASE k # key
      <4>1. k \in DOMAIN traces /\ traces'[k] = traces[k]
        BY <1>5, <3>2
      <4>2. PICK n \in DOMAIN elements : IsLast(elements, k, n) /\ IdsOf(traces[k]) = Reverse(declared[n])
        BY <4>1 DEF InReverse
      <4> QED
        BY <1>4, <1>6, <3>2, <4>1, <4>2
    <3> QED
      BY <3>1, <3>2
  <2>3. \A k, n : IsLast(elements, k, n)' <=> IsLast(elements', k, n)
    BY DEF IsLast
  <2> QED
    BY <2>1, <2>2, <2>3 DEF InReverse
<1>11. ConfigComplete'
  BY <1>2 DEF ConfigComplete
<1> QED
  BY <1>7, <1>8, <1>9, <1>10, <1>11

LEMMA StartSignalStep ==
    ASSUME ConfigInv, StartSignal
    PROVE  ConfigInv'
<1> USE DEF ConfigInv
<1> DEFINE l == Len(elements)
<1>1. PICK id \in Ids :
        /\ traces' = [traces EXCEPT ![trace] = Prepend(NewSignal(id), @)]
        /\ declared' = [declared EXCEPT ![l] = Append(@, id)]
  BY DEF StartSignal
<1>2. /\ Parsing /\ status' = "parsing" /\ Len(open) = 2 /\ Enter("signal") /\ building' = TRUE
      /\ UNCHANGED <<trace, text, elements>>
  BY DEF StartSignal, Parsing, Trace
<1>3. open' \in Seq(Elements) /\ Len(open') = 3
  BY <1>2, EnterStep DEF Elements
<1>4. /\ trace \in DOMAIN traces /\ trace \in Keys /\ traces[trace] \in Seq(Signal)
      /\ elements # <<>> /\ trace = Last(elements)
  BY <1>2 DEF AtDepth, ConfigTypeOK
<1>5. /\ l \in DOMAIN elements /\ DOMAIN elements = 1..l /\ l \in Nat /\ elements[l] = trace
      /\ \A n \in DOMAIN elements : n <= l
  BY <1>4 DEF ConfigTypeOK, Last
<1>6. IsLast(elements, trace, l) /\ \A n \in DOMAIN elements : IsLast(elements, trace, n) => n = l
  BY <1>5 DEF IsLast
<1> DEFINE s == NewSignal(id)
           old == traces[trace]
           new == <<s>> \o old
<1>7. s \in Signal /\ s.id = id
  BY DEF NewSignal, Signal
<1>8. traces' = [traces EXCEPT ![trace] = new]
  BY <1>1 DEF Prepend
<1> HIDE DEF s
<1>9. /\ new \in Seq(Signal) /\ Len(new) = Len(old) + 1 /\ Len(old) \in Nat
      /\ \A i \in 2..(Len(old) + 1) : i - 1 \in 1..Len(old) /\ new[i] = old[i - 1]
      /\ IdsOf(new) = <<id>> \o IdsOf(old)
  <2>1. /\ new \in Seq(Signal) /\ Len(new) = Len(old) + 1 /\ Len(old) \in Nat
        /\ \A i \in 2..(Len(old) + 1) : i - 1 \in 1..Len(old) /\ new[i] = old[i - 1]
    BY <1>4, <1>7, Prepended
  <2>2. IdsOf(new) = <<id>> \o IdsOf(old)
    BY <1>4, <1>7, IdsPrepend
  <2> QED
    BY <2>1, <2>2
<1> HIDE DEF old, new
<1>10. /\ DOMAIN traces' = DOMAIN traces /\ traces'[trace] = new
       /\ \A k \in DOMAIN traces : k # trace => traces'[k] = traces[k]
  BY <1>4, <1>8
<1>11. /\ declared \in Seq(Seq(Ids)) /\ Len(declared) = l /\ declared[l] \in Seq(Ids)
       /\ Append(declared[l], id) \in Seq(Ids)
  <2>1. declared \in Seq(Seq(Ids)) /\ Len(declared) = l
    BY DEF ConfigTypeOK
  <2>2. declared[l] \in Seq(Ids)
    BY <1>5, <2>1
  <2> QED
    BY <2>1, <2>2
<1>12. /\ declared' \in Seq(Seq(Ids)) /\ Len(declared') = l /\ declared'[l] = Append(declared[l], id)
       /\ \A n \in DOMAIN elements : n # l => declared'[n] = declared[n]
  <2> DEFINE longer == Append(declared[l], id)
  <2>1. longer \in Seq(Ids) /\ declared' = [declared EXCEPT ![l] = longer]
    BY <1>1, <1>11
  <2> HIDE DEF longer, l
  <2>2. /\ declared' \in Seq(Seq(Ids)) /\ Len(declared') = l /\ declared'[l] = longer
        /\ \A n \in DOMAIN elements : n # l => declared'[n] = declared[n]
    BY <1>5, <1>11, <2>1
  <2> QED
    BY <2>2 DEF longer
<1> HIDE DEF l
<1>13. ConfigTypeOK'
  <2>1. \A k \in DOMAIN traces' : k \in Keys /\ traces'[k] \in Seq(Signal)
    BY <1>4, <1>9, <1>10 DEF ConfigTypeOK
  <2>2. Len(declared') = Len(elements')
    BY <1>2, <1>12 DEF l
  <2> QED
    BY <1>2, <1>3, <1>12, <2>1, <2>2 DEF ConfigTypeOK, Elements
<1>14. AtDepth'
  <2>1. new # <<>>
    BY <1>9
  <2> QED
    BY <1>2, <1>3, <1>4, <1>10, <2>1 DEF AtDepth, Parsing
<1>15. Complete'
  <2> SUFFICES ASSUME NEW k \in DOMAIN traces, NEW n \in DOMAIN traces'[k], ~(k = trace /\ n = 1)
               PROVE  traces'[k][n].label /\ traces'[k][n].mask
    BY <1>2, <1>3, <1>10 DEF Complete, Read
  <2>1. \A i \in DOMAIN traces[k] : traces[k][i].label /\ traces[k][i].mask
    BY <1>2 DEF Complete, Read
  <2>2. CASE k = trace
    <3>1. n \in 2..(Len(old) + 1)
      <4>1. DOMAIN new = 1..(Len(old) + 1)
        BY <1>9
      <4> QED
        BY <1>9, <1>10, <2>2, <4>1
    <3>2. n - 1 \in DOMAIN old /\ new[n] = old[n - 1]
      <4>1. DOMAIN old = 1..Len(old)
        BY <1>4 DEF old
      <4> QED
        BY <1>9, <3>1, <4>1
    <3> QED
      BY <1>10, <2>1, <2>2, <3>2 DEF old
  <2>3. CASE k # trace
    BY <1>10, <2>1, <2>3
  <2> QED
    BY <2>2, <2>3
<1>16. InReverse'
  <2>1. DOMAIN traces' = ToSet(elements')
    BY <1>2, <1>10 DEF InReverse
  <2>2. ASSUME NEW k \in DOMAIN traces
        PROVE  \E n \in DOMAIN elements :
                   IsLast(elements, k, n) /\ IdsOf(traces'[k]) = Reverse(declared'[n])
    <3>1. PICK n \in DOMAIN elements : IsLast(elements, k, n) /\ IdsOf(traces[k]) = Reverse(declared[n])
      BY DEF InReverse
    <3>2. CASE k = trace
      <4>1. n = l /\ IdsOf(old) = Reverse(declared[l])
        BY <1>6, <3>1, <3>2 DEF old
      <4>2. Reverse(Append(declared[l], id)) = <<id>> \o Reverse(declared[l])
        BY <1>11, ReverseAppend
      <4> QED
        BY <1>9, <1>10, <1>12, <3>1, <3>2, <4>1, <4>2
    <3>3. CASE k # trace
      <4>1. n # l
        BY <1>5, <3>1, <3>3 DEF IsLast
      <4> QED
        BY <1>10, <1>12, <3>1, <3>3, <4>1
    <3> QED
      BY <3>2, <3>3
  <2>3. \A k, n : IsLast(elements, k, n)' <=> IsLast(elements, k, n)
    BY <1>2 DEF IsLast
  <2> QED
    BY <1>2, <1>10, <2>1, <2>2, <2>3 DEF InReverse
<1>17. ConfigComplete'
  BY <1>2 DEF ConfigComplete
<1> QED
  BY <1>13, <1>14, <1>15, <1>16, <1>17

(* signal_end: what has been read has a label then, and a mask or no reader. *)
LEMMA EndSignalStep ==
    ASSUME ConfigInv, EndSignal
    PROVE  ConfigInv'
<1> USE DEF ConfigInv
<1>1. /\ Parsing /\ Len(open) = 3 /\ Leave /\ UNCHANGED <<trace, elements, declared>>
  BY DEF EndSignal, document
<1> DEFINE s == [Current EXCEPT !.label = TRUE]
<1>2. Become(s)
  BY DEF EndSignal
<1>3. /\ trace \in DOMAIN traces /\ Current \in Signal
  BY <1>1, Reading
<1>4. s \in Signal /\ s.id = Current.id /\ s.label = TRUE /\ s.mask = Current.mask
  BY <1>3 DEF Signal
<1> HIDE DEF s
<1>5. /\ DOMAIN traces' = DOMAIN traces
      /\ \A k \in DOMAIN traces : /\ traces'[k] \in Seq(Signal)
                                  /\ DOMAIN traces'[k] = DOMAIN traces[k]
                                  /\ IdsOf(traces'[k]) = IdsOf(traces[k])
      /\ \A k \in DOMAIN traces : \A n \in DOMAIN traces[k] :
            ~(k = trace /\ n = 1) => traces'[k][n] = traces[k][n]
      /\ traces'[trace][1] = s
  BY <1>1, <1>2, <1>4, BecomeStep
<1>6. open' \in Seq(Elements) /\ Len(open') = 2
  <2>1. open # <<>>
    BY <1>1
  <2> QED
    BY <1>1, <2>1, LeaveStep
<1>7. \/ status' = "failed" /\ text' = FALSE /\ building' = building
      \/ Current.mask /\ status' = "parsing" /\ building' = FALSE /\ text' = text
  <2>1. CASE MissingMask
    BY <2>1 DEF EndSignal, Fail
  <2>2. CASE ~MissingMask
    BY <1>1, <2>2 DEF EndSignal, MissingMask, Parsing
  <2> QED
    BY <2>1, <2>2
<1>8. ConfigTypeOK'
  BY <1>1, <1>5, <1>6, <1>7 DEF ConfigTypeOK, Elements
<1>9. AtDepth'
  BY <1>1, <1>5, <1>6, <1>7 DEF AtDepth, Parsing
<1>10. Complete'
  <2> SUFFICES ASSUME Current.mask, NEW k \in DOMAIN traces, NEW n \in DOMAIN traces[k]
               PROVE  traces'[k][n].label /\ traces'[k][n].mask
    BY <1>5, <1>7 DEF Complete, Parsing
  <2>1. CASE k = trace /\ n = 1
    BY <1>4, <1>5, <2>1
  <2>2. CASE ~(k = trace /\ n = 1)
    BY <1>1, <1>5, <2>2 DEF Complete, Read
  <2> QED
    BY <2>1, <2>2
<1>11. InReverse'
  BY <1>1, <1>5, SameIds
<1>12. ConfigComplete'
  BY <1>7 DEF ConfigComplete
<1> QED
  BY <1>8, <1>9, <1>10, <1>11, <1>12

LEMMA NextConfigInv == ConfigInv /\ [ConfigNext]_configVars => ConfigInv'
<1> SUFFICES ASSUME ConfigInv, [ConfigNext]_configVars PROVE ConfigInv'
  OBVIOUS
<1>1. CASE Bad
  <2>1. /\ status' = "failed" /\ text' = FALSE
        /\ UNCHANGED <<open, traces, trace, building, elements, declared>>
    BY <1>1 DEF Bad, Fail, document
  <2> QED
    BY <2>1, StepFails DEF ConfigInv, ConfigTypeOK
<1>2. CASE StartList
  <2>1. /\ Parsing /\ status' = "parsing" /\ open = <<>> /\ Len(open) = 0 /\ Enter("signal-list")
        /\ UNCHANGED <<traces, trace, building, text, elements, declared>>
    BY <1>2 DEF StartList, Parsing, state, document
  <2>2. open' \in Seq(Elements) /\ Len(open') = 1
    BY <2>1, EnterStep DEF ConfigInv, Elements
  <2>3. trace = NoTrace
    BY <2>1 DEF ConfigInv, AtDepth
  <2> QED
    BY <2>1, <2>2, <2>3, StepOutside
<1>3. CASE StartLabel
  <2>1. /\ Parsing /\ Len(open) >= 3 /\ UNCHANGED <<traces, trace, building, elements, declared>>
    BY <1>3 DEF StartLabel, InSignal, document
  <2>2. CASE status' = "failed" /\ text' = FALSE /\ open' = open
    BY <2>1, <2>2, StepFails DEF ConfigInv, ConfigTypeOK
  <2>3. CASE Enter("label") /\ text' = TRUE /\ status' = status
    <3>1. open' \in Seq(Elements) /\ Len(open') >= 3
      BY <2>1, <2>3, EnterStep DEF ConfigInv, Elements
    <3> QED
      BY <2>1, <2>3, <3>1, StepWithin DEF Parsing
  <2> QED
    BY <1>3, <2>2, <2>3 DEF StartLabel, Fail
<1>4. CASE StartMask
  <2>1. /\ Parsing /\ Len(open) >= 3 /\ Enter("mask") /\ status' = "parsing"
        /\ UNCHANGED <<trace, building, text, elements, declared>>
    BY <1>4 DEF StartMask, InSignal, Parsing, state, document
  <2>2. PICK fits \in BOOLEAN : Become([Current EXCEPT !.mask = fits])
    BY <1>4 DEF StartMask
  <2> DEFINE s == [Current EXCEPT !.mask = fits]
  <2>3. s \in Signal /\ s.id = Current.id
    BY <2>1, Reading DEF ConfigInv, Signal
  <2>4. open' \in Seq(Elements) /\ Len(open') >= 3
    BY <2>1, EnterStep DEF ConfigInv, Elements
  <2>5. text' \in BOOLEAN
    BY <2>1 DEF ConfigInv, ConfigTypeOK
  <2> HIDE DEF s
  <2> QED
    BY <2>1, <2>2, <2>3, <2>4, <2>5, ChangeWithin DEF s
<1>5. CASE StartType
  <2>1. /\ Parsing /\ Len(open) >= 3 /\ Enter("type") /\ status' = "parsing"
        /\ UNCHANGED <<traces, trace, building, text, elements, declared>>
    BY <1>5 DEF StartType, InSignal, Parsing, state, document
  <2>2. open' \in Seq(Elements) /\ Len(open') >= 3 /\ text' \in BOOLEAN
    BY <2>1, EnterStep DEF ConfigInv, Elements, ConfigTypeOK
  <2> QED
    BY <2>1, <2>2, StepWithin
<1>6. CASE EndInSignal
  <2>1. /\ Parsing /\ status' = "parsing" /\ Len(open) > 3 /\ Leave
        /\ UNCHANGED <<trace, building, elements, declared>>
    BY <1>6 DEF EndInSignal, Parsing, document
  <2>2. open' \in Seq(Elements) /\ Len(open') >= 3 /\ Len(open) >= 3
    <3>1. open # <<>> /\ Len(open) \in Nat
      BY <2>1 DEF ConfigInv, ConfigTypeOK
    <3>2. open' \in Seq(Elements) /\ Len(open') = Len(open) - 1
      BY <2>1, <3>1, LeaveStep DEF ConfigInv
    <3> QED
      BY <2>1, <3>1, <3>2
  <2>3. CASE Become([Current EXCEPT !.label = text]) /\ text' = LabelEnds
    <3> DEFINE s == [Current EXCEPT !.label = text]
    <3>1. s \in Signal /\ s.id = Current.id
      <4>1. text \in BOOLEAN
        BY DEF ConfigInv, ConfigTypeOK
      <4> QED
        BY <2>1, <2>2, <4>1, Reading DEF ConfigInv, Signal
    <3>2. text' \in BOOLEAN
      BY <2>3 DEF LabelEnds
    <3>3. Become(s)
      BY <2>3
    <3> HIDE DEF s
    <3> QED
      BY <2>1, <2>2, <3>1, <3>2, <3>3, ChangeWithin
  <2>4. CASE UNCHANGED <<traces, text>>
    BY <2>1, <2>2, <2>4, StepWithin DEF ConfigInv, ConfigTypeOK
  <2> QED
    BY <1>6, <2>3, <2>4 DEF EndInSignal
<1>7. CASE EndTrace \/ EndList
  <2>1. /\ Parsing /\ status' = "parsing" /\ Len(open) \in {1, 2} /\ Leave
        /\ UNCHANGED <<traces, building, text, elements, declared>>
    BY <1>7 DEF EndTrace, EndList, Parsing, Trace, List, state, document
  <2>2. open' \in Seq(Elements) /\ Len(open') < 2 /\ Len(open) < 3
    <3>1. open # <<>>
      BY <2>1
    <3>2. open' \in Seq(Elements) /\ Len(open') = Len(open) - 1
      BY <2>1, <3>1, LeaveStep DEF ConfigInv
    <3>3. Len(open) = 1 \/ Len(open) = 2
      BY <2>1
    <3>4. \A l : l = 1 \/ l = 2 => l - 1 < 2 /\ l < 3
      OBVIOUS
    <3> QED
      BY <3>2, <3>3, <3>4
  <2>3. trace' = NoTrace
    <3>1. CASE EndTrace
      BY <3>1 DEF EndTrace, NextTrace
    <3>2. CASE EndList
      <4>1. Len(open) = 1 /\ trace' = trace
        BY <3>2 DEF EndList, List, state
      <4> QED
        BY <2>1, <4>1 DEF ConfigInv, AtDepth
    <3> QED
      BY <1>7, <3>1, <3>2
  <2> QED
    BY <2>1, <2>2, <2>3, StepOutside
<1>8. CASE UNCHANGED configVars
  <2>1. UNCHANGED <<status, open, traces, trace, building, text, elements, declared>>
    BY <1>8 DEF configVars, state, document
  <2>2. InReverse'
    BY <2>1, SameIds DEF ConfigInv, InReverse
  <2>3. \A k, n : Read(k, n)' <=> Read(k, n)
    BY <2>1 DEF Read
  <2>4. ConfigTypeOK' /\ AtDepth'
    BY <2>1 DEF ConfigInv, ConfigTypeOK, AtDepth, Parsing
  <2> QED
    BY <2>1, <2>2, <2>3, <2>4 DEF ConfigInv, Complete, ConfigComplete, Parsing
<1> QED
  BY <1>1, <1>2, <1>3, <1>4, <1>5, <1>6, <1>7, <1>8, StartTraceStep, StartSignalStep, EndSignalStep,
     EndOfFileStep DEF ConfigNext

LEMMA ConfigInductive == ConfigSpec => []ConfigInv
BY InitConfigInv, NextConfigInv, PTL DEF ConfigSpec

(* What signal_list_start and trace_start assert holds whenever they are called:
   for all documents, with traces and signals of any number and depth. *)
THEOREM Asserted == ConfigSpec => []AssertionsHold
<1>1. ConfigInv => AssertionsHold
  <2> SUFFICES ASSUME ConfigInv PROVE AssertionsHold
    OBVIOUS
  <2>1. open = List => Len(open) < 2 /\ ~(Len(open) >= 3)
    <3>1. Len(List) = 1
      BY DEF List
    <3> QED
      BY <3>1
  <2>2. open = Trace => Len(open) >= 2 /\ ~(Len(open) >= 3)
    <3>1. Len(Trace) = 2
      BY DEF Trace
    <3> DEFINE l == Len(open)
    <3>2. open = Trace => l = 2
      BY <3>1
    <3> HIDE DEF l
    <3>3. l = 2 => l >= 2 /\ ~(l >= 3)
      OBVIOUS
    <3> QED
      BY <3>2, <3>3 DEF l
  <2>3. ASSUME Parsing, open = List PROVE trace = NoTrace
    BY <2>1, <2>3, Zenon DEF ConfigInv, AtDepth
  <2>4. ASSUME Parsing, open = Trace PROVE trace # NoTrace /\ ~building
    <3>1. trace \in DOMAIN traces /\ ~building
      BY <2>2, <2>4, Zenon DEF ConfigInv, AtDepth
    <3>2. trace \in Keys
      BY <3>1 DEF ConfigInv, ConfigTypeOK
    <3> QED
      BY <3>1, <3>2, KeysAssumption
  <2> QED
    BY <2>3, <2>4 DEF AssertionsHold
<1> QED
  BY <1>1, ConfigInductive, PTL

(* A document that has been read to its end gives each signal a label and a
   mask. *)
THEOREM AllComplete == ConfigSpec => []ConfigComplete
<1>1. ConfigInv => ConfigComplete
  BY DEF ConfigInv
<1> QED
  BY <1>1, ConfigInductive, PTL

(* The tree has the traces of the document, each with the signals of the last
   element of its addresses, in reverse. *)
THEOREM NoneLost == ConfigSpec => []TracesDeclared
<1>1. ConfigInv => TracesDeclared
  <2> SUFFICES ASSUME ConfigInv, NEW k \in DOMAIN traces
               PROVE  IdsOf(traces[k]) = Reverse(declared[LastElement(k)])
    BY DEF ConfigInv, InReverse, TracesDeclared, IdsOf
  <2>1. PICK n \in DOMAIN elements : IsLast(elements, k, n) /\ IdsOf(traces[k]) = Reverse(declared[n])
    BY DEF ConfigInv, InReverse
  <2>2. \A i \in DOMAIN elements : i \in Nat
    BY DEF ConfigInv, ConfigTypeOK
  <2>3. \A i \in DOMAIN elements : IsLast(elements, k, i) => i = n
    BY <2>1, <2>2 DEF IsLast
  <2>4. LastElement(k) = CHOOSE i \in DOMAIN elements : IsLast(elements, k, i)
    BY DEF LastElement, IsLast
  <2>5. LastElement(k) = n
    BY <2>1, <2>3, <2>4
  <2> QED
    BY <2>1, <2>5
<1> QED
  BY <1>1, ConfigInductive, PTL

-----------------------------------------------------------------------------
(* A packet of the files has value v of signal s at time t. *)
IsSample(files, s, t, v) ==
    \E f \in ToSet(files) : \E p \in ToSet(f.packets) :
        s \in DOMAIN p.values /\ p.time = t /\ p.values[s] = v

FromSamples(files, rs) == \A r \in rs : IsSample(files, r.id, r.start, r.value)

Kept_OK == \A s \in Signals :
    last[s] # None => IsSample(archive, s, last[s].time, last[s].value)
Todo_OK == \A n \in 1..Len(todo) : \E f \in ToSet(archive) : todo[n].packets = f.packets

IInv ==
    /\ TypeOK
    /\ FromSamples(archive, values) /\ FromSamples(archive, pending)
    /\ Kept_OK /\ Todo_OK

-----------------------------------------------------------------------------
(* The files of the archive, in the order of the archive or not. *)
LEMMA ArchiveFiles ==
    ASSUME TypeOK
    PROVE  /\ archive \in Seq(File)
           /\ \A n \in 1..written : archive[n] \in File /\ archive[n] \in ToSet(archive)
<1>1. archive \in Seq(File)
  BY LoggerAssumption DEF TypeOK
<1>2. \A n \in 1..written : n \in 1..Len(archive)
  BY <1>1 DEF TypeOK
<1>3. \A n \in 1..Len(archive) : archive[n] \in ToSet(archive)
  BY <1>1 DEF ToSet
<1> QED
  BY <1>1, <1>2, <1>3

(* select_packet_files gives a list of files of the archive. *)
LEMMA PrefixFiles ==
    ASSUME TypeOK, NEW q \in Prefix
    PROVE  q \in Seq(File) /\ \A n \in 1..Len(q) : q[n] \in {archive[m] : m \in 1..written}
<1> DEFINE S == {archive[n] : n \in 1..written}
           f == [n \in 1..written |-> archive[n]]
<1>1. written \in Nat
  BY ArchiveFiles DEF TypeOK
<1>2. IsFiniteSet(1..written)
  BY <1>1, FS_Interval
<1>3. f \in Surjection(1..written, S)
  BY DEF Surjection
<1>4. IsFiniteSet(S)
  <2> HIDE DEF S, f
  <2> QED
    BY <1>2, <1>3, FS_Surjection
<1>5. Cardinality(S) \in Nat
  <2> HIDE DEF S, f
  <2> QED
    BY <1>4, FS_CardinalityType
<1>6. q \in [1..Cardinality(S) -> S]
  BY DEF Prefix, SetToSeqs
<1>7. S \subseteq File
  BY ArchiveFiles
<1> HIDE DEF S
<1>8. q \in Seq(S) /\ q \in Seq(File)
  BY <1>5, <1>6, <1>7
<1>9. \A n \in 1..Len(q) : q[n] \in S
  BY <1>8
<1> QED
  BY <1>8, <1>9 DEF S

(* A file given alone has the packets of one of the archive. *)
LEMMA SingleFile ==
    ASSUME TypeOK, NEW q \in Single
    PROVE  /\ q \in Seq(File)
           /\ \A n \in 1..Len(q) : \E f \in ToSet(archive) : q[n].packets = f.packets
<1>1. PICK n \in 1..written : q = <<[archive[n] EXCEPT !.start = 0, !.end = 0]>>
  BY DEF Single
<1>2. archive[n] \in File /\ archive[n] \in ToSet(archive)
  BY ArchiveFiles
<1> DEFINE g == [archive[n] EXCEPT !.start = 0, !.end = 0]
<1>3. g \in File /\ g.packets = archive[n].packets
  BY <1>2 DEF File
<1> HIDE DEF g
<1>4. q = <<g>>
  BY <1>1 DEF g
<1> QED
  BY <1>2, <1>3, <1>4

(* The file that is being read, and its packets. *)
LEMMA HeadPackets ==
    ASSUME IInv, todo # <<>>
    PROVE  /\ Head(todo) \in File /\ Packets \in Seq(Packet)
           /\ \E f \in ToSet(archive) : Packets = f.packets
<1>1. todo \in Seq(File) /\ Len(todo) > 0 /\ Head(todo) = todo[1]
  BY DEF IInv, TypeOK
<1>2. Head(todo) \in File
  BY <1>1
<1>3. Packets \in Seq(Packet)
  BY <1>2 DEF Packets, File
<1>4. PICK f \in ToSet(archive) : todo[1].packets = f.packets
  BY <1>1 DEF IInv, Todo_OK
<1> QED
  BY <1>1, <1>2, <1>3, <1>4 DEF Packets

(* A packet's values are those of some signals. *)
LEMMA PacketValues ==
    ASSUME NEW p \in Packet
    PROVE  /\ p.time \in Nat /\ DOMAIN p.values \subseteq Signals
           /\ \A s \in DOMAIN p.values : p.values[s] \in Values
<1>1. PICK S \in SUBSET Signals : p.values \in [S -> Values]
  BY DEF Packet
<1> QED
  BY <1>1 DEF Packet

(* An interval of a signal until some time, and its sample. *)
LEMMA UntilSampled ==
    ASSUME IInv, NEW s \in Signals, last[s] # None, NEW end \in Int
    PROVE  /\ Until(s, end) \in Interval
           /\ FromSamples(archive, {Until(s, end)})
<1>1. last[s] \in [time : Nat, value : Values]
  BY DEF IInv, TypeOK
<1>2. Until(s, end) = [id |-> s, start |-> last[s].time, end |-> end, value |-> last[s].value]
  BY DEF Until
<1>3. IsSample(archive, s, last[s].time, last[s].value)
  BY DEF IInv, Kept_OK
<1> QED
  BY <1>1, <1>2, <1>3 DEF Interval, FromSamples

(* An insert, in a transaction or not, adds what is sampled. *)
LEMMA StoreSampled ==
    ASSUME IInv, NEW rs, rs \subseteq Interval, FromSamples(archive, rs), Store(rs),
           UNCHANGED <<archive, transaction>>
    PROVE  /\ values' \subseteq Interval /\ pending' \subseteq Interval
           /\ (~transaction => pending = {})'
           /\ FromSamples(archive, values)' /\ FromSamples(archive, pending)'
           /\ fresh' \in BOOLEAN
<1>1. PICK stored \in SUBSET Storable(rs) :
        Insert(stored) /\ fresh' = (fresh /\ stored = Storable(rs))
  BY DEF Store
<1>2. stored \subseteq Interval /\ FromSamples(archive, stored)
  BY <1>1 DEF Storable, FromSamples
<1>3. fresh' \in BOOLEAN
  BY <1>1, Zenon
<1>4. CASE transaction
  BY <1>1, <1>2, <1>3, <1>4 DEF Insert, IInv, TypeOK, FromSamples
<1>5. CASE ~transaction
  BY <1>1, <1>2, <1>3, <1>5 DEF Insert, IInv, TypeOK, FromSamples
<1> QED
  BY <1>4, <1>5

(* COMMIT and START TRANSACTION, which succeed or fail, add nothing. *)
LEMMA CommittedSampled ==
    ASSUME IInv, UNCHANGED archive, Start \/ CommitOk \/ CommitLost \/ CommitOpen
    PROVE  /\ values' \subseteq Interval /\ pending' \subseteq Interval
           /\ transaction' \in BOOLEAN /\ (~transaction => pending = {})'
           /\ FromSamples(archive, values)' /\ FromSamples(archive, pending)'
BY DEF IInv, TypeOK, FromSamples, Start, Committed, CommitOk, CommitLost, CommitOpen

-----------------------------------------------------------------------------
LEMMA NoLastType == NoLast \in [Signals -> {None} \cup [time : Nat, value : Values]]
BY DEF NoLast

LEMMA InitIInv == Init => IInv
<1> SUFFICES ASSUME Init PROVE IInv
  OBVIOUS
<1>1. archive \in Seq(File) /\ 0 \in 0..Len(archive)
  BY LoggerAssumption DEF Init
<1>2. TypeOK
  <2>1. last \in [Signals -> {None} \cup [time : Nat, value : Values]]
    BY NoLastType DEF Init
  <2>2. registered \subseteq Signals /\ transaction \in BOOLEAN /\ fresh \in BOOLEAN
    BY DEF Init
  <2>3. todo \in Seq(File)
    BY DEF Init
  <2> QED
    BY <1>1, <2>1, <2>2, <2>3 DEF Init, TypeOK
<1> QED
  BY <1>2 DEF Init, IInv, FromSamples, Kept_OK, Todo_OK, NoLast

(* The program ends: what is left is the values. *)
LEMMA EndIInv ==
    ASSUME IInv, NEW done, done \subseteq ToSet(archive), End(done)
    PROVE  IInv'
<1>1. TypeOK'
  <2>1. (last \in [Signals -> {None} \cup [time : Nat, value : Values]])'
    BY NoLastType DEF End
  <2>2. (registered \subseteq Signals /\ transaction \in BOOLEAN /\ fresh \in BOOLEAN)'
    BY DEF End, IInv, TypeOK
  <2>3. (todo \in Seq(File))'
    BY DEF End
  <2>4. (covered \subseteq ToSet(archive) /\ odd \subseteq {"single", "stale"})'
    BY DEF End, IInv, TypeOK, environment
  <2> QED
    BY <2>1, <2>2, <2>3, <2>4 DEF End, IInv, TypeOK, environment
<1>2. FromSamples(archive, values)' /\ FromSamples(archive, pending)'
  BY DEF End, IInv, FromSamples, IsSample, environment
<1>3. Kept_OK' /\ Todo_OK'
  BY DEF End, Kept_OK, Todo_OK, NoLast
<1> QED
  BY <1>1, <1>2, <1>3 DEF IInv

(* Every step keeps the invariant; most leave alone what it is about. *)
LEMMA NextIInv == IInv /\ [Next]_vars => IInv'
<1> SUFFICES ASSUME IInv, [Next]_vars PROVE IInv'
  OBVIOUS
<1> USE DEF IInv
<1>1. CASE NewFile
  <2>1. archive \in Seq(File)
    BY ArchiveFiles
  <2>2. TypeOK'
    BY <1>1, <2>1 DEF NewFile, TypeOK, tables, progress, history
  <2>3. (FromSamples(archive, values) /\ FromSamples(archive, pending) /\ Kept_OK /\ Todo_OK)'
    BY <1>1 DEF NewFile, FromSamples, Kept_OK, Todo_OK, tables, progress
  <2> QED
    BY <2>2, <2>3
<1>2. CASE Begin
  <2>1. todo' \in Seq(File) /\ \A n \in 1..Len(todo') : \E f \in ToSet(archive) : todo'[n].packets = f.packets
    <3>1. CASE todo' \in Prefix
      BY <3>1, PrefixFiles, ArchiveFiles
    <3>2. CASE todo' \in Single
      BY <3>2, SingleFile
    <3> QED
      BY <1>2, <3>1, <3>2 DEF Begin
  <2>2. TypeOK'
    <3>1. fresh' \in BOOLEAN
      BY <1>2, Zenon DEF Begin
    <3>2. odd' \subseteq {"single", "stale"}
      BY <1>2 DEF Begin, TypeOK
    <3> QED
      BY <1>2, <2>1, <3>1, <3>2, NoLastType DEF Begin, TypeOK, environment, tables
  <2>3. Kept_OK' /\ Todo_OK'
    BY <1>2, <2>1 DEF Begin, Kept_OK, Todo_OK, environment, NoLast
  <2>4. (FromSamples(archive, values) /\ FromSamples(archive, pending))'
    BY <1>2 DEF Begin, FromSamples, environment, tables
  <2> QED
    BY <2>2, <2>3, <2>4
<1>3. CASE Register
  <2>1. TypeOK'
    BY <1>3 DEF Register, TypeOK, environment, progress, history
  <2>2. (FromSamples(archive, values) /\ FromSamples(archive, pending) /\ Kept_OK /\ Todo_OK)'
    BY <1>3 DEF Register, FromSamples, Kept_OK, Todo_OK, environment, progress
  <2> QED
    BY <2>1, <2>2
<1>4. CASE NextFile \/ LastFile \/ FinishDone
  <2>1. TypeOK'
    <3>1. CASE NextFile
      BY <3>1 DEF NextFile, TypeOK, environment, tables, progress, history
    <3>2. CASE LastFile
      BY <3>2 DEF LastFile, TypeOK, environment, tables, progress, history
    <3>3. CASE FinishDone
      BY <3>3 DEF FinishDone, Finished, TypeOK, environment, tables, progress, history
    <3> QED
      BY <1>4, <3>1, <3>2, <3>3
  <2>2. (FromSamples(archive, values) /\ FromSamples(archive, pending) /\ Kept_OK /\ Todo_OK)'
    BY <1>4 DEF NextFile, LastFile, FinishDone, FromSamples, Kept_OK, Todo_OK,
                environment, tables, progress
  <2> QED
    BY <2>1, <2>2
<1>5. CASE FinishSignal
  <2>1. PICK s \in Signals :
          last[s] # None /\ Store({Until(s, prevEnd)}) /\ last' = [last EXCEPT ![s] = None]
    BY <1>5 DEF FinishSignal
  <2>2. prevEnd \in Int
    BY DEF TypeOK
  <2>3. {Until(s, prevEnd)} \subseteq Interval /\ FromSamples(archive, {Until(s, prevEnd)})
    BY <2>1, <2>2, UntilSampled
  <2>4. UNCHANGED <<archive, transaction>>
    BY <1>5 DEF FinishSignal, environment
  <2>5. /\ values' \subseteq Interval /\ pending' \subseteq Interval
        /\ (~transaction => pending = {})'
        /\ FromSamples(archive, values)' /\ FromSamples(archive, pending)'
        /\ fresh' \in BOOLEAN
    BY <2>1, <2>3, <2>4, StoreSampled
  <2>6. TypeOK'
    BY <1>5, <2>1, <2>5 DEF FinishSignal, TypeOK, environment, history
  <2>7. Kept_OK' /\ Todo_OK'
    BY <1>5, <2>1 DEF FinishSignal, Kept_OK, Todo_OK, environment, TypeOK
  <2> QED
    BY <2>5, <2>6, <2>7
<1>6. CASE FinishEnd
  <2>1. {archive[n] : n \in 1..written} \subseteq ToSet(archive)
    BY ArchiveFiles
  <2> QED
    BY <1>6, <2>1, EndIInv DEF FinishEnd
<1>7. CASE Open
  <2>1. todo # <<>>
    BY <1>7 DEF Open, TypeOK
  <2>2. Head(todo).end \in Nat
    BY <2>1, HeadPackets DEF File
  <2>3. UNCHANGED archive /\ Start
    BY <1>7 DEF Open, environment
  <2>4. /\ values' \subseteq Interval /\ pending' \subseteq Interval
        /\ transaction' \in BOOLEAN /\ (~transaction => pending = {})'
        /\ FromSamples(archive, values)' /\ FromSamples(archive, pending)'
    BY <2>3, CommittedSampled
  <2>5. TypeOK'
    BY <1>7, <2>1, <2>2, <2>4 DEF Open, TypeOK, Rewound, environment, history
  <2>6. Kept_OK' /\ Todo_OK'
    BY <1>7 DEF Open, Kept_OK, Todo_OK, environment
  <2> QED
    BY <2>4, <2>5, <2>6
<1>8. CASE OpenFail \/ ReadFail \/ Kill
  BY <1>8, EndIInv DEF OpenFail, ReadFail, Kill
<1>9. CASE Extract
  <2> DEFINE p == Packets[read + 1]
  <2>1. todo # <<>>
    BY <1>9 DEF Extract, TypeOK
  <2>2. PICK f \in ToSet(archive) : Packets = f.packets
    BY <2>1, HeadPackets
  <2>3. p \in Packet /\ p \in ToSet(Packets)
    BY <1>9, <2>1, HeadPackets DEF Extract, TypeOK, ToSet
  <2>4. /\ p.time \in Nat /\ DOMAIN p.values \subseteq Signals
        /\ \A s \in DOMAIN p.values : p.values[s] \in Values
    BY <2>3, PacketValues
  <2>5. \A s \in DOMAIN p.values : IsSample(archive, s, p.time, p.values[s])
    BY <2>2, <2>3 DEF IsSample
  <2>6. Store(Ended(p)) /\ last' = Kept(p)
    BY <1>9 DEF Extract
  <2>7. UNCHANGED <<archive, transaction>>
    BY <1>9 DEF Extract, environment
  <2> HIDE DEF p
  <2>8. Ended(p) \subseteq Interval /\ FromSamples(archive, Ended(p))
    <3> SUFFICES ASSUME NEW r \in Ended(p)
                 PROVE  r \in Interval /\ IsSample(archive, r.id, r.start, r.value)
      BY DEF FromSamples
    <3>1. PICK s \in Changed(p) : r = Until(s, p.time)
      BY DEF Ended
    <3>2. s \in Signals /\ last[s] # None
      BY <2>4 DEF Changed
    <3> QED
      BY <2>4, <3>1, <3>2, UntilSampled DEF FromSamples
  <2>9. /\ last' \in [Signals -> {None} \cup [time : Nat, value : Values]]
        /\ \A s \in Signals :
              last'[s] # None => IsSample(archive, s, last'[s].time, last'[s].value)
    BY <2>4, <2>5, <2>6 DEF Kept, Kept_OK, TypeOK
  <2>10. /\ values' \subseteq Interval /\ pending' \subseteq Interval
         /\ (~transaction => pending = {})'
         /\ FromSamples(archive, values)' /\ FromSamples(archive, pending)'
         /\ fresh' \in BOOLEAN
    BY <2>6, <2>7, <2>8, StoreSampled
  <2>11. TypeOK'
    BY <1>9, <2>1, <2>9, <2>10 DEF Extract, TypeOK, environment, history
  <2>12. Kept_OK' /\ Todo_OK'
    BY <1>9, <2>9 DEF Extract, Kept_OK, Todo_OK, environment
  <2> QED
    BY <2>10, <2>11, <2>12
<1>10. CASE Commit
  <2>1. todo \in Seq(File) /\ todo # <<>>
    BY <1>10 DEF Commit, TypeOK
  <2>2. todo' \in Seq(File) /\ \A n \in 1..Len(todo') : n + 1 \in 1..Len(todo) /\ todo'[n] = todo[n + 1]
    BY <1>10, <2>1 DEF Commit
  <2>3. LastTimes \subseteq Nat
    <3>1. Packets \in Seq(Packet)
      BY <2>1, HeadPackets
    <3>2. CASE Packets = <<>>
      BY <3>2, LoggerAssumption DEF LastTimes
    <3>3. CASE Packets # <<>>
      BY <3>1, <3>3, PacketValues DEF LastTimes, Last
    <3> QED
      BY <3>2, <3>3
  <2>4. prevEnd' \in Int
    BY <1>10, <2>3 DEF Commit, EndAt, TypeOK
  <2>5. UNCHANGED archive /\ (CommitOk \/ CommitLost \/ CommitOpen)
    BY <1>10 DEF Commit, environment
  <2>6. /\ values' \subseteq Interval /\ pending' \subseteq Interval
        /\ transaction' \in BOOLEAN /\ (~transaction => pending = {})'
        /\ FromSamples(archive, values)' /\ FromSamples(archive, pending)'
    BY <2>5, CommittedSampled
  <2>7. fresh' \in BOOLEAN
    BY <2>5 DEF CommitOk, CommitLost, CommitOpen, TypeOK
  <2>8. TypeOK'
    BY <1>10, <2>2, <2>4, <2>6, <2>7 DEF Commit, TypeOK, environment
  <2>9. Kept_OK' /\ Todo_OK'
    BY <1>10, <2>2 DEF Commit, Kept_OK, Todo_OK, environment
  <2> QED
    BY <2>6, <2>8, <2>9
<1>11. CASE UNCHANGED vars
  BY <1>11 DEF vars, environment, tables, progress, history, TypeOK, FromSamples, Kept_OK, Todo_OK
<1> QED
  BY <1>1, <1>2, <1>3, <1>4, <1>5, <1>6, <1>7, <1>8, <1>9, <1>10, <1>11 DEF Next

LEMMA Inductive == Spec => []IInv
BY InitIInv, NextIInv, PTL DEF Spec

(* Every variable of signallogger keeps its type, and main never reads from an
   empty list of files, whatever fails and whenever it is killed. *)
THEOREM TypeCorrect == Spec => []TypeOK
<1>1. IInv => TypeOK
  BY DEF IInv
<1> QED
  BY <1>1, Inductive, PTL

(* extract_callback never stores an interval that does not start at a packet
   with its value: for all archives and signals, with any order of the files,
   whatever inserts, opens and reads fail and whenever the program is killed. *)
THEOREM NothingInvented == Spec => []StartsAtSample
<1>1. IInv => StartsAtSample
  <2> SUFFICES ASSUME IInv, NEW r \in values
               PROVE  \E p \in Samples(r.id) : p.time = r.start /\ p.values[r.id] = r.value
    BY DEF StartsAtSample
  <2>1. IsSample(archive, r.id, r.start, r.value)
    BY DEF IInv, FromSamples
  <2> QED
    BY <2>1 DEF IsSample, Samples, SamplesOf
<1> QED
  BY <1>1, Inductive, PTL

-----------------------------------------------------------------------------
(* The packets of file m that have been read after n files and k packets of the
   next one. *)
Seen(a, m, n, k) ==
    {p \in ToSet(a[m].packets) : m <= n \/ (m = n + 1 /\ \E j \in 1..k : p = a[m].packets[j])}

(* Each of the files from m to c goes on where the one before ended. *)
Joined(a, m, c) == \A h \in m..(c - 1) : a[h + 1].start = CapturedUntil(a[h])

(* The sample of s before p has its value, and nothing is missing between. *)
Continues(a, s, p) ==
    \E m, n \in DOMAIN a : \E q \in ToSet(a[m].packets) :
        /\ p \in ToSet(a[n].packets) /\ m <= n /\ Joined(a, m, n)
        /\ s \in DOMAIN q.values /\ q.time < p.time /\ q.values[s] = p.values[s]
        /\ \A o \in SamplesOf(a, s) : o.time <= q.time \/ p.time <= o.time

(* Something is captured at every time from b to e. *)
Gapless(a, b, e) ==
    \A t \in b..(e - 1) : \E f \in ToSet(a) : f.start <= t /\ t < CapturedUntil(f)

(* An interval of the values is as it should be. *)
GoodSpan(a, r) ==
    /\ Gapless(a, r.start, r.end)
    /\ \A p \in SamplesOf(a, r.id) :
          /\ Inside(r, p) => p.values[r.id] = r.value
          /\ Inside(r, p) /\ r.start < p.time => Continues(a, r.id, p)

(* Signal s changes at time t, or was not known. *)
NewAt(a, s, t) == \A p \in SamplesOf(a, s) : p.time = t => ~Continues(a, s, p)

(* What is kept of signal s is true of the samples that have been read, which go
   on to file c. *)
SinceThen(a, l, s, o) ==
    /\ l.time <= o.time => o.values[s] = l.value
    /\ l.time < o.time => Continues(a, s, o)
IsLatest(a, l, s, n, k, q) ==
    /\ s \in DOMAIN q.values /\ l.time <= q.time
    /\ \A i \in DOMAIN a : \A o \in Seen(a, i, n, k) :
          s \in DOMAIN o.values => o.time <= q.time /\ SinceThen(a, l, s, o)
KeptAt(a, l, s, n, k, c) ==
    /\ Gapless(a, l.time, CapturedUntil(a[c]))
    /\ \E m \in 1..c : \E q \in Seen(a, m, n, k) :
          Joined(a, m, c) /\ IsLatest(a, l, s, n, k, q)
KeptAll(a, l, n, k, c) == \A s \in Signals : l[s] # None => KeptAt(a, l[s], s, n, k, c)

(* No sample that has been read goes on to file c where nothing is kept. *)
NoneAt(a, s, n, k, c) ==
    \A m \in 1..c : \A q \in Seen(a, m, n, k) : s \in DOMAIN q.values => ~Joined(a, m, c)
NoneAll(a, l, n, k, c) == \A s \in Signals : l[s] = None => NoneAt(a, s, n, k, c)

(* The files still to be read are those that come after the first n, or the file
   n + 1 alone. *)
Whole(n) ==
    /\ \A i, j \in DOMAIN todo : i < j => Lower(todo[i].start) < Lower(todo[j].start)
    /\ ToSet(todo) = {archive[j] : j \in (n + 1)..written}
    /\ n <= written
GivenAlone(n) ==
    /\ "single" \in odd /\ ~fresh
    /\ \/ todo = <<>>
       \/ /\ n < Len(archive) /\ todo = <<[archive[n + 1] EXCEPT !.start = 0, !.end = 0]>>
          /\ pc # "read" => last = NoLast /\ prevEnd = -1

(* Nothing has been read, or prevEnd is where file n has ended. *)
EndedAt(n) ==
    \/ last = NoLast /\ prevEnd = -1 /\ (fresh \/ "single" \notin odd => n = 0)
    \/ /\ n > 0 /\ prevEnd <= CapturedUntil(archive[n])
       /\ \A i \in 1..n : \A p \in ToSet(archive[i].packets) : p.time <= prevEnd
       /\ todo # <<>> => prevEnd = CapturedUntil(archive[n])

(* What the tables would have if it were committed. *)
Inserted == values \cup pending

(* In a run that has stored all. *)
Covers(r, s, q) == r.id = s /\ r.value = q.values[s] /\ r.start <= q.time /\ q.time <= r.end
AllStored(a, rs, l, n, k) ==
    /\ \A i \in DOMAIN a : \A q \in Seen(a, i, n, k) : \A s \in DOMAIN q.values :
          (\E r \in rs : Covers(r, s, q)) \/ (l[s] # None /\ l[s].time <= q.time)
    /\ \A r \in rs :
          /\ l[r.id] # None => r.start < l[r.id].time
          /\ \E i \in DOMAIN a : \E q \in Seen(a, i, n, k) :
                 r.id \in DOMAIN q.values /\ q.time = r.start
Stored(n, k) == AllStored(archive, Inserted, last, n, k)

(* Of what is kept after n files, and none of the next: when it is finished,
   before the next one is opened, and while that one is read. *)
Between(n) ==
    /\ EndedAt(n) /\ KeptAll(archive, last, n, 0, n)
    /\ pc = "finish" /\ resume = "end" => todo = <<>>
    /\ "single" \notin odd =>
          IF pc = "finish"
          THEN resume = "open" => n = 0 \/ ~Joined(archive, n, n + 1)
          ELSE NoneAll(archive, last, n, 0, n)
    /\ fresh => Stored(n, 0) /\ ~transaction
AtOpen(n) ==
    /\ KeptAll(archive, last, n, 0, n + 1)
    /\ "single" \notin odd => NoneAll(archive, last, n, 0, n + 1)
    /\ fresh => Stored(n, 0) /\ ~transaction
Within(n) ==
    /\ prevEnd = Head(todo).end /\ read <= Len(Packets)
    /\ KeptAll(archive, last, n, read, n + 1)
    /\ "single" \notin odd => NoneAll(archive, last, n, read, n + 1)
    /\ fresh => Stored(n, read)

Position(n) ==
    /\ Whole(n) \/ GivenAlone(n)
    /\ pc \in {"register", "file", "finish"} => Between(n)
    /\ pc = "open" => AtOpen(n)
    /\ pc = "read" => Within(n)

(* The intervals, committed or not, are as they should be; none starts within
   another, and neither does what is kept. *)
SpansInv ==
    /\ \A r \in Inserted : GoodSpan(archive, r)
    /\ "single" \notin odd =>
          /\ \A r \in Inserted : NewAt(archive, r.id, r.start)
          /\ \A s \in Signals : last[s] # None => NewAt(archive, s, last[s].time)
(* The key is one, and nothing is kept from one run of the program to the next. *)
KeysInv ==
    /\ pc = "none" => ~transaction /\ last = NoLast
    /\ \A r, q \in Inserted : SameKey(r, q) => r = q
(* A run is somewhere in the files. *)
PositionInv == pc # "none" => \E n \in 0..Len(archive) : Position(n)

-----------------------------------------------------------------------------
(* The files and packets of an archive, and their order. *)
LEMMA ArchiveOrder ==
    ASSUME NEW a \in Archives
    PROVE  /\ a \in Seq(File) /\ DOMAIN a = 1..Len(a) /\ Len(a) \in Nat
           /\ \A n \in DOMAIN a : /\ a[n] \in ToSet(a) /\ a[n].packets \in Seq(Packet)
                                  /\ a[n].start \in Nat /\ a[n].end \in Nat
                                  /\ a[n].start < a[n].end
           /\ \A m, n \in DOMAIN a : m < n => a[m].end <= a[n].start
<1>1. a \in Seq(File) /\ Successive(a)
  BY LoggerAssumption, ArchivesAssumption
<1>2. DOMAIN a = 1..Len(a) /\ Len(a) \in Nat /\ \A n \in DOMAIN a : a[n] \in File /\ a[n] \in ToSet(a)
  BY <1>1 DEF ToSet
<1>3. \A n \in DOMAIN a : /\ a[n].packets \in Seq(Packet)
                          /\ a[n].start \in Nat /\ a[n].end \in Nat
  BY <1>2 DEF File
<1>4. \A n \in DOMAIN a : a[n].start < a[n].end
  BY <1>1, <1>2 DEF Successive
<1>5. \A m, n \in DOMAIN a : m < n => a[m].end <= a[n].start
  BY <1>1 DEF Successive
<1> QED
  BY <1>1, <1>2, <1>3, <1>4, <1>5

(* The packets of a file are those in its places. *)
LEMMA FilePackets ==
    ASSUME NEW a \in Archives, NEW n \in DOMAIN a
    PROVE  /\ Len(a[n].packets) \in Nat
           /\ \A p \in ToSet(a[n].packets) :
                 p \in Packet /\ p.time \in Nat /\ \E i \in 1..Len(a[n].packets) : p = a[n].packets[i]
           /\ \A i \in 1..Len(a[n].packets) : a[n].packets[i] \in ToSet(a[n].packets)
<1> DEFINE P == a[n].packets
<1>1. P \in Seq(Packet)
  BY ArchiveOrder
<1> HIDE DEF P
<1>2. Len(P) \in Nat /\ DOMAIN P = 1..Len(P) /\ \A i \in 1..Len(P) : P[i] \in Packet
  BY <1>1
<1>3. /\ \A p \in ToSet(P) : \E i \in 1..Len(P) : p = P[i]
      /\ \A i \in 1..Len(P) : P[i] \in ToSet(P)
  BY <1>2 DEF ToSet
<1>4. \A p \in ToSet(P) : p \in Packet
  BY <1>2, <1>3
<1>5. \A p \in ToSet(P) : p.time \in Nat
  BY <1>4, PacketValues
<1> QED
  BY <1>2, <1>3, <1>4, <1>5 DEF P

(* The packets of a file, and of two files, are in their order. *)
LEMMA PacketOrder ==
    ASSUME NEW a \in Archives
    PROVE  /\ \A n \in DOMAIN a : \A i, j \in 1..Len(a[n].packets) :
                 i < j => Precedes(a[n].packets[i], a[n].packets[j])
           /\ \A m, n \in DOMAIN a : m < n =>
                 \A p \in ToSet(a[m].packets), q \in ToSet(a[n].packets) : Precedes(p, q)
<1>1. Successive(a) /\ \A n \in DOMAIN a : a[n] \in ToSet(a) /\ a[n].packets \in Seq(Packet)
  BY ArchivesAssumption, ArchiveOrder
<1>2. \A n \in DOMAIN a : DOMAIN a[n].packets = 1..Len(a[n].packets)
  BY <1>1
<1>3. \A n \in DOMAIN a : \A i, j \in 1..Len(a[n].packets) :
         i < j => Precedes(a[n].packets[i], a[n].packets[j])
  BY <1>1, <1>2 DEF Successive
<1>4. \A m, n \in DOMAIN a : m < n =>
         \A p \in ToSet(a[m].packets), q \in ToSet(a[n].packets) : Precedes(p, q)
  BY <1>1 DEF Successive
<1> QED
  BY <1>3, <1>4

(* The samples of a signal are packets of files. *)
LEMMA SampleFiles ==
    ASSUME NEW a \in Archives, NEW s
    PROVE  \A p : p \in SamplesOf(a, s) <=>
               s \in DOMAIN p.values /\ \E n \in DOMAIN a : p \in ToSet(a[n].packets)
<1>1. a \in Seq(File) /\ DOMAIN a = 1..Len(a) /\ \A n \in DOMAIN a : a[n] \in ToSet(a)
  BY ArchiveOrder
<1>2. \A f \in ToSet(a) : \E n \in DOMAIN a : f = a[n]
  BY <1>1 DEF ToSet
<1> QED
  BY <1>1, <1>2 DEF SamplesOf

(* A file is captured until its end or its last packet. *)
LEMMA CaptureEnd ==
    ASSUME NEW a \in Archives, NEW n \in DOMAIN a
    PROVE  /\ CapturedUntil(a[n]) \in Nat /\ a[n].end <= CapturedUntil(a[n])
           /\ \A p \in ToSet(a[n].packets) : p.time <= CapturedUntil(a[n])
           /\ \/ CapturedUntil(a[n]) = a[n].end
              \/ \E p \in ToSet(a[n].packets) : CapturedUntil(a[n]) = p.time
<1> DEFINE P == a[n].packets
           S == {a[n].end} \cup {p.time : p \in ToSet(P)}
<1>1. a[n].end \in Nat
  BY ArchiveOrder
<1>2. /\ Len(P) \in Nat /\ \A p \in ToSet(P) : p.time \in Nat /\ \E i \in 1..Len(P) : p = P[i]
      /\ \A i \in 1..Len(P) : P[i] \in ToSet(P)
      /\ \A i, j \in 1..Len(P) : i < j => P[i].time <= P[j].time
  BY FilePackets, PacketOrder DEF Precedes
<1>3. \E x \in S : \A y \in S : x >= y
  <2> HIDE DEF P
  <2>1. CASE Len(P) = 0
    <3>1. \A p \in ToSet(P) : FALSE
      BY <1>2, <2>1
    <3>2. \A y \in S : a[n].end >= y
      BY <1>1, <3>1
    <3> QED
      BY <3>2
  <2>2. CASE Len(P) > 0
    <3>1. Len(P) \in 1..Len(P) /\ P[Len(P)] \in ToSet(P)
      BY <1>2, <2>2
    <3>2. \A p \in ToSet(P) : p.time <= P[Len(P)].time
      <4> SUFFICES ASSUME NEW p \in ToSet(P) PROVE p.time <= P[Len(P)].time
        OBVIOUS
      <4>1. PICK i \in 1..Len(P) : p = P[i]
        BY <1>2
      <4>2. i < Len(P) \/ i = Len(P)
        BY <1>2
      <4> QED
        BY <1>2, <3>1, <4>1, <4>2
    <3>3. CASE P[Len(P)].time <= a[n].end
      <4>1. \A y \in S : a[n].end >= y
        BY <1>1, <1>2, <3>1, <3>2, <3>3
      <4> QED
        BY <4>1
    <3>4. CASE a[n].end <= P[Len(P)].time
      <4>1. P[Len(P)].time \in S /\ \A y \in S : P[Len(P)].time >= y
        BY <1>1, <1>2, <3>1, <3>2, <3>4
      <4> QED
        BY <4>1
    <3> QED
      BY <1>1, <1>2, <3>1, <3>3, <3>4
  <2> QED
    BY <1>2, <2>1, <2>2
<1>4. CapturedUntil(a[n]) = Max(S)
  BY DEF CapturedUntil
<1> HIDE DEF S
<1>5. CapturedUntil(a[n]) \in S /\ \A y \in S : CapturedUntil(a[n]) >= y
  BY <1>3, <1>4 DEF Max
<1> QED
  BY <1>1, <1>2, <1>5 DEF S

-----------------------------------------------------------------------------
(* p is the packet after n files and k packets of the next one. *)
Coming(a, n, k, p) ==
    /\ n \in Nat /\ n + 1 \in DOMAIN a
    /\ k \in Nat /\ k < Len(a[n + 1].packets)
    /\ p = a[n + 1].packets[k + 1]

(* What has been read precedes the next packet, which precedes the rest. *)
LEMMA NextPacket ==
    ASSUME NEW a \in Archives, NEW n, NEW k, NEW p, Coming(a, n, k, p)
    PROVE  /\ p \in ToSet(a[n + 1].packets) /\ p.time \in Nat
           /\ \A m \in DOMAIN a : \A q \in Seen(a, m, n, k) : Precedes(q, p)
           /\ \A m \in DOMAIN a : \A q \in ToSet(a[m].packets) :
                 q \in Seen(a, m, n, k) \/ q = p \/ Precedes(p, q)
           /\ \A m \in DOMAIN a : \A q \in Seen(a, m, n, k + 1) :
                 q \in Seen(a, m, n, k) \/ (m = n + 1 /\ q = p)
           /\ p \in Seen(a, n + 1, n, k + 1)
           /\ \A m \in DOMAIN a : Seen(a, m, n, k) \subseteq Seen(a, m, n, k + 1)
<1> DEFINE P == a[n + 1].packets
<1> USE DEF Coming
<1>0. /\ DOMAIN a \subseteq Nat /\ Len(P) \in Nat
      /\ \A q \in ToSet(P) : q.time \in Nat /\ \E i \in 1..Len(P) : q = P[i]
      /\ \A i \in 1..Len(P) : P[i] \in ToSet(P)
      /\ \A i, j \in 1..Len(P) : i < j => Precedes(P[i], P[j])
  <2> DEFINE f == n + 1
  <2>1. f \in DOMAIN a
    OBVIOUS
  <2> HIDE DEF f
  <2>2. /\ Len(a[f].packets) \in Nat
        /\ \A q \in ToSet(a[f].packets) : q.time \in Nat /\ \E i \in 1..Len(a[f].packets) : q = a[f].packets[i]
        /\ \A i \in 1..Len(a[f].packets) : a[f].packets[i] \in ToSet(a[f].packets)
    BY <2>1, FilePackets
  <2>3. \A i, j \in 1..Len(a[f].packets) : i < j => Precedes(a[f].packets[i], a[f].packets[j])
    BY <2>1, PacketOrder
  <2> QED
    BY <2>2, <2>3, ArchiveOrder DEF f
<1>1. k + 1 \in 1..Len(P)
  BY <1>0
<1>2. p \in ToSet(P) /\ p.time \in Nat
  BY <1>0, <1>1
<1>3. \A m \in DOMAIN a : m < n + 1 => \A q \in ToSet(a[m].packets) : Precedes(q, p)
  BY <1>2, PacketOrder
<1>4. \A m \in DOMAIN a : n + 1 < m => \A q \in ToSet(a[m].packets) : Precedes(p, q)
  BY <1>2, PacketOrder
<1>5. \A m \in DOMAIN a : \A q \in Seen(a, m, n, k) : Precedes(q, p)
  <2> SUFFICES ASSUME NEW m \in DOMAIN a, NEW q \in Seen(a, m, n, k) PROVE Precedes(q, p)
    OBVIOUS
  <2>1. CASE m <= n
    BY <1>0, <1>3, <2>1 DEF Seen
  <2>2. CASE m > n
    <3>1. PICK j \in 1..k : q = P[j]
      BY <1>0, <2>2 DEF Seen
    <3>2. j \in 1..Len(P) /\ j < k + 1
      BY <1>0, <3>1
    <3> QED
      BY <1>0, <1>1, <3>1, <3>2
  <2> QED
    BY <1>0, <2>1, <2>2
<1>6. \A m \in DOMAIN a : \A q \in ToSet(a[m].packets) :
          q \in Seen(a, m, n, k) \/ q = p \/ Precedes(p, q)
  <2> SUFFICES ASSUME NEW m \in DOMAIN a, NEW q \in ToSet(a[m].packets)
               PROVE  q \in Seen(a, m, n, k) \/ q = p \/ Precedes(p, q)
    OBVIOUS
  <2>1. CASE m <= n
    BY <2>1 DEF Seen
  <2>2. CASE m > n + 1
    BY <1>0, <1>4, <2>2
  <2>3. CASE m = n + 1
    <3>1. PICK i \in 1..Len(P) : q = P[i]
      BY <1>0, <2>3
    <3>2. CASE i <= k
      <4>1. i \in 1..k
        BY <1>0, <3>2
      <4> QED
        BY <2>3, <3>1, <4>1 DEF Seen
    <3>3. CASE i = k + 1
      BY <3>1, <3>3
    <3>4. CASE i > k + 1
      BY <1>0, <1>1, <3>1, <3>4
    <3> QED
      BY <1>0, <3>2, <3>3, <3>4
  <2> QED
    BY <1>0, <2>1, <2>2, <2>3
<1>7. \A m \in DOMAIN a : \A q \in Seen(a, m, n, k + 1) :
          q \in Seen(a, m, n, k) \/ (m = n + 1 /\ q = p)
  <2> SUFFICES ASSUME NEW m \in DOMAIN a, NEW q \in Seen(a, m, n, k + 1), q \notin Seen(a, m, n, k)
               PROVE  m = n + 1 /\ q = p
    OBVIOUS
  <2>1. m = n + 1 /\ \E j \in 1..(k + 1) : q = P[j] /\ j \notin 1..k
    BY DEF Seen
  <2> QED
    BY <2>1
<1>8. p \in Seen(a, n + 1, n, k + 1)
  <2>1. k + 1 \in 1..(k + 1) /\ p \in ToSet(a[n + 1].packets)
    BY <1>2
  <2> QED
    BY <2>1 DEF Seen
<1>9. \A m \in DOMAIN a : Seen(a, m, n, k) \subseteq Seen(a, m, n, k + 1)
  <2>1. 1..k \subseteq 1..(k + 1)
    OBVIOUS
  <2> QED
    BY <2>1 DEF Seen
<1> QED
  BY <1>2, <1>5, <1>6, <1>7, <1>8, <1>9

(* A file of which all packets have been read is one more file. *)
LEMMA WholeFileSeen ==
    ASSUME NEW a \in Archives, NEW n \in Nat, n + 1 \in DOMAIN a
    PROVE  \A m \in DOMAIN a : Seen(a, m, n, Len(a[n + 1].packets)) = Seen(a, m, n + 1, 0)
<1>1. DOMAIN a \subseteq Nat
  BY ArchiveOrder
<1>2. \A q \in ToSet(a[n + 1].packets) : \E j \in 1..Len(a[n + 1].packets) : q = a[n + 1].packets[j]
  BY FilePackets
<1> QED
  BY <1>1, <1>2 DEF Seen

(* Between two files. *)
LEMMA SeenBetween ==
    ASSUME NEW a \in Archives, NEW n \in Nat
    PROVE  /\ \A m \in DOMAIN a : m <= n => Seen(a, m, n, 0) = ToSet(a[m].packets)
           /\ \A m \in DOMAIN a : m > n => Seen(a, m, n, 0) = {}
BY ArchiveOrder DEF Seen

(* What has been read are packets of the archive. *)
LEMMA SeenPacket ==
    ASSUME NEW a \in Archives, NEW m \in DOMAIN a, NEW n, NEW k, NEW q \in Seen(a, m, n, k)
    PROVE  q \in ToSet(a[m].packets) /\ q \in Packet /\ q.time \in Nat
BY FilePackets DEF Seen

(* A sample of the signal that is older than the next packet, with a sample of
   it too, has been read. *)
LEMMA OlderSeen ==
    ASSUME NEW a \in Archives, NEW n, NEW k, NEW p, Coming(a, n, k, p),
           NEW o, NEW m \in DOMAIN a, o \in ToSet(a[m].packets), o.time < p.time
    PROVE  o \in Seen(a, m, n, k)
<1>1. o \in Seen(a, m, n, k) \/ o = p \/ Precedes(p, o)
  BY NextPacket
<1>2. o.time \in Nat /\ p.time \in Nat
  BY FilePackets, NextPacket
<1> QED
  BY <1>1, <1>2 DEF Precedes

(* A sample that has been read is older than the next one of the signal. *)
LEMMA SeenOlder ==
    ASSUME NEW a \in Archives, NEW n, NEW k, NEW p, Coming(a, n, k, p),
           NEW m \in DOMAIN a, NEW q \in Seen(a, m, n, k),
           NEW s, s \in DOMAIN p.values, s \in DOMAIN q.values
    PROVE  q.time < p.time
<1>1. Precedes(q, p)
  BY NextPacket
<1> QED
  BY <1>1 DEF Precedes

-----------------------------------------------------------------------------
(* A packet is captured, by its file or, if it was held back, the one before. *)
LEMMA PacketCaptured ==
    ASSUME NEW a \in Archives, NEW n \in DOMAIN a, NEW p \in ToSet(a[n].packets)
    PROVE  Gapless(a, p.time, CapturedUntil(a[n]))
<1>1. p.time \in Nat /\ a[n].start \in Nat /\ CapturedUntil(a[n]) \in Nat /\ a[n] \in ToSet(a)
  BY FilePackets, ArchiveOrder, CaptureEnd
<1>2. CASE a[n].start <= p.time
  BY <1>1, <1>2 DEF Gapless
<1>3. CASE p.time < a[n].start
  <2>1. PICK i \in 1..Len(a[n].packets) : p = a[n].packets[i]
    BY FilePackets
  <2>2. i \in DOMAIN a[n].packets
    BY <2>1, ArchiveOrder
  <2>3. HeldBackOnly(a)
    BY ArchivesAssumption
  <2>4. PICK m \in DOMAIN a : a[m].end = a[n].start /\ a[m].start <= p.time
    BY <1>3, <2>1, <2>2, <2>3 DEF HeldBackOnly
  <2>5. a[m] \in ToSet(a) /\ a[m].start \in Nat /\ a[m].end <= CapturedUntil(a[m]) /\ CapturedUntil(a[m]) \in Nat
    BY ArchiveOrder, CaptureEnd
  <2> SUFFICES ASSUME NEW t \in p.time..(CapturedUntil(a[n]) - 1)
               PROVE  \E f \in ToSet(a) : f.start <= t /\ t < CapturedUntil(f)
    BY DEF Gapless
  <2>6. t \in Int /\ p.time <= t /\ t < CapturedUntil(a[n])
    BY <1>1
  <2>7. CASE t < a[n].start
    <3>1. a[m].start <= t /\ t < CapturedUntil(a[m])
      BY <1>1, <2>4, <2>5, <2>6, <2>7
    <3> QED
      BY <2>5, <3>1
  <2>8. CASE a[n].start <= t
    BY <1>1, <2>6, <2>8
  <2> QED
    BY <1>1, <2>6, <2>7, <2>8
<1> QED
  BY <1>1, <1>2, <1>3

(* What is captured until d is captured until any e before. *)
LEMMA GaplessUntil ==
    ASSUME NEW a, NEW b \in Int, NEW d \in Int, NEW e \in Int, e <= d, Gapless(a, b, d)
    PROVE  Gapless(a, b, e)
<1>1. b..(e - 1) \subseteq b..(d - 1)
  OBVIOUS
<1> QED
  BY <1>1 DEF Gapless

(* The capture goes on in a file that begins where the one before ended. *)
LEMMA GaplessOn ==
    ASSUME NEW a \in Archives, NEW n \in DOMAIN a, n + 1 \in DOMAIN a,
           NEW b \in Nat, Gapless(a, b, CapturedUntil(a[n])),
           a[n + 1].start = CapturedUntil(a[n])
    PROVE  Gapless(a, b, CapturedUntil(a[n + 1]))
<1>1. /\ CapturedUntil(a[n]) \in Nat /\ CapturedUntil(a[n + 1]) \in Nat
      /\ a[n + 1].start \in Nat /\ a[n + 1] \in ToSet(a)
  BY ArchiveOrder, CaptureEnd
<1> SUFFICES ASSUME NEW t \in b..(CapturedUntil(a[n + 1]) - 1)
             PROVE  \E f \in ToSet(a) : f.start <= t /\ t < CapturedUntil(f)
  BY DEF Gapless
<1>2. t \in Int /\ b <= t /\ t < CapturedUntil(a[n + 1])
  BY <1>1
<1>3. CASE t < CapturedUntil(a[n])
  <2>1. t \in b..(CapturedUntil(a[n]) - 1)
    BY <1>1, <1>2, <1>3
  <2> QED
    BY <2>1 DEF Gapless
<1>4. CASE a[n + 1].start <= t
  BY <1>1, <1>2, <1>4
<1> QED
  BY <1>1, <1>2, <1>3, <1>4

(* One more file that goes on where the one before ended. *)
LEMMA JoinedOn ==
    ASSUME NEW a, NEW m \in Nat, NEW n \in Nat, m <= n
    PROVE  Joined(a, m, n + 1) <=> Joined(a, m, n) /\ a[n + 1].start = CapturedUntil(a[n])
<1>1. m..((n + 1) - 1) = (m..(n - 1)) \cup {n}
  BY SMT
<1> QED
  BY <1>1 DEF Joined

-----------------------------------------------------------------------------
(* signal_extractor_extract for a signal of which the packet has no sample. *)
LEMMA KeptOther ==
    ASSUME NEW a \in Archives, NEW n, NEW k, NEW p, Coming(a, n, k, p),
           NEW l, NEW s, s \notin DOMAIN p.values, KeptAt(a, l, s, n, k, n + 1)
    PROVE  KeptAt(a, l, s, n, k + 1, n + 1)
<1>1. n + 1 \in DOMAIN a /\ n \in Nat /\ DOMAIN a = 1..Len(a) /\ Len(a) \in Nat
  BY ArchiveOrder DEF Coming
<1>2. PICK m, q :
          m \in 1..(n + 1) /\ q \in Seen(a, m, n, k) /\ Joined(a, m, n + 1) /\ IsLatest(a, l, s, n, k, q)
  BY DEF KeptAt
<1>3. m \in DOMAIN a
  BY <1>1, <1>2
<1>4. q \in Seen(a, m, n, k + 1)
  BY <1>2, <1>3, NextPacket
<1>5. \A i \in DOMAIN a : \A o \in Seen(a, i, n, k + 1) : s \in DOMAIN o.values => o \in Seen(a, i, n, k)
  BY NextPacket
<1>6. IsLatest(a, l, s, n, k + 1, q)
  BY <1>2, <1>5 DEF IsLatest
<1> QED
  BY <1>2, <1>4, <1>6 DEF KeptAt

(* The sample before p of a signal with a value kept. *)
LEMMA KeptLatest ==
    ASSUME NEW a \in Archives, NEW n, NEW k, NEW p, Coming(a, n, k, p),
           NEW l, NEW s, s \in DOMAIN p.values, KeptAt(a, l, s, n, k, n + 1)
    PROVE  \E m, q :
              /\ m \in DOMAIN a /\ q \in Seen(a, m, n, k)
              /\ m <= n + 1 /\ Joined(a, m, n + 1) /\ IsLatest(a, l, s, n, k, q)
              /\ q.time < p.time /\ q.values[s] = l.value
              /\ \A o \in SamplesOf(a, s) : o.time <= q.time \/ p.time <= o.time
<1>1. n + 1 \in DOMAIN a /\ n \in Nat /\ DOMAIN a = 1..Len(a) /\ Len(a) \in Nat
  BY ArchiveOrder DEF Coming
<1>2. PICK m, q :
          m \in 1..(n + 1) /\ q \in Seen(a, m, n, k) /\ Joined(a, m, n + 1) /\ IsLatest(a, l, s, n, k, q)
  BY DEF KeptAt
<1>3. m \in DOMAIN a /\ m <= n + 1
  BY <1>1, <1>2
<1>4. q.time < p.time
  BY <1>2, <1>3, SeenOlder DEF IsLatest
<1>5. q.values[s] = l.value
  BY <1>2, <1>3 DEF IsLatest, SinceThen
<1>6. \A o \in SamplesOf(a, s) : o.time <= q.time \/ p.time <= o.time
  <2> SUFFICES ASSUME NEW o \in SamplesOf(a, s), ~(p.time <= o.time)
               PROVE  o.time <= q.time
    OBVIOUS
  <2>1. s \in DOMAIN o.values /\ \E i \in DOMAIN a : o \in ToSet(a[i].packets)
    BY SampleFiles
  <2>2. PICK i \in DOMAIN a : o \in ToSet(a[i].packets)
    BY <2>1
  <2>3. o.time \in Nat /\ p.time \in Nat
    BY <2>2, FilePackets, NextPacket
  <2>4. o \in Seen(a, i, n, k)
    BY <2>2, <2>3, OlderSeen
  <2> QED
    BY <1>2, <2>1, <2>4 DEF IsLatest
<1> QED
  BY <1>2, <1>3, <1>4, <1>5, <1>6

(* What is kept when the next packet, p, has become the latest sample. *)
LEMMA KeptLatestNow ==
    ASSUME NEW a \in Archives, NEW n, NEW k, NEW p, Coming(a, n, k, p),
           NEW l, NEW s, s \in DOMAIN p.values, l.time \in Nat, l.time <= p.time,
           SinceThen(a, l, s, p),
           \A i \in DOMAIN a : \A o \in Seen(a, i, n, k) :
               s \in DOMAIN o.values => SinceThen(a, l, s, o),
           Gapless(a, l.time, CapturedUntil(a[n + 1]))
    PROVE  KeptAt(a, l, s, n, k + 1, n + 1)
<1>1. n + 1 \in DOMAIN a /\ n + 1 \in 1..(n + 1) /\ Joined(a, n + 1, n + 1)
  BY DEF Coming, Joined
<1>2. p.time \in Nat /\ p \in Seen(a, n + 1, n, k + 1)
  BY NextPacket
<1>3. ASSUME NEW i \in DOMAIN a, NEW o \in Seen(a, i, n, k + 1), s \in DOMAIN o.values
      PROVE  o.time <= p.time /\ SinceThen(a, l, s, o)
  <2>1. CASE o \in Seen(a, i, n, k)
    <3>1. o.time \in Nat /\ o.time < p.time
      BY <1>3, <2>1, SeenPacket, SeenOlder
    <3> QED
      BY <1>2, <1>3, <2>1, <3>1
  <2>2. CASE o = p
    BY <1>2, <2>2
  <2> QED
    BY <2>1, <2>2, NextPacket
<1>4. IsLatest(a, l, s, n, k + 1, p)
  BY <1>3 DEF IsLatest
<1> QED
  BY <1>1, <1>2, <1>4 DEF KeptAt

(* A sample with the value that is kept: nothing is done, and that is right. *)
LEMMA KeptEqual ==
    ASSUME NEW a \in Archives, NEW n, NEW k, NEW p, Coming(a, n, k, p),
           NEW l, l.time \in Nat, NEW s, s \in DOMAIN p.values, p.values[s] = l.value,
           KeptAt(a, l, s, n, k, n + 1)
    PROVE  KeptAt(a, l, s, n, k + 1, n + 1)
<1>1. n + 1 \in DOMAIN a
  BY DEF Coming
<1>2. PICK m, q :
          /\ m \in DOMAIN a /\ q \in Seen(a, m, n, k)
          /\ m <= n + 1 /\ Joined(a, m, n + 1) /\ IsLatest(a, l, s, n, k, q)
          /\ q.time < p.time /\ q.values[s] = l.value
          /\ \A o \in SamplesOf(a, s) : o.time <= q.time \/ p.time <= o.time
  BY KeptLatest
<1>3. q \in ToSet(a[m].packets) /\ q.time \in Nat
  BY <1>2, SeenPacket
<1>4. p \in ToSet(a[n + 1].packets) /\ p.time \in Nat
  BY NextPacket
<1>5. l.time <= q.time /\ s \in DOMAIN q.values
  BY <1>2 DEF IsLatest
<1>6. Continues(a, s, p)
  BY <1>1, <1>2, <1>3, <1>4, <1>5 DEF Continues
<1>7. SinceThen(a, l, s, p) /\ l.time <= p.time
  BY <1>2, <1>3, <1>4, <1>5, <1>6 DEF SinceThen
<1>8. \A i \in DOMAIN a : \A o \in Seen(a, i, n, k) :
          s \in DOMAIN o.values => SinceThen(a, l, s, o)
  BY <1>2 DEF IsLatest
<1>9. Gapless(a, l.time, CapturedUntil(a[n + 1]))
  BY DEF KeptAt
<1> QED
  BY <1>7, <1>8, <1>9, KeptLatestNow

(* A sample whose value is kept from now on. *)
LEMMA KeptNew ==
    ASSUME NEW a \in Archives, NEW n, NEW k, NEW p, Coming(a, n, k, p),
           NEW l, NEW s, s \in DOMAIN p.values, l.time = p.time, l.value = p.values[s]
    PROVE  KeptAt(a, l, s, n, k + 1, n + 1)
<1>1. p \in ToSet(a[n + 1].packets) /\ p.time \in Nat
  BY NextPacket
<1>2. Gapless(a, l.time, CapturedUntil(a[n + 1]))
  BY <1>1, PacketCaptured DEF Coming
<1>3. ASSUME NEW i \in DOMAIN a, NEW o \in Seen(a, i, n, k), s \in DOMAIN o.values
      PROVE  SinceThen(a, l, s, o)
  <2>1. o.time \in Nat /\ o.time < p.time
    BY <1>3, SeenPacket, SeenOlder
  <2> QED
    BY <1>1, <2>1 DEF SinceThen
<1>4. SinceThen(a, l, s, p)
  BY <1>1 DEF SinceThen
<1> QED
  BY <1>1, <1>2, <1>3, <1>4, KeptLatestNow

(* A signal whose value changes: its new value does not go on. *)
LEMMA NewWhenChanged ==
    ASSUME NEW a \in Archives, NEW n, NEW k, NEW p, Coming(a, n, k, p),
           NEW l, l.time \in Nat, NEW s, s \in DOMAIN p.values, p.values[s] # l.value,
           KeptAt(a, l, s, n, k, n + 1)
    PROVE  ~Continues(a, s, p)
<1> SUFFICES ASSUME Continues(a, s, p) PROVE FALSE
  OBVIOUS
<1>1. PICK m, q :
          /\ m \in DOMAIN a /\ q \in Seen(a, m, n, k)
          /\ m <= n + 1 /\ Joined(a, m, n + 1) /\ IsLatest(a, l, s, n, k, q)
          /\ q.time < p.time /\ q.values[s] = l.value
          /\ \A o \in SamplesOf(a, s) : o.time <= q.time \/ p.time <= o.time
  BY KeptLatest
<1>2. PICK i, o :
          /\ i \in DOMAIN a /\ o \in ToSet(a[i].packets)
          /\ s \in DOMAIN o.values /\ o.time < p.time /\ o.values[s] = p.values[s]
          /\ \A u \in SamplesOf(a, s) : u.time <= o.time \/ p.time <= u.time
  BY DEF Continues
<1>3. o \in Seen(a, i, n, k)
  BY <1>2, OlderSeen
<1>5. SinceThen(a, l, s, o) /\ l.time <= q.time /\ s \in DOMAIN q.values
  BY <1>1, <1>2, <1>3 DEF IsLatest
<1>6. q \in ToSet(a[m].packets) /\ q \in SamplesOf(a, s)
  BY <1>1, <1>5, SeenPacket, SampleFiles
<1>7. q.time <= o.time /\ q.time \in Nat /\ o.time \in Nat
  <2>1. q.time \in Nat /\ o.time \in Nat /\ p.time \in Nat
    BY <1>1, <1>2, <1>3, SeenPacket, NextPacket
  <2>2. q.time <= o.time \/ p.time <= q.time
    BY <1>2, <1>6
  <2> QED
    BY <1>1, <2>1, <2>2
<1> QED
  BY <1>2, <1>5, <1>7 DEF SinceThen

-----------------------------------------------------------------------------
(* A signal that is not known: nor does its first value. *)
LEMMA NewWhenUnknown ==
    ASSUME NEW a \in Archives, NEW n, NEW k, NEW p, Coming(a, n, k, p),
           NEW s, s \in DOMAIN p.values, NoneAt(a, s, n, k, n + 1)
    PROVE  ~Continues(a, s, p)
<1> SUFFICES ASSUME Continues(a, s, p) PROVE FALSE
  OBVIOUS
<1>1. PICK m, i, q :
          /\ m \in DOMAIN a /\ i \in DOMAIN a /\ q \in ToSet(a[m].packets)
          /\ p \in ToSet(a[i].packets) /\ m <= i /\ Joined(a, m, i)
          /\ s \in DOMAIN q.values /\ q.time < p.time
  BY DEF Continues
<1>2. p \in ToSet(a[n + 1].packets) /\ n + 1 \in DOMAIN a /\ DOMAIN a \subseteq Nat /\ p.time \in Nat
  BY NextPacket, ArchiveOrder DEF Coming
<1>4. ~Precedes(p, p)
  BY <1>2 DEF Precedes
<1>5. i = n + 1
  <2>1. ~(i < n + 1) /\ ~(n + 1 < i)
    BY <1>1, <1>2, <1>4, PacketOrder
  <2> QED
    BY <1>1, <1>2, <2>1
<1>6. q \in Seen(a, m, n, k)
  BY <1>1, OlderSeen
<1>7. m \in 1..(n + 1)
  BY <1>1, <1>5, ArchiveOrder
<1> QED
  BY <1>1, <1>5, <1>6, <1>7 DEF NoneAt

(* A packet without a sample of the signal leaves it so. *)
LEMMA NoneOther ==
    ASSUME NEW a \in Archives, NEW n, NEW k, NEW p, Coming(a, n, k, p),
           NEW s, s \notin DOMAIN p.values, NoneAt(a, s, n, k, n + 1)
    PROVE  NoneAt(a, s, n, k + 1, n + 1)
<1>1. 1..(n + 1) \subseteq DOMAIN a
  BY ArchiveOrder DEF Coming
<1>2. \A m \in 1..(n + 1) : \A q \in Seen(a, m, n, k + 1) : s \in DOMAIN q.values => q \in Seen(a, m, n, k)
  BY <1>1, NextPacket
<1> QED
  BY <1>2 DEF NoneAt

-----------------------------------------------------------------------------
(* The interval that the next packet ends. *)
LEMMA SpanChanged ==
    ASSUME NEW a \in Archives, NEW n, NEW k, NEW p, Coming(a, n, k, p),
           NEW l, l.time \in Nat, NEW s, s \in DOMAIN p.values,
           KeptAt(a, l, s, n, k, n + 1),
           NEW r, r = [id |-> s, start |-> l.time, end |-> p.time, value |-> l.value]
    PROVE  GoodSpan(a, r)
<1>1. r.id = s /\ r.start = l.time /\ r.end = p.time /\ r.value = l.value
  OBVIOUS
<1>2. p.time \in Nat /\ p.time <= CapturedUntil(a[n + 1]) /\ CapturedUntil(a[n + 1]) \in Nat
  <2>1. p \in ToSet(a[n + 1].packets) /\ p.time \in Nat
    BY NextPacket
  <2>2. n + 1 \in DOMAIN a
    BY DEF Coming
  <2> QED
    BY <2>1, <2>2, CaptureEnd
<1>3. Gapless(a, r.start, r.end)
  BY <1>1, <1>2, GaplessUntil DEF KeptAt
<1>4. PICK m, q : IsLatest(a, l, s, n, k, q)
  BY DEF KeptAt
<1>5. ASSUME NEW o \in SamplesOf(a, s), Inside(r, o)
      PROVE  o.values[s] = l.value /\ (l.time < o.time => Continues(a, s, o))
  <2>1. PICK i \in DOMAIN a : o \in ToSet(a[i].packets)
    BY SampleFiles
  <2>2. s \in DOMAIN o.values
    BY SampleFiles
  <2>3. l.time <= o.time /\ o.time < p.time
    BY <1>1, <1>5 DEF Inside
  <2>4. o \in Seen(a, i, n, k)
    BY <2>1, <2>3, OlderSeen
  <2> QED
    BY <1>4, <2>2, <2>3, <2>4 DEF IsLatest, SinceThen
<1> QED
  BY <1>1, <1>3, <1>5 DEF GoodSpan

(* A sample after file n that is older than its capture's end was held back: it
   is the first of the file that goes on, and has the value of the latest one. *)
LEMMA HeldBackSample ==
    ASSUME NEW a \in Archives, NEW n \in DOMAIN a, NEW i \in DOMAIN a, n < i,
           NEW p \in ToSet(a[i].packets), p.time < CapturedUntil(a[n])
    PROVE  /\ i = n + 1 /\ a[i].start = CapturedUntil(a[n]) /\ Repeats(a, p)
           /\ \A h \in DOMAIN a : n < h => \A o \in ToSet(a[h].packets) : p.time <= o.time
<1>1. /\ DOMAIN a = 1..Len(a) /\ Len(a) \in Nat
      /\ \A m \in DOMAIN a : /\ a[m].start \in Nat /\ a[m].end \in Nat /\ a[m].start < a[m].end
                             /\ CapturedUntil(a[m]) \in Nat
      /\ \A m, h \in DOMAIN a : m < h => a[m].end <= a[h].start
  BY ArchiveOrder, CaptureEnd
<1>2. p.time \in Nat
  BY FilePackets
<1>3. \A o \in ToSet(a[n].packets) : o.time <= p.time
  BY PacketOrder DEF Precedes
<1>4. CapturedUntil(a[n]) = a[n].end
  <2>1. ASSUME NEW o \in ToSet(a[n].packets), CapturedUntil(a[n]) = o.time PROVE FALSE
    BY <1>1, <1>2, <1>3, <2>1
  <2> QED
    BY <2>1, CaptureEnd
<1>5. p.time < a[n].end /\ p.time < a[i].start
  BY <1>1, <1>2, <1>4
<1>6. PICK x \in 1..Len(a[i].packets) : p = a[i].packets[x]
  BY FilePackets
<1>7. x \in DOMAIN a[i].packets
  BY <1>6, ArchiveOrder
<1>8. HeldBackOnly(a)
  BY ArchivesAssumption
<1>9. /\ x = 1 /\ Repeats(a, p)
      /\ \E m \in DOMAIN a : a[m].end = a[i].start /\ a[m].start <= p.time
  BY <1>5, <1>6, <1>7, <1>8 DEF HeldBackOnly
<1>10. PICK m \in DOMAIN a : a[m].end = a[i].start /\ a[m].start <= p.time
  BY <1>9
<1>11. m = n
  <2>1. ~(n < m)
    BY <1>1, <1>2, <1>5, <1>10
  <2>2. ~(m < n)
    <3> SUFFICES ASSUME m < n PROVE FALSE
      OBVIOUS
    <3>1. a[m].end <= a[n].start /\ a[n].start < a[n].end /\ a[n].end <= a[i].start
      BY <1>1
    <3> QED
      BY <1>1, <1>10, <3>1
  <2> QED
    BY <1>1, <2>1, <2>2
<1>12. i = n + 1
  <2> SUFFICES ASSUME n + 1 < i PROVE FALSE
    BY <1>1
  <2> DEFINE g == n + 1
  <2>1. g \in DOMAIN a /\ n < g /\ g < i
    BY <1>1
  <2> HIDE DEF g
  <2>2. a[n].end <= a[g].start /\ a[g].start < a[g].end /\ a[g].end <= a[i].start
    BY <1>1, <2>1
  <2> QED
    BY <1>1, <1>10, <1>11, <2>1, <2>2
<1>13. ASSUME NEW h \in DOMAIN a, n < h, NEW o \in ToSet(a[h].packets) PROVE p.time <= o.time
  <2>1. CASE i < h
    BY <2>1, PacketOrder DEF Precedes
  <2>2. CASE h = i
    <3>1. PICK y \in 1..Len(a[i].packets) : o = a[i].packets[y]
      BY <1>13, <2>2, FilePackets
    <3>2. y = x \/ x < y
      BY <1>9, <3>1
    <3>3. CASE y = x
      BY <1>2, <1>6, <3>1, <3>3
    <3>4. CASE x < y
      BY <1>6, <3>1, <3>4, PacketOrder DEF Precedes
    <3> QED
      BY <3>2, <3>3, <3>4
  <2> QED
    BY <1>1, <1>12, <1>13, <2>1, <2>2
<1> QED
  BY <1>4, <1>9, <1>10, <1>11, <1>12, <1>13

(* The interval that finish_trace ends, where file n has ended. *)
LEMMA SpanFinished ==
    ASSUME NEW a \in Archives, NEW n \in DOMAIN a, NEW e \in Int, e <= CapturedUntil(a[n]),
           NEW l, l.time \in Nat, NEW s, KeptAt(a, l, s, n, 0, n),
           NEW r, r = [id |-> s, start |-> l.time, end |-> e, value |-> l.value]
    PROVE  GoodSpan(a, r)
<1>1. r.id = s /\ r.start = l.time /\ r.end = e /\ r.value = l.value
  OBVIOUS
<1>2. DOMAIN a = 1..Len(a) /\ Len(a) \in Nat /\ n \in Nat /\ CapturedUntil(a[n]) \in Nat
  BY ArchiveOrder, CaptureEnd
<1>3. Gapless(a, r.start, r.end)
  BY <1>1, <1>2, GaplessUntil DEF KeptAt
<1>4. PICK m, q : m \in 1..n /\ q \in Seen(a, m, n, 0) /\ Joined(a, m, n) /\ IsLatest(a, l, s, n, 0, q)
  BY DEF KeptAt
<1>5. m \in DOMAIN a /\ m <= n /\ q \in ToSet(a[m].packets) /\ q.time \in Nat
  <2>1. m \in DOMAIN a /\ m <= n
    BY <1>2, <1>4
  <2> QED
    BY <1>4, <2>1, SeenPacket
<1>6. /\ s \in DOMAIN q.values /\ l.time <= q.time /\ q.values[s] = l.value
      /\ \A i \in DOMAIN a : \A o \in Seen(a, i, n, 0) :
            s \in DOMAIN o.values => o.time <= q.time /\ SinceThen(a, l, s, o)
  BY <1>4, <1>5 DEF IsLatest, SinceThen
<1>7. ASSUME NEW o \in SamplesOf(a, s), Inside(r, o)
      PROVE  o.values[s] = l.value /\ (l.time < o.time => Continues(a, s, o))
  <2>1. PICK i \in DOMAIN a : o \in ToSet(a[i].packets)
    BY SampleFiles
  <2>2. s \in DOMAIN o.values /\ o.time \in Nat
    BY <2>1, SampleFiles, FilePackets
  <2>3. l.time <= o.time /\ o.time < e
    BY <1>1, <1>7 DEF Inside
  <2>4. CASE i <= n
    <3>1. o \in Seen(a, i, n, 0)
      BY <1>2, <2>1, <2>4, SeenBetween
    <3> QED
      BY <1>6, <2>2, <2>3, <3>1 DEF SinceThen
  <2>5. CASE n < i
    <3>1. o.time < CapturedUntil(a[n])
      BY <1>2, <2>2, <2>3
    <3>2. /\ i = n + 1 /\ a[i].start = CapturedUntil(a[n]) /\ Repeats(a, o)
          /\ \A h \in DOMAIN a : n < h => \A u \in ToSet(a[h].packets) : o.time <= u.time
      BY <2>1, <2>5, <3>1, HeldBackSample
    <3>3. q.time < o.time
      <4>1. m < i /\ m \in DOMAIN a /\ i \in DOMAIN a
        BY <1>2, <1>5, <2>1, <2>5
      <4>2. q \in ToSet(a[m].packets) /\ o \in ToSet(a[i].packets)
        BY <1>5, <2>1
      <4>3. Precedes(q, o)
        BY <4>1, <4>2, PacketOrder
      <4> QED
        BY <1>6, <2>2, <4>3 DEF Precedes
    <3>4. \A u \in SamplesOf(a, s) : u.time <= q.time \/ o.time <= u.time
      <4> SUFFICES ASSUME NEW u \in SamplesOf(a, s) PROVE u.time <= q.time \/ o.time <= u.time
        OBVIOUS
      <4>1. PICK h \in DOMAIN a : u \in ToSet(a[h].packets)
        BY SampleFiles
      <4>2. s \in DOMAIN u.values
        BY SampleFiles
      <4>3. CASE h <= n
        <5>1. u \in Seen(a, h, n, 0)
          BY <1>2, <4>1, <4>3, SeenBetween
        <5> QED
          BY <1>6, <4>2, <5>1
      <4>4. CASE n < h
        BY <3>2, <4>1, <4>4
      <4> QED
        BY <1>2, <4>3, <4>4
    <3>5. q \in SamplesOf(a, s)
      BY <1>5, <1>6, SampleFiles
    <3>6. q.values[s] = o.values[s]
      BY <2>2, <3>2, <3>3, <3>4, <3>5 DEF Repeats
    <3>7. Joined(a, m, n + 1)
      <4>1. m \in Nat /\ n \in Nat /\ m <= n
        BY <1>2, <1>4
      <4> QED
        BY <1>4, <3>2, <4>1, JoinedOn
    <3>8. Continues(a, s, o)
      <4>1. n + 1 \in DOMAIN a /\ m <= n + 1 /\ o \in ToSet(a[n + 1].packets)
        BY <1>2, <1>5, <2>1, <3>2
      <4> QED
        BY <1>5, <1>6, <3>3, <3>4, <3>6, <3>7, <4>1 DEF Continues
    <3> QED
      BY <1>6, <3>6, <3>8
  <2> QED
    BY <1>2, <2>4, <2>5
<1> QED
  BY <1>1, <1>3, <1>7 DEF GoodSpan

-----------------------------------------------------------------------------
(* From the end of a file to the next one, if that goes on. *)
LEMMA KeptFollows ==
    ASSUME NEW a \in Archives, NEW n \in DOMAIN a, n + 1 \in DOMAIN a,
           a[n + 1].start = CapturedUntil(a[n]),
           NEW l, l.time \in Nat, NEW s, KeptAt(a, l, s, n, 0, n)
    PROVE  KeptAt(a, l, s, n, 0, n + 1)
<1>1. DOMAIN a = 1..Len(a) /\ Len(a) \in Nat
  BY ArchiveOrder
<1>2. PICK m, q : m \in 1..n /\ q \in Seen(a, m, n, 0) /\ Joined(a, m, n) /\ IsLatest(a, l, s, n, 0, q)
  BY DEF KeptAt
<1>3. m \in Nat /\ n \in Nat /\ m <= n /\ m \in 1..(n + 1)
  BY <1>1, <1>2
<1>4. Joined(a, m, n + 1)
  BY <1>2, <1>3, JoinedOn
<1>5. Gapless(a, l.time, CapturedUntil(a[n + 1]))
  BY GaplessOn DEF KeptAt
<1> QED
  BY <1>2, <1>3, <1>4, <1>5 DEF KeptAt

(* Where no sample goes on to a file, none goes on to the next. *)
LEMMA NoneFollows ==
    ASSUME NEW a \in Archives, NEW n \in Nat, n + 1 \in DOMAIN a,
           NEW s, NoneAt(a, s, n, 0, n)
    PROVE  NoneAt(a, s, n, 0, n + 1)
<1>1. DOMAIN a = 1..Len(a) /\ Len(a) \in Nat
  BY ArchiveOrder
<1> SUFFICES ASSUME NEW m \in 1..(n + 1), NEW q \in Seen(a, m, n, 0), s \in DOMAIN q.values
             PROVE  ~Joined(a, m, n + 1)
  BY DEF NoneAt
<1>2. m \in DOMAIN a /\ m \in Nat
  BY <1>1
<1>3. m <= n /\ m \in 1..n
  BY <1>1, <1>2, SeenBetween
<1> QED
  BY <1>2, <1>3, JoinedOn DEF NoneAt

(* After a gap nothing goes on. *)
LEMMA NoneBroken ==
    ASSUME NEW a \in Archives, NEW n \in Nat, n + 1 \in DOMAIN a,
           n = 0 \/ ~Joined(a, n, n + 1), NEW s
    PROVE  NoneAt(a, s, n, 0, n + 1)
<1>1. DOMAIN a = 1..Len(a) /\ Len(a) \in Nat
  BY ArchiveOrder
<1> SUFFICES ASSUME NEW m \in 1..(n + 1), NEW q \in Seen(a, m, n, 0), s \in DOMAIN q.values
             PROVE  ~Joined(a, m, n + 1)
  BY DEF NoneAt
<1>2. m \in DOMAIN a /\ m \in Nat
  BY <1>1
<1>3. m <= n
  BY <1>1, <1>2, SeenBetween
<1>4. ~Joined(a, n, n + 1) /\ Joined(a, n, n)
  BY <1>2, <1>3 DEF Joined
<1> QED
  BY <1>2, <1>3, <1>4, JoinedOn

(* From the last packet of a file to its end. *)
LEMMA KeptWholeFile ==
    ASSUME NEW a \in Archives, NEW n \in Nat, n + 1 \in DOMAIN a,
           NEW l, NEW s, KeptAt(a, l, s, n, Len(a[n + 1].packets), n + 1)
    PROVE  KeptAt(a, l, s, n + 1, 0, n + 1)
<1>1. DOMAIN a = 1..Len(a) /\ Len(a) \in Nat
  BY ArchiveOrder
<1>2. \A m \in DOMAIN a : Seen(a, m, n, Len(a[n + 1].packets)) = Seen(a, m, n + 1, 0)
  BY WholeFileSeen
<1>3. PICK m, q : /\ m \in 1..(n + 1) /\ q \in Seen(a, m, n, Len(a[n + 1].packets))
                  /\ Joined(a, m, n + 1) /\ IsLatest(a, l, s, n, Len(a[n + 1].packets), q)
  BY DEF KeptAt
<1>4. m \in DOMAIN a
  BY <1>1, <1>3
<1>5. q \in Seen(a, m, n + 1, 0) /\ IsLatest(a, l, s, n + 1, 0, q)
  BY <1>2, <1>3, <1>4 DEF IsLatest
<1> QED
  BY <1>3, <1>5 DEF KeptAt

(* The last packet of a file is read: nothing kept is of all of it. *)
LEMMA NoneWholeFile ==
    ASSUME NEW a \in Archives, NEW n \in Nat, n + 1 \in DOMAIN a,
           NEW s, NoneAt(a, s, n, Len(a[n + 1].packets), n + 1)
    PROVE  NoneAt(a, s, n + 1, 0, n + 1)
<1>1. 1..(n + 1) \subseteq DOMAIN a
  BY ArchiveOrder
<1> QED
  BY <1>1, WholeFileSeen DEF NoneAt

-----------------------------------------------------------------------------
LEMMA LowerType == ASSUME NEW t \in Nat PROVE Lower(t) \in Int
<1>1. Half \in Nat /\ Half > 0
  BY LoggerAssumption
<1>2. (t + Half) % (2 * Half) \in Int
  BY <1>1
<1> QED
  BY <1>1, <1>2 DEF Lower

(* The files are in one order, which tells them apart. *)
LEMMA FileOrder ==
    ASSUME TypeOK, Regular
    PROVE  /\ archive \in Archives /\ DOMAIN archive = 1..Len(archive) /\ Len(archive) \in Nat
           /\ written \in 0..Len(archive)
           /\ \A n \in 1..written : n \in DOMAIN archive
           /\ \A n \in DOMAIN archive : archive[n] \in File /\ Lower(archive[n].start) \in Int
           /\ \A m, n \in DOMAIN archive :
                 /\ m < n => Lower(archive[m].start) < Lower(archive[n].start)
                 /\ m <= n => Lower(archive[m].start) <= Lower(archive[n].start)
                 /\ archive[m] = archive[n] => m = n
<1>1. archive \in Archives /\ written \in 0..Len(archive)
  BY DEF TypeOK
<1>2. DOMAIN archive = 1..Len(archive) /\ Len(archive) \in Nat /\ archive \in Seq(File)
  BY <1>1, ArchiveOrder
<1>3. \A n \in DOMAIN archive : archive[n] \in File /\ Lower(archive[n].start) \in Int
  BY <1>1, <1>2, ArchiveOrder, LowerType
<1>4. \A m, n \in DOMAIN archive : m < n => Lower(archive[m].start) < Lower(archive[n].start)
  BY DEF Regular
<1>5. ASSUME NEW m \in DOMAIN archive, NEW n \in DOMAIN archive
      PROVE  /\ m <= n => Lower(archive[m].start) <= Lower(archive[n].start)
             /\ archive[m] = archive[n] => m = n
  <2>1. m < n \/ m = n \/ n < m
    BY <1>2
  <2> QED
    BY <1>2, <1>3, <1>4, <2>1
<1> QED
  BY <1>1, <1>2, <1>3, <1>4, <1>5

(* select_packet_files gives every file that is there, each once, in order. *)
LEMMA PrefixAll ==
    ASSUME TypeOK, Regular, NEW q \in Prefix
    PROVE  /\ q \in Seq(File) /\ ToSet(q) = {archive[j] : j \in 1..written}
           /\ \A i, j \in 1..Len(q) : i < j => Lower(q[i].start) < Lower(q[j].start)
<1> DEFINE S == {archive[n] : n \in 1..written}
           D == 1..Cardinality(S)
<1>1. IsFiniteSet(S) /\ Cardinality(S) \in Nat
  <2> DEFINE f == [n \in 1..written |-> archive[n]]
  <2>1. written \in Nat
    BY FileOrder
  <2>2. IsFiniteSet(1..written)
    BY <2>1, FS_Interval
  <2>3. f \in Surjection(1..written, S)
    BY DEF Surjection
  <2> HIDE DEF S, f
  <2> QED
    BY <2>2, <2>3, FS_Surjection, FS_CardinalityType
<1>2. q \in [D -> S] /\ (\A i, j \in D : i # j => q[i] # q[j]) /\ Sorted(q)
  BY DEF Prefix, SetToSeqs
<1>3. S \subseteq File /\ \A f \in S : \E m \in DOMAIN archive : f = archive[m]
  BY FileOrder
<1> HIDE DEF S
<1>4. q \in Seq(S) /\ q \in Seq(File) /\ Len(q) = Cardinality(S) /\ DOMAIN q = 1..Len(q)
  BY <1>1, <1>2, <1>3 DEF D
<1>5. q \in Surjection(D, S)
  <2>1. q \in Injection(D, S)
    <3> HIDE DEF D
    <3>1. DOMAIN q = D
      BY <1>2
    <3> QED
      BY <1>2, <3>1 DEF Injection, IsInjective
  <2>2. Cardinality(D) = Cardinality(S)
    BY <1>1, FS_Interval
  <2> HIDE DEF D
  <2> QED
    BY <1>1, <2>1, <2>2, FS_Injection
<1>6. ToSet(q) = S
  BY <1>2, <1>4, <1>5 DEF Surjection, ToSet, D
<1>7. ASSUME NEW i \in 1..Len(q), NEW j \in 1..Len(q), i < j
      PROVE  Lower(q[i].start) < Lower(q[j].start)
  <2>1. i \in D /\ j \in D /\ q[i] # q[j] /\ q[i] \in S /\ q[j] \in S
    BY <1>2, <1>4, <1>7 DEF D
  <2>2. PICK m \in DOMAIN archive : q[i] = archive[m]
    BY <1>3, <2>1
  <2>3. PICK n \in DOMAIN archive : q[j] = archive[n]
    BY <1>3, <2>1
  <2>4. Lower(q[i].start) <= Lower(q[j].start)
    BY <1>2, <1>4, <1>7 DEF Sorted
  <2>5. m < n \/ n < m
    BY <2>1, <2>2, <2>3, FileOrder
  <2> QED
    BY <2>2, <2>3, <2>4, <2>5, FileOrder
<1> QED
  BY <1>4, <1>6, <1>7 DEF S

(* The first of the files that remain is the one after those that have been read,
   and the others come after it. *)
LEMMA FirstOfRest ==
    ASSUME TypeOK, Regular, NEW n \in Nat, Whole(n), todo # <<>>
    PROVE  /\ n + 1 \in DOMAIN archive /\ n + 1 <= written /\ Head(todo) = archive[n + 1]
           /\ ToSet(Tail(todo)) = {archive[j] : j \in (n + 2)..written}
           /\ \A i, j \in DOMAIN Tail(todo) :
                 i < j => Lower(Tail(todo)[i].start) < Lower(Tail(todo)[j].start)
<1>1. /\ todo \in Seq(File) /\ Len(todo) \in Nat /\ Len(todo) > 0 /\ Head(todo) = todo[1]
      /\ DOMAIN todo = 1..Len(todo) /\ \A i \in 1..Len(todo) : todo[i] \in ToSet(todo)
      /\ \A f \in ToSet(todo) : \E i \in 1..Len(todo) : f = todo[i]
  BY DEF TypeOK, ToSet
<1>2. /\ \A i, j \in 1..Len(todo) : i < j => Lower(todo[i].start) < Lower(todo[j].start)
      /\ ToSet(todo) = {archive[j] : j \in (n + 1)..written}
  BY <1>1 DEF Whole
<1>3. /\ written \in Nat /\ DOMAIN archive = 1..Len(archive) /\ written <= Len(archive)
      /\ \A j \in (n + 1)..written : j \in DOMAIN archive
  BY FileOrder
<1>4. PICK h \in (n + 1)..written : todo[1] = archive[h]
  BY <1>1, <1>2
<1>5. n + 1 \in DOMAIN archive /\ n + 1 <= written /\ n + 1 \in (n + 1)..written /\ n + 1 <= h
  BY <1>3, <1>4
<1>6. todo[1] = archive[n + 1]
  <2>1. PICK i \in 1..Len(todo) : archive[n + 1] = todo[i]
    BY <1>1, <1>2, <1>5
  <2>2. Lower(archive[n + 1].start) <= Lower(archive[h].start) /\ Lower(archive[n + 1].start) \in Int /\ Lower(archive[h].start) \in Int
    BY <1>3, <1>5, FileOrder
  <2>3. ~(1 < i)
    BY <1>1, <1>2, <1>4, <2>1, <2>2
  <2> QED
    BY <2>1, <2>3
<1>7. /\ Tail(todo) \in Seq(File) /\ Len(Tail(todo)) = Len(todo) - 1
      /\ DOMAIN Tail(todo) = 1..(Len(todo) - 1)
      /\ \A i \in 1..(Len(todo) - 1) : i + 1 \in 1..Len(todo) /\ Tail(todo)[i] = todo[i + 1]
  BY <1>1
<1>8. \A i, j \in DOMAIN Tail(todo) :
          i < j => Lower(Tail(todo)[i].start) < Lower(Tail(todo)[j].start)
  <2> SUFFICES ASSUME NEW i \in DOMAIN Tail(todo), NEW j \in DOMAIN Tail(todo), i < j
               PROVE  Lower(Tail(todo)[i].start) < Lower(Tail(todo)[j].start)
    OBVIOUS
  <2> DEFINE x == i + 1
             y == j + 1
  <2>1. x \in 1..Len(todo) /\ y \in 1..Len(todo) /\ x < y /\ Tail(todo)[i] = todo[x] /\ Tail(todo)[j] = todo[y]
    BY <1>7
  <2> HIDE DEF x, y
  <2> QED
    BY <1>2, <2>1
<1>9. \A f : f \in ToSet(Tail(todo)) <=> \E i \in 2..Len(todo) : f = todo[i]
  <2>1. \A f : f \in ToSet(Tail(todo)) <=> \E i \in 1..(Len(todo) - 1) : f = Tail(todo)[i]
    BY <1>7 DEF ToSet
  <2>2. ASSUME NEW i \in 2..Len(todo)
        PROVE  \E j \in 1..(Len(todo) - 1) : todo[i] = Tail(todo)[j]
    <3> DEFINE j == i - 1
    <3>1. j \in 1..(Len(todo) - 1) /\ i = j + 1
      BY <1>1
    <3> HIDE DEF j
    <3> QED
      BY <1>7, <3>1
  <2>3. ASSUME NEW i \in 1..(Len(todo) - 1)
        PROVE  \E j \in 2..Len(todo) : Tail(todo)[i] = todo[j]
    <3> DEFINE j == i + 1
    <3>1. j \in 2..Len(todo) /\ Tail(todo)[i] = todo[j]
      BY <1>1, <1>7
    <3> HIDE DEF j
    <3> QED
      BY <3>1
  <2> SUFFICES ASSUME NEW f
               PROVE  f \in ToSet(Tail(todo)) <=> \E i \in 2..Len(todo) : f = todo[i]
    OBVIOUS
  <2>4. f \in ToSet(Tail(todo)) <=> \E i \in 1..(Len(todo) - 1) : f = Tail(todo)[i]
    BY <2>1
  <2> QED
    BY <2>2, <2>3, <2>4, Zenon
<1>10. ASSUME NEW f
       PROVE  f \in ToSet(Tail(todo)) <=> \E j \in (n + 2)..written : f = archive[j]
  <2>1. ASSUME NEW i \in 2..Len(todo), f = todo[i]
        PROVE  \E j \in (n + 2)..written : f = archive[j]
    <3>1. i \in 1..Len(todo) /\ 1 \in 1..Len(todo) /\ 1 < i
      BY <1>1
    <3>2. PICK j \in (n + 1)..written : todo[i] = archive[j]
      BY <1>1, <1>2, <3>1
    <3>3. Lower(todo[1].start) < Lower(todo[i].start)
      BY <1>2, <3>1
    <3>4. j # n + 1
      BY <1>3, <1>5, <1>6, <3>2, <3>3, FileOrder
    <3>5. j \in (n + 2)..written
      BY <3>4
    <3> QED
      BY <2>1, <3>2, <3>5
  <2>2. ASSUME NEW j \in (n + 2)..written, f = archive[j]
        PROVE  \E i \in 2..Len(todo) : f = todo[i]
    <3>1. j \in (n + 1)..written /\ j \in DOMAIN archive /\ j # n + 1
      BY <1>3
    <3>2. PICK i \in 1..Len(todo) : archive[j] = todo[i]
      BY <1>1, <1>2, <3>1
    <3>3. i # 1
      BY <1>5, <1>6, <3>1, <3>2, FileOrder
    <3>4. i \in 2..Len(todo)
      BY <1>1, <3>3
    <3> QED
      BY <2>2, <3>2, <3>4
  <2> QED
    BY <1>9, <2>1, <2>2
<1>11. ToSet(Tail(todo)) = {archive[j] : j \in (n + 2)..written}
  BY <1>10
<1> QED
  BY <1>1, <1>5, <1>6, <1>8, <1>11

(* The file that is read, of the archive or alone. *)
LEMMA FileRead ==
    ASSUME TypeOK, Regular, NEW n \in 0..Len(archive), Whole(n) \/ GivenAlone(n), todo # <<>>
    PROVE  /\ archive \in Archives /\ n \in Nat /\ n + 1 \in DOMAIN archive
           /\ Packets = archive[n + 1].packets
           /\ Whole(n) => Head(todo) = archive[n + 1]
           /\ ~Whole(n) => /\ Head(todo).start = 0 /\ Head(todo).end = 0
                           /\ todo = <<Head(todo)>> /\ "single" \in odd /\ ~fresh
                           /\ pc # "read" => last = NoLast /\ prevEnd = -1
<1>1. archive \in Archives /\ DOMAIN archive = 1..Len(archive) /\ Len(archive) \in Nat /\ n \in Nat
  BY FileOrder
<1>2. CASE Whole(n)
  BY <1>1, <1>2, FirstOfRest DEF Packets
<1>3. CASE ~Whole(n)
  <2> DEFINE g == [archive[n + 1] EXCEPT !.start = 0, !.end = 0]
  <2>1. /\ "single" \in odd /\ ~fresh /\ n < Len(archive) /\ todo = <<g>>
        /\ pc # "read" => last = NoLast /\ prevEnd = -1
    BY <1>3 DEF GivenAlone
  <2>2. n + 1 \in DOMAIN archive
    BY <1>1, <2>1
  <2>3. archive[n + 1] \in File
    BY <2>2, FileOrder
  <2>4. g.start = 0 /\ g.end = 0 /\ g.packets = archive[n + 1].packets
    BY <2>3 DEF File
  <2> HIDE DEF g
  <2>5. Head(todo) = g
    BY <2>1
  <2> QED
    BY <1>1, <1>3, <2>1, <2>2, <2>4, <2>5 DEF Packets
<1> QED
  BY <1>2, <1>3

-----------------------------------------------------------------------------
LEMMA StoreInserted ==
    ASSUME fresh \in BOOLEAN, NEW rs, Store(rs)
    PROVE  /\ Inserted \subseteq Inserted' /\ Inserted' \subseteq Inserted \cup rs
           /\ \A r \in Inserted' : r \in Inserted \/ (r \in rs /\ \A q \in Inserted : ~SameKey(r, q))
           /\ fresh' => fresh /\ \A r \in rs : (\A q \in Inserted : ~SameKey(r, q)) => r \in Inserted'
<1>1. PICK stored \in SUBSET Storable(rs) :
        Insert(stored) /\ fresh' = (fresh /\ stored = Storable(rs))
  BY DEF Store
<1>2. Inserted' = Inserted \cup stored
  BY <1>1 DEF Insert, Inserted
<1>3. \A r : r \in Storable(rs) <=> r \in rs /\ \A q \in Inserted : ~SameKey(r, q)
  BY DEF Storable, Inserted
<1>4. fresh' => fresh /\ stored = Storable(rs)
  BY <1>1
<1> QED
  BY <1>1, <1>2, <1>3, <1>4

(* No COMMIT adds an interval to those inserted; the end of a run, or the
   program killed, only drops some. *)
LEMMA CommitInserted ==
    /\ Start \/ CommitOk => Inserted' = Inserted
    /\ CommitLost \/ CommitOpen => Inserted' \subseteq Inserted
BY DEF Start, Committed, CommitOk, CommitLost, CommitOpen, Inserted

LEMMA EndInserted == ASSUME NEW done, End(done) PROVE Inserted' \subseteq Inserted
BY DEF End, environment, Inserted

(* An insert with the key of another one is not made. *)
LEMMA NextKeys == IInv /\ KeysInv /\ [Next]_vars => KeysInv'
<1> SUFFICES ASSUME IInv, KeysInv, [Next]_vars PROVE KeysInv'
  OBVIOUS
<1>1. fresh \in BOOLEAN
  BY DEF IInv, TypeOK
<1>2. ASSUME NEW rs, Store(rs), \A r, q \in rs : SameKey(r, q) => r = q, pc' # "none"
      PROVE  KeysInv'
  <2>1. \A r \in Inserted' : r \in Inserted \/ (r \in rs /\ \A q \in Inserted : ~SameKey(r, q))
    BY <1>1, <1>2, StoreInserted
  <2>2. \A r, q : SameKey(r, q) => SameKey(q, r)
    BY DEF SameKey
  <2>3. \A r, q \in Inserted' : SameKey(r, q) => r = q
    BY <1>2, <2>1, <2>2 DEF KeysInv
  <2> QED
    BY <1>2, <2>3 DEF KeysInv, SameKey
<1>3. ASSUME Inserted' \subseteq Inserted, pc' = "none" => ~transaction' /\ last' = NoLast
      PROVE  KeysInv'
  BY <1>3 DEF KeysInv, SameKey
<1>4. CASE FinishSignal
  <2>1. PICK s \in Signals : Store({Until(s, prevEnd)})
    BY <1>4 DEF FinishSignal
  <2>2. pc' # "none"
    BY <1>4 DEF FinishSignal
  <2> QED
    BY <1>2, <2>1, <2>2
<1>5. CASE Extract
  <2> DEFINE p == Packets[read + 1]
  <2>1. Store(Ended(p)) /\ pc' # "none"
    BY <1>5 DEF Extract
  <2>2. \A r, q \in Ended(p) : SameKey(r, q) => r = q
    <3> HIDE DEF p
    <3> QED
      BY DEF Ended, Until, SameKey
  <2> HIDE DEF p
  <2> QED
    BY <1>2, <2>1, <2>2
<1>6. CASE NewFile
  BY <1>3, <1>6 DEF NewFile, tables, progress, Inserted, KeysInv
<1>7. CASE Begin
  BY <1>3, <1>7 DEF Begin, tables, Inserted
<1>8. CASE Register \/ NextFile \/ LastFile \/ FinishDone
  <2>1. Inserted' \subseteq Inserted /\ pc' # "none"
    BY <1>8 DEF Register, NextFile, LastFile, FinishDone, tables, Inserted
  <2> QED
    BY <1>3, <2>1
<1>9. CASE Open
  <2>1. Inserted' \subseteq Inserted /\ pc' # "none"
    BY <1>9, CommitInserted DEF Open
  <2> QED
    BY <1>3, <2>1
<1>10. CASE Commit
  <2>1. Inserted' \subseteq Inserted /\ pc' # "none"
    BY <1>10, CommitInserted DEF Commit
  <2> QED
    BY <1>3, <2>1
<1>11. CASE FinishEnd \/ OpenFail \/ ReadFail \/ Kill
  <2>1. PICK done : End(done)
    BY <1>11 DEF FinishEnd, OpenFail, ReadFail, Kill
  <2>2. ~transaction' /\ last' = NoLast
    BY <2>1 DEF End
  <2> QED
    BY <1>3, <2>1, <2>2, EndInserted
<1>12. CASE UNCHANGED vars
  BY <1>3, <1>12 DEF vars, tables, progress, Inserted, KeysInv
<1> QED
  BY <1>4, <1>5, <1>6, <1>7, <1>8, <1>9, <1>10, <1>11, <1>12 DEF Next

(* What does not change the archive, and what has been read irregularly stays. *)
LEMMA Irregular ==
    ASSUME IInv, [Next]_vars
    PROVE  /\ UNCHANGED archive /\ odd \subseteq odd'
           /\ Regular' => Regular
<1>1. UNCHANGED archive /\ odd \subseteq odd'
  BY DEF Next, NewFile, Begin, Register, NextFile, LastFile, FinishSignal, FinishDone, FinishEnd,
         Open, OpenFail, Extract, ReadFail, Commit, Kill, End, environment, history, vars
<1> QED
  BY <1>1 DEF Regular

-----------------------------------------------------------------------------
Ordered == IInv /\ KeysInv /\ Regular /\ SpansInv /\ PositionInv

(* The intervals, when some are added. *)
LEMMA SpansMore ==
    ASSUME SpansInv, UNCHANGED archive, odd \subseteq odd',
           NEW rs, Inserted' \subseteq Inserted \cup rs,
           \A r \in rs : GoodSpan(archive, r),
           "single" \notin odd => \A r \in rs : NewAt(archive, r.id, r.start),
           "single" \notin odd => \A s \in Signals : last'[s] # None => NewAt(archive, s, last'[s].time)
    PROVE  SpansInv'
<1>1. \A r \in Inserted' : GoodSpan(archive, r)
  BY DEF SpansInv
<1>2. "single" \notin odd' => \A r \in Inserted' : NewAt(archive, r.id, r.start)
  BY DEF SpansInv
<1> QED
  BY <1>1, <1>2 DEF SpansInv

(* There are no more intervals, and the signals are kept as they were or not. *)
LEMMA SpansSame ==
    ASSUME SpansInv, UNCHANGED archive, odd \subseteq odd', Inserted' \subseteq Inserted,
           last' = last \/ last' = NoLast
    PROVE  SpansInv'
<1>1. \A s \in Signals : NoLast[s] = None
  BY DEF NoLast
<1>2. "single" \notin odd => \A s \in Signals : last'[s] # None => NewAt(archive, s, last'[s].time)
  BY <1>1 DEF SpansInv
<1> QED
  BY <1>2 DEF SpansInv

LEMMA BeginStep ==
    ASSUME Ordered, Begin, Regular'
    PROVE  SpansInv' /\ PositionInv'
<1> USE DEF Ordered, IInv
<1>1. /\ UNCHANGED archive /\ written' = written /\ UNCHANGED <<values, transaction, pending>>
      /\ odd \subseteq odd' /\ pc' = "register" /\ last' = NoLast /\ prevEnd' = -1 /\ Inserted' = Inserted
  BY DEF Begin, environment, tables, Inserted
<1>2. SpansInv'
  BY <1>1, SpansSame
<1>3. /\ archive \in Archives /\ DOMAIN archive = 1..Len(archive) /\ Len(archive) \in Nat
      /\ written \in 0..Len(archive)
  BY FileOrder
<1>4. \A n : KeptAll(archive, NoLast, n, 0, n)
  BY DEF KeptAll, NoLast
<1>5. CASE todo' \in Prefix /\ fresh' = (values = {}) /\ UNCHANGED odd
  <2>1. Whole(0)'
    <3>1. /\ todo' \in Seq(File) /\ ToSet(todo') = {archive[j] : j \in 1..written}
          /\ \A i, j \in 1..Len(todo') : i < j => Lower(todo'[i].start) < Lower(todo'[j].start)
      BY <1>5, PrefixAll
    <3>2. DOMAIN todo' = 1..Len(todo') /\ 0 + 1 = 1
      BY <3>1
    <3> QED
      BY <1>1, <1>3, <3>1, <3>2 DEF Whole
  <2>2. EndedAt(0)'
    BY <1>1 DEF EndedAt
  <2>3. NoneAll(archive, NoLast, 0, 0, 0)
    BY DEF NoneAll, NoneAt
  <2>4. fresh' => Stored(0, 0)' /\ ~transaction'
    <3> SUFFICES ASSUME fresh' PROVE Stored(0, 0)' /\ ~transaction'
      OBVIOUS
    <3>1. ~transaction /\ pending = {} /\ values = {}
      <4>1. ~transaction
        BY DEF Begin, KeysInv
      <4> QED
        BY <1>5, <4>1 DEF TypeOK
    <3>2. Inserted' = {}
      BY <1>1, <3>1 DEF Inserted
    <3>3. \A i \in DOMAIN archive : Seen(archive, i, 0, 0) = {}
      BY <1>3, SeenBetween
    <3>4. AllStored(archive, {}, last', 0, 0)
      BY <3>3 DEF AllStored
    <3> QED
      BY <1>1, <3>1, <3>2, <3>4 DEF Stored
  <2>5. Between(0)'
    BY <1>1, <1>4, <2>2, <2>3, <2>4 DEF Between
  <2>6. Position(0)' /\ 0 \in 0..Len(archive)
    BY <1>1, <1>3, <2>1, <2>5 DEF Position
  <2> QED
    BY <1>1, <1>2, <2>6 DEF PositionInv
<1>6. CASE todo' \in Single /\ fresh' = FALSE /\ odd' = odd \cup {"single"}
  <2>1. PICK m \in 1..written : todo' = <<[archive[m] EXCEPT !.start = 0, !.end = 0]>>
    BY <1>6 DEF Single
  <2> DEFINE n == m - 1
  <2>2. n \in 0..Len(archive) /\ n < Len(archive) /\ m = n + 1
    BY <1>3
  <2> HIDE DEF n
  <2>3. todo' = <<[archive[n + 1] EXCEPT !.start = 0, !.end = 0]>>
    BY <2>1, <2>2
  <2>4. GivenAlone(n)'
    BY <1>1, <1>6, <2>2, <2>3 DEF GivenAlone
  <2>5. EndedAt(n)'
    BY <1>1, <1>6 DEF EndedAt
  <2>6. Between(n)'
    BY <1>1, <1>4, <1>6, <2>5 DEF Between
  <2>7. Position(n)'
    BY <1>1, <2>4, <2>6 DEF Position
  <2> QED
    BY <1>1, <1>2, <2>2, <2>7 DEF PositionInv
<1> QED
  BY <1>5, <1>6 DEF Begin

LEMMA RegisterStep ==
    ASSUME Ordered, Register
    PROVE  SpansInv' /\ PositionInv'
<1> USE DEF Ordered
<1>1. /\ UNCHANGED <<archive, written, values, pending, transaction, todo, read, prevEnd, last, fresh, odd>>
      /\ pc = "register" /\ pc' = "file" /\ Inserted' = Inserted
  BY DEF Register, environment, progress, history, Inserted
<1>2. SpansInv'
  BY <1>1, SpansSame
<1>3. PICK n \in 0..Len(archive) : Position(n)
  BY <1>1 DEF PositionInv
<1>4. (Whole(n) \/ GivenAlone(n)) /\ Between(n)
  BY <1>1, <1>3 DEF Position
<1>5. (Whole(n) \/ GivenAlone(n))'
  BY <1>1, <1>4 DEF Whole, GivenAlone
<1>6. EndedAt(n)' /\ Stored(n, 0)' = Stored(n, 0)
  BY <1>1, <1>4 DEF Between, EndedAt, Stored
<1>7. Between(n)'
  BY <1>1, <1>4, <1>6 DEF Between
<1>8. Position(n)'
  BY <1>1, <1>5, <1>7 DEF Position
<1> QED
  BY <1>1, <1>2, <1>3, <1>8 DEF PositionInv

LEMMA NextFileStep ==
    ASSUME Ordered, NextFile
    PROVE  SpansInv' /\ PositionInv'
<1> USE DEF Ordered, IInv
<1>1. /\ UNCHANGED <<archive, written, values, pending, transaction, todo, read, prevEnd, last, fresh, odd>>
      /\ pc = "file" /\ todo # <<>> /\ Inserted' = Inserted
  BY DEF NextFile, environment, tables, progress, history, Inserted
<1>2. SpansInv'
  BY <1>1, SpansSame
<1>3. PICK n \in 0..Len(archive) : Position(n)
  BY <1>1 DEF PositionInv
<1>4. (Whole(n) \/ GivenAlone(n)) /\ Between(n)
  BY <1>1, <1>3 DEF Position
<1>5. /\ archive \in Archives /\ n \in Nat /\ n + 1 \in DOMAIN archive
      /\ Whole(n) => Head(todo) = archive[n + 1]
      /\ ~Whole(n) => Head(todo).start = 0 /\ "single" \in odd /\ last = NoLast /\ prevEnd = -1
  BY <1>1, <1>4, FileRead
<1>6. archive[n + 1].start \in Nat
  BY <1>5, ArchiveOrder
<1>7. (Whole(n) \/ GivenAlone(n))' /\ Stored(n, 0)' = Stored(n, 0)
  BY <1>1, <1>4 DEF Whole, GivenAlone, Stored
<1>8. /\ EndedAt(n) /\ KeptAll(archive, last, n, 0, n)
      /\ "single" \notin odd => NoneAll(archive, last, n, 0, n)
      /\ fresh => Stored(n, 0) /\ ~transaction
  BY <1>1, <1>4 DEF Between
<1>9. CASE Follows(Head(todo)) /\ pc' = "open"
  <2>1. Whole(n) /\ archive[n + 1].start = prevEnd
    BY <1>5, <1>9 DEF Follows
  <2>2. n > 0 /\ archive[n + 1].start = CapturedUntil(archive[n])
    BY <1>1, <1>6, <1>8, <2>1 DEF EndedAt
  <2>3. n \in DOMAIN archive
    BY <1>5, <2>2, ArchiveOrder
  <2>4. \A s \in Signals : last[s] # None => last[s].time \in Nat
    BY DEF TypeOK
  <2>5. KeptAll(archive, last, n, 0, n + 1)
    BY <1>5, <1>8, <2>2, <2>3, <2>4, KeptFollows DEF KeptAll
  <2>6. "single" \notin odd => NoneAll(archive, last, n, 0, n + 1)
    BY <1>5, <1>8, NoneFollows DEF NoneAll
  <2>7. AtOpen(n)'
    BY <1>1, <1>7, <1>8, <2>5, <2>6 DEF AtOpen
  <2>8. Position(n)'
    BY <1>7, <1>9, <2>7 DEF Position
  <2> QED
    BY <1>1, <1>2, <1>3, <2>8 DEF PositionInv
<1>10. CASE ~Follows(Head(todo)) /\ pc' = "finish" /\ resume' = "open"
  <2>1. "single" \notin odd => n = 0 \/ ~Joined(archive, n, n + 1)
    <3> SUFFICES ASSUME "single" \notin odd, n # 0 PROVE ~Joined(archive, n, n + 1)
      OBVIOUS
    <3>1. archive[n + 1].start # prevEnd
      BY <1>5, <1>10 DEF Follows
    <3>2. prevEnd = CapturedUntil(archive[n])
      BY <1>1, <1>8 DEF EndedAt
    <3>3. n \in n..((n + 1) - 1)
      BY <1>5
    <3> QED
      BY <3>1, <3>2, <3>3 DEF Joined
  <2>2. EndedAt(n)'
    BY <1>1, <1>8 DEF EndedAt
  <2>3. Between(n)'
    BY <1>1, <1>7, <1>8, <1>10, <2>1, <2>2 DEF Between
  <2>4. Position(n)'
    BY <1>7, <1>10, <2>3 DEF Position
  <2> QED
    BY <1>1, <1>2, <1>3, <2>4 DEF PositionInv
<1> QED
  BY <1>9, <1>10 DEF NextFile

LEMMA LastFileStep ==
    ASSUME Ordered, LastFile
    PROVE  SpansInv' /\ PositionInv'
<1> USE DEF Ordered
<1>1. /\ UNCHANGED <<archive, written, values, pending, transaction, todo, read, prevEnd, last, fresh, odd>>
      /\ pc = "file" /\ todo = <<>> /\ Inserted' = Inserted /\ pc' = "finish" /\ resume' = "end"
  BY DEF LastFile, environment, tables, progress, history, Inserted
<1>2. SpansInv'
  BY <1>1, SpansSame
<1>3. PICK n \in 0..Len(archive) : Position(n)
  BY <1>1 DEF PositionInv
<1>4. (Whole(n) \/ GivenAlone(n)) /\ Between(n)
  BY <1>1, <1>3 DEF Position
<1>5. (Whole(n) \/ GivenAlone(n))' /\ EndedAt(n)' /\ Stored(n, 0)' = Stored(n, 0)
  BY <1>1, <1>4 DEF Whole, GivenAlone, Between, EndedAt, Stored
<1>6. Between(n)'
  BY <1>1, <1>4, <1>5 DEF Between
<1>7. Position(n)'
  BY <1>1, <1>5, <1>6 DEF Position
<1> QED
  BY <1>1, <1>2, <1>3, <1>7 DEF PositionInv

LEMMA FinishDoneStep ==
    ASSUME Ordered, FinishDone
    PROVE  SpansInv' /\ PositionInv'
<1> USE DEF Ordered, IInv
<1>1. /\ UNCHANGED <<archive, written, values, pending, transaction, todo, read, prevEnd, last, fresh, odd>>
      /\ pc = "finish" /\ resume = "open" /\ last = NoLast /\ Inserted' = Inserted /\ pc' = "open"
  BY DEF FinishDone, Finished, environment, tables, progress, history, Inserted
<1>2. SpansInv'
  BY <1>1, SpansSame
<1>3. PICK n \in 0..Len(archive) : Position(n)
  BY <1>1 DEF PositionInv
<1>4. (Whole(n) \/ GivenAlone(n)) /\ Between(n)
  BY <1>1, <1>3 DEF Position
<1>5. todo # <<>>
  BY <1>1 DEF TypeOK
<1>6. archive \in Archives /\ n \in Nat /\ n + 1 \in DOMAIN archive
  BY <1>4, <1>5, FileRead
<1>7. (Whole(n) \/ GivenAlone(n))' /\ Stored(n, 0)' = Stored(n, 0)
  BY <1>1, <1>4 DEF Whole, GivenAlone, Stored
<1>8. "single" \notin odd => NoneAll(archive, last, n, 0, n + 1)
  BY <1>1, <1>4, <1>6, NoneBroken DEF Between, NoneAll
<1>9. KeptAll(archive, last, n, 0, n + 1)
  BY <1>1 DEF KeptAll, NoLast
<1>10. AtOpen(n)'
  BY <1>1, <1>4, <1>7, <1>8, <1>9 DEF AtOpen, Between
<1>11. Position(n)'
  BY <1>1, <1>7, <1>10 DEF Position
<1> QED
  BY <1>1, <1>2, <1>3, <1>11 DEF PositionInv

LEMMA OpenStep ==
    ASSUME Ordered, Open
    PROVE  SpansInv' /\ PositionInv'
<1> USE DEF Ordered, IInv
<1>1. /\ UNCHANGED <<archive, written, todo, last, fresh, odd>>
      /\ pc = "open" /\ pc' = "read" /\ read' = 0 /\ prevEnd' = Head(todo).end
  BY DEF Open, environment, history, Rewound
<1>2. Inserted' = Inserted
  BY CommitInserted DEF Open
<1>3. SpansInv'
  BY <1>1, <1>2, SpansSame
<1>4. PICK n \in 0..Len(archive) : Position(n)
  BY <1>1 DEF PositionInv
<1>5. (Whole(n) \/ GivenAlone(n)) /\ AtOpen(n)
  BY <1>1, <1>4 DEF Position
<1>6. (Whole(n) \/ GivenAlone(n))' /\ Stored(n, 0)' = Stored(n, 0)
  BY <1>1, <1>2, <1>5 DEF Whole, GivenAlone, Stored
<1>7. Packets' = Packets /\ 0 <= Len(Packets)
  <2>1. todo # <<>>
    BY <1>1 DEF TypeOK
  <2>2. Packets \in Seq(Packet)
    BY <2>1, HeadPackets
  <2> QED
    BY <1>1, <2>2 DEF Packets
<1>8. Within(n)'
  BY <1>1, <1>5, <1>6, <1>7 DEF Within, AtOpen
<1>9. Position(n)'
  BY <1>1, <1>6, <1>8 DEF Position
<1> QED
  BY <1>1, <1>3, <1>4, <1>9 DEF PositionInv

-----------------------------------------------------------------------------
(* Interval r is what was kept of its signal in l, and ends after n files. *)
Finishes(a, n, l, r, l2) ==
    /\ r.end \in Int /\ l[r.id] # None /\ l[r.id].time \in Nat
    /\ r.start = l[r.id].time /\ r.value = l[r.id].value
    /\ \A i \in 1..n : \A p \in ToSet(a[i].packets) : p.time <= r.end
    /\ KeptAt(a, l[r.id], r.id, n, 0, n) /\ IsSample(a, r.id, r.start, r.value)
    /\ l2[r.id] = None /\ \A t : t # r.id => l2[t] = l[t]

(* What has been inserted when finish_trace ends an interval. *)
LEMMA StoredFinished ==
    ASSUME NEW a \in Archives, NEW n \in DOMAIN a,
           NEW l, NEW rs, NEW r, NEW l2, AllStored(a, rs, l, n, 0), Finishes(a, n, l, r, l2)
    PROVE  AllStored(a, rs \cup {r}, l2, n, 0) /\ \A q \in rs : ~SameKey(r, q)
<1> USE DEF Finishes
<1> DEFINE s == r.id
           e == r.end
<1>1. r.id = s /\ r.start = l[s].time /\ r.end = e /\ r.value = l[s].value
  OBVIOUS
<1>2. DOMAIN a = 1..Len(a) /\ Len(a) \in Nat /\ n \in Nat
  BY ArchiveOrder
<1>3. PICK m, q : m \in 1..n /\ q \in Seen(a, m, n, 0) /\ Joined(a, m, n) /\ IsLatest(a, l[s], s, n, 0, q)
  BY DEF KeptAt
<1>4. m \in DOMAIN a /\ m <= n
  BY <1>2, <1>3
<1>5. ASSUME NEW i \in DOMAIN a, NEW o \in Seen(a, i, n, 0), NEW t \in DOMAIN o.values
      PROVE  \/ \E u \in rs \cup {r} : Covers(u, t, o)
             \/ l2[t] # None /\ l2[t].time <= o.time
  <2>1. (\E u \in rs : Covers(u, t, o)) \/ (l[t] # None /\ l[t].time <= o.time)
    BY DEF AllStored
  <2>2. CASE t = s /\ l[s].time <= o.time
    <3>1. i \in 1..n /\ o \in ToSet(a[i].packets)
      BY <1>2, SeenBetween, SeenPacket
    <3>2. o.time <= e
      BY <3>1
    <3>3. o.values[s] = l[s].value
      BY <1>3, <2>2 DEF IsLatest, SinceThen
    <3>4. Covers(r, t, o)
      BY <1>1, <2>2, <3>2, <3>3 DEF Covers
    <3> QED
      BY <3>4
  <2> QED
    BY <2>1, <2>2
<1>6. ASSUME NEW u \in rs
      PROVE  /\ l2[u.id] # None => u.start < l2[u.id].time
             /\ \E i \in DOMAIN a : \E o \in Seen(a, i, n, 0) : u.id \in DOMAIN o.values /\ o.time = u.start
  <2>1. CASE u.id = s
    BY <2>1 DEF AllStored
  <2>2. CASE u.id # s
    BY <2>2 DEF AllStored
  <2> QED
    BY <2>1, <2>2
<1>7. \E i \in DOMAIN a : \E o \in Seen(a, i, n, 0) : r.id \in DOMAIN o.values /\ o.time = r.start
  <2>1. PICK f \in ToSet(a) : \E o \in ToSet(f.packets) : s \in DOMAIN o.values /\ o.time = l[s].time
    BY DEF IsSample
  <2>2. PICK o \in ToSet(f.packets) : s \in DOMAIN o.values /\ o.time = l[s].time
    BY <2>1
  <2>3. o \in SamplesOf(a, s)
    BY <2>1, <2>2 DEF SamplesOf
  <2>4. PICK i \in DOMAIN a : o \in ToSet(a[i].packets)
    BY <2>3, SampleFiles
  <2>5. i <= n
    <3> SUFFICES ASSUME n < i PROVE FALSE
      BY <1>2
    <3>1. q \in ToSet(a[m].packets) /\ q.time \in Nat
      BY <1>3, <1>4, SeenPacket
    <3>2. Precedes(q, o)
      <4>1. m < i
        BY <1>2, <1>4
      <4>2. \A v, w \in DOMAIN a : v < w =>
               \A x \in ToSet(a[v].packets), y \in ToSet(a[w].packets) : Precedes(x, y)
        BY PacketOrder
      <4> QED
        BY <1>4, <2>4, <3>1, <4>1, <4>2
    <3>3. s \in DOMAIN q.values /\ l[s].time <= q.time
      BY <1>3 DEF IsLatest
    <3> QED
      BY <2>2, <3>1, <3>2, <3>3 DEF Precedes
  <2>6. o \in Seen(a, i, n, 0)
    BY <1>2, <2>4, <2>5, SeenBetween
  <2> QED
    BY <1>1, <2>2, <2>6
<1>8. AllStored(a, rs \cup {r}, l2, n, 0)
  BY <1>1, <1>5, <1>6, <1>7 DEF AllStored
<1>9. ASSUME NEW u \in rs PROVE ~SameKey(r, u)
  <2> SUFFICES ASSUME u.id = s /\ u.start = l[s].time PROVE FALSE
    BY <1>1 DEF SameKey
  <2>1. u.start < l[s].time
    BY DEF AllStored
  <2> QED
    BY <2>1
<1> QED
  BY <1>8, <1>9

LEMMA FinishSignalStep ==
    ASSUME Ordered, FinishSignal
    PROVE  SpansInv' /\ PositionInv'
<1> USE DEF Ordered, IInv
<1>1. /\ UNCHANGED <<archive, written, transaction, todo, read, prevEnd, odd, pc, resume>>
      /\ pc = "finish"
  BY DEF FinishSignal, environment, history
<1>2. PICK s \in Signals :
        last[s] # None /\ Store({Until(s, prevEnd)}) /\ last' = [last EXCEPT ![s] = None]
  BY DEF FinishSignal
<1> DEFINE r == Until(s, prevEnd)
<1>3. /\ last[s].time \in Nat /\ prevEnd \in Int /\ fresh \in BOOLEAN
      /\ last'[s] = None /\ \A t : t # s => last'[t] = last[t]
  BY <1>2 DEF TypeOK
<1>4. /\ r = [id |-> s, start |-> last[s].time, end |-> prevEnd, value |-> last[s].value]
      /\ r.id = s /\ r.start = last[s].time /\ r.end = prevEnd /\ r.value = last[s].value
  BY DEF Until
<1> HIDE DEF r
<1>5. /\ Inserted \subseteq Inserted' /\ Inserted' \subseteq Inserted \cup {r}
      /\ fresh' => fresh /\ ((\A q \in Inserted : ~SameKey(r, q)) => r \in Inserted')
  BY <1>2, <1>3, StoreInserted DEF r
<1>6. PICK n \in 0..Len(archive) : Position(n)
  BY <1>1 DEF PositionInv
<1>7. (Whole(n) \/ GivenAlone(n)) /\ Between(n)
  BY <1>1, <1>6 DEF Position
<1>8. last # NoLast
  BY <1>2 DEF NoLast
<1>9. /\ EndedAt(n) /\ KeptAll(archive, last, n, 0, n)
      /\ n > 0 /\ prevEnd <= CapturedUntil(archive[n])
      /\ \A i \in 1..n : \A p \in ToSet(archive[i].packets) : p.time <= prevEnd
  BY <1>7, <1>8 DEF Between, EndedAt
<1>10. archive \in Archives /\ n \in DOMAIN archive
  BY <1>9, FileOrder
<1>11. KeptAt(archive, last[s], s, n, 0, n)
  BY <1>2, <1>9 DEF KeptAll
<1>12. GoodSpan(archive, r)
  BY <1>3, <1>4, <1>9, <1>10, <1>11, SpanFinished
<1>13. SpansInv'
  <2>1. r.id = s /\ r.start = last[s].time
    BY <1>4
  <2>2. "single" \notin odd => NewAt(archive, r.id, r.start)
    BY <1>2, <2>1 DEF SpansInv
  <2>3. "single" \notin odd => \A t \in Signals : last'[t] # None => NewAt(archive, t, last'[t].time)
    BY <1>3 DEF SpansInv
  <2>4. /\ \A u \in {r} : GoodSpan(archive, u)
        /\ "single" \notin odd => \A u \in {r} : NewAt(archive, u.id, u.start)
    BY <1>12, <2>2
  <2> DEFINE rs == {r}
  <2> HIDE DEF rs
  <2>5. Inserted' \subseteq Inserted \cup rs
    BY <1>5 DEF rs
  <2>6. /\ \A u \in rs : GoodSpan(archive, u)
        /\ "single" \notin odd => \A u \in rs : NewAt(archive, u.id, u.start)
    BY <2>4 DEF rs
  <2> QED
    BY <1>1, <2>3, <2>5, <2>6, SpansMore
<1>14. (Whole(n) \/ GivenAlone(n))'
  BY <1>1, <1>5, <1>7, <1>8 DEF Whole, GivenAlone
<1>15. EndedAt(n)'
  BY <1>1, <1>8, <1>9 DEF EndedAt
<1>16. KeptAll(archive, last', n, 0, n)
  BY <1>3, <1>9 DEF KeptAll
<1>17. fresh' => Stored(n, 0)'
  <2> SUFFICES ASSUME fresh' PROVE Stored(n, 0)'
    OBVIOUS
  <2>1. AllStored(archive, Inserted, last, n, 0)
    BY <1>1, <1>5, <1>7 DEF Between, Stored
  <2>2. IsSample(archive, s, last[s].time, last[s].value)
    BY <1>2 DEF Kept_OK
  <2>3. AllStored(archive, Inserted \cup {r}, last', n, 0) /\ \A q \in Inserted : ~SameKey(r, q)
    <3>1. /\ \A i \in 1..n : \A p \in ToSet(archive[i].packets) : p.time <= r.end
          /\ r.end \in Int
      BY <1>3, <1>4, <1>9
    <3>2. last[r.id] # None /\ last[r.id].time \in Nat /\ r.start = last[r.id].time /\ r.value = last[r.id].value
      BY <1>2, <1>3, <1>4
    <3>3. KeptAt(archive, last[r.id], r.id, n, 0, n) /\ IsSample(archive, r.id, r.start, r.value)
      BY <1>4, <1>11, <2>2
    <3>4. last'[r.id] = None /\ \A t : t # r.id => last'[t] = last[t]
      BY <1>3, <1>4
    <3>5. Finishes(archive, n, last, r, last')
      BY <3>1, <3>2, <3>3, <3>4 DEF Finishes
    <3> HIDE DEF Ordered, IInv
    <3> QED
      BY <1>10, <2>1, <3>5, StoredFinished
  <2>4. Inserted' = Inserted \cup {r}
    BY <1>5, <2>3
  <2> QED
    BY <1>1, <2>3, <2>4 DEF Stored
<1>18. Between(n)'
  BY <1>1, <1>5, <1>7, <1>15, <1>16, <1>17 DEF Between
<1>19. Position(n)'
  BY <1>1, <1>14, <1>18 DEF Position
<1> QED
  BY <1>1, <1>6, <1>13, <1>19 DEF PositionInv

(* The program ends, and leaves no interval but those that are committed. *)
LEMMA EndStep ==
    ASSUME Ordered, NEW done, End(done)
    PROVE  SpansInv' /\ PositionInv'
<1>1. UNCHANGED <<archive, odd>> /\ last' = NoLast /\ pc' = "none"
  BY DEF End, environment
<1>2. SpansInv'
  BY <1>1, EndInserted, SpansSame DEF Ordered
<1> QED
  BY <1>1, <1>2 DEF PositionInv

-----------------------------------------------------------------------------
(* Samples of a signal are told apart by their times. *)
LEMMA SampleTime ==
    ASSUME NEW a \in Archives, NEW s, NEW p \in SamplesOf(a, s), NEW q \in SamplesOf(a, s),
           p.time = q.time
    PROVE  p = q
<1>1. s \in DOMAIN p.values /\ s \in DOMAIN q.values
  BY SampleFiles
<1>2. PICK m \in DOMAIN a : p \in ToSet(a[m].packets)
  BY SampleFiles
<1>3. PICK n \in DOMAIN a : q \in ToSet(a[n].packets)
  BY SampleFiles
<1>4. DOMAIN a \subseteq Nat /\ p.time \in Nat /\ q.time \in Nat
  BY <1>2, <1>3, ArchiveOrder, FilePackets
<1>5. ~Precedes(p, q) /\ ~Precedes(q, p)
  BY <1>1, <1>4 DEF Precedes
<1>6. m = n
  <2>1. ~(m < n) /\ ~(n < m)
    BY <1>2, <1>3, <1>5, PacketOrder
  <2> QED
    BY <1>4, <2>1
<1>7. PICK i \in 1..Len(a[m].packets) : p = a[m].packets[i]
  BY <1>2, FilePackets
<1>8. PICK j \in 1..Len(a[m].packets) : q = a[m].packets[j]
  BY <1>3, <1>6, FilePackets
<1>9. ~(i < j) /\ ~(j < i)
  BY <1>5, <1>7, <1>8, PacketOrder
<1> QED
  BY <1>7, <1>8, <1>9

(* What signal_extractor_extract keeps of a signal. *)
LEMMA KeptCases ==
    ASSUME NEW p, NEW s \in Signals
    PROVE  /\ s \notin DOMAIN p.values => Kept(p)[s] = last[s]
           /\ s \in DOMAIN p.values =>
                 IF last[s] # None /\ last[s].value = p.values[s] THEN Kept(p)[s] = last[s]
                 ELSE Kept(p)[s] = [time |-> p.time, value |-> p.values[s]]
BY DEF Kept, Changed

LEMMA ExtractStep ==
    ASSUME Ordered, Extract
    PROVE  SpansInv' /\ PositionInv'
<1> USE DEF Ordered, IInv
<1> DEFINE p == Packets[read + 1]
           new(s) == [time |-> p.time, value |-> p.values[s]]
<1>1. /\ UNCHANGED <<archive, written, transaction, todo, prevEnd, odd, pc, resume>>
      /\ pc = "read" /\ read < Len(Packets) /\ read' = read + 1
      /\ Store(Ended(p)) /\ last' = Kept(p) /\ todo # <<>>
  BY DEF Extract, environment, history, TypeOK
<1>2. PICK n \in 0..Len(archive) : Position(n)
  BY <1>1 DEF PositionInv
<1>3. (Whole(n) \/ GivenAlone(n)) /\ Within(n)
  BY <1>1, <1>2 DEF Position
<1>4. archive \in Archives /\ n \in Nat /\ n + 1 \in DOMAIN archive /\ Packets = archive[n + 1].packets
  BY <1>1, <1>3, FileRead
<1>5. Coming(archive, n, read, p) /\ Packets \in Seq(Packet) /\ read \in Nat
  BY <1>1, <1>4, HeadPackets DEF Coming, TypeOK
<1>6. p \in Packet
  BY <1>1, <1>5
<1> HIDE DEF p
<1>7. /\ p.time \in Nat /\ DOMAIN p.values \subseteq Signals
      /\ fresh \in BOOLEAN /\ \A s \in Signals : last[s] # None => last[s].time \in Nat
  BY <1>6, PacketValues DEF TypeOK
<1>8. /\ KeptAll(archive, last, n, read, n + 1)
      /\ "single" \notin odd => NoneAll(archive, last, n, read, n + 1)
      /\ fresh => AllStored(archive, Inserted, last, n, read)
  BY <1>3 DEF Within, Stored
<1>9. ASSUME NEW s \in Signals
      PROVE  /\ s \notin DOMAIN p.values => last'[s] = last[s]
             /\ s \in DOMAIN p.values /\ last[s] # None /\ last[s].value = p.values[s] => last'[s] = last[s]
             /\ s \in DOMAIN p.values /\ ~(last[s] # None /\ last[s].value = p.values[s]) =>
                    last'[s].time = p.time /\ last'[s].value = p.values[s]
             /\ s \in DOMAIN p.values => last'[s] # None
  <2>1. new(s) # None /\ new(s).time = p.time /\ new(s).value = p.values[s]
    <3>1. p.time # -1
      BY <1>7
    <3> QED
      BY <3>1 DEF None
  <2> QED
    BY <1>1, <2>1, KeptCases
<1>10. ASSUME NEW s \in Signals, s \in DOMAIN p.values
       PROVE  /\ last[s] # None => KeptAt(archive, last[s], s, n, read, n + 1)
              /\ "single" \notin odd /\ last[s] = None => NoneAt(archive, s, n, read, n + 1)
  BY <1>8 DEF KeptAll, NoneAll
<1>11. KeptAll(archive, last', n, read + 1, n + 1)
  <2> SUFFICES ASSUME NEW s \in Signals, last'[s] # None
               PROVE  KeptAt(archive, last'[s], s, n, read + 1, n + 1)
    BY DEF KeptAll
  <2>1. CASE s \notin DOMAIN p.values
    <3>1. last'[s] = last[s] /\ KeptAt(archive, last[s], s, n, read, n + 1)
      BY <1>8, <1>9, <2>1 DEF KeptAll
    <3> QED
      BY <1>4, <1>5, <2>1, <3>1, KeptOther
  <2>2. CASE s \in DOMAIN p.values /\ last[s] # None /\ last[s].value = p.values[s]
    <3>1. last'[s] = last[s] /\ KeptAt(archive, last[s], s, n, read, n + 1) /\ last[s].time \in Nat
      BY <1>7, <1>9, <1>10, <2>2
    <3> QED
      BY <1>4, <1>5, <2>2, <3>1, KeptEqual
  <2>3. CASE s \in DOMAIN p.values /\ ~(last[s] # None /\ last[s].value = p.values[s])
    <3>1. last'[s].time = p.time /\ last'[s].value = p.values[s]
      BY <1>9, <2>3
    <3> QED
      BY <1>4, <1>5, <2>3, <3>1, KeptNew
  <2> QED
    BY <2>1, <2>2, <2>3
<1>12. "single" \notin odd => NoneAll(archive, last', n, read + 1, n + 1)
  <2> SUFFICES ASSUME "single" \notin odd, NEW s \in Signals, last'[s] = None
               PROVE  NoneAt(archive, s, n, read + 1, n + 1)
    BY DEF NoneAll
  <2>1. s \notin DOMAIN p.values /\ last[s] = None
    BY <1>9
  <2>2. NoneAt(archive, s, n, read, n + 1)
    BY <1>8, <2>1 DEF NoneAll
  <2> QED
    BY <1>4, <1>5, <2>1, <2>2, NoneOther
<1>13. ASSUME NEW r \in Ended(p)
       PROVE  /\ r.id \in Signals /\ r.id \in DOMAIN p.values /\ last[r.id] # None
              /\ last[r.id].value # p.values[r.id] /\ r = Until(r.id, p.time)
              /\ r.start = last[r.id].time /\ r.end = p.time /\ r.value = last[r.id].value
  <2>1. PICK s \in Changed(p) : r = Until(s, p.time)
    BY DEF Ended
  <2>2. s \in Signals /\ s \in DOMAIN p.values /\ last[s] # None /\ last[s].value # p.values[s]
    BY <1>7, <2>1 DEF Changed
  <2>3. r.id = s /\ r.start = last[s].time /\ r.end = p.time /\ r.value = last[s].value
    BY <2>1 DEF Until
  <2> QED
    BY <2>1, <2>2, <2>3
<1>14. \A r \in Ended(p) : GoodSpan(archive, r)
  <2> SUFFICES ASSUME NEW r \in Ended(p) PROVE GoodSpan(archive, r)
    OBVIOUS
  <2>1. r = [id |-> r.id, start |-> last[r.id].time, end |-> p.time, value |-> last[r.id].value]
    BY <1>13 DEF Until
  <2>2. r.id \in DOMAIN p.values /\ last[r.id].time \in Nat /\ KeptAt(archive, last[r.id], r.id, n, read, n + 1)
    BY <1>7, <1>10, <1>13
  <2> QED
    BY <1>4, <1>5, <2>1, <2>2, SpanChanged
<1>15. "single" \notin odd => \A r \in Ended(p) : NewAt(archive, r.id, r.start)
  BY <1>13 DEF SpansInv
<1>16. "single" \notin odd => \A s \in Signals : last'[s] # None => NewAt(archive, s, last'[s].time)
  <2> SUFFICES ASSUME "single" \notin odd, NEW s \in Signals, last'[s] # None
               PROVE  NewAt(archive, s, last'[s].time)
    OBVIOUS
  <2>1. CASE last'[s] = last[s]
    BY <2>1 DEF SpansInv
  <2>2. CASE last'[s] # last[s]
    <3>1. s \in DOMAIN p.values /\ ~(last[s] # None /\ last[s].value = p.values[s]) /\ last'[s].time = p.time
      BY <1>9, <2>2
    <3>2. ~Continues(archive, s, p)
      <4>1. CASE last[s] = None
        BY <1>4, <1>5, <1>10, <3>1, <4>1, NewWhenUnknown
      <4>2. CASE last[s] # None
        <5>1. last[s].value # p.values[s] /\ last[s].time \in Nat /\ KeptAt(archive, last[s], s, n, read, n + 1)
          BY <1>7, <1>10, <3>1, <4>2
        <5> QED
          BY <1>4, <1>5, <3>1, <5>1, NewWhenChanged
      <4> QED
        BY <4>1, <4>2
    <3>3. p \in SamplesOf(archive, s)
      BY <1>4, <1>5, <3>1, NextPacket, SampleFiles
    <3>4. \A q \in SamplesOf(archive, s) : q.time = p.time => q = p
      BY <1>4, <3>3, SampleTime
    <3> QED
      BY <3>1, <3>2, <3>4 DEF NewAt
  <2> QED
    BY <2>1, <2>2
<1>17. /\ Inserted \subseteq Inserted' /\ Inserted' \subseteq Inserted \cup Ended(p)
       /\ fresh' => fresh /\ \A r \in Ended(p) : (\A q \in Inserted : ~SameKey(r, q)) => r \in Inserted'
  BY <1>1, <1>7, StoreInserted
<1>18. SpansInv'
  BY <1>1, <1>14, <1>15, <1>16, <1>17, SpansMore
<1>19. fresh' => AllStored(archive, Inserted', last', n, read + 1)
  <2> SUFFICES ASSUME fresh' PROVE AllStored(archive, Inserted', last', n, read + 1)
    OBVIOUS
  <2>1. fresh /\ AllStored(archive, Inserted, last, n, read)
    BY <1>8, <1>17
  <2>2. \A r \in Inserted : /\ last[r.id] # None => r.start < last[r.id].time
                            /\ \E i \in DOMAIN archive : \E q \in Seen(archive, i, n, read) :
                                   r.id \in DOMAIN q.values /\ q.time = r.start
    BY <2>1 DEF AllStored
  <2>3. Ended(p) \subseteq Inserted'
    <3> SUFFICES ASSUME NEW r \in Ended(p), NEW q \in Inserted, SameKey(r, q) PROVE FALSE
      BY <1>17, <2>1
    <3>1. q.id = r.id /\ q.start = last[r.id].time /\ last[q.id] # None
      BY <1>13 DEF SameKey
    <3>2. q.start < q.start /\ q.start \in Nat
      BY <1>7, <1>13, <2>2, <3>1
    <3> QED
      BY <3>2
  <2>4. ASSUME NEW s \in Signals, s \in DOMAIN p.values, last[s] # None
        PROVE  /\ last[s].time \in Nat /\ last[s].time < p.time
               /\ \A i \in DOMAIN archive : \A o \in Seen(archive, i, n, read) :
                     s \in DOMAIN o.values => SinceThen(archive, last[s], s, o)
    <3>1. KeptAt(archive, last[s], s, n, read, n + 1)
      BY <1>10, <2>4
    <3>2. PICK m, q : /\ m \in DOMAIN archive /\ q \in Seen(archive, m, n, read)
                      /\ IsLatest(archive, last[s], s, n, read, q) /\ q.time < p.time
      BY <1>4, <1>5, <2>4, <3>1, KeptLatest
    <3>3. q.time \in Nat /\ last[s].time \in Nat /\ last[s].time <= q.time
      BY <1>4, <1>7, <2>4, <3>2, SeenPacket DEF IsLatest
    <3> QED
      BY <1>7, <3>2, <3>3 DEF IsLatest
  <2>5. ASSUME NEW i \in DOMAIN archive, NEW q \in Seen(archive, i, n, read + 1), NEW s \in DOMAIN q.values
        PROVE  \/ \E r \in Inserted' : Covers(r, s, q)
               \/ last'[s] # None /\ last'[s].time <= q.time
    <3>1. CASE q = p
      <4>1. s \in Signals /\ s \in DOMAIN p.values
        BY <1>7, <2>5, <3>1
      <4>2. last'[s] # None /\ ((last'[s] = last[s] /\ last[s] # None) \/ last'[s].time = p.time)
        BY <1>9, <4>1
      <4> QED
        BY <1>7, <2>4, <3>1, <4>1, <4>2
    <3>2. CASE q \in Seen(archive, i, n, read)
      <4>1. (\E r \in Inserted : Covers(r, s, q)) \/ (last[s] # None /\ last[s].time <= q.time)
        BY <2>1, <2>5, <3>2 DEF AllStored
      <4>2. s \in Signals
        BY <1>4, <2>5, SeenPacket, PacketValues
      <4>3. CASE \E r \in Inserted : Covers(r, s, q)
        BY <1>17, <4>3
      <4>4. CASE last[s] # None /\ last[s].time <= q.time /\ last'[s] = last[s]
        BY <4>4
      <4>5. CASE last[s] # None /\ last[s].time <= q.time /\ last'[s] # last[s]
        <5>1. s \in DOMAIN p.values /\ last[s].value # p.values[s]
          BY <1>9, <4>2, <4>5
        <5>2. Until(s, p.time) \in Ended(p)
          BY <4>5, <5>1 DEF Ended, Changed
        <5>3. q.values[s] = last[s].value
          BY <2>4, <2>5, <3>2, <4>2, <4>5, <5>1 DEF SinceThen
        <5>4. q.time <= p.time
          BY <1>4, <1>5, <2>5, <3>2, NextPacket DEF Precedes
        <5>5. Covers(Until(s, p.time), s, q)
          BY <4>5, <5>3, <5>4 DEF Covers, Until
        <5> QED
          BY <2>3, <5>2, <5>5
      <4> QED
        BY <4>1, <4>3, <4>4, <4>5
    <3> QED
      BY <1>4, <1>5, <2>5, <3>1, <3>2, NextPacket
  <2>6. ASSUME NEW r \in Inserted'
        PROVE  /\ last'[r.id] # None => r.start < last'[r.id].time
               /\ \E i \in DOMAIN archive : \E q \in Seen(archive, i, n, read + 1) :
                      r.id \in DOMAIN q.values /\ q.time = r.start
    <3>1. r \in Inserted \/ r \in Ended(p)
      BY <1>17
    <3>2. CASE r \in Inserted
      <4>1. PICK i \in DOMAIN archive : \E q \in Seen(archive, i, n, read) :
                r.id \in DOMAIN q.values /\ q.time = r.start
        BY <2>2, <3>2
      <4>2. PICK q \in Seen(archive, i, n, read) : r.id \in DOMAIN q.values /\ q.time = r.start
        BY <4>1
      <4>3. q \in Seen(archive, i, n, read + 1)
        BY <1>4, <1>5, <4>1, <4>2, NextPacket
      <4>4. r.id \in Signals
        BY <1>4, <4>1, <4>2, SeenPacket, PacketValues
      <4>5. CASE last'[r.id] = last[r.id]
        BY <2>2, <3>2, <4>2, <4>3, <4>5
      <4>6. CASE last'[r.id] # last[r.id]
        <5>1. r.id \in DOMAIN p.values /\ last'[r.id].time = p.time
          BY <1>9, <4>4, <4>6
        <5>2. q.time < p.time
          BY <1>4, <1>5, <4>1, <4>2, <5>1, SeenOlder
        <5> QED
          BY <4>2, <4>3, <5>1, <5>2
      <4> QED
        BY <4>5, <4>6
    <3>3. CASE r \in Ended(p)
      <4>1. /\ r.id \in Signals /\ r.id \in DOMAIN p.values /\ last[r.id] # None
            /\ last[r.id].value # p.values[r.id] /\ r.start = last[r.id].time
        BY <1>13, <3>3
      <4>2. last'[r.id].time = p.time /\ r.start < p.time
        BY <1>9, <2>4, <4>1
      <4>3. IsSample(archive, r.id, r.start, last[r.id].value)
        BY <4>1 DEF Kept_OK
      <4>4. PICK f \in ToSet(archive) : \E o \in ToSet(f.packets) : r.id \in DOMAIN o.values /\ o.time = r.start
        BY <4>3 DEF IsSample
      <4>5. PICK o \in ToSet(f.packets) : r.id \in DOMAIN o.values /\ o.time = r.start
        BY <4>4
      <4>6. o \in SamplesOf(archive, r.id)
        BY <4>4, <4>5 DEF SamplesOf
      <4>7. PICK i \in DOMAIN archive : o \in ToSet(archive[i].packets)
        BY <1>4, <4>6, SampleFiles
      <4>8. o \in Seen(archive, i, n, read)
        BY <1>4, <1>5, <4>2, <4>5, <4>7, OlderSeen
      <4>9. o \in Seen(archive, i, n, read + 1)
        BY <1>4, <1>5, <4>7, <4>8, NextPacket
      <4> QED
        BY <4>2, <4>5, <4>7, <4>9
    <3> QED
      BY <3>1, <3>2, <3>3
  <2> QED
    BY <2>5, <2>6 DEF AllStored
<1>20. (Whole(n) \/ GivenAlone(n))'
  BY <1>1, <1>3, <1>17 DEF Whole, GivenAlone
<1>21. prevEnd' = Head(todo').end /\ read' <= Len(Packets')
  <2>1. Packets' = Packets
    BY <1>1 DEF Packets
  <2> QED
    BY <1>1, <1>3, <1>5, <2>1 DEF Within
<1>22. Within(n)'
  BY <1>1, <1>11, <1>12, <1>19, <1>21 DEF Within, Stored
<1>23. Position(n)'
  BY <1>1, <1>20, <1>22 DEF Position
<1> QED
  BY <1>1, <1>2, <1>18, <1>23 DEF PositionInv

LEMMA CommitStep ==
    ASSUME Ordered, Commit, Regular'
    PROVE  SpansInv' /\ PositionInv'
<1> USE DEF Ordered, IInv
<1>1. /\ UNCHANGED <<archive, written, last, resume>>
      /\ pc = "read" /\ read = Len(Packets) /\ pc' = "file" /\ todo' = Tail(todo) /\ todo # <<>>
      /\ odd \subseteq odd' /\ (CommitOk \/ CommitLost \/ CommitOpen)
  BY DEF Commit, environment, TypeOK
<1>2. /\ Inserted' \subseteq Inserted
      /\ fresh' => fresh /\ Inserted' = Inserted /\ ~transaction'
  BY <1>1, CommitInserted DEF CommitOk, CommitLost, CommitOpen
<1>3. SpansInv'
  BY <1>1, <1>2, SpansSame
<1>4. PICK n \in 0..Len(archive) : Position(n)
  BY <1>1 DEF PositionInv
<1>5. (Whole(n) \/ GivenAlone(n)) /\ Within(n)
  BY <1>1, <1>4 DEF Position
<1>6. /\ archive \in Archives /\ n \in Nat /\ n + 1 \in DOMAIN archive /\ Packets = archive[n + 1].packets
      /\ Whole(n) => Head(todo) = archive[n + 1]
      /\ ~Whole(n) => Head(todo).end = 0 /\ todo = <<Head(todo)>> /\ "single" \in odd /\ ~fresh
  BY <1>1, <1>5, FileRead
<1> DEFINE c == n + 1
<1>7. /\ c \in DOMAIN archive /\ c \in 1..Len(archive) /\ c \in Nat /\ c > 0
      /\ CapturedUntil(archive[c]) \in Nat /\ archive[c].end \in Nat
      /\ archive[c].end <= CapturedUntil(archive[c])
  BY <1>6, ArchiveOrder, CaptureEnd
<1>8. /\ prevEnd = Head(todo).end /\ KeptAll(archive, last, n, Len(archive[c].packets), c)
      /\ "single" \notin odd => NoneAll(archive, last, n, Len(archive[c].packets), c)
      /\ fresh => AllStored(archive, Inserted, last, n, Len(archive[c].packets))
  BY <1>1, <1>5, <1>6 DEF Within, Stored
<1>9. Packets # <<>>
  <2>1. "stale" \notin odd'
    BY DEF Regular
  <2> QED
    BY <2>1 DEF Commit
<1> DEFINE t == Packets[Len(Packets)].time
<1>10. prevEnd' = IF t > prevEnd THEN t ELSE prevEnd
  BY <1>9 DEF Commit, LastTimes, EndAt, Last
<1>11. /\ t \in Nat /\ t <= CapturedUntil(archive[c])
       /\ \A p \in ToSet(archive[c].packets) : p.time \in Nat /\ p.time <= t
  <2> DEFINE P == archive[c].packets
  <2>1. /\ Len(P) \in Nat /\ \A i \in 1..Len(P) : P[i] \in ToSet(P)
        /\ \A p \in ToSet(P) : p.time \in Nat /\ \E i \in 1..Len(P) : p = P[i]
    <3>1. c \in DOMAIN archive /\ archive \in Archives
      BY <1>6, <1>7
    <3> HIDE DEF c
    <3>2. /\ Len(archive[c].packets) \in Nat
          /\ \A i \in 1..Len(archive[c].packets) : archive[c].packets[i] \in ToSet(archive[c].packets)
          /\ \A p \in ToSet(archive[c].packets) :
                 p.time \in Nat /\ \E i \in 1..Len(archive[c].packets) : p = archive[c].packets[i]
      BY <3>1, FilePackets
    <3> QED
      BY <3>2
  <2>2. \A i, j \in 1..Len(P) : i < j => Precedes(P[i], P[j])
    BY <1>6, <1>7, PacketOrder
  <2>3. P \in Seq(Packet) /\ P = Packets
    BY <1>6, <1>7, ArchiveOrder
  <2>4. Len(P) \in 1..Len(P)
    BY <1>9, <2>1, <2>3
  <2>5. t = P[Len(P)].time
    BY <2>3
  <2>6. P[Len(P)] \in ToSet(P)
    BY <2>1, <2>4
  <2>7. t \in Nat /\ t <= CapturedUntil(archive[c])
    BY <1>6, <1>7, <2>1, <2>5, <2>6, CaptureEnd
  <2> HIDE DEF t, P
  <2>8. ASSUME NEW p \in ToSet(P) PROVE p.time <= t
    <3>1. PICK i \in 1..Len(P) : p = P[i]
      BY <2>1
    <3>2. i = Len(P) \/ i < Len(P)
      BY <2>1
    <3>3. CASE i = Len(P)
      BY <2>5, <2>7, <3>1, <3>3
    <3>4. CASE i < Len(P)
      BY <2>2, <2>4, <2>5, <3>1, <3>4 DEF Precedes
    <3> QED
      BY <3>2, <3>3, <3>4
  <2> QED
    BY <2>1, <2>7, <2>8 DEF P
<1>12. \A i \in 1..c : \A p \in ToSet(archive[i].packets) : p.time <= t
  <2> SUFFICES ASSUME NEW i \in 1..c, NEW p \in ToSet(archive[i].packets) PROVE p.time <= t
    OBVIOUS
  <2>1. i \in DOMAIN archive /\ (i = c \/ i < c)
    BY <1>6, <1>7, ArchiveOrder
  <2>2. CASE i = c
    BY <1>11, <2>2
  <2>3. CASE i < c
    <3>1. PICK q \in ToSet(archive[c].packets) : t = q.time
      <4>1. Packets[Len(Packets)] \in ToSet(archive[c].packets)
        <5>1. Len(archive[c].packets) \in Nat /\ archive[c].packets \in Seq(Packet)
          BY <1>6, <1>7, FilePackets, ArchiveOrder
        <5>2. Len(archive[c].packets) \in 1..Len(archive[c].packets)
          BY <1>6, <1>9, <5>1
        <5> QED
          BY <1>6, <1>7, <5>2, FilePackets
      <4> QED
        BY <4>1
    <3>2. Precedes(p, q)
      BY <1>6, <1>7, <2>1, <2>3, PacketOrder
    <3> QED
      BY <3>1, <3>2 DEF Precedes
  <2> QED
    BY <2>1, <2>2, <2>3
<1> HIDE DEF t
<1>13. (Whole(c) \/ GivenAlone(c))'
  <2>1. CASE Whole(n)
    <3>1. /\ n + 1 <= written /\ ToSet(Tail(todo)) = {archive[j] : j \in (n + 2)..written}
          /\ \A i, j \in DOMAIN Tail(todo) :
                i < j => Lower(Tail(todo)[i].start) < Lower(Tail(todo)[j].start)
      BY <1>1, <1>6, <2>1, FirstOfRest
    <3>2. (n + 1) + 1 = n + 2
      BY <1>6
    <3> QED
      BY <1>1, <3>1, <3>2 DEF Whole
  <2>2. CASE ~Whole(n)
    <3>1. Tail(todo) = <<>>
      <4>1. Tail(<<Head(todo)>>) = <<>>
        OBVIOUS
      <4> QED
        BY <1>6, <2>2, <4>1
    <3> QED
      BY <1>1, <1>2, <1>6, <2>2, <3>1 DEF GivenAlone
  <2> QED
    BY <2>1, <2>2
<1>14. EndedAt(c)'
  <2>1. prevEnd \in Nat /\ prevEnd <= CapturedUntil(archive[c])
    BY <1>6, <1>7, <1>8
  <2>2. prevEnd' <= CapturedUntil(archive[c]) /\ t <= prevEnd' /\ prevEnd' \in Nat /\ prevEnd <= prevEnd'
    <3>1. CASE t > prevEnd
      BY <1>10, <1>11, <2>1, <3>1
    <3>2. CASE ~(t > prevEnd)
      BY <1>10, <1>11, <2>1, <3>2
    <3> QED
      BY <3>1, <3>2
  <2>3. \A i \in 1..c : \A p \in ToSet(archive[i].packets) : p.time <= prevEnd'
    <3> SUFFICES ASSUME NEW i \in 1..c, NEW p \in ToSet(archive[i].packets) PROVE p.time <= prevEnd'
      OBVIOUS
    <3>1. p.time <= t
      BY <1>12
    <3>2. p.time \in Nat
      BY <1>6, <1>7, ArchiveOrder, FilePackets
    <3> QED
      BY <1>11, <2>2, <3>1, <3>2
  <2>4. todo' # <<>> => prevEnd' = CapturedUntil(archive[c])
    <3> SUFFICES ASSUME todo' # <<>> PROVE prevEnd' = CapturedUntil(archive[c])
      OBVIOUS
    <3>1. Whole(n)
      <4> SUFFICES ASSUME ~Whole(n) PROVE FALSE
        OBVIOUS
      <4>1. Tail(<<Head(todo)>>) = <<>>
        OBVIOUS
      <4> QED
        BY <1>1, <1>6, <4>1
    <3>2. prevEnd = archive[c].end
      BY <1>6, <1>8, <3>1
    <3>3. CapturedUntil(archive[c]) <= prevEnd'
      <4>1. CASE CapturedUntil(archive[c]) = archive[c].end
        BY <2>2, <3>2, <4>1
      <4>2. CASE \E p \in ToSet(archive[c].packets) : CapturedUntil(archive[c]) = p.time
        BY <1>7, <2>3, <4>2
      <4> QED
        BY <1>6, <1>7, <4>1, <4>2, CaptureEnd
    <3> QED
      BY <1>7, <2>2, <3>3
  <2> HIDE DEF c
  <2> QED
    BY <1>1, <1>7, <2>2, <2>3, <2>4 DEF EndedAt
<1>15. KeptAll(archive, last, c, 0, c)
  BY <1>6, <1>8, KeptWholeFile DEF KeptAll
<1>16. "single" \notin odd => NoneAll(archive, last, c, 0, c)
  BY <1>6, <1>8, NoneWholeFile DEF NoneAll
<1>17. fresh' => AllStored(archive, Inserted', last', c, 0)
  BY <1>1, <1>2, <1>6, <1>8, WholeFileSeen DEF AllStored
<1> HIDE DEF c
<1>18. Between(c)'
  BY <1>1, <1>2, <1>14, <1>15, <1>16, <1>17 DEF Between, Stored
<1>19. Position(c)' /\ c \in 0..Len(archive)
  BY <1>1, <1>7, <1>13, <1>18 DEF Position
<1> QED
  BY <1>1, <1>3, <1>19 DEF PositionInv

-----------------------------------------------------------------------------
(* What a run that went well covers: all the files that there were. *)
LEMMA RunCovers ==
    ASSUME Ordered, FinishEnd, fresh,
           NEW f \in {archive[n] : n \in 1..written}, NEW p \in ToSet(f.packets), NEW s \in DOMAIN p.values
    PROVE  \E r \in values : r.id = s /\ r.value = p.values[s] /\ r.start <= p.time /\ p.time <= r.end
<1> USE DEF Ordered, IInv
<1>1. pc = "finish" /\ resume = "end" /\ last = NoLast
  BY DEF FinishEnd, Finished
<1>2. PICK n \in 0..Len(archive) : Position(n)
  BY <1>1 DEF PositionInv
<1>3. Whole(n) /\ Between(n)
  BY <1>1, <1>2 DEF Position, GivenAlone
<1>4. todo = <<>> /\ ~transaction /\ AllStored(archive, Inserted, last, n, 0)
  BY <1>1, <1>3 DEF Between, Stored
<1>5. Inserted = values
  BY <1>4 DEF Inserted, TypeOK
<1>6. archive \in Archives /\ written \in Nat /\ n \in Nat /\ \A j \in 1..written : j \in DOMAIN archive
  BY FileOrder
<1>7. written <= n
  <2>1. ToSet(todo) = {}
    BY <1>4 DEF ToSet
  <2>2. \A j \in (n + 1)..written : FALSE
    BY <1>3, <2>1 DEF Whole
  <2> QED
    BY <1>6, <2>2
<1>8. PICK i \in 1..written : f = archive[i]
  OBVIOUS
<1>9. i \in DOMAIN archive /\ p \in Seen(archive, i, n, 0)
  BY <1>6, <1>7, <1>8, SeenBetween
<1>10. s \in Signals
  BY <1>6, <1>9, SeenPacket, PacketValues
<1>11. \E r \in values : Covers(r, s, p)
  BY <1>1, <1>4, <1>5, <1>9, <1>10 DEF AllStored, NoLast
<1> QED
  BY <1>11 DEF Covers

OInv == Regular => SpansInv /\ PositionInv /\ Covered

LEMMA InitOInv == Init => KeysInv /\ OInv
BY DEF Init, KeysInv, OInv, Inserted, SpansInv, PositionInv, Covered, NoLast

LEMMA NextOInv == IInv /\ KeysInv /\ OInv /\ [Next]_vars => OInv'
<1> SUFFICES ASSUME IInv, KeysInv, OInv, [Next]_vars, Regular'
             PROVE  SpansInv' /\ PositionInv' /\ Covered'
  BY DEF OInv
<1>1. UNCHANGED archive /\ odd \subseteq odd' /\ Ordered /\ Covered
  BY Irregular DEF OInv, Ordered
<1>2. SpansInv' /\ PositionInv'
  <2>1. CASE NewFile
    <3>1. pc' = "none" /\ Inserted' = Inserted /\ last' = last
      BY <2>1 DEF NewFile, tables, progress, Inserted
    <3>2. SpansInv'
      BY <1>1, <3>1, SpansSame DEF Ordered
    <3> QED
      BY <3>1, <3>2 DEF PositionInv
  <2>2. CASE FinishEnd \/ OpenFail \/ ReadFail \/ Kill
    <3>1. PICK done : End(done)
      BY <2>2 DEF FinishEnd, OpenFail, ReadFail, Kill
    <3> QED
      BY <1>1, <3>1, EndStep
  <2>3. CASE UNCHANGED vars
    <3>1. /\ UNCHANGED <<archive, written, values, pending, transaction, pc, resume>>
          /\ UNCHANGED <<todo, read, prevEnd, last, fresh, odd>>
      BY <2>3 DEF vars, environment, tables, progress, history
    <3>2. Inserted' = Inserted
      BY <3>1 DEF Inserted
    <3>3. SpansInv'
      BY <1>1, <3>1, <3>2, SpansSame DEF Ordered
    <3>4. \A n : Position(n)' = Position(n)
      BY <3>1, <3>2 DEF Position, Whole, GivenAlone, Between, EndedAt, AtOpen, Within, Stored, Packets
    <3>5. PositionInv'
      BY <1>1, <3>1, <3>4 DEF Ordered, PositionInv
    <3> QED
      BY <3>3, <3>5
  <2> QED
    BY <1>1, <2>1, <2>2, <2>3, BeginStep, RegisterStep, NextFileStep, LastFileStep, FinishSignalStep,
       FinishDoneStep, OpenStep, ExtractStep, CommitStep DEF Next
<1>3. Covered'
  <2>1. values \subseteq values'
    BY DEF Next, NewFile, Begin, Register, NextFile, LastFile, FinishSignal, FinishDone, FinishEnd,
           Open, OpenFail, Extract, ReadFail, Commit, Kill, End, Store, Insert, Start, Committed,
           CommitOk, CommitLost, CommitOpen, tables, vars
  <2>2. CASE FinishEnd /\ fresh
    <3>1. covered' = covered \cup {archive[n] : n \in 1..written}
      BY <2>2 DEF FinishEnd, End
    <3>2. \A f \in {archive[n] : n \in 1..written} : \A p \in ToSet(f.packets) : \A s \in DOMAIN p.values :
              \E r \in values :
                  r.id = s /\ r.value = p.values[s] /\ r.start <= p.time /\ p.time <= r.end
      BY <1>1, <2>2, RunCovers
    <3> QED
      BY <1>1, <2>1, <3>1, <3>2 DEF Covered, Ordered
  <2>3. CASE ~(FinishEnd /\ fresh)
    <3>1. covered' = covered
      BY <2>3 DEF Next, NewFile, Begin, Register, NextFile, LastFile, FinishSignal, FinishDone, FinishEnd,
           Open, OpenFail, Extract, ReadFail, Commit, Kill, End, history, vars
    <3> QED
      BY <1>1, <2>1, <3>1 DEF Covered, Ordered
  <2> QED
    BY <2>2, <2>3
<1> QED
  BY <1>2, <1>3

LEMMA OrderedInductive == Spec => [](IInv /\ KeysInv /\ OInv)
<1>1. IInv /\ KeysInv /\ OInv /\ [Next]_vars => (IInv /\ KeysInv /\ OInv)'
  BY NextIInv, NextKeys, NextOInv
<1> QED
  BY <1>1, InitIInv, InitOInv, PTL DEF Spec

(* A signal has its value throughout an interval that the callbacks of logger.c
   store: for all archives and signals, with any failures and kills, as long as
   the files are read in their order and no unset pointer is used. *)
THEOREM TrueThroughout == Spec => []HoldsValue
<1>1. IInv /\ KeysInv /\ OInv => HoldsValue
  BY DEF OInv, SpansInv, GoodSpan, HoldsValue, Inserted, Samples
<1> QED
  BY <1>1, OrderedInductive, PTL

(* finish_trace ends every interval before the capture does. *)
THEOREM OnlyCaptured == Spec => []WithinCapture
<1>1. IInv /\ KeysInv /\ OInv => WithinCapture
  BY DEF OInv, SpansInv, GoodSpan, Gapless, WithinCapture, Inserted
<1> QED
  BY <1>1, OrderedInductive, PTL

(* Where one interval of a signal starts, nothing goes on, so that no other goes
   over it; and two that start together have one key. *)
LEMMA NoneOver ==
    ASSUME IInv, KeysInv, OInv, Regular, "single" \notin odd,
           NEW r \in values, NEW q \in values, r.id = q.id, r # q
    PROVE  r.start # q.start /\ (r.end <= q.start \/ q.end <= r.start)
<1>1. values \subseteq Inserted /\ values \subseteq Interval /\ archive \in Archives
  BY DEF Inserted, IInv, TypeOK
<1>2. ASSUME NEW u \in values, NEW v \in values, u.id = v.id, u.start < v.start
      PROVE  u.end <= v.start
  <2> SUFFICES ASSUME v.start < u.end PROVE FALSE
    BY <1>1 DEF Interval
  <2>1. IsSample(archive, v.id, v.start, v.value)
    BY DEF IInv, FromSamples
  <2>2. PICK f \in ToSet(archive) : \E p \in ToSet(f.packets) : v.id \in DOMAIN p.values /\ p.time = v.start
    BY <2>1 DEF IsSample
  <2>3. PICK p \in ToSet(f.packets) : v.id \in DOMAIN p.values /\ p.time = v.start
    BY <2>2
  <2>4. p \in SamplesOf(archive, v.id)
    BY <2>2, <2>3 DEF SamplesOf
  <2>5. u.start \in Nat /\ v.start \in Nat
    BY <1>1 DEF Interval
  <2>6. Inside(u, p) /\ u.start < p.time
    BY <1>2, <2>3, <2>5 DEF Inside
  <2>7. Continues(archive, v.id, p)
    BY <1>1, <1>2, <2>4, <2>6 DEF OInv, SpansInv, GoodSpan
  <2>8. ~Continues(archive, v.id, p)
    BY <1>1, <2>3, <2>4 DEF OInv, SpansInv, NewAt
  <2> QED
    BY <2>7, <2>8
<1>3. r.start # q.start
  BY <1>1 DEF KeysInv, SameKey
<1>4. r.start < q.start \/ q.start < r.start
  <2>1. r.start \in Nat /\ q.start \in Nat
    BY <1>1 DEF Interval
  <2> QED
    BY <1>3, <2>1
<1> QED
  BY <1>2, <1>3, <1>4

(* The intervals of a signal are disjoint, however often the program is run on
   a growing archive and whatever fails. *)
THEOREM Disjoint == Spec => []NoOverlap
<1>1. IInv /\ KeysInv /\ OInv => NoOverlap
  BY NoneOver DEF NoOverlap
<1> QED
  BY <1>1, OrderedInductive, PTL

(* A run on an empty table in which no insert fails and that ends well has each
   sample of its files in an interval with its value. *)
THEOREM NothingLost == Spec => []Covered
<1>1. IInv /\ KeysInv /\ OInv => Covered
  BY DEF OInv, Covered
<1> QED
  BY <1>1, OrderedInductive, PTL
-----------------------------------------------------------------------------
(* What mod_logreader needs of the table besides: a signal has a finite number
   of intervals, and none of them ends before it starts. *)
OfSignal(rs, s) == {r \in rs : r.id = s}
LengthInv == Regular => \A r \in Inserted : r.start <= r.end
RowsInv ==
    /\ \A s \in Signals : IsFiniteSet(OfSignal(Inserted, s))
    /\ LengthInv

(* One interval of each signal at most is inserted at a time. *)
LEMMA MoreRows ==
    ASSUME RowsInv, NEW rs, Inserted' \subseteq Inserted \cup rs,
           \A r, q \in rs : r.id = q.id => r = q
    PROVE  \A s \in Signals : IsFiniteSet(OfSignal(Inserted', s))
<1> SUFFICES ASSUME NEW s \in Signals PROVE IsFiniteSet(OfSignal(Inserted', s))
  OBVIOUS
<1> DEFINE one == OfSignal(rs, s)
           before == OfSignal(Inserted, s)
<1>1. IsFiniteSet(one)
  <2>1. CASE one = {}
    BY <2>1, FS_EmptySet
  <2>2. CASE \E r : one = {r}
    BY <2>2, FS_Singleton
  <2>3. one = {} \/ \E r : one = {r}
    <3>1. \A r, q \in one : r = q
      BY DEF OfSignal
    <3> HIDE DEF one
    <3> QED
      BY <3>1
  <2> QED
    BY <2>1, <2>2, <2>3
<1>2. IsFiniteSet(before)
  BY DEF RowsInv
<1>3. OfSignal(Inserted', s) \subseteq before \cup one
  BY DEF OfSignal
<1> HIDE DEF before, one
<1>4. IsFiniteSet(before \cup one)
  BY <1>1, <1>2, FS_Union
<1> QED
  BY <1>3, <1>4, FS_Subset

(* An interval ends where the run is, later than all that has been read. *)
LEMMA ExtractLength ==
    ASSUME Ordered, Extract, NEW r \in Ended(Packets[read + 1])
    PROVE  r.start <= r.end
<1> USE DEF Ordered, IInv
<1> DEFINE p == Packets[read + 1]
<1>1. pc = "read" /\ read < Len(Packets) /\ todo # <<>>
  BY DEF Extract, TypeOK
<1>2. PICK n \in 0..Len(archive) : Position(n)
  BY <1>1 DEF PositionInv
<1>3. (Whole(n) \/ GivenAlone(n)) /\ Within(n)
  BY <1>1, <1>2 DEF Position
<1>4. archive \in Archives /\ n \in Nat /\ n + 1 \in DOMAIN archive /\ Packets = archive[n + 1].packets
  BY <1>1, <1>3, FileRead
<1>5. Coming(archive, n, read, p) /\ Packets \in Seq(Packet) /\ read \in Nat
  BY <1>1, <1>4, HeadPackets DEF Coming, TypeOK
<1>6. p \in Packet
  BY <1>1, <1>5
<1> HIDE DEF p
<1>7. PICK s \in Changed(p) : r = Until(s, p.time)
  BY DEF Ended, p
<1>8. s \in Signals /\ s \in DOMAIN p.values /\ last[s] # None /\ last[s].time \in Nat
  BY <1>6, <1>7, PacketValues DEF Changed, TypeOK
<1>9. KeptAt(archive, last[s], s, n, read, n + 1)
  BY <1>3, <1>8 DEF Within, KeptAll
<1>10. PICK m, q : /\ m \in DOMAIN archive /\ q \in Seen(archive, m, n, read)
                   /\ IsLatest(archive, last[s], s, n, read, q) /\ q.time < p.time
  BY <1>4, <1>5, <1>8, <1>9, KeptLatest
<1>11. q.time \in Nat /\ last[s].time <= q.time /\ p.time \in Nat
  BY <1>4, <1>6, <1>10, PacketValues, SeenPacket DEF IsLatest
<1>12. r.start = last[s].time /\ r.end = p.time
  BY <1>7 DEF Until
<1> QED
  BY <1>8, <1>10, <1>11, <1>12

LEMMA FinishLength ==
    ASSUME Ordered, pc = "finish", NEW s \in Signals, last[s] # None
    PROVE  last[s].time <= prevEnd
<1> USE DEF Ordered, IInv
<1>1. PICK n \in 0..Len(archive) : Position(n)
  BY DEF PositionInv
<1>2. Between(n)
  BY <1>1 DEF Position
<1>3. last # NoLast
  BY DEF NoLast
<1>4. /\ KeptAll(archive, last, n, 0, n) /\ n > 0
      /\ \A i \in 1..n : \A p \in ToSet(archive[i].packets) : p.time <= prevEnd
  BY <1>2, <1>3 DEF Between, EndedAt
<1>5. KeptAt(archive, last[s], s, n, 0, n)
  BY <1>4 DEF KeptAll
<1>6. PICK m, q : m \in 1..n /\ q \in Seen(archive, m, n, 0) /\ IsLatest(archive, last[s], s, n, 0, q)
  BY <1>5 DEF KeptAt
<1>7. archive \in Archives /\ DOMAIN archive = 1..Len(archive) /\ m \in DOMAIN archive
  BY <1>1, <1>4, <1>6, FileOrder
<1>8. q \in ToSet(archive[m].packets) /\ q.time \in Nat
  BY <1>6, <1>7, SeenPacket
<1>9. last[s].time <= q.time /\ q.time <= prevEnd
  BY <1>4, <1>6, <1>8 DEF IsLatest
<1>10. last[s].time \in Nat /\ prevEnd \in Int
  BY DEF TypeOK
<1> QED
  BY <1>8, <1>9, <1>10

LEMMA NextRows == IInv /\ KeysInv /\ OInv /\ RowsInv /\ [Next]_vars => RowsInv'
<1> SUFFICES ASSUME IInv, KeysInv, OInv, RowsInv, [Next]_vars PROVE RowsInv'
  OBVIOUS
<1>1. UNCHANGED archive /\ (Regular' => Regular) /\ fresh \in BOOLEAN
  BY Irregular DEF IInv, TypeOK
<1>2. Regular => Ordered
  BY DEF Ordered, OInv
<1>3. ASSUME NEW rs, Store(rs), \A r, q \in rs : r.id = q.id => r = q,
             Regular => \A r \in rs : r.start <= r.end
      PROVE  RowsInv'
  <2>1. Inserted' \subseteq Inserted \cup rs
    BY <1>1, <1>3, StoreInserted
  <2>2. \A s \in Signals : IsFiniteSet(OfSignal(Inserted', s))
    BY <1>3, <2>1, MoreRows
  <2>3. LengthInv'
    BY <1>1, <1>3, <2>1 DEF RowsInv, LengthInv
  <2> QED
    BY <2>2, <2>3 DEF RowsInv, OfSignal
<1>4. ASSUME Inserted' \subseteq Inserted PROVE RowsInv'
  <2> DEFINE rs == {}
  <2>1. Inserted' \subseteq Inserted \cup rs /\ \A r, q \in rs : r.id = q.id => r = q
    BY <1>4
  <2> HIDE DEF rs
  <2>2. \A s \in Signals : IsFiniteSet(OfSignal(Inserted', s))
    BY <2>1, MoreRows
  <2>3. LengthInv'
    BY <1>1, <1>4 DEF RowsInv, LengthInv
  <2> QED
    BY <2>2, <2>3 DEF RowsInv, OfSignal
<1>5. CASE FinishSignal
  <2>1. PICK s \in Signals : last[s] # None /\ Store({Until(s, prevEnd)})
    BY <1>5 DEF FinishSignal
  <2>2. Regular => last[s].time <= prevEnd
    BY <1>2, <1>5, <2>1, FinishLength DEF FinishSignal
  <2> QED
    BY <1>3, <2>1, <2>2 DEF Until
<1>6. CASE Extract
  <2> DEFINE p == Packets[read + 1]
  <2>1. Store(Ended(p))
    BY <1>6 DEF Extract
  <2>2. Regular => \A r \in Ended(p) : r.start <= r.end
    BY <1>2, <1>6, ExtractLength
  <2>3. \A r, q \in Ended(p) : r.id = q.id => r = q
    <3> HIDE DEF p
    <3> QED
      BY DEF Ended, Until
  <2> HIDE DEF p
  <2> QED
    BY <1>3, <2>1, <2>2, <2>3
<1>7. CASE NewFile \/ Begin \/ Register \/ NextFile \/ LastFile \/ FinishDone \/ UNCHANGED vars
  <2>1. Inserted' \subseteq Inserted
    BY <1>7 DEF NewFile, Begin, Register, NextFile, LastFile, FinishDone, vars, tables, Inserted
  <2> QED
    BY <1>4, <2>1
<1>8. CASE Open \/ Commit
  <2>1. Inserted' \subseteq Inserted
    BY <1>8, CommitInserted DEF Open, Commit
  <2> QED
    BY <1>4, <2>1
<1>9. CASE FinishEnd \/ OpenFail \/ ReadFail \/ Kill
  <2>1. PICK done : End(done)
    BY <1>9 DEF FinishEnd, OpenFail, ReadFail, Kill
  <2> QED
    BY <1>4, <2>1, EndInserted
<1> QED
  BY <1>5, <1>6, <1>7, <1>8, <1>9 DEF Next

LEMMA RowsInductive == Spec => [](IInv /\ KeysInv /\ OInv /\ RowsInv)
<1>1. Init => RowsInv
  <2> SUFFICES ASSUME Init PROVE RowsInv
    OBVIOUS
  <2>1. Inserted = {}
    BY DEF Init, Inserted
  <2>2. \A s : OfSignal(Inserted, s) = {}
    BY <2>1 DEF OfSignal
  <2> QED
    BY <2>1, <2>2, FS_EmptySet DEF RowsInv, LengthInv
<1>2. IInv /\ KeysInv /\ OInv /\ RowsInv /\ [Next]_vars => (IInv /\ KeysInv /\ OInv /\ RowsInv)'
  BY NextIInv, NextKeys, NextOInv, NextRows
<1> QED
  BY <1>1, <1>2, InitIInv, InitOInv, PTL DEF Spec

(* What mod_logreader answers of a signal to a request with these bounds. *)
LEMMA TableSaid ==
    ASSUME IInv, KeysInv, OInv, RowsInv, Regular, "single" \notin odd,
           NEW s \in Signals, NEW request, request.start \in Int, request.end \in Int,
           NEW t \in Int, Asks(t, request)
    PROVE  LET table == {r \in values : r.id = s}
           IN  ShownAt(t, Answer(table, request)) \in KnownAt(t, table, request)
<1> DEFINE table == {r \in values : r.id = s}
           V == Values \cup {Null, TooFast}
<1>1. table \subseteq OfSignal(Inserted, s) /\ IsFiniteSet(OfSignal(Inserted, s))
  BY DEF RowsInv, OfSignal, Inserted
<1>2. IsFiniteSet(table)
  <2> HIDE DEF table
  <2> QED
    BY <1>1, FS_Subset
<1>3. \A r \in table : r \in values /\ r \in Interval /\ r.id = s /\ r.start <= r.end
  BY DEF RowsInv, LengthInv, Inserted, IInv, TypeOK
<1>4. Apart(table)
  <2>1. \A r \in table : r.start \in Nat /\ r.end \in Int /\ r.start <= r.end
    BY <1>3 DEF Interval
  <2>2. \A r, q \in table : r # q => r.start # q.start /\ (r.end <= q.start \/ q.end <= r.start)
    BY <1>3, NoneOver
  <2> HIDE DEF table
  <2> QED
    BY <1>2, <2>1, <2>2 DEF Apart
<1>5. Null \in V /\ TooFast \in V /\ \A r \in table : r.value \in V
  BY <1>3 DEF Interval
<1> HIDE DEF table, V
<1>6. ShownAt(t, Answer(table, request)) \in KnownAt(t, table, request)
  BY <1>4, <1>5, AnswerSays
<1> QED
  BY <1>6 DEF table

(* do_select's answer to a request, at any time between two runs of signallogger
   and for any of the signals: what it says of a time is what the table does. *)
THEOREM AnswersTable == Spec => []ShowsTable
<1>1. IInv /\ KeysInv /\ OInv /\ RowsInv => ShowsTable
  <2> SUFFICES ASSUME IInv, KeysInv, OInv, RowsInv, Regular, "single" \notin odd,
                      NEW args \in Answered,
                      NEW s \in DOMAIN Object(args, registered, values),
                      NEW t \in Times(Window(args))
               PROVE  ShownAt(t, Object(args, registered, values)[s])
                          \in KnownAt(t, {r \in values : r.id = s}, Window(args))
    BY DEF ShowsTable
  <2>1. args \in Arguments(Signals)
    BY RequestsAssumption DEF Answered
  <2>2. Window(args).start \in Int /\ Window(args).end \in Int
    BY <2>1 DEF Arguments, Window, Given
  <2>3. t \in Int /\ Asks(t, Window(args))
    BY DEF Times, Asks
  <2>4. s \in Asked(args, registered) /\ s \in Signals
    BY DEF Object, Asked, IInv, TypeOK
  <2>5. Object(args, registered, values)[s] = Answer({r \in values : r.id = s}, Window(args))
    BY <2>4 DEF Object
  <2> QED
    BY <2>2, <2>3, <2>4, <2>5, TableSaid
<1> QED
  BY <1>1, RowsInductive, PTL

-----------------------------------------------------------------------------
(* Powers of two: the prover knows of 2^n only that it is the number of subsets of
   a set of n elements (FS_SUBSET). *)
LEMMA TwoTimes ==
    ASSUME NEW n \in Nat
    PROVE  2^n \in Nat \ {0} /\ 2^(n + 1) = 2 * 2^n
<1> DEFINE S == 1..n
           T == SUBSET S
           U == {A \cup {n + 1} : A \in T}
           f == [A \in T |-> A \cup {n + 1}]
<1>1. IsFiniteSet(S) /\ Cardinality(S) = n
  BY FS_Interval
<1>2. IsFiniteSet(T) /\ Cardinality(T) = 2^n
  BY <1>1, FS_SUBSET
<1>3. n + 1 \notin S
  OBVIOUS
<1>4. IsFiniteSet(1..(n + 1)) /\ Cardinality(1..(n + 1)) = n + 1
  BY FS_Interval
<1>5. IsFiniteSet(SUBSET (1..(n + 1))) /\ Cardinality(SUBSET (1..(n + 1))) = 2^(n + 1)
  BY <1>4, FS_SUBSET
<1>6. 1..(n + 1) = S \cup {n + 1}
  OBVIOUS
<1> HIDE DEF S
<1>7. SUBSET (1..(n + 1)) = T \cup U
  <2>1. ASSUME NEW A \in SUBSET (1..(n + 1)) PROVE A \in T \cup U
    <3>1. CASE n + 1 \in A
      <4>1. A \ {n + 1} \in T /\ A = (A \ {n + 1}) \cup {n + 1}
        BY <1>6, <3>1
      <4> QED
        BY <4>1
    <3>2. CASE n + 1 \notin A
      BY <1>6, <3>2
    <3> QED
      BY <3>1, <3>2
  <2>2. T \cup U \subseteq SUBSET (1..(n + 1))
    BY <1>6
  <2> QED
    BY <2>1, <2>2
<1>8. T \cap U = {}
  BY <1>3
<1>9. f \in Bijection(T, U)
  <2>1. f \in [T -> U] /\ \A B \in U : \E A \in T : f[A] = B
    OBVIOUS
  <2>2. ASSUME NEW A \in T, NEW B \in T, f[A] = f[B] PROVE A = B
    <3>1. A \cup {n + 1} = B \cup {n + 1} /\ n + 1 \notin A /\ n + 1 \notin B
      BY <1>3, <2>2
    <3> QED
      BY <3>1
  <2> HIDE DEF f, T, U
  <2> QED
    BY <2>1, <2>2, Fun_IsBij
<1>10. IsFiniteSet(U) /\ Cardinality(U) = Cardinality(T)
  <2>1. ExistsBijection(T, U)
    BY <1>9, Fun_ExistsBij
  <2> QED
    BY <1>2, <2>1, FS_Bijection
<1>11. Cardinality(T \cap U) = 0
  BY <1>8, FS_EmptySet
<1>12. {} \in T
  OBVIOUS
<1> HIDE DEF T, U
<1>13. Cardinality(T \cup U) = Cardinality(T) + Cardinality(U) - 0
  BY <1>2, <1>10, <1>11, FS_Union
<1>14. 2^n \in Nat /\ 2^n # 0
  BY <1>2, <1>12, FS_CardinalityType, FS_EmptySet
<1>15. 2^(n + 1) = 2^n + 2^n - 0
  BY <1>2, <1>5, <1>7, <1>10, <1>13
<1> QED
  BY <1>14, <1>15

LEMMA PowerOfZero == ASSUME NEW n, n = 0 PROVE 2^n = 1
OBVIOUS

LEMMA PowerOfSum ==
    ASSUME NEW n \in Nat, NEW m \in Nat
    PROVE  2^(n + m) = 2^n * 2^m
<1> DEFINE P == {k \in 0..m : 2^(n + k) = 2^n * 2^k}
<1>1. 0 \in P
  <2>1. 2^0 = 1 /\ n + 0 = n /\ 2^n \in Nat
    BY TwoTimes
  <2> QED
    BY <2>1
<1>2. ASSUME NEW k \in 0..(m - 1), k \in P PROVE k + 1 \in P
  <2>1. 2^(n + k + 1) = 2 * 2^(n + k) /\ 2^(k + 1) = 2 * 2^k
    BY TwoTimes
  <2>2. 2^(n + k) = 2^n * 2^k
    BY <1>2
  <2>3. 2^n \in Nat /\ 2^k \in Nat
    BY TwoTimes
  <2>4. 2 * (2^n * 2^k) = 2^n * (2 * 2^k)
    BY <2>3
  <2>5. n + k + 1 = n + (k + 1)
    OBVIOUS
  <2> QED
    BY <2>1, <2>2, <2>4, <2>5
<1>3. P = 0..m
  <2> HIDE DEF P
  <2>1. P \in SUBSET (0..m)
    BY DEF P
  <2> QED
    BY <1>1, <1>2, <2>1, Upward
<1> QED
  BY <1>3

LEMMA Power ==
    ASSUME NEW n \in Nat, NEW m \in Nat, n <= m
    PROVE  /\ 2^n \in Nat \ {0} /\ 2^m \in Nat \ {0} /\ 2^(m - n) \in Nat \ {0}
           /\ 2^m = 2^n * 2^(m - n) /\ 2^n <= 2^m
<1>1. m - n \in Nat /\ n + (m - n) = m
  OBVIOUS
<1>2. 2^m = 2^n * 2^(m - n)
  BY <1>1, PowerOfSum
<1>3. 2^n \in Nat \ {0} /\ 2^m \in Nat \ {0} /\ 2^(m - n) \in Nat \ {0}
  BY <1>1, TwoTimes
<1>4. \A a, b \in Nat \ {0} : a <= a * b
  OBVIOUS
<1> QED
  BY <1>2, <1>3, <1>4

-----------------------------------------------------------------------------
(* Division, as far as bits need it.                                         *)

LEMMA Divided ==
    ASSUME NEW n \in Nat, NEW b \in Nat \ {0}
    PROVE  /\ n \div b \in Nat /\ n % b \in 0..(b - 1)
           /\ b * (n \div b) \in Nat /\ n = b * (n \div b) + (n % b)
OBVIOUS

LEMMA Quotient ==
    ASSUME NEW b \in Nat \ {0}, NEW q \in Nat, NEW r \in 0..(b - 1), NEW n, n = b * q + r
    PROVE  n \in Nat /\ n \div b = q /\ n % b = r
OBVIOUS

(* The digits of a number are found one after the other, or in a part of it. *)
DigitsIn(n, a, c, m) ==
    /\ (n \div a) \div c = n \div m
    /\ (n % m) \div a = (n \div a) % c
    /\ (n % m) % a = n % a

(* n has the quotient p by a * c, the digit t before it and the rest r. *)
LEMMA Digits ==
    ASSUME NEW n \in Nat, NEW a \in Nat \ {0}, NEW c \in Nat \ {0}, NEW m, m = a * c
    PROVE  DigitsIn(n, a, c, m)
<1> DEFINE q == n \div a
           r == n % a
           p == q \div c
           t == q % c
<1>1. q \in Nat /\ r \in 0..(a - 1) /\ a * q \in Nat /\ n = a * q + r
  BY Divided
<1> HIDE DEF q, r
<1>2. p \in Nat /\ t \in 0..(c - 1) /\ c * p \in Nat /\ q = c * p + t
  BY <1>1, Divided
<1> HIDE DEF p, t
<1>3. a * c \in Nat \ {0} /\ a * t \in Nat
  BY <1>2
<1>4. a * q = (a * c) * p + a * t
  <2>1. a * (c * p + t) = a * (c * p) + a * t /\ a * (c * p) = (a * c) * p
    BY <1>2
  <2> QED
    BY <1>2, <2>1
<1>5. a * t + r \in 0..(a * c - 1)
  <2>1. a * (t + 1) <= a * c /\ a * (t + 1) = a * t + a
    BY <1>2
  <2> QED
    BY <1>1, <1>3, <2>1
<1>6. n = (a * c) * p + (a * t + r)
  <2>1. (a * c) * p \in Nat
    BY <1>2, <1>3
  <2> QED
    BY <1>1, <1>3, <1>4, <2>1
<1>7. n \div (a * c) = p /\ n % (a * c) = a * t + r
  <2> DEFINE b == a * c
             d == a * t + r
  <2>1. b \in Nat \ {0} /\ d \in 0..(b - 1) /\ n = b * p + d
    BY <1>3, <1>5, <1>6
  <2> HIDE DEF b, d
  <2>2. n \div b = p /\ n % b = d
    BY <1>2, <2>1, Quotient
  <2> QED
    BY <2>2 DEF b, d
<1>8. (a * t + r) \div a = t /\ (a * t + r) % a = r
  BY <1>1, <1>2, Quotient
<1> QED
  BY <1>7, <1>8 DEF p, q, r, t, DigitsIn

(* A byte is added below the digits of a number. *)
LEMMA AddedBelow ==
    \A v, b, r, q, n :
        v \in Nat /\ b \in Nat \ {0} /\ r \in 0..(b - 1) /\ q \in Nat \ {0} /\ n = v * b + r =>
        n \in Nat /\ n % b = r /\ n \div (b * q) = v \div q
<1> TAKE v, b, r, q, n
<1> HAVE v \in Nat /\ b \in Nat \ {0} /\ r \in 0..(b - 1) /\ q \in Nat \ {0} /\ n = v * b + r
<1>1. n = b * v + r
  OBVIOUS
<1>2. n \in Nat /\ n \div b = v /\ n % b = r
  BY <1>1, Quotient
<1> DEFINE m == b * q
<1> HIDE DEF m
<1>3. DigitsIn(n, b, q, m)
  BY <1>2, Digits DEF m
<1> QED
  BY <1>2, <1>3 DEF m, DigitsIn

-----------------------------------------------------------------------------
(* Where a mask begins and ends. *)
MaskGiven ==
    /\ block \in Seq(0..(2^ByteBits - 1)) /\ ByteLast < Len(block)
    /\ mask \in [offset : Nat, width : 1..WordBits, signed : BOOLEAN]

LEMMA Widths == ByteBits \in Nat \ {0} /\ WordBits \in Nat \ {0}
BY MaskAssumption

LEMMA Geometry ==
    ASSUME MaskGiven
    PROVE  /\ mask.offset \in Nat /\ mask.width \in Nat \ {0} /\ mask.width <= WordBits
           /\ ByteStart \in Nat /\ ByteLast \in Nat /\ ByteStart <= ByteLast
           /\ Shift \in 0..(ByteBits - 1) /\ EndBits \in 1..ByteBits
           /\ ByteBits * ByteStart \in Nat /\ ByteBits * ByteLast \in Nat
           /\ mask.offset = ByteBits * ByteStart + Shift
           /\ mask.offset + mask.width = ByteBits * ByteLast + EndBits
<1>1. mask.offset \in Nat /\ mask.width \in Nat \ {0} /\ mask.width <= WordBits
  BY Widths DEF MaskGiven
<1>2. BitEnd - 1 \in Nat /\ BitEnd = mask.offset + mask.width
  BY <1>1 DEF BitEnd
<1>3. /\ ByteStart \in Nat /\ Shift \in 0..(ByteBits - 1) /\ ByteBits * ByteStart \in Nat
      /\ mask.offset = ByteBits * ByteStart + Shift
  BY <1>1, Widths, Divided DEF ByteStart, Shift
<1>4. /\ ByteLast \in Nat /\ ByteBits * ByteLast \in Nat
      /\ (BitEnd - 1) % ByteBits \in 0..(ByteBits - 1)
      /\ BitEnd - 1 = ByteBits * ByteLast + ((BitEnd - 1) % ByteBits)
  <2> DEFINE top == BitEnd - 1
  <2>1. top \in Nat /\ ByteBits \in Nat \ {0} /\ ByteLast = top \div ByteBits
    BY <1>2, Widths DEF ByteLast
  <2> HIDE DEF top
  <2>2. /\ top \div ByteBits \in Nat /\ top % ByteBits \in 0..(ByteBits - 1)
        /\ ByteBits * (top \div ByteBits) \in Nat
        /\ top = ByteBits * (top \div ByteBits) + (top % ByteBits)
    BY <2>1, Divided
  <2> QED
    BY <2>1, <2>2 DEF top
<1>5. EndBits \in 1..ByteBits /\ BitEnd = ByteBits * ByteLast + EndBits
  <2> DEFINE r == (BitEnd - 1) % ByteBits
             l == ByteBits * ByteLast
  <2>1. EndBits = r + 1
    BY DEF EndBits
  <2>2. r \in 0..(ByteBits - 1) /\ BitEnd - 1 = l + r /\ l \in Nat
    BY <1>4
  <2> HIDE DEF r, l
  <2>3. EndBits \in 1..ByteBits /\ BitEnd = l + EndBits
    BY <1>2, <2>1, <2>2, Widths
  <2> QED
    BY <2>3 DEF l
<1>6. ByteStart <= ByteLast
  <2>1. SUFFICES ASSUME ByteLast + 1 <= ByteStart PROVE FALSE
    BY <1>3, <1>4
  <2>2. /\ ByteBits * (ByteLast + 1) <= ByteBits * ByteStart
        /\ ByteBits * (ByteLast + 1) = ByteBits * ByteLast + ByteBits
    BY <1>3, <1>4, <2>1, Widths
  <2> DEFINE l == ByteBits * ByteLast
             f == ByteBits * ByteStart
  <2>3. l \in Nat /\ f \in Nat /\ l + ByteBits <= f
    BY <1>3, <1>4, <2>2
  <2>4. BitEnd = l + EndBits /\ mask.offset = f + Shift
    BY <1>3, <1>5
  <2> HIDE DEF l, f
  <2> QED
    BY <1>1, <1>2, <1>3, <1>5, <2>3, <2>4, Widths
<1> QED
  BY <1>1, <1>2, <1>3, <1>4, <1>5, <1>6

LEMMA BytesOfBlock ==
    ASSUME MaskGiven, NEW k \in 0..ByteLast
    PROVE  Byte(k) \in 0..(2^ByteBits - 1)
<1> DEFINE T == 0..(2^ByteBits - 1)
<1> HIDE DEF T
<1>1. block \in Seq(T) /\ ByteLast \in Nat /\ ByteLast < Len(block)
  BY Geometry DEF MaskGiven, T
<1>2. block[k + 1] \in T
  BY <1>1
<1> QED
  BY <1>2 DEF Byte, T

-----------------------------------------------------------------------------
(* A number that the mask may stand for, and what it is of whole bytes before n. *)
Right(n) == n \in 0..(2^mask.width - 1) /\ IsNumber(n)
Taken(v, n) ==
    /\ v \in 0..(2^(ByteBits * (n - ByteStart)) - 1)
    /\ \A k \in ByteStart..(n - 1) : (v \div 2^(ByteBits * (n - 1 - k))) % 2^ByteBits = Byte(k)

(* The bits of one byte. *)
LEMMA OneByteRight ==
    ASSUME MaskGiven, ByteStart = ByteLast
    PROVE  LET v == FromStart(UpToLast(Byte(ByteStart))) IN v \in Nat /\ Right(v \div 2^Shift)
<1> DEFINE w == mask.width
           b == Byte(ByteStart)
           p == 2^Shift
           u == UpToLast(b)
           v == FromStart(u)
           x == b \div p
<1>1. /\ Shift \in Nat /\ w \in Nat \ {0} /\ Shift + w = EndBits /\ EndBits <= ByteBits
      /\ ByteBits \in Nat \ {0}
  <2> DEFINE l == ByteBits * ByteLast
  <2>1. /\ mask.offset = l + Shift /\ mask.offset + w = l + EndBits /\ l \in Nat
        /\ Shift \in 0..(ByteBits - 1) /\ w \in Nat \ {0} /\ EndBits \in 1..ByteBits
    BY Geometry
  <2> HIDE DEF l
  <2> QED
    BY <2>1, Widths
<1>2. p \in Nat \ {0} /\ 2^w \in Nat \ {0} /\ 2^EndBits = p * 2^w
  BY <1>1, TwoTimes, PowerOfSum
<1>3. b \in 0..(2^ByteBits - 1) /\ b \in Nat /\ 2^ByteBits \in Nat /\ b < 2^ByteBits
  <2>1. ByteStart \in 0..ByteLast /\ 2^ByteBits \in Nat
    BY <1>1, Geometry, TwoTimes
  <2> QED
    BY <2>1, BytesOfBlock
<1>4. u = b % (p * 2^w) /\ v = u - (u % p)
  BY <1>2 DEF UpToLast, FromStart
<1> HIDE DEF b, p, u, v
<1>5. u \in Nat /\ u \div p = x % 2^w
  <2> DEFINE m == p * 2^w
  <2>1. m \in Nat \ {0}
    BY <1>2
  <2> HIDE DEF m
  <2>2. u = b % m
    BY <1>4 DEF m
  <2>3. u \in Nat
    BY <1>3, <2>1, <2>2, Divided
  <2>4. DigitsIn(b, p, 2^w, m)
    BY <1>2, <1>3, Digits DEF m
  <2> QED
    BY <2>2, <2>3, <2>4 DEF DigitsIn
<1>6. v \in Nat /\ v \div p = u \div p
  <2> DEFINE q == u \div p
             r == u % p
  <2>1. q \in Nat /\ r \in 0..(p - 1) /\ p * q \in Nat /\ u = p * q + r
    BY <1>2, <1>5, Divided
  <2>2. v = u - r
    BY <1>4
  <2> HIDE DEF q, r
  <2>3. v = p * q + 0 /\ 0 \in 0..(p - 1)
    BY <1>2, <2>1, <2>2
  <2>4. v \in Nat /\ v \div p = q
    BY <1>2, <2>1, <2>3, Quotient
  <2> QED
    BY <2>4 DEF q
<1>7. x \in Nat
  BY <1>2, <1>3, Divided
<1>8. x % 2^w \in 0..(2^w - 1)
  <2> HIDE DEF x
  <2> QED
    BY <1>2, <1>7, Divided
<1>9. IsNumber(x % 2^w)
  <2>1. CASE WholeBytes
    <3>1. Shift = 0 /\ w = ByteBits
      BY <1>1, <2>1 DEF WholeBytes
    <3>2. x % 2^w = b
      <4>1. p = 1 /\ x = b
        BY <1>3, <3>1 DEF p
      <4>2. b % 2^ByteBits = b
        BY <1>3
      <4> QED
        BY <3>1, <4>1, <4>2
    <3> SUFFICES ASSUME NEW k \in ByteStart..ByteLast
                 PROVE  ((x % 2^w) \div 2^(ByteBits * (ByteLast - k))) % 2^ByteBits = Byte(k)
      BY <2>1 DEF IsNumber
    <3>3. k = ByteStart /\ ByteBits * (ByteLast - k) = 0
      BY <1>1, Geometry
    <3>4. 2^(ByteBits * (ByteLast - k)) = 1
      BY <3>3, PowerOfZero
    <3>5. (b \div 1) % 2^ByteBits = b
      BY <1>3
    <3>6. b = Byte(k)
      BY <3>3 DEF b
    <3> HIDE DEF x, w
    <3> QED
      BY <3>2, <3>4, <3>5, <3>6
  <2>2. CASE ~WholeBytes
    <3> SUFFICES ASSUME NEW k \in 0..(w - 1)
                 PROVE  ((x % 2^w) \div 2^k) % 2 = Bit(mask.offset + k)
      BY <2>2 DEF IsNumber
    <3>1. /\ k \in Nat /\ w - k - 1 \in Nat /\ w - k \in Nat
          /\ w - k = (w - k - 1) + 1 /\ k + (w - k) = w
      BY <1>1
    <3> DEFINE c == 2^(w - k - 1)
    <3>2. /\ 2^k \in Nat \ {0} /\ 2^(w - k) \in Nat \ {0} /\ 2^w = 2^k * 2^(w - k)
          /\ c \in Nat \ {0} /\ 2^(w - k) = 2 * c
      <4> DEFINE e == w - k - 1
                 g == w - k
      <4>1. e \in Nat /\ g \in Nat /\ g = e + 1 /\ k \in Nat /\ k + g = w
        BY <3>1
      <4> HIDE DEF e, g
      <4>2. 2^k \in Nat \ {0} /\ 2^g \in Nat \ {0} /\ 2^e \in Nat \ {0}
        BY <4>1, TwoTimes
      <4>3. 2^g = 2 * 2^e
        BY <4>1, TwoTimes
      <4>4. 2^w = 2^k * 2^g
        BY <4>1, PowerOfSum
      <4> QED
        BY <4>2, <4>3, <4>4 DEF e, g
    <3> DEFINE g == 2^(w - k)
    <3> HIDE DEF c, x, g
    <3>3. (x % 2^w) \div 2^k = (x \div 2^k) % 2^(w - k)
      <4>1. DigitsIn(x, 2^k, g, 2^w)
        BY <1>7, <3>2, Digits DEF g
      <4> QED
        BY <4>1 DEF DigitsIn, g
    <3>4. ((x \div 2^k) % (2 * c)) % 2 = (x \div 2^k) % 2
      <4> DEFINE y == x \div 2^k
                 m == 2 * c
      <4>1. y \in Nat
        BY <1>7, <3>2, Divided
      <4> HIDE DEF y, m
      <4>2. DigitsIn(y, 2, c, m)
        BY <3>2, <4>1, Digits DEF m
      <4> QED
        BY <4>2 DEF y, m, DigitsIn
    <3>5. x \div 2^k = b \div 2^(Shift + k)
      <4> DEFINE m == 2^(Shift + k)
                 d == 2^k
      <4>1. m = p * d
        BY <1>1, <3>1, PowerOfSum DEF p
      <4>2. b \in Nat /\ p \in Nat \ {0} /\ d \in Nat \ {0}
        BY <1>2, <1>3, <3>2
      <4> HIDE DEF m, d
      <4>3. DigitsIn(b, p, d, m)
        BY <4>1, <4>2, Digits
      <4> QED
        BY <4>3 DEF m, d, x, DigitsIn
    <3>6. /\ (mask.offset + k) \div ByteBits = ByteStart
          /\ (mask.offset + k) % ByteBits = Shift + k
      <4> DEFINE h == Shift + k
                 n == mask.offset + k
      <4>1. h \in 0..(ByteBits - 1) /\ ByteBits \in Nat \ {0}
        BY <1>1, <3>1
      <4>2. n = ByteBits * ByteStart + h /\ ByteStart \in Nat
        BY <1>1, <3>1, Geometry
      <4> HIDE DEF h, n
      <4> DEFINE bits == ByteBits
                 start == ByteStart
      <4>3. bits \in Nat \ {0} /\ start \in Nat /\ h \in 0..(bits - 1) /\ n = bits * start + h
        BY <4>1, <4>2
      <4> HIDE DEF bits, start
      <4>4. n \div bits = start /\ n % bits = h
        BY <4>3, Quotient
      <4>5. n \div ByteBits = ByteStart /\ n % ByteBits = h
        BY <4>4 DEF bits, start
      <4> QED
        BY <4>5 DEF h, n
    <3>7. Bit(mask.offset + k) = (b \div 2^(Shift + k)) % 2
      BY <3>6 DEF Bit, b
    <3> QED
      BY <3>2, <3>3, <3>4, <3>5, <3>7
  <2> QED
    BY <2>1, <2>2
<1> QED
  BY <1>5, <1>6, <1>8, <1>9 DEF Right, v, u, p, b

LEMMA WholeWidth ==
    ASSUME MaskGiven, WholeBytes
    PROVE  /\ mask.width = ByteBits * ((ByteLast + 1) - ByteStart)
           /\ 2^Shift = 1 /\ Shift = 0
           /\ \A r \in 0..(2^ByteBits - 1) : FromStart(r) = r /\ UpToLast(r) = r
<1>1. Shift = 0 /\ EndBits = ByteBits
  BY DEF WholeBytes
<1>2. ByteBits * ((ByteLast + 1) - ByteStart) = ByteBits * ByteLast + ByteBits - ByteBits * ByteStart
  BY Geometry, Widths
<1>3. mask.width = ByteBits * ((ByteLast + 1) - ByteStart)
  BY <1>1, <1>2, Geometry, Widths
<1>4. 2^Shift = 1
  BY <1>1
<1>5. ASSUME NEW r \in 0..(2^ByteBits - 1) PROVE FromStart(r) = r /\ UpToLast(r) = r
  <2>1. 2^ByteBits \in Nat /\ r \in Nat /\ r < 2^ByteBits
    BY Widths, TwoTimes
  <2> QED
    BY <1>1, <1>4, <2>1 DEF FromStart, UpToLast
<1> QED
  BY <1>1, <1>3, <1>4, <1>5

(* The first of whole bytes, another one below those before it, and all of them. *)
LEMMA FirstTaken ==
    ASSUME MaskGiven
    PROVE  Taken(Byte(ByteStart), ByteStart + 1)
<1>1. Byte(ByteStart) \in 0..(2^ByteBits - 1) /\ 2^ByteBits \in Nat
  <2>1. ByteStart \in 0..ByteLast
    BY Geometry
  <2> QED
    BY <2>1, BytesOfBlock, Widths, TwoTimes
<1>2. ByteBits * ((ByteStart + 1) - ByteStart) = ByteBits
  BY Geometry, Widths
<1>3. ASSUME NEW k \in ByteStart..((ByteStart + 1) - 1)
      PROVE  k = ByteStart /\ 2^(ByteBits * ((ByteStart + 1) - 1 - k)) = 1
  <2>1. k = ByteStart /\ ByteBits * ((ByteStart + 1) - 1 - k) = 0
    BY Geometry, Widths
  <2> QED
    BY <2>1, PowerOfZero
<1> DEFINE v == Byte(ByteStart)
<1>4. (v \div 1) % 2^ByteBits = v
  BY <1>1
<1>5. v \in 0..(2^(ByteBits * ((ByteStart + 1) - ByteStart)) - 1)
  BY <1>1, <1>2
<1>6. \A k \in ByteStart..((ByteStart + 1) - 1) :
          (v \div 2^(ByteBits * ((ByteStart + 1) - 1 - k))) % 2^ByteBits = Byte(k)
  BY <1>3, <1>4
<1> QED
  BY <1>5, <1>6 DEF Taken

LEMMA NextTaken ==
    ASSUME MaskGiven, WholeBytes, NEW n \in (ByteStart + 1)..ByteLast,
           value \in Nat, Taken(value, n)
    PROVE  Taken(Appended(Byte(n)), n + 1)
<1> DEFINE b == 2^ByteBits
           q == 2^(ByteBits * (n - ByteStart))
           r == Byte(n)
           v == value * b + r
<1>1. n \in Nat /\ ByteStart \in Nat /\ n - ByteStart \in Nat /\ n <= ByteLast /\ ByteLast \in Nat
  BY Geometry
<1>2. ByteBits * (n - ByteStart) \in Nat /\ ByteBits \in Nat
  BY <1>1, Widths
<1>3. b \in Nat \ {0} /\ q \in Nat \ {0} /\ r \in 0..(b - 1) /\ value < q
  BY <1>1, <1>2, BytesOfBlock, TwoTimes DEF Taken
<1>4. ByteBits * ((n + 1) - ByteStart) = ByteBits * (n - ByteStart) + ByteBits
  BY <1>1, <1>2
<1>5. 2^(ByteBits * ((n + 1) - ByteStart)) = q * b
  BY <1>2, <1>4, PowerOfSum
<1>6. v < q * b /\ v \in Nat /\ q * b \in Nat
  <2> HIDE DEF b, q, r
  <2>1. /\ (value + 1) * b <= q * b /\ (value + 1) * b = value * b + b
        /\ value * b \in Nat /\ q * b \in Nat
    BY <1>3
  <2> QED
    BY <1>3, <2>1
<1>7. q * b <= Word
  <2>1. /\ ByteBits * ((n + 1) - ByteStart) \in Nat /\ WordBits \in Nat
        /\ ByteBits * ((n + 1) - ByteStart) <= WordBits
    <3>1. ByteBits * ((n + 1) - ByteStart) <= ByteBits * ((ByteLast + 1) - ByteStart)
      BY <1>1, <1>2
    <3>2. /\ ByteBits * ((n + 1) - ByteStart) \in Nat
          /\ mask.width \in Nat /\ WordBits \in Nat /\ mask.width <= WordBits
      BY <1>1, <1>2, Geometry, Widths
    <3> QED
      BY <3>1, <3>2, WholeWidth
  <2> QED
    BY <1>5, <2>1, Power DEF Word
<1>8. Appended(r) = v
  <2>1. Word \in Nat
    BY Widths, TwoTimes DEF Word
  <2> DEFINE t == value * b
  <2>2. t \in Nat /\ t < Word
    <3> HIDE DEF b, q, r
    <3>1. t \in Nat /\ r \in Nat
      BY <1>3
    <3> HIDE DEF t
    <3> QED
      BY <1>6, <1>7, <2>1, <3>1 DEF t
  <2> HIDE DEF t
  <2>3. t % Word = t
    BY <2>1, <2>2
  <2> QED
    BY <2>3 DEF Appended, t
<1>9. ASSUME NEW k \in ByteStart..((n + 1) - 1)
      PROVE  (v \div 2^(ByteBits * ((n + 1) - 1 - k))) % b = Byte(k)
  <2>1. CASE k = n
    <3>1. ByteBits * ((n + 1) - 1 - k) = 0
      BY <1>1, <1>2, <2>1
    <3>2. 2^(ByteBits * ((n + 1) - 1 - k)) = 1
      BY <3>1, PowerOfZero
    <3>3. v % b = r
      <4>1. value \in Nat
        OBVIOUS
      <4> HIDE DEF b, q, r
      <4>2. v = value * b + r
        OBVIOUS
      <4> HIDE DEF v
      <4> QED
        BY <1>3, <4>1, <4>2, AddedBelow
    <3>4. v \div 1 = v
      <4> HIDE DEF v
      <4> QED
        BY <1>6
    <3> QED
      BY <2>1, <3>2, <3>3, <3>4
  <2>2. CASE k # n
    <3> DEFINE m == ByteBits * (n - 1 - k)
               d == 2^m
    <3>1. k \in ByteStart..(n - 1) /\ k \in Nat /\ n - 1 - k \in Nat
      BY <1>1, <2>2
    <3>2. m \in Nat /\ ByteBits * ((n + 1) - 1 - k) = ByteBits + m
      BY <1>1, <1>2, <3>1
    <3>3. d \in Nat \ {0} /\ 2^(ByteBits + m) = b * d
      BY <1>2, <3>2, TwoTimes, PowerOfSum
    <3>4. (value \div d) % b = Byte(k)
      BY <3>1 DEF Taken
    <3>5. v \div (b * d) = value \div d
      <4> HIDE DEF b, d, q, r
      <4>1. v = value * b + r /\ value \in Nat
        OBVIOUS
      <4> HIDE DEF v
      <4> QED
        BY <1>3, <3>3, <4>1, AddedBelow
    <3> QED
      BY <3>2, <3>3, <3>4, <3>5
  <2> QED
    BY <2>1, <2>2
<1>10. v \in 0..(2^(ByteBits * ((n + 1) - ByteStart)) - 1)
  <2> HIDE DEF b, q, r, v
  <2> QED
    BY <1>5, <1>6
<1> QED
  <2> HIDE DEF r, v
  <2>1. Taken(v, n + 1)
    BY <1>9, <1>10 DEF Taken, b
  <2> QED
    BY <1>8, <2>1 DEF r

LEMMA AllTaken ==
    ASSUME MaskGiven, WholeBytes, NEW v, Taken(v, ByteLast + 1)
    PROVE  v \in Nat /\ Right(v \div 2^Shift)
<1>1. v \in 0..(2^mask.width - 1) /\ 2^mask.width \in Nat
  BY WholeWidth, Geometry, TwoTimes DEF Taken
<1>2. v \in Nat /\ v \div 2^Shift = v
  BY <1>1, WholeWidth
<1>3. IsNumber(v)
  <2> SUFFICES ASSUME NEW k \in ByteStart..ByteLast
               PROVE  (v \div 2^(ByteBits * (ByteLast - k))) % 2^ByteBits = Byte(k)
    BY DEF IsNumber
  <2>1. k \in ByteStart..((ByteLast + 1) - 1) /\ (ByteLast + 1) - 1 - k = ByteLast - k
    BY Geometry
  <2>2. (v \div 2^(ByteBits * ((ByteLast + 1) - 1 - k))) % 2^ByteBits = Byte(k)
    BY <2>1 DEF Taken
  <2> QED
    BY <2>1, <2>2
<1> QED
  BY <1>1, <1>2, <1>3 DEF Right

-----------------------------------------------------------------------------
(* What is known of value at each step, for a mask that stands for a number.  *)
MaskInv ==
    /\ MaskGiven
    /\ stage \in {"first", "more", "shift", "sign", "done"}
    /\ WholeBytes \/ ByteStart = ByteLast =>
          /\ stage = "more" => /\ ByteStart # ByteLast /\ next \in (ByteStart + 1)..ByteLast
                               /\ value \in Nat /\ Taken(value, next)
          /\ stage = "shift" => value \in Nat /\ Right(value \div 2^Shift)
          /\ stage = "sign" => Right(value)
    /\ ValueRight

(* The block and the mask do not change. *)
LEMMA SameMask ==
    ASSUME UNCHANGED <<block, mask>>
    PROVE  /\ MaskGiven' <=> MaskGiven
           /\ ByteStart' = ByteStart /\ ByteLast' = ByteLast /\ Shift' = Shift
           /\ WholeBytes' <=> WholeBytes
BY DEF MaskGiven, ByteStart, ByteLast, BitEnd, Shift, WholeBytes, EndBits

LEMMA SameNumber ==
    ASSUME UNCHANGED <<block, mask>>, NEW n
    PROVE  /\ n = value' /\ Right(n) => Right(value)'
           /\ n = (value \div 2^Shift)' /\ Right(n) => Right(value \div 2^Shift)'
           /\ n = (value % 2^mask.width)' /\ IsNumber(n) => IsNumber(value % 2^mask.width)'
<1> USE SameMask
<1>1. \A k : Byte(k)' = Byte(k) /\ Bit(k)' = Bit(k)
  BY DEF Byte, Bit
<1> QED
  BY <1>1 DEF Right, IsNumber

LEMMA SameTaken ==
    ASSUME UNCHANGED <<block, mask>>, NEW v, NEW n, v = value', n = next', Taken(v, n)
    PROVE  Taken(value, next)'
BY SameMask DEF Taken, Byte

(* The powers of two that the sign depends on. *)
LEMMA SignPowers ==
    ASSUME MaskGiven
    PROVE  /\ 2^(mask.width - 1) \in Nat \ {0} /\ 2^mask.width = 2 * 2^(mask.width - 1)
           /\ Word \in Nat \ {0} /\ 2^(mask.width - 1) <= Word \div 2
           /\ Word = 2 * (Word \div 2)
           /\ \E c \in Nat \ {0} : Word = 2^mask.width * c
<1> DEFINE w == mask.width
           e == w - 1
           f == WordBits - 1
<1>1. /\ e \in Nat /\ f \in Nat /\ e <= f /\ w = e + 1 /\ WordBits = f + 1
      /\ w \in Nat /\ WordBits \in Nat /\ w <= WordBits
  BY Geometry, Widths
<1> HIDE DEF w, e, f
<1>2. 2^e \in Nat \ {0} /\ 2^f \in Nat \ {0} /\ 2^e <= 2^f
  BY <1>1, Power
<1>3. 2^w = 2 * 2^e /\ 2^WordBits = 2 * 2^f
  BY <1>1, TwoTimes
<1>4. 2^WordBits = 2^w * 2^(WordBits - w) /\ 2^(WordBits - w) \in Nat \ {0}
  BY <1>1, Power
<1>5. (2 * 2^f) \div 2 = 2^f
  BY <1>2
<1> QED
  BY <1>2, <1>3, <1>4, <1>5 DEF Word, w, e

LEMMA HighBit ==
    ASSUME MaskGiven, Right(value)
    PROVE  Negative <=> mask.signed /\ value >= 2^(mask.width - 1)
<1> DEFINE h == 2^(mask.width - 1)
<1>1. h \in Nat \ {0} /\ value \in 0..(2 * h - 1)
  BY SignPowers DEF Right
<1>2. Negative <=> mask.signed /\ (value \div h) % 2 = 1
  BY DEF Negative
<1> HIDE DEF h
<1>3. CASE value < h
  <2>1. value = h * 0 + value /\ value \in 0..(h - 1)
    BY <1>1, <1>3
  <2>2. value \div h = 0
    BY <1>1, <2>1, Quotient
  <2> QED
    BY <1>1, <1>2, <1>3, <2>2 DEF h
<1>4. CASE value >= h
  <2> DEFINE r == value - h
  <2>1. value = h * 1 + r /\ r \in 0..(h - 1)
    BY <1>1, <1>4
  <2> HIDE DEF r
  <2>2. value \div h = 1
    BY <1>1, <2>1, Quotient
  <2> QED
    BY <1>1, <1>2, <1>4, <2>2 DEF h
<1> QED
  BY <1>1, <1>3, <1>4

(* Without the sign, the value is the number. *)
LEMMA PositiveRight ==
    ASSUME MaskGiven, Right(value), ~Negative, UNCHANGED <<block, mask, value>>
    PROVE  ValueRight'
<1> DEFINE h == 2^(mask.width - 1)
           n == value % 2^mask.width
<1>1. /\ h \in Nat \ {0} /\ 2^mask.width = 2 * h /\ value \in 0..(2 * h - 1)
      /\ Word \in Nat /\ h <= Word \div 2
  BY SignPowers DEF Right
<1>2. n = value
  BY <1>1
<1>3. IsNumber(n)
  BY <1>2 DEF Right
<1>4. mask.signed => AsInt = Complement(n, mask.width)
  <2> SUFFICES ASSUME mask.signed PROVE AsInt = Complement(value, mask.width)
    BY <1>2
  <2>1. value < h
    BY <1>1, HighBit
  <2>2. value < Word \div 2
    <3> HIDE DEF h
    <3> QED
      BY <1>1, <2>1
  <2> QED
    BY <2>1, <2>2 DEF AsInt, Complement
<1>5. ValueRight
  BY <1>2, <1>3, <1>4 DEF ValueRight
<1> QED
  <2>1. IsNumber(value % 2^mask.width)'
    BY <1>3, SameNumber
  <2>2. /\ (value % 2^mask.width)' = n /\ AsInt' = AsInt
        /\ \A k : Complement(k, mask.width)' = Complement(k, mask.width)
    BY DEF AsInt, Complement
  <2> QED
    BY <1>2, <1>4, <2>1, <2>2 DEF ValueRight

(* The sign is put above the bits of the mask, and makes their number its complement. *)
LEMMA NegativeRight ==
    ASSUME MaskGiven, Right(value), Negative, UNCHANGED <<block, mask>>,
           NEW bits \in SignBits, value' = SignOr(bits)
    PROVE  ValueRight'
<1> DEFINE p == 2^mask.width
           h == 2^(mask.width - 1)
<1>1. /\ h \in Nat \ {0} /\ p = 2 * h /\ value \in 0..(p - 1) /\ Word \in Nat /\ h <= Word \div 2
      /\ Word = 2 * (Word \div 2)
  BY SignPowers DEF Right
<1>2. mask.signed /\ value >= h
  BY HighBit
<1>3. CASE mask.width = WordBits
  BY <1>2, <1>3 DEF ValueRight
<1>4. CASE mask.width # WordBits
  <2>1. bits = Word - p
    BY <1>4 DEF SignBits
  <2>2. value' = Word - p + value
    <3>1. bits # Word - 1 /\ Word - bits = p /\ value % p = value
      BY <1>1, <2>1
    <3> QED
      BY <2>1, <3>1 DEF SignOr
  <2>3. value' % p = value
    <3>1. PICK c \in Nat \ {0} : Word = p * c
      BY SignPowers
    <3> HIDE DEF p, h
    <3>2. p * (c - 1) = p * c - p /\ c - 1 \in Nat /\ p \in Nat \ {0}
      BY <1>1
    <3>3. value' = p * (c - 1) + value
      BY <1>1, <2>2, <3>1, <3>2
    <3> DEFINE k == c - 1
    <3>4. p \in Nat \ {0} /\ k \in Nat /\ value \in 0..(p - 1) /\ value' = p * k + value
      BY <1>1, <3>2, <3>3
    <3> HIDE DEF k
    <3> QED
      BY <3>4, Quotient
  <2>4. (value % 2^mask.width)' = value
    BY <2>3
  <2>5. IsNumber(value % 2^mask.width)'
    BY <2>4, SameNumber DEF Right
  <2>6. AsInt' = value - p
    <3>1. ~(value' < Word \div 2)
      <4> HIDE DEF p, h
      <4> QED
        BY <1>1, <1>2, <2>2
    <3>2. value' - Word = value - p
      <4> HIDE DEF p, h
      <4> QED
        BY <1>1, <2>2
    <3>3. Word' = Word
      BY DEF Word
    <3> QED
      BY <3>1, <3>2, <3>3 DEF AsInt
  <2>7. Complement(value, mask.width) = value - p
    BY <1>1, <1>2 DEF Complement
  <2>8. AsInt' = Complement((value % 2^mask.width)', mask'.width)
    BY <2>4, <2>6, <2>7
  <2> QED
    BY <1>2, <2>5, <2>8 DEF ValueRight, Complement
<1> QED
  BY <1>3, <1>4

LEMMA InitMask == MaskInit => MaskInv
<1> SUFFICES ASSUME MaskInit PROVE MaskInv
  OBVIOUS
<1>1. /\ block \in Seq(0..(2^ByteBits - 1))
      /\ mask \in [offset : Nat, width : 1..WordBits, signed : BOOLEAN]
  BY MaskAssumption DEF MaskInit
<1> QED
  BY <1>1 DEF MaskInit, MaskInv, MaskGiven, ValueRight

LEMMA NextMask == MaskInv /\ [MaskNext]_maskVars => MaskInv'
<1> SUFFICES ASSUME MaskInv, MaskNext PROVE MaskInv'
  <2>1. UNCHANGED maskVars /\ MaskInv => MaskInv'
    <3> SUFFICES ASSUME UNCHANGED maskVars, MaskInv PROVE MaskInv'
      OBVIOUS
    <3>1. UNCHANGED <<block, mask, stage, next, value>>
      BY DEF maskVars
    <3>2. value' = value /\ next' = next /\ (value \div 2^Shift)' = value \div 2^Shift
      BY <3>1, SameMask
    <3>3. ValueRight' <=> ValueRight
      BY <3>1, SameMask DEF ValueRight, AsInt, Complement, IsNumber, Bit, Byte
    <3> QED
      BY <3>1, <3>2, <3>3, SameMask, SameNumber, SameTaken DEF MaskInv
  <2> QED
    BY <2>1
<1>1. UNCHANGED <<block, mask>> /\ MaskGiven
  BY DEF MaskInv, MaskNext, OneByte, First, Middle, LastByte, ShiftDown, Sign
<1>2. CASE OneByte
  <2>1. /\ value' = FromStart(UpToLast(Byte(ByteStart)))
        /\ stage' = "shift" /\ ByteStart = ByteLast
    BY <1>2 DEF OneByte
  <2>2. value' \in Nat /\ Right(value' \div 2^Shift)
    BY <1>1, <2>1, OneByteRight
  <2>3. (value \div 2^Shift)' = value' \div 2^Shift
    BY <1>1, SameMask
  <2>4. Right(value \div 2^Shift)'
    BY <1>1, <2>2, <2>3, SameNumber
  <2> QED
    BY <1>1, <2>1, <2>2, <2>4, SameMask DEF MaskInv, ValueRight
<1>3. CASE First
  <2>1. /\ value' = FromStart(Byte(ByteStart)) /\ next' = ByteStart + 1 /\ stage' = "more"
        /\ ByteStart # ByteLast
    BY <1>3 DEF First
  <2>2. ASSUME WholeBytes
        PROVE  value' \in Nat /\ Taken(value, next)' /\ next' \in (ByteStart + 1)..ByteLast
    <3>1. value' = Byte(ByteStart) /\ value' \in Nat
      <4>1. Byte(ByteStart) \in 0..(2^ByteBits - 1) /\ 2^ByteBits \in Nat
        BY <1>1, Geometry, BytesOfBlock, Widths, TwoTimes
      <4> QED
        BY <1>1, <2>1, <2>2, <4>1, WholeWidth
    <3>2. Taken(value', next')
      BY <1>1, <2>1, <3>1, FirstTaken
    <3>3. next' \in (ByteStart + 1)..ByteLast
      BY <1>1, <2>1, Geometry
    <3> QED
      BY <1>1, <3>1, <3>2, <3>3, SameTaken
  <2> QED
    BY <1>1, <2>1, <2>2, SameMask DEF MaskInv, ValueRight
<1>4. CASE Middle
  <2>1. /\ stage = "more" /\ next < ByteLast /\ value' = Appended(Byte(next)) /\ next' = next + 1
        /\ stage' = "more"
    BY <1>4 DEF Middle
  <2>2. ASSUME WholeBytes, ByteStart # ByteLast
        PROVE  value' \in Nat /\ Taken(value, next)' /\ next' \in (ByteStart + 1)..ByteLast
    <3>1. next \in (ByteStart + 1)..ByteLast /\ value \in Nat /\ Taken(value, next)
      BY <2>1, <2>2 DEF MaskInv
    <3>2. Taken(value', next')
      BY <1>1, <2>1, <2>2, <3>1, NextTaken
    <3>3. next' \in (ByteStart + 1)..ByteLast
      BY <1>1, <2>1, <3>1, Geometry
    <3>4. value' \in Nat
      BY <3>2 DEF Taken
    <3> QED
      BY <1>1, <3>2, <3>3, <3>4, SameTaken
  <2> QED
    BY <1>1, <2>1, <2>2, SameMask DEF MaskInv, ValueRight
<1>5. CASE LastByte
  <2>1. /\ stage = "more" /\ next = ByteLast
        /\ value' = Appended(UpToLast(Byte(ByteLast))) /\ stage' = "shift"
    BY <1>5 DEF LastByte
  <2>2. ASSUME WholeBytes, ByteStart # ByteLast
        PROVE  value' \in Nat /\ Right(value \div 2^Shift)'
    <3>1. next \in (ByteStart + 1)..ByteLast /\ value \in Nat /\ Taken(value, next)
      BY <2>1, <2>2 DEF MaskInv
    <3>2. UpToLast(Byte(ByteLast)) = Byte(ByteLast)
      <4>1. Byte(ByteLast) \in 0..(2^ByteBits - 1)
        BY <1>1, Geometry, BytesOfBlock
      <4> QED
        BY <1>1, <2>2, <4>1, WholeWidth
    <3>3. Taken(value', ByteLast + 1)
      BY <1>1, <2>1, <2>2, <3>1, <3>2, NextTaken
    <3>4. value' \in Nat /\ Right(value' \div 2^Shift)
      BY <1>1, <2>2, <3>3, AllTaken
    <3>5. (value \div 2^Shift)' = value' \div 2^Shift
      BY <1>1, SameMask
    <3> QED
      BY <1>1, <3>4, <3>5, SameNumber
  <2> QED
    BY <1>1, <2>1, <2>2, SameMask DEF MaskInv, ValueRight
<1>6. CASE ShiftDown
  <2>1. stage = "shift" /\ value' = value \div 2^Shift /\ stage' = "sign"
    BY <1>6 DEF ShiftDown
  <2>2. ASSUME WholeBytes \/ ByteStart = ByteLast PROVE Right(value)'
    <3>1. Right(value')
      BY <2>1, <2>2 DEF MaskInv
    <3> QED
      BY <1>1, <3>1, SameNumber
  <2> QED
    BY <1>1, <2>1, <2>2, SameMask DEF MaskInv, ValueRight
<1>7. CASE Sign
  <2>1. stage = "sign" /\ stage' = "done"
    BY <1>7 DEF Sign
  <2>2. ValueRight'
    <3>1. CASE ~(WholeBytes \/ ByteStart = ByteLast)
      BY <1>1, <3>1, SameMask DEF ValueRight
    <3>2. CASE WholeBytes \/ ByteStart = ByteLast
      <4>1. Right(value)
        BY <2>1, <3>2 DEF MaskInv
      <4>2. CASE Negative
        BY <1>1, <1>7, <4>1, <4>2, NegativeRight DEF Sign
      <4>3. CASE ~Negative
        BY <1>1, <1>7, <4>1, <4>3, PositiveRight DEF Sign
      <4> QED
        BY <4>2, <4>3
    <3> QED
      BY <3>1, <3>2
  <2> QED
    BY <1>1, <2>1, <2>2, SameMask DEF MaskInv
<1> QED
  BY <1>2, <1>3, <1>4, <1>5, <1>6, <1>7 DEF MaskNext

(* signal_extractor_extract takes the number of a mask of whole bytes, or of bits in
   one byte, for any bytes, with its sign unless the mask is as wide as the word. *)
THEOREM MaskedValue == MaskSpec => []ValueRight
<1>1. MaskInv => ValueRight
  BY DEF MaskInv
<1> QED
  BY <1>1, InitMask, NextMask, PTL DEF MaskSpec
=============================================================================

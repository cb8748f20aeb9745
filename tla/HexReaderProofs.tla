---------------------------- MODULE HexReaderProofs ----------------------------
(* That the blocks of a capture file have the length they say, for options and
   packets of any lengths and files of any length, and that this is so of what
   hex2pcapng writes: its steps are those of Pcapng, whatever it reads.

   BlockAsSaid is not inductive: how much of a block has been written is known
   only where a part of it ends.  IInv says it for every part, and that what
   the blocks are made of, options and packets, comes in whole words: the
   padding of the block itself, which its length does not count, is empty.

   hex2pcapng's packets are those of Pcapng if they fit in its buffer, which rests
   on the length of the line: BytesEquation unfolds what is made of it.       *)
EXTENDS HexReader, SequenceTheorems, WellFoundedInduction, TLAPS

(* A block says the length of a body in whole words and of what is around it. *)
Words ==
    /\ body % 4 = 0
    /\ ~(pc = "none" /\ file = 0) => says = body + 12

(* How much of the block has been written when a part of it comes next. *)
Written ==
    wrote = "all" =>
        /\ start % 4 = 0
        /\ pc = "header" => file = start
        /\ pc = "body" => file = start + 8 /\ sayStart = says
        /\ pc \in {"pad", "trailer"} => file = start + 8 + body /\ sayStart = says
        /\ pc = "none" /\ file > 0 => file = start + 12 + body /\ sayStart = says

IInv == TypeOK /\ Words /\ Written

-----------------------------------------------------------------------------
(* PADLEN adds what is missing to a multiple of four, and nothing to one. *)
LEMMA PadLenAdds ==
    ASSUME NEW l \in Nat
    PROVE  /\ PadLen(l, 4) \in 0..3
           /\ (l + PadLen(l, 4)) % 4 = 0
           /\ l % 4 = 0 => PadLen(l, 4) = 0
BY DEF PadLen

(* An option takes whole words of its own. *)
LEMMA OptionInWords ==
    ASSUME NEW l \in Nat
    PROVE  OptionBytes(l) \in Nat /\ OptionBytes(l) % 4 = 0
<1>1. PadLen(l, 4) \in Nat /\ (l + PadLen(l, 4)) % 4 = 0
  BY PadLenAdds
<1>2. OptionBytes(l) = (l + PadLen(l, 4)) + 4
  BY <1>1 DEF OptionBytes
<1> QED
  BY <1>1, <1>2

(* And so does the body of a packet. *)
LEMMA PacketInWords ==
    ASSUME NEW l \in Nat
    PROVE  PacketBody(l) \in Nat /\ PacketBody(l) % 4 = 0
<1>1. PadLen(l, 4) \in Nat /\ (l + PadLen(l, 4)) % 4 = 0
  BY PadLenAdds
<1>2. PacketBody(l) = (l + PadLen(l, 4)) + 24
  BY <1>1 DEF PacketBody
<1> QED
  BY <1>1, <1>2

-----------------------------------------------------------------------------
LEMMA InitIInv == Init => IInv
BY DEF Init, IInv, TypeOK, Words, Written

(* A block begins with a body in whole words, at the end of the last one. *)
LEMMA BeginIInv ==
    ASSUME IInv, NEW l \in Nat, l % 4 = 0, Begin(l)
    PROVE  IInv'
<1>1. TypeOK'
  BY DEF Begin, IInv, TypeOK
<1>2. Words'
  BY DEF Begin, IInv, TypeOK, Words
<1>3. Written'
  <2>1. wrote = "all" => file % 4 = 0
    BY DEF Begin, IInv, TypeOK, Words, Written
  <2> QED
    BY <2>1 DEF Begin, IInv, TypeOK, Written
<1> QED
  BY <1>1, <1>2, <1>3 DEF IInv

LEMMA NextIInv == IInv /\ [Next]_vars => IInv'
<1> SUFFICES ASSUME IInv, [Next]_vars PROVE IInv'
  OBVIOUS
<1>1. CASE AddOption
  <2>1. PICK l \in OptionLengths :
            options' = OptionBytes(l) + IF options = 0 THEN OptionBytes(0) ELSE options
    BY <1>1 DEF AddOption
  <2>2. OptionBytes(l) \in Nat /\ OptionBytes(l) % 4 = 0
    <3>1. l \in Nat
      BY <2>1, PcapngAssumption
    <3> QED
      BY <3>1, OptionInWords
  <2>3. OptionBytes(0) \in Nat /\ OptionBytes(0) % 4 = 0
    BY OptionInWords
  <2>4. options' \in Nat /\ options' % 4 = 0
    BY <2>1, <2>2, <2>3 DEF IInv, TypeOK
  <2>5. TypeOK'
    BY <1>1, <2>4 DEF AddOption, IInv, TypeOK, block
  <2>6. Words' /\ Written'
    BY <1>1 DEF AddOption, IInv, Words, Written, block
  <2> QED
    BY <2>5, <2>6 DEF IInv
<1>2. CASE ClearOptions
  <2>1. TypeOK'
    BY <1>2 DEF ClearOptions, IInv, TypeOK, block
  <2>2. Words' /\ Written'
    BY <1>2 DEF ClearOptions, IInv, Words, Written, block
  <2> QED
    BY <2>1, <2>2 DEF IInv
<1>3. CASE SectionHeader
  BY <1>3, BeginIInv DEF SectionHeader, OptionsLength, IInv, TypeOK
<1>4. CASE InterfaceDescription
  BY <1>4, BeginIInv DEF InterfaceDescription, OptionsLength, IInv, TypeOK
<1>5. CASE \E length \in PacketLengths : EnhancedPacket(length)
  <2>1. PICK l \in PacketLengths : Begin(PacketBody(l))
    BY <1>5 DEF EnhancedPacket
  <2>2. l \in Nat
    BY <2>1, PcapngAssumption
  <2>3. PacketBody(l) \in Nat /\ PacketBody(l) % 4 = 0
    BY <2>2, PacketInWords
  <2> QED
    BY <2>1, <2>3, BeginIInv
<1>6. CASE WriteHeader
  <2>1. TypeOK'
    BY <1>6 DEF WriteHeader, Write, IInv, TypeOK
  <2>2. Words'
    BY <1>6 DEF WriteHeader, Write, IInv, TypeOK, Words
  <2>3. Written'
    BY <1>6 DEF WriteHeader, Write, IInv, TypeOK, Words, Written
  <2> QED
    BY <2>1, <2>2, <2>3 DEF IInv
<1>7. CASE WriteBody
  <2>1. TypeOK'
    BY <1>7 DEF WriteBody, Write, IInv, TypeOK
  <2>2. Words'
    BY <1>7 DEF WriteBody, Write, IInv, TypeOK, Words
  <2>3. Written'
    BY <1>7 DEF WriteBody, Write, IInv, TypeOK, Words, Written
  <2> QED
    BY <2>1, <2>2, <2>3 DEF IInv
<1>8. CASE WritePad
  <2>1. PadLen(body, 4) = 0
    BY PadLenAdds DEF IInv, TypeOK, Words
  <2>2. TypeOK'
    BY <1>8, <2>1 DEF WritePad, Write, IInv, TypeOK
  <2>3. Words'
    BY <1>8 DEF WritePad, Write, IInv, TypeOK, Words
  <2>4. Written'
    BY <1>8, <2>1 DEF WritePad, Write, IInv, TypeOK, Written
  <2> QED
    BY <2>2, <2>3, <2>4 DEF IInv
<1>9. CASE WriteTrailer
  <2>1. TypeOK'
    BY <1>9 DEF WriteTrailer, Write, IInv, TypeOK
  <2>2. Words'
    BY <1>9 DEF WriteTrailer, Write, IInv, TypeOK, Words
  <2>3. Written'
    BY <1>9 DEF WriteTrailer, Write, IInv, TypeOK, Words, Written
  <2> QED
    BY <2>1, <2>2, <2>3 DEF IInv
<1>10. CASE WriteFails
  <2>1. PICK n \in 0..Size[pc] : file' = file + n
    BY <1>10 DEF WriteFails
  <2>2. Size[pc] \in Nat
    <3>1. body \in Nat
      BY DEF IInv, TypeOK
    <3>2. PadLen(body, 4) \in 0..3
      BY <3>1, PadLenAdds
    <3>3. pc \in {"header", "body", "pad", "trailer"}
      BY <1>10 DEF WriteFails, IInv, TypeOK
    <3> QED
      BY <3>1, <3>2, <3>3 DEF Size
  <2>3. TypeOK'
    BY <1>10, <2>1, <2>2 DEF WriteFails, IInv, TypeOK, block
  <2>4. Words' /\ Written'
    BY <1>10, <2>1, <2>2 DEF WriteFails, IInv, TypeOK, Words, Written, block
  <2> QED
    BY <2>3, <2>4 DEF IInv
<1>11. CASE UNCHANGED vars
  BY <1>11 DEF vars, block, IInv, TypeOK, Words, Written
<1> QED
  BY <1>1, <1>2, <1>3, <1>4, <1>5, <1>6, <1>7, <1>8, <1>9, <1>10, <1>11 DEF Next, WriteStep

(* The inductive invariant holds of every file that pcapng.c writes. *)
LEMMA Inductive == Spec => []IInv
BY InitIInv, NextIInv, PTL DEF Spec

(* Variables have their types, and options are whole words, whatever options
   are added (pcapng_add_option) and whatever writes fail. *)
THEOREM TypeCorrect == Spec => []TypeOK
<1>1. IInv => TypeOK
  BY DEF IInv
<1> QED
  BY <1>1, Inductive, PTL

(* As long as no write fails, pcapng_write_block writes blocks of the length
   they say at both ends, which begin and end at words of the file. *)
THEOREM BlocksAsSaid == Spec => []BlockAsSaid
<1>1. IInv => BlockAsSaid
  BY DEF IInv, TypeOK, Words, Written, BlockAsSaid
<1> QED
  BY <1>1, Inductive, PTL

-----------------------------------------------------------------------------
(* hex2pcapng.                                                               *)

LEMMA Least ==
    ASSUME NEW S \in SUBSET Nat, S # {}
    PROVE  \E m \in S : \A k \in S : m <= k
<1> DEFINE R == {ss \in Nat \X Nat : ss[1] < ss[2]}
<1>1. IsWellFoundedOn(R, Nat)
  BY NatLessThanWellFounded DEF OpToRel
<1>2. PICK m \in S : \A j \in S : ~(<<j, m>> \in R)
  <2> HIDE DEF R
  <2> QED
    BY <1>1, WFMin
<1>3. ASSUME NEW k \in S PROVE m <= k
  <2>1. k \in Nat /\ m \in Nat /\ ~(<<k, m>> \in R)
    BY <1>2
  <2> QED
    BY <2>1
<1> QED
  BY <1>3

(* Where characters of a set end. *)
LEMMA EndOfIn ==
    ASSUME NEW s \in Seq(Chars), NEW i \in 1..(Len(s) + 1), NEW set
    PROVE  LET j == EndOf(s, i, set) IN
           /\ j \in i..(Len(s) + 1) /\ (j = Len(s) + 1 \/ s[j] \notin set)
           /\ j # i => s[i] \in set
<1> DEFINE S == {j \in i..(Len(s) + 1) : j = Len(s) + 1 \/ s[j] \notin set}
<1>1. Len(s) \in Nat /\ i \in Nat /\ i <= Len(s) + 1
  OBVIOUS
<1>2. PICK e \in S : \A k \in S : e <= k
  <2>1. Len(s) + 1 \in S /\ S \subseteq Nat
    BY <1>1
  <2> HIDE DEF S
  <2> QED
    BY <2>1, Least
<1>3. \A k \in i..(e - 1) : s[k] \in set
  <2> SUFFICES ASSUME NEW k \in i..(e - 1), s[k] \notin set PROVE FALSE
    OBVIOUS
  <2>1. k \in i..(Len(s) + 1) /\ k < e
    BY <1>1, <1>2
  <2> QED
    BY <1>2, <2>1
<1> DEFINE j == EndOf(s, i, set)
<1>4. /\ j \in i..(Len(s) + 1) /\ (j = Len(s) + 1 \/ s[j] \notin set)
      /\ \A k \in i..(j - 1) : s[k] \in set
  BY <1>2, <1>3 DEF EndOf
<1> HIDE DEF j
<1>5. j # i => i \in i..(j - 1)
  BY <1>1, <1>4
<1> QED
  BY <1>4, <1>5 DEF j

(* Induction from n down to 0: a set of them that has every number above which
   it has all is the whole of them. *)
LEMMA Downward ==
    ASSUME NEW n \in Nat, NEW P \in SUBSET (0..n),
           \A k \in 0..n : (k + 1)..n \subseteq P => k \in P
    PROVE  P = 0..n
<1> DEFINE S == {m \in 0..n : n - m \notin P}
<1>1. SUFFICES ASSUME S # {} PROVE FALSE
  <2>1. ASSUME NEW k \in 0..n PROVE k \in P
    <3>1. n - k \in 0..n /\ n - (n - k) = k
      OBVIOUS
    <3> QED
      BY <1>1, <3>1
  <2> QED
    BY <2>1
<1>2. PICK m \in S : \A j \in S : m <= j
  <2>1. S \subseteq Nat
    OBVIOUS
  <2> HIDE DEF S
  <2> QED
    BY <1>1, <2>1, Least
<1>3. ASSUME NEW k \in (n - m + 1)..n PROVE k \in P
  <2>1. n - k \in 0..n /\ n - (n - k) = k /\ ~(m <= n - k)
    BY <1>2, <1>3
  <2> QED
    BY <1>2, <2>1
<1>4. n - m \in 0..n /\ n - m \notin P
  BY <1>2
<1> QED
  BY <1>3, <1>4

(* What may be among the bytes of a line. *)
Results(s) == {Invalid} \cup {Number(s, i, j, 16) : i, j \in 1..(Len(s) + 1)}

(* The bytes from i on, if rest are those further on. *)
FromHere(s, rest, i) ==
    IF i > Len(s) \/ s[i] = "#" THEN <<>>
    ELSE LET j == EndOf(s, i, HexDigits)
         IN  IF j = i \/ Number(s, i, j, 16) > 255 THEN <<Invalid>>
             ELSE <<Number(s, i, j, 16)>> \o rest[SkipWhite(s, j)]

(* Bytes are made of the characters before those of the rest. *)
LEMMA Onwards ==
    ASSUME NEW s \in Seq(Chars), NEW i \in 1..(Len(s) + 1),
           NEW j, j = EndOf(s, i, HexDigits), NEW k, k = SkipWhite(s, j)
    PROVE  /\ j \in i..(Len(s) + 1) /\ k \in j..(Len(s) + 1)
           /\ j # i => k \in (i + 1)..(Len(s) + 1)
           /\ j # Len(s) + 1 => s[j] \notin HexDigits
<1>1. j \in i..(Len(s) + 1) /\ (j = Len(s) + 1 \/ s[j] \notin HexDigits)
  BY EndOfIn
<1>2. Len(s) \in Nat /\ i \in Nat
  OBVIOUS
<1>3. j \in 1..(Len(s) + 1)
  BY <1>1, <1>2
<1>4. k \in j..(Len(s) + 1)
  BY <1>3, EndOfIn DEF SkipWhite
<1> QED
  BY <1>1, <1>2, <1>4

LEMMA FromHereIn ==
    ASSUME NEW s \in Seq(Chars), NEW i \in 1..(Len(s) + 1), NEW rest,
           \A k \in (i + 1)..(Len(s) + 1) : rest[k] \in Seq(Results(s))
    PROVE  FromHere(s, rest, i) \in Seq(Results(s))
<1> DEFINE j == EndOf(s, i, HexDigits)
           k == SkipWhite(s, j)
           v == Number(s, i, j, 16)
           T == Results(s)
<1>1. /\ j \in 1..(Len(s) + 1) /\ (j # i => k \in (i + 1)..(Len(s) + 1))
  <2>1. /\ j \in i..(Len(s) + 1) /\ (j # i => k \in (i + 1)..(Len(s) + 1))
    BY Onwards
  <2>2. Len(s) \in Nat /\ i \in Nat /\ i >= 1
    OBVIOUS
  <2> HIDE DEF j, k
  <2> QED
    BY <2>1, <2>2
<1>2. v \in T /\ Invalid \in T
  BY <1>1 DEF Results
<1>3. FromHere(s, rest, i) \in {<<>>, <<Invalid>>} \/ (j # i /\ FromHere(s, rest, i) = <<v>> \o rest[k])
  BY DEF FromHere
<1> HIDE DEF j, k, v, T
<1>4. <<>> \in Seq(T) /\ <<Invalid>> \in Seq(T) /\ <<v>> \in Seq(T)
  BY <1>2
<1>5. j # i => rest[k] \in Seq(T)
  BY <1>1 DEF T
<1>6. j # i => <<v>> \o rest[k] \in Seq(T)
  BY <1>4, <1>5
<1> QED
  BY <1>3, <1>4, <1>6 DEF T

LEMMA BytesEquation ==
    ASSUME NEW s \in Seq(Chars)
    PROVE  /\ BytesOf(s) \in [1..(Len(s) + 1) -> Seq(Results(s))]
           /\ \A i \in 1..(Len(s) + 1) : BytesOf(s)[i] = FromHere(s, BytesOf(s), i)
<1> DEFINE n == Len(s) + 1
           T == Results(s)
           Solves(g, k) == g \in [k..n -> Seq(T)] /\ \A i \in k..n : g[i] = FromHere(s, g, i)
           P == {k \in 0..n : k = 0 \/ \E g : Solves(g, k)}
<1>1. n \in Nat /\ n >= 1
  OBVIOUS
<1>2. ASSUME NEW k \in 1..n, (k + 1)..n \subseteq P PROVE k \in P
  <2>1. \E g : Solves(g, k + 1)
    <3>1. CASE k = n
      <4>1. (k + 1)..n = {}
        BY <1>1, <3>1
      <4>2. Solves([i \in (k + 1)..n |-> <<>>], k + 1)
        BY <4>1
      <4> QED
        BY <4>2
    <3>2. CASE k < n
      <4>1. k + 1 \in (k + 1)..n /\ k + 1 # 0
        BY <1>1, <3>2
      <4> QED
        BY <1>2, <4>1
    <3> QED
      BY <1>1, <3>1, <3>2
  <2>2. PICK g : Solves(g, k + 1)
    BY <2>1
  <2> DEFINE h == [i \in k..n |-> IF i = k THEN FromHere(s, g, k) ELSE g[i]]
  <2>3. ASSUME NEW i \in k..n
        PROVE  FromHere(s, h, i) = FromHere(s, g, i) /\ FromHere(s, g, i) \in Seq(T)
    <3>1. i \in 1..n /\ i \in Nat /\ k \in Nat
      BY <1>1, <2>3
    <3>2. \A m \in (i + 1)..n : h[m] = g[m] /\ g[m] \in Seq(T)
      <4> SUFFICES ASSUME NEW m \in (i + 1)..n PROVE h[m] = g[m] /\ g[m] \in Seq(T)
        OBVIOUS
      <4>1. m \in (k + 1)..n /\ m \in k..n /\ m # k
        BY <1>1, <2>3, <3>1
      <4> QED
        BY <2>2, <4>1
    <3> HIDE DEF h
    <3>3. FromHere(s, g, i) \in Seq(T)
      BY <3>1, <3>2, FromHereIn
    <3>4. FromHere(s, h, i) = FromHere(s, g, i)
      <4>1. EndOf(s, i, HexDigits) # i => SkipWhite(s, EndOf(s, i, HexDigits)) \in (i + 1)..n
        BY <3>1, Onwards
      <4> QED
        BY <3>2, <4>1 DEF FromHere
    <3> QED
      BY <3>3, <3>4
  <2>4. ASSUME NEW i \in k..n PROVE h[i] = FromHere(s, g, i)
    <3>1. i = k \/ i \in (k + 1)..n
      BY <1>1, <2>4
    <3> QED
      BY <2>2, <2>4, <3>1
  <2>5. Solves(h, k)
    <3> HIDE DEF h
    <3>1. h \in [k..n -> Seq(T)]
      <4>1. h = [i \in k..n |-> h[i]]
        BY DEF h
      <4> QED
        BY <2>3, <2>4, <4>1
    <3> QED
      BY <2>3, <2>4, <3>1
  <2>6. k \in 0..n
    BY <1>1
  <2> HIDE DEF h, Solves
  <2> QED
    BY <2>5, <2>6
<1>3. P = 0..n
  <2> HIDE DEF Solves
  <2>1. P \subseteq 0..n /\ 0 \in P
    BY <1>1
  <2>2. \A k \in 0..n : (k + 1)..n \subseteq P => k \in P
    <3> SUFFICES ASSUME NEW k \in 0..n, (k + 1)..n \subseteq P PROVE k \in P
      OBVIOUS
    <3>1. k = 0 \/ k \in 1..n
      BY <1>1
    <3> HIDE DEF P
    <3> QED
      BY <1>2, <2>1, <3>1
  <2> HIDE DEF P
  <2> QED
    BY <1>1, <2>1, <2>2, Downward
<1>4. PICK g : Solves(g, 1)
  <2>1. 1 \in P
    <3> HIDE DEF P
    <3> QED
      BY <1>1, <1>3
  <2> QED
    BY <2>1
<1> DEFINE f == BytesOf(s)
<1>5. f = CHOOSE f0 : f0 = [i \in 1..n |-> FromHere(s, f0, i)]
  BY DEF BytesOf, FromHere
<1>6. g = [i \in 1..n |-> FromHere(s, g, i)]
  BY <1>4
<1>7. f = [i \in 1..n |-> FromHere(s, f, i)]
  BY <1>5, <1>6
<1> DEFINE Q == {k \in 0..n : k = 0 \/ f[k] \in Seq(T)}
<1>8. Q = 0..n
  <2>1. ASSUME NEW k \in 0..n, (k + 1)..n \subseteq Q PROVE k \in Q
    <3>1. CASE k = 0
      BY <3>1
    <3>2. CASE k # 0
      <4>1. k \in 1..n /\ \A m \in (k + 1)..n : m # 0
        BY <1>1, <3>2
      <4>2. \A m \in (k + 1)..n : f[m] \in Seq(T)
        BY <2>1, <4>1
      <4> HIDE DEF f
      <4>3. f[k] = FromHere(s, f, k)
        BY <1>7, <4>1
      <4>4. FromHere(s, f, k) \in Seq(T)
        BY <4>1, <4>2, FromHereIn
      <4> QED
        BY <4>3, <4>4
    <3> QED
      BY <3>1, <3>2
  <2>2. Q \subseteq 0..n
    OBVIOUS
  <2> HIDE DEF Q
  <2> QED
    BY <1>1, <2>1, <2>2, Downward
<1>9. \A k \in 1..n : f[k] \in Seq(T)
  <2>1. \A k \in 1..n : k \in 0..n /\ k # 0
    BY <1>1
  <2> QED
    BY <1>8, <2>1
<1> QED
  BY <1>7, <1>9

(* A byte takes two characters, or one at the end of the line. *)
LEMMA TwoEach ==
    ASSUME NEW s \in Seq(Chars), NEW i \in 1..(Len(s) + 1)
    PROVE  \A k \in DOMAIN BytesOf(s)[i] :
               BytesOf(s)[i][k] # Invalid => 2 * k + i <= Len(s) + 2
<1> DEFINE n == Len(s) + 1
           f == BytesOf(s)
           T == Results(s)
           Fit(m) == \A k \in DOMAIN f[m] : f[m][k] # Invalid => 2 * k + m <= Len(s) + 2
           P == {m \in 0..n : m = 0 \/ Fit(m)}
<1>1. n \in Nat /\ n >= 1 /\ Len(s) \in Nat
  OBVIOUS
<1>2. \A m \in 1..n : f[m] \in Seq(T) /\ f[m] = FromHere(s, f, m)
  BY BytesEquation
<1> HIDE DEF f
<1>3. ASSUME NEW m \in 1..n, \A l \in (m + 1)..n : Fit(l) PROVE Fit(m)
  <2> DEFINE j == EndOf(s, m, HexDigits)
             l == SkipWhite(s, j)
             v == Number(s, m, j, 16)
  <2>1. \/ f[m] = <<>> \/ f[m] = <<Invalid>>
        \/ j # m /\ m <= Len(s) /\ f[m] = <<v>> \o f[l]
    <3>1. f[m] = FromHere(s, f, m)
      BY <1>2
    <3>2. m > Len(s) \/ m <= Len(s)
      BY <1>1
    <3> QED
      BY <3>1, <3>2 DEF FromHere
  <2>2. /\ j \in m..n /\ l \in j..n /\ (j # m => l \in (m + 1)..n)
        /\ j # Len(s) + 1 => s[j] \notin HexDigits
    BY Onwards
  <2> HIDE DEF j, l, v
  <2>3. CASE f[m] = <<>> \/ f[m] = <<Invalid>>
    BY <2>3
  <2>4. CASE j # m /\ m <= Len(s) /\ f[m] = <<v>> \o f[l]
    <3> DEFINE rest == f[l]
    <3>1. rest \in Seq(T) /\ l \in (m + 1)..n /\ l \in 1..n
      BY <1>1, <1>2, <2>2, <2>4
    <3>2. rest = FromHere(s, f, l) /\ Fit(l)
      BY <1>2, <1>3, <3>1
    <3>3. CASE l = m + 1
      <4>1. j = l
        BY <2>2, <2>4, <3>3
      <4>2. \/ l > Len(s)
            \/ s[l] \notin HexDigits /\ EndOf(s, l, HexDigits) = l
        <5>1. CASE l = Len(s) + 1
          BY <1>1, <5>1
        <5>2. CASE l # Len(s) + 1
          <6>1. s[l] \notin HexDigits
            BY <2>2, <4>1, <5>2
          <6> QED
            BY <3>1, <6>1, EndOfIn
        <5> QED
          BY <5>1, <5>2
      <4>3. rest = <<>> \/ rest = <<Invalid>>
        BY <3>2, <4>2 DEF FromHere
      <4>4. f[m] = <<v>> \o <<>> \/ f[m] = <<v>> \o <<Invalid>>
        BY <2>4, <4>3
      <4>5. \A k \in DOMAIN f[m] : f[m][k] # Invalid => k = 1
        <5>1. f[m] = <<v>> \/ f[m] = <<v, Invalid>>
          BY <4>4
        <5> QED
          BY <5>1
      <4> QED
        BY <1>1, <2>4, <4>5
    <3>4. CASE l >= m + 2
      <4> SUFFICES ASSUME NEW k \in DOMAIN f[m], f[m][k] # Invalid
                   PROVE  2 * k + m <= Len(s) + 2
        OBVIOUS
      <4>1. /\ DOMAIN f[m] = 1..(1 + Len(rest)) /\ Len(rest) \in Nat /\ DOMAIN rest = 1..Len(rest)
            /\ \A h \in 1..(1 + Len(rest)) : h > 1 => f[m][h] = rest[h - 1]
        <5> HIDE DEF rest
        <5>1. f[m] = <<v>> \o rest
          BY <2>4 DEF rest
        <5> QED
          BY <3>1, <5>1
      <4>2. CASE k = 1
        BY <1>1, <2>4, <4>2
      <4>3. CASE k # 1
        <5>1. k \in Nat /\ k > 1 /\ k - 1 \in 1..Len(rest)
          BY <4>1, <4>3
        <5>2. rest[k - 1] # Invalid /\ k - 1 \in DOMAIN rest
          BY <4>1, <5>1
        <5>3. 2 * (k - 1) + l <= Len(s) + 2
          BY <3>2, <5>2
        <5> QED
          BY <1>1, <3>1, <3>4, <5>1, <5>3
      <4> QED
        BY <4>2, <4>3
    <3> QED
      BY <1>1, <3>1, <3>3, <3>4
  <2> QED
    BY <2>1, <2>3, <2>4
<1>4. P = 0..n
  <2> HIDE DEF Fit
  <2>1. P \subseteq 0..n
    OBVIOUS
  <2>2. \A k \in 0..n : (k + 1)..n \subseteq P => k \in P
    <3> SUFFICES ASSUME NEW k \in 0..n, (k + 1)..n \subseteq P PROVE k \in P
      OBVIOUS
    <3>1. \A l \in (k + 1)..n : Fit(l)
      <4>1. \A l \in (k + 1)..n : l # 0
        BY <1>1
      <4> QED
        BY <4>1
    <3>2. k = 0 \/ k \in 1..n
      BY <1>1
    <3> QED
      BY <1>3, <3>1, <3>2
  <2> HIDE DEF P
  <2> QED
    BY <1>1, <2>1, <2>2, Downward
<1>5. i \in 0..n /\ i # 0
  BY <1>1
<1>6. Fit(i)
  <2> HIDE DEF Fit
  <2> QED
    BY <1>4, <1>5
<1> QED
  BY <1>6 DEF f

(* What parse_line makes of a line, it makes of its characters from one on. *)
LEMMA LineFits ==
    ASSUME NEW s \in Seq(Chars), Len(s) < 2 * PacketSize, NEW ts
    PROVE  LET bytes == Parsed(s, ts).bytes IN
           /\ bytes \in Seq(Results(s))
           /\ \A n \in DOMAIN bytes : bytes[n] # Invalid => n <= PacketSize
<1> DEFINE i == SkipWhite(s, 1)
           j == EndOf(s, i, DecDigits)
           k == SkipWhite(s, j)
           bytes == Parsed(s, ts).bytes
<1>1. i \in 1..(Len(s) + 1) /\ k \in 1..(Len(s) + 1)
  <2>1. Len(s) \in Nat /\ 1 \in 1..(Len(s) + 1)
    OBVIOUS
  <2>2. i \in 1..(Len(s) + 1)
    BY <2>1, EndOfIn DEF SkipWhite
  <2> HIDE DEF i
  <2>3. j \in i..(Len(s) + 1)
    BY <2>2, EndOfIn
  <2>4. j \in 1..(Len(s) + 1)
    <3> HIDE DEF j
    <3> QED
      BY <2>1, <2>2, <2>3
  <2> HIDE DEF j
  <2>5. k \in j..(Len(s) + 1)
    BY <2>4, EndOfIn DEF SkipWhite
  <2> HIDE DEF k
  <2> QED
    BY <2>1, <2>2, <2>4, <2>5
<1>2. bytes = <<>> \/ bytes = BytesOf(s)[i] \/ bytes = BytesOf(s)[k]
  BY DEF Parsed
<1> HIDE DEF i, j, k, bytes
<1>3. ASSUME NEW m \in 1..(Len(s) + 1), bytes = BytesOf(s)[m]
      PROVE  /\ bytes \in Seq(Results(s))
             /\ \A n \in DOMAIN bytes : bytes[n] # Invalid => n <= PacketSize
  <2>1. bytes \in Seq(Results(s))
    BY <1>3, BytesEquation
  <2>2. \A n \in DOMAIN bytes : bytes[n] # Invalid => 2 * n + m <= Len(s) + 2
    BY <1>3, TwoEach
  <2>3. \A n \in DOMAIN bytes : n \in Nat
    BY <2>1
  <2>4. PacketSize \in Nat /\ Len(s) \in Nat /\ m >= 1 /\ m \in Nat
    BY HexAssumption
  <2>5. ASSUME NEW n \in DOMAIN bytes, bytes[n] # Invalid PROVE n <= PacketSize
    <3>1. n \in Nat /\ 2 * n + m <= Len(s) + 2
      BY <2>2, <2>3, <2>5
    <3> QED
      BY <2>4, <3>1
  <2> QED
    BY <2>1, <2>5
<1>4. CASE bytes = <<>>
  <2>1. bytes \in Seq(Results(s)) /\ DOMAIN bytes = {}
    BY <1>4
  <2> QED
    BY <2>1 DEF bytes
<1> QED
  BY <1>1, <1>2, <1>3, <1>4 DEF bytes

-----------------------------------------------------------------------------
(* Where the reader is: the buffer is the end of what has been read, no longer
   than it may be, and a line begins in it. *)
Reading ==
    /\ text \in Texts
    /\ pos \in 0..Len(text)
    /\ bufferLen \in 0..InputSize /\ bufferLen <= pos
    /\ lineStart \in 0..bufferLen

LEMMA SmallestOf ==
    ASSUME NEW S \in SUBSET Nat, S # {}
    PROVE  Min(S) \in S /\ \A k \in S : Min(S) <= k
BY Least DEF Min

LEMMA InputSizeIs == InputSize = 2 * PacketSize /\ InputSize \in Nat /\ PacketSize \in Nat
BY HexAssumption DEF InputSize

(* The first end in the buffer is that of a line shorter than the buffer. *)
LEMMA LineIn ==
    ASSUME Reading, Ends # {}
    PROVE  /\ Min(Ends) \in lineStart..(bufferLen - 1)
           /\ NextLine \in Seq(Chars) /\ Len(NextLine) < 2 * PacketSize
<1>1. /\ bufferLen \in Nat /\ lineStart \in Nat /\ pos \in Nat /\ Len(text) \in Nat
      /\ bufferLen <= pos /\ pos <= Len(text) /\ bufferLen <= 2 * PacketSize
      /\ text \in Seq(Chars)
  <2>1. text \in Seq(Chars)
    BY HexAssumption DEF Reading
  <2> QED
    BY <2>1, InputSizeIs DEF Reading
<1>2. Min(Ends) \in Ends
  <2>1. Ends \subseteq Nat
    BY <1>1 DEF Ends
  <2> QED
    BY <2>1, SmallestOf
<1>3. Min(Ends) \in lineStart..(bufferLen - 1)
  BY <1>2 DEF Ends
<1> DEFINE m == Min(Ends)
           n == m - lineStart
<1> HIDE DEF m
<1>4. m \in lineStart..(bufferLen - 1) /\ n \in Nat /\ n < 2 * PacketSize
  <2>1. m \in lineStart..(bufferLen - 1)
    BY <1>3 DEF m
  <2> QED
    BY <1>1, <2>1, InputSizeIs
<1>5. ASSUME NEW k \in 1..n PROVE Buffer(lineStart + k - 1) \in Chars
  <2>1. pos - bufferLen + (lineStart + k - 1) + 1 \in 1..Len(text)
    BY <1>1, <1>4
  <2> QED
    BY <1>1, <2>1 DEF Buffer
<1>6. NextLine = [k \in 1..n |-> Buffer(lineStart + k - 1)]
  BY DEF NextLine, m
<1>7. NextLine \in [1..n -> Chars]
  BY <1>5, <1>6
<1> HIDE DEF n
<1>8. NextLine \in Seq(Chars) /\ Len(NextLine) = n
  BY <1>4, <1>7
<1> QED
  BY <1>3, <1>4, <1>8

LEMMA InitReading == HexInit => Reading
<1> SUFFICES ASSUME HexInit PROVE Reading
  OBVIOUS
<1>1. text \in Texts /\ pos = 0 /\ bufferLen = 0 /\ lineStart = 0
  BY DEF HexInit
<1>2. text \in Seq(Chars)
  BY <1>1, HexAssumption
<1>3. Len(text) \in Nat
  BY <1>2
<1> QED
  BY <1>1, <1>3, InputSizeIs DEF Reading

(* A read takes what there is and what there is room for. *)
LEMMA ReadMore ==
    ASSUME Reading, ReadDone
    PROVE  \E n \in Nat : /\ pos' = pos + n /\ n <= Len(text) - pos
                          /\ bufferLen' = bufferLen + n /\ n <= InputSize - bufferLen
<1>1. text \in Seq(Chars) /\ Len(text) \in Nat
  <2>1. text \in Seq(Chars)
    BY HexAssumption DEF Reading
  <2> QED
    BY <2>1
<1>2. PICK r \in ReadSizes :
          LET n == Min({r, Len(text) - pos, Room})
          IN  n > 0 /\ pos' = pos + n /\ bufferLen' = bufferLen + n
  BY DEF ReadDone
<1> DEFINE S == {r, Len(text) - pos, Room}
           n == Min(S)
<1>3. r \in Nat /\ Len(text) - pos \in Nat /\ Room \in Nat
  BY <1>1, InputSizeIs, HexAssumption DEF Reading, Room
<1>4. n \in S /\ \A k \in S : n <= k
  <2>1. S \subseteq Nat /\ S # {}
    BY <1>3
  <2> HIDE DEF S
  <2> QED
    BY <2>1, SmallestOf
<1>5. pos' = pos + n /\ bufferLen' = bufferLen + n
  BY <1>2
<1> HIDE DEF n
<1>6. n \in Nat /\ n <= Len(text) - pos /\ n <= InputSize - bufferLen
  BY <1>3, <1>4 DEF Room
<1> QED
  BY <1>5, <1>6

LEMMA NextReading == Reading /\ [HexNext]_<<vars, reader>> => Reading'
<1> SUFFICES ASSUME Reading, [HexNext]_<<vars, reader>> PROVE Reading'
  OBVIOUS
<1>1. text \in Seq(Chars) /\ Len(text) \in Nat
  <2>1. text \in Seq(Chars)
    BY HexAssumption DEF Reading
  <2> QED
    BY <2>1
<1>2. CASE UNCHANGED <<input, pos, bufferLen, lineStart>>
  BY <1>2 DEF input, Reading
<1>3. CASE ReadDone
  <2>5. PICK n \in Nat : /\ pos' = pos + n /\ n <= Len(text) - pos
                          /\ bufferLen' = bufferLen + n /\ n <= InputSize - bufferLen
    BY <1>3, ReadMore
  <2>6. text' = text /\ lineStart' = 0
    BY <1>3 DEF ReadDone, input
  <2> QED
    BY <1>1, <2>5, <2>6, InputSizeIs DEF Reading
<1>4. CASE Line
  <2>1. lineStart' = Min(Ends) + 1 /\ UNCHANGED <<text, pos, bufferLen>>
    BY <1>4 DEF Line, input
  <2>2. Min(Ends) \in lineStart..(bufferLen - 1)
    BY <1>4, LineIn DEF Line
  <2>3. lineStart' \in 0..bufferLen
    <3> DEFINE m == Min(Ends)
    <3>1. lineStart' = m + 1 /\ m \in lineStart..(bufferLen - 1)
      BY <2>1, <2>2
    <3> HIDE DEF m
    <3> QED
      BY <3>1, InputSizeIs DEF Reading
  <2> QED
    BY <2>1, <2>3 DEF Reading
<1>5. CASE Rest
  <2>1. /\ bufferLen' = 0 \/ bufferLen' = bufferLen - lineStart
        /\ lineStart' = 0 /\ UNCHANGED <<text, pos>>
    BY <1>5 DEF Rest, input
  <2> QED
    BY <1>1, <2>1, InputSizeIs DEF Reading
<1> QED
  BY <1>2, <1>3, <1>4, <1>5
  DEF HexNext, AddProgramName, WriteSection, ClearProgramName, WriteInterface, Opened, Opening,
      Writing, ReadEnds, ReadFails, reader

LEMMA AlwaysReading == HexSpec => []Reading
BY InitReading, NextReading, PTL DEF HexSpec

(* Every step of hex2pcapng does to the file what a step of pcapng.c does, or
   nothing: a packet has a length that it may have. *)
LEMMA NextImplements == Reading /\ [HexNext]_<<vars, reader>> => [Next]_vars
<1> SUFFICES ASSUME Reading, [HexNext]_<<vars, reader>> PROVE [Next]_vars
  OBVIOUS
<1>1. CASE Line
  <2> DEFINE result == Parsed(NextLine, currentTs)
  <2>1. CASE ~IsPacket(result)
    BY <1>1, <2>1 DEF Line
  <2>2. CASE IsPacket(result)
    <3>1. EnhancedPacket(Len(result.bytes))
      BY <1>1, <2>2 DEF Line
    <3>2. /\ result.bytes \in Seq(Results(NextLine))
          /\ \A n \in DOMAIN result.bytes : result.bytes[n] # Invalid => n <= PacketSize
      <4>1. Ends # {}
        BY <1>1 DEF Line
      <4> QED
        BY <4>1, LineIn, LineFits
    <3>3. result.bytes # <<>> /\ \A n \in DOMAIN result.bytes : result.bytes[n] # Invalid
      <4>1. result.bytes # <<>> /\ Invalid \notin {result.bytes[n] : n \in DOMAIN result.bytes}
        BY <2>2 DEF IsPacket, ToSet
      <4> QED
        BY <4>1
    <3> DEFINE bytes == result.bytes
               T == Results(NextLine)
    <3> HIDE DEF bytes, T
    <3>4. /\ bytes \in Seq(T) /\ bytes # <<>>
          /\ \A n \in DOMAIN bytes : n <= PacketSize
      BY <3>2, <3>3 DEF bytes, T
    <3>5. Len(bytes) \in Nat /\ Len(bytes) # 0 /\ DOMAIN bytes = 1..Len(bytes)
      BY <3>4
    <3>6. Len(bytes) \in 1..PacketSize
      <4>1. Len(bytes) \in DOMAIN bytes
        BY <3>5
      <4> QED
        BY <3>4, <3>5, <4>1, InputSizeIs
    <3>7. Len(bytes) \in PacketLengths
      BY <3>6, HexAssumption
    <3> QED
      BY <3>1, <3>7 DEF Next, bytes
  <2> QED
    BY <2>1, <2>2
<1>2. CASE AddProgramName
  BY <1>2 DEF AddProgramName, Opening, Next
<1>3. CASE WriteSection
  BY <1>3 DEF WriteSection, Opening, Next
<1>4. CASE ClearProgramName
  BY <1>4 DEF ClearProgramName, Opening, Next
<1>5. CASE WriteInterface
  BY <1>5 DEF WriteInterface, Opening, Next
<1>6. CASE Writing
  BY <1>6 DEF Writing, Next
<1>7. CASE UNCHANGED vars
  BY <1>7
<1> QED
  BY <1>1, <1>2, <1>3, <1>4, <1>5, <1>6, <1>7
  DEF HexNext, Opened, Opening, ReadDone, ReadEnds, ReadFails, Rest

(* Each byte that parse_line finds in a line has a place in packet_buffer,
   whatever the line and the reads it came in, and also where the line turns out to
   be no packet. *)
THEOREM BytesFit == HexSpec => []PacketFits
<1>1. Reading => PacketFits
  <2> SUFFICES ASSUME Reading, Ends # {}
               PROVE  LET bytes == Parsed(NextLine, currentTs).bytes
                      IN  \A n \in DOMAIN bytes : bytes[n] # Invalid => n <= PacketSize
    BY DEF PacketFits
  <2> QED
    BY LineIn, LineFits
<1> QED
  BY <1>1, AlwaysReading, PTL

(* hex2pcapng uses pcapng.c as Pcapng says that it may be used: it implements
   its specification. *)
THEOREM Implements == HexSpec => Spec
<1>1. HexInit => Init
  BY DEF HexInit
<1> QED
  BY <1>1, NextImplements, AlwaysReading, PTL DEF HexSpec, Spec

(* So the blocks that hex2pcapng writes have the length they say. *)
THEOREM HexBlocks == HexSpec => []BlockAsSaid
BY Implements, BlocksAsSaid, PTL

-----------------------------------------------------------------------------
(* The packets of the lines, however they were read.                         *)

(* Induction from 0 up to n. *)
LEMMA Upward ==
    ASSUME NEW n \in Nat, NEW P \in SUBSET (0..n),
           \A k \in 0..n : 0..(k - 1) \subseteq P => k \in P
    PROVE  P = 0..n
<1> DEFINE S == (0..n) \ P
<1>1. SUFFICES ASSUME S # {} PROVE FALSE
  OBVIOUS
<1>2. PICK m \in S : \A j \in S : m <= j
  <2>1. S \subseteq Nat
    OBVIOUS
  <2> HIDE DEF S
  <2> QED
    BY <1>1, <2>1, Least
<1>3. ASSUME NEW k \in 0..(m - 1) PROVE k \in P
  <2>1. k \in 0..n /\ ~(m <= k)
    BY <1>2
  <2> QED
    BY <1>2, <2>1
<1> QED
  BY <1>2, <1>3

(* What is after the i-th character, if after is so for those before it. *)
Then(s, after, i) ==
    IF i = 0 THEN AtStart
    ELSE IF s[i] = "\n" THEN AtEnd(s, i, after[i - 1]) ELSE after[i - 1]

(* After is as its definition says: there is such a function. *)
LEMMA AfterEquation ==
    ASSUME NEW s \in Seq(Chars)
    PROVE  \A i \in 0..Len(s) : After(s)[i] = Then(s, After(s), i)
<1> DEFINE n == Len(s)
           Solves(g, k) == g = [i \in 0..k |-> Then(s, g, i)]
           P == {k \in 0..n : \E g : Solves(g, k)}
<1>1. n \in Nat
  OBVIOUS
<1>2. ASSUME NEW k \in 0..n, 0..(k - 1) \subseteq P PROVE k \in P
  <2>1. CASE k = 0
    <3> DEFINE h == [i \in 0..0 |-> AtStart]
    <3>1. Solves(h, 0)
      BY DEF Then
    <3> QED
      BY <2>1, <3>1
  <2>2. CASE k # 0
    <3>1. k - 1 \in 0..(k - 1) /\ k \in Nat
      BY <2>2
    <3>2. PICK g : Solves(g, k - 1)
      BY <1>2, <3>1
    <3> DEFINE h == [i \in 0..k |-> Then(s, g, i)]
    <3>3. \A i \in 0..(k - 1) : g[i] = h[i]
      <4>1. \A i \in 0..(k - 1) : g[i] = Then(s, g, i)
        BY <3>2
      <4> QED
        BY <3>1, <4>1
    <3>4. ASSUME NEW i \in 0..k PROVE Then(s, g, i) = Then(s, h, i)
      <4>1. i = 0 \/ i - 1 \in 0..(k - 1)
        BY <3>1
      <4>2. i = 0 \/ g[i - 1] = h[i - 1]
        BY <3>3, <4>1
      <4> HIDE DEF h
      <4> QED
        BY <4>2 DEF Then
    <3>5. h = [i \in 0..k |-> Then(s, h, i)]
      BY <3>4
    <3> HIDE DEF h
    <3>6. Solves(h, k)
      BY <3>5
    <3> QED
      BY <3>6
  <2> QED
    BY <2>1, <2>2
<1>3. P = 0..n
  <2> HIDE DEF P
  <2>1. P \subseteq 0..n
    BY DEF P
  <2> QED
    BY <1>1, <1>2, <2>1, Upward
<1>4. PICK g : Solves(g, n)
  <2>1. n \in P
    <3> HIDE DEF P
    <3> QED
      BY <1>1, <1>3
  <2> QED
    BY <2>1
<1>5. After(s) = CHOOSE f0 : f0 = [i \in 0..n |-> Then(s, f0, i)]
  BY DEF After, Then
<1>6. After(s) = [i \in 0..n |-> Then(s, After(s), i)]
  <2> DEFINE Is(f) == f = [i \in 0..n |-> Then(s, f, i)]
  <2>1. Is(g)
    BY <1>4
  <2>2. After(s) = CHOOSE f0 : Is(f0)
    BY <1>5
  <2> HIDE DEF Is
  <2>3. Is(After(s))
    BY <2>1, <2>2
  <2> QED
    BY <2>3 DEF Is
<1> QED
  BY <1>6

(* Nothing comes of characters among which no line ends. *)
LEMMA NothingYet ==
    ASSUME NEW s \in Seq(Chars), NEW p \in 0..Len(s), NEW q \in p..Len(s),
           \A k \in (p + 1)..q : s[k] # "\n"
    PROVE  After(s)[q] = After(s)[p]
<1> DEFINE n == Len(s)
           P == {k \in 0..n : k \in p..q => After(s)[k] = After(s)[p]}
<1>1. n \in Nat /\ p \in Nat /\ q \in Nat /\ p <= q /\ q <= n
  OBVIOUS
<1>2. ASSUME NEW k \in 0..n, 0..(k - 1) \subseteq P PROVE k \in P
  <2> SUFFICES ASSUME k \in p..q, k # p PROVE After(s)[k] = After(s)[p]
    OBVIOUS
  <2>1. k - 1 \in p..q /\ k - 1 \in 0..(k - 1) /\ k # 0 /\ k \in (p + 1)..q
    BY <1>1
  <2>2. After(s)[k - 1] = After(s)[p]
    BY <1>2, <2>1
  <2>3. After(s)[k] = Then(s, After(s), k)
    BY AfterEquation
  <2> QED
    BY <2>1, <2>2, <2>3 DEF Then
<1>3. P = 0..n
  <2> HIDE DEF P
  <2>1. P \subseteq 0..n
    BY DEF P
  <2> QED
    BY <1>1, <1>2, <2>1, Upward
<1>4. q \in P
  <2> HIDE DEF P
  <2> QED
    BY <1>1, <1>3
<1> QED
  BY <1>1, <1>4

(* How much of the text has come to packets: up to Place, where a line begins or,
   if the buffer was full, a whole number of buffers after that. *)
Place == pos - bufferLen + lineStart
Cut(first, p) == first \in Nat /\ \E k \in Nat : p + 1 = first + InputSize * k
PacketsInv ==
    /\ packets = After(text)[Place].packets /\ currentTs = After(text)[Place].ts
    /\ Cut(After(text)[Place].first, Place)
    /\ stage # "lines" =>
          /\ lineStart = 0 /\ bufferLen < InputSize
          /\ \A k \in (Place + 1)..pos : text[k] # "\n"
    /\ stage = "done" => pos = Len(text)

LEMMA Numbers ==
    ASSUME Reading
    PROVE  /\ text \in Seq(Chars) /\ Len(text) \in Nat /\ pos \in Nat /\ pos <= Len(text)
           /\ bufferLen \in Nat /\ lineStart \in Nat /\ lineStart <= bufferLen
           /\ bufferLen <= pos /\ bufferLen <= InputSize
           /\ InputSize \in Nat \ {0} /\ Place \in 0..pos /\ Place \in 0..Len(text)
<1>1. text \in Seq(Chars) /\ PacketSize # 0
  BY HexAssumption DEF Reading
<1> QED
  BY <1>1, InputSizeIs DEF Reading, Place

LEMMA Places ==
    ASSUME Reading
    PROVE  /\ pos \in Nat /\ bufferLen \in Nat /\ lineStart \in Nat /\ InputSize \in Nat
           /\ Place = pos - bufferLen + lineStart /\ Place \in Nat /\ Place <= pos
           /\ lineStart <= bufferLen /\ bufferLen <= pos /\ bufferLen <= InputSize /\ InputSize > 0
BY Numbers DEF Place

(* The options do not change. *)
LEMMA SameAfter == UNCHANGED input => After(text)' = After(text)
BY DEF After, AtStart, AtEnd, Parsed, input

(* A piece that is shorter than the buffer is what LineOf leaves of a line. *)
LEMMA LastPiece ==
    ASSUME NEW s, NEW p \in Nat, NEW first, Cut(first, p), InputSize \in Nat \ {0},
           NEW last \in (p + 1)..(p + InputSize)
    PROVE  LineOf(s, first, last) = SubSeq(s, p + 1, last - 1)
<1>1. PICK k \in Nat : p + 1 = first + InputSize * k
  BY DEF Cut
<1> DEFINE n == last - first
           l == InputSize * k
           m == last - p - 1
<1>2. first \in Nat /\ l \in Nat
  BY <1>1 DEF Cut
<1> HIDE DEF m
<1>3. m \in 0..(InputSize - 1) /\ last = p + m + 1
  BY DEF m
<1>4. (m + l) \div InputSize = k
  BY <1>3
<1> HIDE DEF l
<1>5. p + 1 = first + l
  BY <1>1 DEF l
<1>6. n = m + l
  BY <1>2, <1>5, <1>3
<1> HIDE DEF n
<1>7. first + InputSize * (n \div InputSize) = p + 1
  BY <1>4, <1>5, <1>6 DEF l
<1>8. LineOf(s, first, last) = SubSeq(s, first + InputSize * (n \div InputSize), last - 1)
  BY DEF LineOf, n
<1> QED
  BY <1>7, <1>8

(* The line in the buffer is that of the text. *)
LEMMA NextLineOf ==
    ASSUME Reading, PacketsInv, stage = "lines", Ends # {}
    PROVE  LET i == pos - bufferLen + Min(Ends) + 1 IN
           /\ i \in 1..pos /\ text[i] = "\n"
           /\ After(text)[i - 1] = After(text)[Place]
           /\ NextLine = LineOf(text, After(text)[Place].first, i)
<1> DEFINE m == Min(Ends)
           i == pos - bufferLen + m + 1
           d == m - lineStart
<1>1. m \in Ends /\ (\A k \in Ends : m <= k) /\ m \in lineStart..(bufferLen - 1)
  <2>1. Ends \subseteq Nat
    BY Numbers DEF Ends
  <2> QED
    BY <2>1, SmallestOf, LineIn
<1> HIDE DEF m
<1>2. text[i] = "\n"
  BY <1>1 DEF Ends, Buffer
<1>3. m \in Nat /\ lineStart <= m /\ m < bufferLen
  <2>1. m \in lineStart..(bufferLen - 1)
    BY <1>1
  <2> QED
    BY <2>1, Places
<1>4. /\ i = pos - bufferLen + m + 1 /\ d = m - lineStart /\ i \in Nat /\ d \in Nat
      /\ i - 1 = Place + d /\ m < bufferLen
  BY <1>3, Places
<1> HIDE DEF i, d
<1>5. i \in 1..pos /\ i - 1 \in Place..Len(text)
  <2>1. Len(text) \in Nat /\ pos <= Len(text)
    BY Numbers
  <2>2. 1 <= i /\ i <= pos
    BY <1>3, <1>4, Places
  <2>3. Place <= i - 1 /\ i - 1 <= Len(text)
    BY <1>4, <2>1, <2>2, Places
  <2> QED
    BY <1>4, <2>1, <2>2, <2>3, Places
<1>6. ASSUME NEW k \in (Place + 1)..(i - 1) PROVE text[k] # "\n"
  <2> DEFINE j == k - (pos - bufferLen) - 1
  <2>1. j \in lineStart..(bufferLen - 1) /\ ~(m <= j) /\ pos - bufferLen + j + 1 = k
    <3>1. k \in Int /\ Place < k /\ k < i
      BY <1>4, Places
    <3>2. m \in Nat
      BY <1>3
    <3> HIDE DEF j
    <3>3. j = k - (pos - bufferLen) - 1
      BY DEF j
    <3> QED
      BY <1>4, <3>1, <3>2, <3>3, Places
  <2>2. j \notin Ends
    BY <1>1, <2>1
  <2> QED
    BY <2>1, <2>2 DEF Ends, Buffer
<1>7. After(text)[i - 1] = After(text)[Place]
  <2>1. text \in Seq(Chars) /\ Place \in 0..Len(text) /\ i - 1 \in Place..Len(text)
    BY <1>5, Numbers
  <2> QED
    BY <1>6, <2>1, NothingYet
<1>8. LineOf(text, After(text)[Place].first, i) = SubSeq(text, Place + 1, Place + d)
  <2> DEFINE first == After(text)[Place].first
  <2>1. Cut(first, Place)
    BY DEF PacketsInv
  <2> HIDE DEF first
  <2>2. Place \in Nat /\ InputSize \in Nat \ {0} /\ i \in (Place + 1)..(Place + InputSize)
    BY <1>3, <1>4, Places
  <2>3. LineOf(text, first, i) = SubSeq(text, Place + 1, i - 1)
    BY <2>1, <2>2, LastPiece
  <2> QED
    BY <1>4, <2>3 DEF first
<1>9. NextLine = [k \in 1..d |-> text[Place + k]]
  <2>1. NextLine = [k \in 1..d |-> Buffer(lineStart + k - 1)]
    BY DEF NextLine, m, d
  <2>2. \A k \in 1..d : Buffer(lineStart + k - 1) = text[Place + k]
    <3> SUFFICES ASSUME NEW k \in 1..d PROVE Buffer(lineStart + k - 1) = text[Place + k]
      OBVIOUS
    <3>1. pos - bufferLen + (lineStart + k - 1) + 1 = Place + k
      BY Numbers DEF Place
    <3> QED
      BY <3>1 DEF Buffer
  <2> QED
    BY <2>1, <2>2
<1>10. SubSeq(text, Place + 1, Place + d) = [k \in 1..d |-> text[Place + k]]
  <2>1. Place \in Nat /\ d \in Nat /\ Place + d <= Len(text)
    BY <1>4, <1>5, Numbers
  <2>2. 1 + (Place + d) - (Place + 1) = d /\ \A k \in 1..d : k + (Place + 1) - 1 = Place + k
    BY <2>1
  <2> QED
    BY <2>1, <2>2, Numbers
<1> QED
  BY <1>2, <1>5, <1>7, <1>8, <1>9, <1>10 DEF m, i

LEMMA InitPackets == HexInit => PacketsInv
<1> SUFFICES ASSUME HexInit PROVE PacketsInv
  OBVIOUS
<1>1. Reading
  BY InitReading
<1>2. pos = 0 /\ bufferLen = 0 /\ lineStart = 0 /\ stage = "options" /\ packets = <<>> /\ currentTs = StartTs
  BY DEF HexInit
<1>3. Place = 0
  BY <1>2 DEF Place
<1>4. After(text)[0] = AtStart
  BY <1>1, Numbers, AfterEquation DEF Then
<1>5. Cut(1, 0)
  BY <1>1, Numbers DEF Cut
<1> QED
  BY <1>1, <1>2, <1>3, <1>4, <1>5, Numbers DEF PacketsInv, AtStart

LEMMA NextPackets == Reading /\ PacketsInv /\ [HexNext]_<<vars, reader>> => PacketsInv'
<1> SUFFICES ASSUME Reading, PacketsInv, [HexNext]_<<vars, reader>> PROVE PacketsInv'
  OBVIOUS
<1>1. Reading'
  BY NextReading
<1>2. text' = text /\ After(text)' = After(text)
  <2>1. UNCHANGED input
    BY DEF HexNext, AddProgramName, WriteSection, ClearProgramName, WriteInterface, Opened, Opening,
           Writing, ReadDone, ReadEnds, ReadFails, Line, Rest, reader
  <2> QED
    BY <2>1, SameAfter DEF input
<1>3. ASSUME UNCHANGED <<pos, bufferLen, lineStart, output>>, stage' = stage \/ stage # "lines",
             stage' # "lines" \/ stage = "lines", stage' = "done" => pos = Len(text)
      PROVE  PacketsInv'
  BY <1>2, <1>3 DEF PacketsInv, Place, output
<1>4. CASE ReadDone
  <2>1. PICK n \in Nat : pos' = pos + n /\ bufferLen' = bufferLen + n
    BY <1>4, ReadMore
  <2>2. lineStart = 0 /\ lineStart' = 0 /\ stage' = "lines" /\ UNCHANGED output
    BY <1>4 DEF ReadDone, PacketsInv
  <2>3. Place' = Place
    BY <2>1, <2>2, Places DEF Place
  <2> QED
    BY <1>2, <2>2, <2>3 DEF PacketsInv, output
<1>5. CASE Line
  <2> DEFINE i == pos - bufferLen + Min(Ends) + 1
             before == After(text)[Place]
  <2>1. /\ i \in 1..pos /\ text[i] = "\n" /\ After(text)[i - 1] = before
        /\ NextLine = LineOf(text, before.first, i)
    BY <1>5, NextLineOf DEF Line
  <2>2. /\ lineStart' = Min(Ends) + 1 /\ UNCHANGED <<pos, bufferLen, stage>>
        /\ stage = "lines"
    BY <1>5 DEF Line
  <2>3. Min(Ends) \in Int
    BY <1>5, LineIn, Numbers DEF Line
  <2>4. Place' = i
    BY <2>2, <2>3, Numbers DEF Place
  <2> DEFINE result == Parsed(NextLine, currentTs)
  <2>5. /\ packets' = IF IsPacket(result) THEN Append(packets, result) ELSE packets
        /\ currentTs' = IF IsPacket(result) THEN result.ts + Period ELSE result.ts
    BY <1>5 DEF Line, Later
  <2>6. After(text)[i] = AtEnd(text, i, before)
    <3>1. i \in 0..Len(text) /\ i # 0
      BY <2>1, Numbers
    <3> HIDE DEF i, before
    <3> QED
      BY <2>1, <3>1, Numbers, AfterEquation DEF Then
  <2>7. packets = before.packets /\ currentTs = before.ts
    BY DEF PacketsInv
  <2> HIDE DEF before, i
  <2>8. /\ AtEnd(text, i, before).packets = packets' /\ AtEnd(text, i, before).ts = currentTs'
        /\ AtEnd(text, i, before).first = i + 1
    BY <2>1, <2>5, <2>7 DEF AtEnd
  <2>9. Cut(i + 1, i)
    <3>1. i \in Nat /\ i + 1 = i + 1 + InputSize * 0
      BY <2>1, Numbers
    <3> QED
      BY <3>1 DEF Cut
  <2> QED
    BY <1>2, <2>2, <2>4, <2>6, <2>8, <2>9 DEF PacketsInv
<1>6. CASE Rest
  <2>1. /\ lineStart' = 0 /\ stage' = "read" /\ UNCHANGED <<pos, output>>
        /\ bufferLen' = IF bufferLen - lineStart >= InputSize THEN 0 ELSE bufferLen - lineStart
        /\ Ends = {}
    BY <1>6 DEF Rest, TooLong
  <2>2. \A k \in (Place + 1)..pos : text[k] # "\n"
    <3> SUFFICES ASSUME NEW k \in (Place + 1)..pos PROVE text[k] # "\n"
      OBVIOUS
    <3> DEFINE j == k - (pos - bufferLen) - 1
    <3>1. j \in lineStart..(bufferLen - 1) /\ pos - bufferLen + j + 1 = k
      BY Numbers DEF Place
    <3> QED
      BY <2>1, <3>1 DEF Ends, Buffer
  <2>3. CASE bufferLen - lineStart >= InputSize
    <3>1. Place' = pos /\ pos = Place + InputSize /\ bufferLen' = 0
      <4>1. bufferLen' = 0 /\ lineStart' = 0 /\ pos' = pos /\ lineStart = 0 /\ bufferLen = InputSize
        BY <2>1, <2>3, Places
      <4>2. Place' = pos' - bufferLen' + lineStart'
        BY DEF Place
      <4> QED
        BY <4>1, <4>2, Places
    <3>2. After(text)[pos] = After(text)[Place]
      <4>1. text \in Seq(Chars) /\ Place \in 0..Len(text) /\ pos \in Place..Len(text)
        BY Numbers
      <4> QED
        BY <2>2, <4>1, NothingYet
    <3>3. Cut(After(text)[Place].first, pos)
      <4>1. PICK k \in Nat : Place + 1 = After(text)[Place].first + InputSize * k
        BY DEF PacketsInv, Cut
      <4>2. After(text)[Place].first \in Nat
        BY DEF PacketsInv, Cut
      <4>3. InputSize * (k + 1) = InputSize * k + InputSize
        BY Numbers
      <4>4. pos + 1 = After(text)[Place].first + InputSize * (k + 1)
        <5> DEFINE first == After(text)[Place].first
                   l == InputSize * k
        <5>1. l \in Nat
          BY Places
        <5> HIDE DEF first, l
        <5>2. first \in Nat /\ Place + 1 = first + l
          BY <4>1, <4>2 DEF first, l
        <5>3. InputSize * (k + 1) = l + InputSize
          BY <4>3 DEF l
        <5>4. pos = Place + InputSize
          BY <3>1
        <5>5. pos + 1 = first + (l + InputSize)
          BY <5>1, <5>2, <5>4, Places
        <5> QED
          BY <5>3, <5>5 DEF first
      <4> QED
        BY <4>2, <4>4 DEF Cut
    <3> QED
      BY <1>2, <2>1, <3>1, <3>2, <3>3, Numbers DEF PacketsInv, output
  <2>4. CASE ~(bufferLen - lineStart >= InputSize)
    <3>1. Place' = Place /\ bufferLen' < InputSize
      BY <2>1, <2>4, Numbers DEF Place
    <3> QED
      BY <1>2, <2>1, <2>2, <3>1 DEF PacketsInv, output
  <2> QED
    BY <2>3, <2>4
<1>7. CASE ReadEnds
  <2>1. pos = Len(text)
    BY <1>7, Numbers DEF ReadEnds, PacketsInv
  <2> QED
    BY <1>3, <1>7, <2>1 DEF ReadEnds
<1>8. CASE ReadFails
  BY <1>3, <1>8 DEF ReadFails
<1>9. CASE \/ AddProgramName \/ WriteSection \/ ClearProgramName \/ WriteInterface \/ Opened
  <2>1. /\ UNCHANGED <<pos, bufferLen, lineStart, output>>
        /\ stage # "lines" /\ stage' \notin {"lines", "done"}
    BY <1>9 DEF AddProgramName, WriteSection, ClearProgramName, WriteInterface, Opened, Opening, AfterWrite
  <2> QED
    BY <1>3, <2>1
<1>10. CASE UNCHANGED reader
  BY <1>2, <1>10 DEF reader, output, PacketsInv, Place
<1> QED
  BY <1>4, <1>5, <1>6, <1>7, <1>8, <1>9, <1>10 DEF HexNext, Writing

(* However the input is cut into reads, hex2pcapng finds the packets of its lines. *)
THEOREM SamePackets == HexSpec => []ChunkIndependent
<1>1. Reading /\ PacketsInv => ChunkIndependent
  <2> SUFFICES ASSUME Reading, PacketsInv, stage \in {"read", "done"}
               PROVE  packets = After(text)[pos].packets /\ (stage = "done" => pos = Len(text))
    BY DEF ChunkIndependent
  <2>1. \A k \in (Place + 1)..pos : text[k] # "\n"
    BY DEF PacketsInv
  <2>2. After(text)[pos] = After(text)[Place]
    <3>1. text \in Seq(Chars) /\ Place \in 0..Len(text) /\ pos \in Place..Len(text)
      BY Numbers
    <3> QED
      BY <2>1, <3>1, NothingYet
  <2> QED
    BY <2>2 DEF PacketsInv
<1>2. HexSpec => []PacketsInv
  BY InitReading, NextReading, InitPackets, NextPackets, PTL DEF HexSpec
<1> QED
  BY <1>1, <1>2, AlwaysReading, PTL
=============================================================================

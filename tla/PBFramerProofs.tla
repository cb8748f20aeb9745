--------------------------- MODULE PBFramerProofs ---------------------------
(* Proofs about PBFramer, for every line, however its bytes come in reads, and
   every order of the steps of the two threads.

   ParseInv says what parse_data knows of the packet it is in: as it keeps only
   packet_start and packet_len from one read to the next, this is all that has
   to be known to find the same packets as a parser of the whole line.       *)
EXTENDS PBFramer, SequenceTheorems, WellFoundedInduction, TLAPS

(* What has been checked of the first n bytes of a packet. *)
Header(n) ==
    /\ n >= 1 => Byte(0) \in StartSymbols \ {SC}
    /\ n >= 3 => /\ Byte(0) # SD4 /\ (Byte(0) = SD2 => Byte(1) = Byte(2))
                 /\ n <= Length
    /\ n >= 6 => (Byte(0) = SD2 => Byte(3) = SD2)

(* The thread does not wait for more bytes than the packet needs. *)
Incomplete(n) == n >= 3 => n < Length

ParseInv ==
    /\ pc \in {"read", "begin", "third", "sixth", "body"} => Header(plen)
    /\ pc \in {"read", "begin", "third", "sixth"} => Incomplete(plen)
    /\ pc = "third" => plen >= 1
    /\ pc = "sixth" => plen >= 3
    /\ pc = "body" => plen >= 6
    /\ pc = "emit" => IsTelegram(stream, start) /\ plen = Total(stream, start)

ThreadInv == BufferHolds /\ ParseInv /\ ChunkIndependent

QueueInv == QueueBound /\ LossCounted /\ PromptWakeup

(* The limit of the queue once main has set it. *)
LimitInv == mainPc # "start" => maxQueue = MaxQueue

IInv == TypeOK /\ ThreadInv /\ QueueInv /\ LimitInv

-----------------------------------------------------------------------------
LEMMA Symbols ==
    /\ SC = 229 /\ SD1 = 16 /\ SD2 = 104 /\ SD3 = 162 /\ SD4 = 220
    /\ StartSymbols = {SC, SD1, SD2, SD3, SD4}
BY DEF SC, SD1, SD2, SD3, SD4, StartSymbols

LEMMA Line ==
    ASSUME TypeOK
    PROVE  /\ stream \in Seq(0..255) /\ Len(stream) \in Nat /\ pos \in Nat /\ pos <= Len(stream)
           /\ start \in Nat /\ base \in Nat /\ plen \in Nat /\ len \in Nat
BY StreamsAssumption DEF TypeOK

(* The bytes of the packet are those of the line from packet_start on. *)
LEMMA Bytes ==
    ASSUME TypeOK, BufferHolds, NEW i \in Nat, i < plen + len
    PROVE  /\ Byte(i) \in 0..255 /\ At(stream, start, i) = Byte(i)
           /\ Has(stream, start, i + 1)
<1>1. start + i + 1 \in 1..Len(stream) /\ start + (i + 1) <= Len(stream)
  <2>1. /\ start + (plen + len) <= Len(stream)
        /\ {start, plen + len, Len(stream)} \subseteq Nat
    BY Line DEF BufferHolds
  <2> QED
    BY <2>1
<1>2. stream[start + i + 1] \in 0..255
  BY <1>1, Line, ElementOfSeq
<1> QED
  BY <1>1, <1>2 DEF Byte, At, Has

(* The first byte says which kind of telegram begins. *)
LEMMA FirstByte ==
    ASSUME TypeOK, BufferHolds, 1 <= plen + len
    PROVE  /\ Has(stream, start, 1) /\ At(stream, start, 0) = Byte(0)
           /\ \A symbol : Starts(stream, start, symbol) <=> Byte(0) = symbol
           /\ start < Len(stream) /\ start # Len(stream)
BY Line, Bytes DEF Starts, Has

(* Length is the whole length of the packet, which fits in the buffer. *)
LEMMA Lengths ==
    ASSUME TypeOK, BufferHolds, 3 <= plen + len, Byte(0) \in {SD1, SD2, SD3}
    PROVE  /\ Length \in Nat /\ 6 <= Length /\ Length = Total(stream, start)
           /\ (Byte(0) = SD2 => Byte(1) = Byte(2)) => Length <= BufferCapacity
<1>1. Byte(1) \in 0..255 /\ At(stream, start, 1) = Byte(1)
  BY Line, Bytes
<1>2. At(stream, start, 2) = Byte(2) /\ Has(stream, start, 3) /\ start \in 0..(Len(stream) - 3)
  BY Line, Bytes DEF Has
<1>3. \A symbol : Starts(stream, start, symbol) <=> Byte(0) = symbol
  BY Line, FirstByte
<1>4. Length \in Nat /\ 6 <= Length /\ Length = Total(stream, start)
  <2>1. CASE Byte(0) = SD1
    BY <1>3, <2>1, Symbols DEF Length, Total
  <2>2. CASE Byte(0) = SD2
    <3>1. Length = Byte(1) + 6
      BY <2>2, Symbols DEF Length
    <3>2. Total(stream, start) = At(stream, start, 1) + 6
      BY <1>2, <1>3, <2>2, Symbols DEF Total
    <3> QED
      BY <1>1, <3>1, <3>2
  <2>3. CASE Byte(0) = SD3
    BY <1>3, <2>3, Symbols DEF Length, Total
  <2> QED
    BY <2>1, <2>2, <2>3
<1>5. Byte(0) = SD2 /\ Byte(1) = Byte(2) => Length <= BufferCapacity
  BY <1>1, <1>2, <1>3, <1>4, CapacityAssumption DEF TypeOK
<1>6. Byte(0) # SD2 => Length <= 14
  BY Symbols DEF Length
<1> QED
  BY <1>4, <1>5, <1>6, CapacityAssumption

-----------------------------------------------------------------------------
(* What the steps of parse_data find is what a parser of the line finds.     *)

(* A byte that begins no telegram. *)
LEMMA NoStart ==
    ASSUME TypeOK, BufferHolds, 1 <= plen + len, Byte(0) \notin StartSymbols
    PROVE  Advance(stream, start) = 1 /\ ~IsTelegram(stream, start)
<1>1. Advance(stream, start) = 1
  <2>1. start # Len(stream) /\ start < Len(stream)
    BY Line, FirstByte
  <2>2. At(stream, start, 0) \notin StartSymbols
    BY FirstByte
  <2>3. ~BadHeader(stream, start)
    BY FirstByte, Symbols DEF BadHeader
  <2> QED
    BY <2>1, <2>2, <2>3 DEF Advance
<1>2. ~IsTelegram(stream, start)
  BY FirstByte DEF IsTelegram
<1> QED
  BY <1>1, <1>2

(* The lengths or the start delimiters of SD2 differ. *)
LEMMA HeaderWrong ==
    ASSUME TypeOK, BufferHolds, Byte(0) = SD2,
           \/ 3 <= plen + len /\ Byte(1) # Byte(2)
           \/ 6 <= plen + len /\ Byte(3) # SD2
    PROVE  Advance(stream, start) = 3 /\ ~IsTelegram(stream, start)
<1>1. BadHeader(stream, start)
  <2>1. 1 <= plen + len /\ plen + len \in Nat
    BY Line
  <2>2. Starts(stream, start, SD2)
    BY <2>1, FirstByte
  <2>3. CASE 3 <= plen + len /\ Byte(1) # Byte(2)
    BY <2>1, <2>2, <2>3, Bytes DEF BadHeader
  <2>4. CASE 6 <= plen + len /\ Byte(3) # SD2
    <3>1. Has(stream, start, 6) /\ At(stream, start, 3) = Byte(3)
      BY <2>1, <2>4, Bytes
    <3> QED
      BY <2>2, <2>4, <3>1 DEF BadHeader
  <2> QED
    BY <2>3, <2>4
<1>2. start # Len(stream) /\ At(stream, start, 0) \in StartSymbols
  BY Line, FirstByte, Symbols
<1> QED
  BY <1>1, <1>2 DEF Advance, IsTelegram

(* A telegram of SC or SD4 has no more than its length. *)
LEMMA Short2 ==
    ASSUME TypeOK, BufferHolds,
           \/ 1 <= plen + len /\ Byte(0) = SC
           \/ 3 <= plen + len /\ Byte(0) = SD4
    PROVE  /\ IsTelegram(stream, start)
           /\ Total(stream, start) = (IF Byte(0) = SC THEN 1 ELSE 3)
<1>1. 1 <= plen + len /\ plen + len \in Nat
  BY Line
<1>2. \A symbol : Starts(stream, start, symbol) <=> Byte(0) = symbol
  BY <1>1, FirstByte
<1>3. Byte(0) \notin {SD1, SD2, SD3} /\ Byte(0) \in StartSymbols
  BY Symbols
<1>4. Total(stream, start) = (IF Byte(0) = SC THEN 1 ELSE 3)
  BY <1>2, Symbols DEF Total
<1>5. Has(stream, start, Total(stream, start))
  BY <1>1, <1>4, Bytes, Symbols
<1> QED
  BY <1>2, <1>3, <1>4, <1>5 DEF IsTelegram, BadHeader

(* A telegram with data is one when it is verified. *)
LEMMA Checked ==
    ASSUME TypeOK, BufferHolds, Byte(0) \in {SD1, SD2, SD3}, 3 <= plen + len,
           Length <= plen + len,
           Byte(0) = SD2 => Byte(1) = Byte(2) /\ Byte(3) = SD2
    PROVE  /\ Advance(stream, start) = Length /\ Total(stream, start) = Length
           /\ IsTelegram(stream, start) <=> Verified
<1>1. /\ Length \in Nat /\ 6 <= Length /\ Length = Total(stream, start)
      /\ plen + len \in Nat /\ 1 <= plen + len /\ 6 <= plen + len
  BY Line, Lengths
<1>2. \A symbol : Starts(stream, start, symbol) <=> Byte(0) = symbol
  BY <1>1, FirstByte
<1>3. ~BadHeader(stream, start)
  BY <1>1, <1>2, Bytes DEF BadHeader
<1>4. Has(stream, start, Length)
  <2>1. start + (plen + len) <= Len(stream) /\ start \in Nat /\ Len(stream) \in Nat
    BY Line DEF BufferHolds
  <2>2. start + Length <= Len(stream)
    BY <1>1, <2>1
  <2> QED
    BY <2>2 DEF Has
<1>5. /\ At(stream, start, Length - 1) = Byte(Length - 1)
      /\ At(stream, start, Length - 2) = Byte(Length - 2)
  BY <1>1, Bytes
<1>6. Byte(0) \in StartSymbols /\ Byte(0) # SC /\ Byte(0) # SD4
  BY Symbols
<1>7. Advance(stream, start) = Length
  BY <1>1, <1>3, <1>4, <1>6, FirstByte DEF Advance
<1>8. IsTelegram(stream, start) <=> Verified
  <2>1. CASE Byte(0) = SD2
    BY <1>1, <1>2, <1>3, <1>4, <1>5, <1>6, <2>1, Symbols
    DEF IsTelegram, Verified, Closed
  <2>2. CASE Byte(0) # SD2
    BY <1>1, <1>2, <1>3, <1>4, <1>5, <1>6, <2>2, Symbols
    DEF IsTelegram, Verified, Closed
  <2> QED
    BY <2>1, <2>2
<1> QED
  BY <1>1, <1>7, <1>8

(* After a telegram a parser goes on behind it. *)
LEMMA AfterTelegram ==
    ASSUME TypeOK, IsTelegram(stream, start)
    PROVE  /\ Advance(stream, start) = Total(stream, start)
           /\ start + Total(stream, start) <= Len(stream)
<1>1. PICK symbol \in StartSymbols : Starts(stream, start, symbol)
  BY DEF IsTelegram
<1>2. start # Len(stream) /\ At(stream, start, 0) \in StartSymbols
  BY <1>1, Line DEF Starts, Has
<1>3. ~BadHeader(stream, start) /\ Has(stream, start, Total(stream, start))
  BY DEF IsTelegram
<1> QED
  BY <1>2, <1>3 DEF Advance, Has

(* Induction from n down to 0: a set of them that has every number above which
   it has all is the whole of them. *)
LEMMA Downward ==
    ASSUME NEW n \in Nat, NEW P \in SUBSET (0..n),
           \A k \in 0..n : (k + 1)..n \subseteq P => k \in P
    PROVE  P = 0..n
<1> DEFINE R == {ss \in Nat \X Nat : ss[1] < ss[2]}
           S == {m \in 0..n : n - m \notin P}
<1>1. IsWellFoundedOn(R, Nat)
  BY NatLessThanWellFounded DEF OpToRel
<1>2. SUFFICES ASSUME S # {} PROVE FALSE
  <2>1. ASSUME NEW k \in 0..n PROVE k \in P
    <3>1. n - k \in 0..n /\ n - (n - k) = k
      OBVIOUS
    <3> QED
      BY <1>2, <3>1
  <2> QED
    BY <2>1
<1>3. PICK m \in S : \A j \in S : ~(<<j, m>> \in R)
  <2>1. S \subseteq Nat
    OBVIOUS
  <2> HIDE DEF R, S
  <2> QED
    BY <1>1, <1>2, <2>1, WFMin
<1>4. ASSUME NEW k \in (n - m + 1)..n PROVE k \in P
  <2>1. n - k \in Nat /\ m \in Nat /\ n - k < m /\ n - k \in 0..n /\ n - (n - k) = k
    BY <1>4
  <2>2. <<n - k, m>> \in R
    BY <2>1
  <2> QED
    BY <1>3, <2>1, <2>2
<1>5. n - m \in 0..n /\ n - m \notin P
  OBVIOUS
<1> QED
  BY <1>4, <1>5

(* A telegram has at least one byte. *)
LEMMA TotalIn ==
    ASSUME NEW s \in Seq(0..255), NEW i \in Nat, NEW symbol \in StartSymbols, Starts(s, i, symbol)
    PROVE  Total(s, i) \in Nat \ {0}
<1>1. \A other : Starts(s, i, other) <=> other = symbol
  BY DEF Starts
<1>2. CASE symbol = SD2 /\ Has(s, i, 3)
  <2>1. Len(s) \in Nat /\ i + 2 \in 1..Len(s) /\ i + 1 + 1 = i + 2
    BY <1>2 DEF Has
  <2>2. s[i + 2] \in 0..255
    BY <2>1, ElementOfSeq
  <2>3. At(s, i, 1) \in 0..255
    BY <2>1, <2>2 DEF At
  <2>4. Total(s, i) = At(s, i, 1) + 6
    BY <1>1, <1>2, Symbols DEF Total
  <2> DEFINE b == At(s, i, 1)
  <2>5. b \in 0..255 /\ Total(s, i) = b + 6
    BY <2>3, <2>4
  <2> HIDE DEF b
  <2>6. b + 6 \in Nat \ {0}
    BY <2>5
  <2> QED
    BY <2>5, <2>6
<1>3. CASE ~(symbol = SD2 /\ Has(s, i, 3))
  BY <1>1, <1>3, Symbols DEF Total
<1> QED
  BY <1>2, <1>3

(* A parser of the whole line goes forward, within the line. *)
LEMMA AdvanceIn ==
    ASSUME NEW s \in Seq(0..255), NEW i \in 0..Len(s), Advance(s, i) # 0
    PROVE  i < Len(s) /\ Advance(s, i) \in Nat \ {0} /\ i + Advance(s, i) <= Len(s)
<1>1. Len(s) \in Nat /\ i \in Nat
  OBVIOUS
<1>2. i < Len(s)
  <2>1. SUFFICES ASSUME i = Len(s) PROVE FALSE
    BY <1>1
  <2>2. ~BadHeader(s, i)
    BY <1>1, <2>1 DEF BadHeader, Starts, Has
  <2>3. ~(i < Len(s))
    BY <1>1, <2>1
  <2> QED
    BY <2>1, <2>2, <2>3 DEF Advance
<1>3. CASE At(s, i, 0) \notin StartSymbols
  <2>1. ~BadHeader(s, i)
    BY <1>3 DEF BadHeader, Starts, StartSymbols
  <2>2. Advance(s, i) = 1
    BY <1>1, <1>2, <1>3, <2>1 DEF Advance
  <2> QED
    BY <1>1, <1>2, <2>2
<1>4. CASE At(s, i, 0) \in StartSymbols /\ BadHeader(s, i)
  <2>1. Advance(s, i) = 3
    BY <1>2, <1>4 DEF Advance
  <2>2. Has(s, i, 3) \/ Has(s, i, 6)
    BY <1>4 DEF BadHeader
  <2> QED
    BY <1>1, <1>2, <2>1, <2>2 DEF Has
<1>5. CASE At(s, i, 0) \in StartSymbols /\ ~BadHeader(s, i)
  <2>1. Advance(s, i) = Total(s, i) /\ Has(s, i, Total(s, i))
    BY <1>2, <1>5 DEF Advance
  <2>2. Starts(s, i, At(s, i, 0))
    BY <1>1, <1>2 DEF Starts, Has
  <2>3. Total(s, i) \in Nat \ {0}
    BY <1>1, <1>5, <2>2, TotalIn
  <2> QED
    BY <1>1, <1>2, <2>1, <2>3 DEF Has
<1> QED
  BY <1>3, <1>4, <1>5

(* What is found from i on, if rest is found after it. *)
FromHere(s, rest, i) ==
    IF Advance(s, i) = 0 THEN <<>>
    ELSE (IF IsTelegram(s, i) THEN <<i>> ELSE <<>>) \o rest[i + Advance(s, i)]

(* Found is as its definition says: there is such a function, as what is found
   from an offset on depends on what is found further on only. *)
LEMMA FoundEquation ==
    ASSUME NEW s \in Streams
    PROVE  /\ Found[s] \in [0..Len(s) -> Seq(Nat)]
           /\ \A i \in 0..Len(s) : Found[s][i] = FromHere(s, Found[s], i)
<1> DEFINE n == Len(s)
           Solves(g, k) == g \in [k..n -> Seq(Nat)] /\ \A i \in k..n : g[i] = FromHere(s, g, i)
           P == {k \in 0..n : \E g : Solves(g, k)}
<1>1. s \in Seq(0..255) /\ n \in Nat
  BY StreamsAssumption
<1>2. ASSUME NEW k \in 0..n, (k + 1)..n \subseteq P PROVE k \in P
  <2>1. \E g : Solves(g, k + 1)
    <3>1. CASE k = n
      <4>1. (k + 1)..n = {}
        BY <1>1, <3>1
      <4>2. Solves([i \in (k + 1)..n |-> <<>>], k + 1)
        BY <4>1
      <4> QED
        BY <4>2
    <3>2. CASE k < n
      <4>1. k + 1 \in (k + 1)..n
        BY <1>1, <3>2
      <4> QED
        BY <1>2, <4>1
    <3> QED
      BY <1>1, <3>1, <3>2
  <2>2. PICK g : Solves(g, k + 1)
    BY <2>1
  <2> DEFINE h == [i \in k..n |-> IF i = k THEN FromHere(s, g, k) ELSE g[i]]
  <2>3. ASSUME NEW i \in k..n
        PROVE  FromHere(s, h, i) = FromHere(s, g, i) /\ FromHere(s, g, i) \in Seq(Nat)
    <3>1. CASE Advance(s, i) = 0
      BY <3>1 DEF FromHere
    <3>2. CASE Advance(s, i) # 0
      <4>1. i \in 0..n /\ i + Advance(s, i) \in (k + 1)..n
        <5>1. i \in 0..n
          BY <1>1, <2>3
        <5>2. Advance(s, i) \in Nat \ {0} /\ i + Advance(s, i) <= n
          BY <1>1, <3>2, <5>1, AdvanceIn
        <5> QED
          BY <1>1, <2>3, <5>1, <5>2
      <4>2. h[i + Advance(s, i)] = g[i + Advance(s, i)] /\ g[i + Advance(s, i)] \in Seq(Nat)
        BY <1>1, <2>2, <4>1
      <4>3. i \in Nat
        BY <4>1
      <4>4. FromHere(s, h, i) = FromHere(s, g, i)
        <5> HIDE DEF h
        <5> QED
          BY <4>2 DEF FromHere
      <4>5. FromHere(s, g, i) \in Seq(Nat)
        <5>1. FromHere(s, g, i) =
                  (IF IsTelegram(s, i) THEN <<i>> ELSE <<>>) \o g[i + Advance(s, i)]
          BY <3>2 DEF FromHere
        <5>2. <<i>> \in Seq(Nat) /\ <<>> \in Seq(Nat)
          BY <4>3
        <5> QED
          BY <4>2, <5>1, <5>2
      <4> QED
        BY <4>4, <4>5
    <3> QED
      BY <3>1, <3>2
  <2>4. ASSUME NEW i \in k..n PROVE h[i] = FromHere(s, g, i)
    <3>1. i = k \/ i \in (k + 1)..n
      BY <1>1, <2>4
    <3> QED
      BY <2>2, <2>4, <3>1
  <2>5. Solves(h, k)
    <3> HIDE DEF h
    <3>1. h \in [k..n -> Seq(Nat)]
      <4>1. h = [i \in k..n |-> h[i]]
        BY DEF h
      <4> QED
        BY <2>3, <2>4, <4>1
    <3> QED
      BY <2>3, <2>4, <3>1
  <2> QED
    BY <2>5
<1>3. P = 0..n
  <2> HIDE DEF P
  <2>1. P \subseteq 0..n
    BY DEF P
  <2> QED
    BY <1>1, <1>2, <2>1, Downward
<1>4. PICK g : Solves(g, 0)
  <2>1. 0 \in P
    <3> HIDE DEF P
    <3> QED
      BY <1>1, <1>3
  <2> QED
    BY <2>1
<1> DEFINE f == Found[s]
<1>5. f = CHOOSE f0 : f0 = [i \in 0..n |-> FromHere(s, f0, i)]
  BY DEF Found, FromHere
<1>6. g = [i \in 0..n |-> FromHere(s, g, i)]
  BY <1>4
<1>7. f = [i \in 0..n |-> FromHere(s, f, i)]
  BY <1>5, <1>6
<1> DEFINE Q == {k \in 0..n : f[k] \in Seq(Nat)}
<1>8. Q = 0..n
  <2>1. ASSUME NEW k \in 0..n, (k + 1)..n \subseteq Q PROVE k \in Q
    <3>1. CASE Advance(s, k) = 0
      BY <1>7, <3>1 DEF FromHere
    <3>2. CASE Advance(s, k) # 0
      <4>1. k + Advance(s, k) \in (k + 1)..n
        <5>1. Advance(s, k) \in Nat \ {0} /\ k + Advance(s, k) <= n
          BY <1>1, <3>2, AdvanceIn
        <5> QED
          BY <1>1, <5>1
      <4>2. f[k + Advance(s, k)] \in Seq(Nat) /\ <<k>> \in Seq(Nat) /\ <<>> \in Seq(Nat)
        BY <2>1, <4>1
      <4>3. f[k] = (IF IsTelegram(s, k) THEN <<k>> ELSE <<>>) \o f[k + Advance(s, k)]
        BY <1>7, <3>2 DEF FromHere
      <4>4. f[k] \in Seq(Nat)
        <5> HIDE DEF f
        <5> QED
          BY <4>2, <4>3
      <4> QED
        BY <2>1, <4>4
    <3> QED
      BY <3>1, <3>2
  <2>2. Q \subseteq 0..n
    OBVIOUS
  <2> HIDE DEF Q
  <2> QED
    BY <1>1, <2>1, <2>2, Downward
<1> QED
  BY <1>7, <1>8
LEMMA TotalPositive ==
    ASSUME TypeOK, IsTelegram(stream, start)
    PROVE  Total(stream, start) # 0
BY Line, TotalIn DEF IsTelegram

(* When the parser goes on as one of the whole line does, what has been found
   and is still to be found stays the same. *)
LEMMA Onward ==
    ASSUME TypeOK, ChunkIndependent, NEW n \in Nat \ {0}, start + n <= Len(stream),
           Advance(stream, start) = n
    PROVE  LET new == IF IsTelegram(stream, start) THEN Append(framed, start) ELSE framed
           IN  new \o Found[stream][start + n] = Found[stream][0]
<1> DEFINE rest == Found[stream][start + n]
<1>1. /\ rest \in Seq(Nat)
      /\ Found[stream][start] =
            (IF IsTelegram(stream, start) THEN <<start>> ELSE <<>>) \o rest
  <2>1. start \in 0..Len(stream) /\ start + n \in 0..Len(stream)
    BY Line
  <2> QED
    BY <2>1, FoundEquation DEF TypeOK, FromHere
<1>2. framed \in Seq(Nat) /\ start \in Nat
  BY Line DEF TypeOK
<1> HIDE DEF rest
<1>3. CASE IsTelegram(stream, start)
  <2>1. Append(framed, start) \o rest = framed \o (<<start>> \o rest)
    <3>1. Append(framed, start) = framed \o <<start>> /\ <<start>> \in Seq(Nat)
      BY <1>2
    <3>2. (framed \o <<start>>) \o rest = framed \o (<<start>> \o rest)
      BY <1>1, <1>2, <3>1, ConcatAssociative
    <3> QED
      BY <3>1, <3>2
  <2> QED
    BY <1>1, <1>3, <2>1 DEF ChunkIndependent, rest
<1>4. CASE ~IsTelegram(stream, start)
  <2>1. <<>> \o rest = rest
    BY <1>1
  <2> QED
    BY <1>1, <1>4, <2>1 DEF ChunkIndependent, rest
<1> QED
  BY <1>3, <1>4

-----------------------------------------------------------------------------
(* The steps of the thread.                                                  *)
PlaceOK == start \in Nat /\ plen \in Nat /\ len \in Nat

(* What the stages of parse_data leave alone. *)
LineKept == UNCHANGED <<stream, pos, base, framed>>

LEMMA Kept ==
    ASSUME Begin \/ Third \/ Sixth \/ Body
    PROVE  LineKept
BY DEF Begin, Third, Sixth, Body, LineKept, line, sink

LEMMA Held ==
    ASSUME TypeOK, ThreadInv
    PROVE  /\ PlaceOK /\ pos \in Nat /\ base \in Nat /\ pos <= Len(stream) /\ Len(stream) \in Nat
           /\ start + plen + len = pos /\ base <= start /\ pos - base <= BufferCapacity
BY Line DEF ThreadInv, BufferHolds, PlaceOK

(* The bytes of a packet that stays where it is. *)
LEMMA SameBytes ==
    ASSUME stream' = stream, start' = start
    PROVE  /\ Byte(0)' = Byte(0) /\ Byte(1)' = Byte(1) /\ Byte(2)' = Byte(2) /\ Byte(3)' = Byte(3)
           /\ Length' = Length
BY DEF Byte, Length

LEMMA SameHeader ==
    ASSUME stream' = stream, start' = start, NEW n \in Nat, plen' = n, Header(n), Incomplete(n)
    PROVE  Header(plen)' /\ Incomplete(plen)'
BY SameBytes DEF Header, Incomplete

(* To wait for more bytes: what is known is known of all bytes read. *)
LEMMA MoreStep ==
    ASSUME TypeOK, ThreadInv, LineKept, NEW n \in Nat, n <= BufferCapacity, More(n),
           Header(plen + len), Incomplete(plen + len)
    PROVE  PlaceOK' /\ ThreadInv'
<1>1. /\ plen' = plen + len /\ len' = 0 /\ start' = start /\ pc' = "read" /\ plen + len < n
      /\ plen + len \in Nat
  BY Held DEF More, Short, PlaceOK
<1>2. stream' = stream /\ pos' = pos /\ base' = base /\ framed' = framed
  BY DEF LineKept
<1>3. PlaceOK' /\ BufferHolds'
  BY <1>1, <1>2, Held, CapacityAssumption DEF BufferHolds, PlaceOK
<1>4. ParseInv'
  BY <1>1, <1>2, SameHeader DEF ParseInv
<1>5. ChunkIndependent'
  BY <1>1, <1>2 DEF ThreadInv, ChunkIndependent
<1> QED
  BY <1>3, <1>4, <1>5 DEF ThreadInv

(* To take up to n bytes into the packet. *)
LEMMA GrowStep ==
    ASSUME TypeOK, ThreadInv, LineKept, NEW n \in Nat, Grow(n), pc' # "read"
    PROVE  /\ PlaceOK' /\ BufferHolds' /\ ChunkIndependent'
           /\ n <= plen + len /\ plen' = (IF plen < n THEN n ELSE plen) /\ plen \in Nat
           /\ stream' = stream /\ start' = start
<1>1. /\ start' = start /\ n <= plen + len
      /\ \/ plen < n /\ plen' = n /\ len' = len - (n - plen)
         \/ ~(plen < n) /\ plen' = plen /\ len' = len
  BY Held DEF Grow, Short, PlaceOK
<1>2. stream' = stream /\ pos' = pos /\ base' = base /\ framed' = framed
  BY DEF LineKept
<1>3. /\ PlaceOK /\ pos \in Nat /\ base \in Nat
      /\ start + plen + len = pos /\ base <= start /\ pos - base <= BufferCapacity
  BY Held
<1>4. PlaceOK' /\ start' + plen' + len' = pos' /\ base' <= start'
  <2>1. CASE plen < n /\ plen' = n /\ len' = len - (n - plen)
    BY <1>1, <1>2, <1>3, <2>1 DEF PlaceOK
  <2>2. CASE plen' = plen /\ len' = len
    BY <1>1, <1>2, <1>3, <2>2 DEF PlaceOK
  <2> QED
    BY <1>1, <2>1, <2>2
<1>5. BufferHolds'
  BY <1>2, <1>3, <1>4 DEF BufferHolds
<1>6. ChunkIndependent'
  BY <1>1, <1>2 DEF ThreadInv, ChunkIndependent
<1>7. plen' = (IF plen < n THEN n ELSE plen) /\ plen \in Nat
  BY <1>1, <1>3 DEF PlaceOK
<1> QED
  BY <1>1, <1>2, <1>4, <1>5, <1>6, <1>7

(* To skip what a parser of the whole line skips. *)
LEMMA SkipStep ==
    ASSUME TypeOK, ThreadInv, LineKept, NEW n \in Nat \ {0}, Skip(n),
           Advance(stream, start) = n, ~IsTelegram(stream, start)
    PROVE  PlaceOK' /\ ThreadInv'
<1>1. /\ plen' = 0 /\ start' = start + n /\ len' = pos - (start + n) /\ pc' = "begin"
      /\ n <= plen + len
  BY Held DEF Skip, Short, PlaceOK
<1>2. stream' = stream /\ pos' = pos /\ base' = base /\ framed' = framed
  BY DEF LineKept
<1>3. PlaceOK' /\ BufferHolds'
  <2>1. /\ PlaceOK /\ n \in Nat /\ pos \in Nat /\ base \in Nat
        /\ start + plen + len = pos /\ base <= start /\ pos - base <= BufferCapacity
    BY Held
  <2>2. PlaceOK' /\ start' + plen' + len' = pos' /\ base' <= start'
    BY <1>1, <1>2, <2>1 DEF PlaceOK
  <2> QED
    BY <1>1, <1>2, <2>1, <2>2 DEF BufferHolds
<1>4. ParseInv'
  <2>1. Header(plen)' /\ Incomplete(plen)'
    BY <1>1 DEF Header, Incomplete
  <2> QED
    BY <1>1, <2>1 DEF ParseInv
<1>5. ChunkIndependent'
  <2>1. start + n <= Len(stream)
    <3>1. /\ start + plen + len = pos /\ pos \in Nat /\ pos <= Len(stream) /\ Len(stream) \in Nat
          /\ start \in Nat /\ plen \in Nat /\ len \in Nat
      BY Held DEF PlaceOK
    <3> QED
      BY <1>1, <3>1
  <2>2. framed \o Found[stream][start + n] = Found[stream][0]
    BY <2>1, Onward DEF ThreadInv
  <2> QED
    BY <1>1, <1>2, <2>2 DEF ChunkIndependent
<1> QED
  BY <1>3, <1>4, <1>5 DEF ThreadInv

LEMMA BeginStep ==
    ASSUME TypeOK, ThreadInv, Begin
    PROVE  PlaceOK' /\ ThreadInv'
<1>1. pc = "begin" /\ Header(plen) /\ Incomplete(plen) /\ LineKept /\ BufferHolds
  BY Kept DEF Begin, ThreadInv, ParseInv
<1>2. CASE More(1)
  <2>1. plen + len = 0 /\ 1 <= BufferCapacity
    BY <1>2, Held, CapacityAssumption DEF More, Short, PlaceOK
  <2>2. Header(plen + len) /\ Incomplete(plen + len)
    BY <2>1 DEF Header, Incomplete
  <2> QED
    BY <1>1, <1>2, <2>1, <2>2, MoreStep
<1>3. CASE ~Short(1) /\ Byte(0) \notin StartSymbols /\ Skip(1)
  <2>1. 1 <= plen + len
    BY <1>3, Held DEF Short, PlaceOK
  <2> QED
    BY <1>1, <1>3, <2>1, NoStart, SkipStep
<1>4. CASE /\ Grow(1) /\ Byte(0) \in StartSymbols
           /\ pc' = IF Byte(0) = SC THEN "emit" ELSE "third"
  <2>1. /\ PlaceOK' /\ BufferHolds' /\ ChunkIndependent'
        /\ 1 <= plen + len /\ plen' = (IF plen < 1 THEN 1 ELSE plen) /\ plen \in Nat
        /\ stream' = stream /\ start' = start
    BY <1>1, <1>4, GrowStep
  <2>2. CASE Byte(0) = SC
    <3>1. plen' = 1
      BY <1>1, <2>1, <2>2 DEF Header
    <3>2. IsTelegram(stream, start) /\ Total(stream, start) = 1
      BY <1>1, <2>1, <2>2, Short2
    <3>3. pc' = "emit"
      BY <1>4, <2>2
    <3> QED
      BY <2>1, <3>1, <3>2, <3>3 DEF ThreadInv, ParseInv
  <2>3. CASE Byte(0) # SC
    <3>1. plen' >= 1 /\ plen' \in Nat /\ Header(plen') /\ Incomplete(plen')
      BY <1>1, <1>4, <2>1, <2>3 DEF Header, Incomplete
    <3>2. pc' = "third"
      BY <1>4, <2>3
    <3> QED
      BY <2>1, <3>1, <3>2, SameHeader DEF ThreadInv, ParseInv
  <2> QED
    BY <2>2, <2>3
<1> QED
  BY <1>2, <1>3, <1>4 DEF Begin

(* The kind of the packet once its header has been looked at. *)
LEMMA Kind ==
    ASSUME TypeOK, ThreadInv, NEW n \in Nat, Header(n), n >= 3
    PROVE  Byte(0) \in {SD1, SD2, SD3} /\ (Byte(0) = SD2 => Byte(1) = Byte(2))
BY Symbols DEF Header

LEMMA ThirdStep ==
    ASSUME TypeOK, ThreadInv, Third
    PROVE  PlaceOK' /\ ThreadInv'
<1>1. /\ pc = "third" /\ Header(plen) /\ Incomplete(plen) /\ LineKept /\ BufferHolds
      /\ plen \in Nat /\ len \in Nat /\ plen >= 1 /\ Byte(0) \in StartSymbols \ {SC}
  BY Kept, Held DEF Third, ThreadInv, ParseInv, Header, PlaceOK
<1>2. CASE More(3)
  <2>1. plen + len < 3 /\ 3 <= BufferCapacity
    BY <1>1, <1>2, CapacityAssumption DEF More, Short
  <2>2. Header(plen + len) /\ Incomplete(plen + len)
    BY <1>1, <2>1 DEF Header, Incomplete
  <2> QED
    BY <1>1, <1>2, <2>1, <2>2, MoreStep
<1>3. CASE Grow(3) /\ Byte(0) = SD4 /\ pc' = "emit"
  <2>1. /\ PlaceOK' /\ BufferHolds' /\ ChunkIndependent'
        /\ 3 <= plen + len /\ plen' = (IF plen < 3 THEN 3 ELSE plen)
        /\ stream' = stream /\ start' = start
    BY <1>1, <1>3, GrowStep
  <2>2. plen' = 3
    BY <1>1, <1>3, <2>1 DEF Header
  <2>3. IsTelegram(stream, start) /\ Total(stream, start) = 3
    BY <1>1, <1>3, <2>1, Short2, Symbols
  <2> QED
    BY <1>3, <2>1, <2>2, <2>3 DEF ThreadInv, ParseInv
<1>4. CASE ~Short(3) /\ Byte(0) = SD2 /\ Byte(1) # Byte(2) /\ Skip(3)
  <2>1. 3 <= plen + len
    BY <1>1, <1>4 DEF Short
  <2> QED
    BY <1>1, <1>4, <2>1, HeaderWrong, SkipStep
<1>5. CASE /\ Grow(3) /\ Byte(0) # SD4 /\ (Byte(0) = SD2 => Byte(1) = Byte(2))
           /\ pc' = "sixth"
  <2>1. /\ PlaceOK' /\ BufferHolds' /\ ChunkIndependent'
        /\ 3 <= plen + len /\ plen' = (IF plen < 3 THEN 3 ELSE plen)
        /\ stream' = stream /\ start' = start
    BY <1>1, <1>5, GrowStep
  <2>2. Length \in Nat /\ 6 <= Length
    BY <1>1, <1>5, <2>1, Lengths, Symbols
  <2>3. plen' >= 3 /\ plen' \in Nat /\ Header(plen') /\ Incomplete(plen')
    BY <1>1, <1>5, <2>1, <2>2 DEF Header, Incomplete
  <2> QED
    BY <1>5, <2>1, <2>3, SameHeader DEF ThreadInv, ParseInv
<1> QED
  BY <1>2, <1>3, <1>4, <1>5 DEF Third

LEMMA SixthStep ==
    ASSUME TypeOK, ThreadInv, Sixth
    PROVE  PlaceOK' /\ ThreadInv'
<1>1. /\ pc = "sixth" /\ Header(plen) /\ Incomplete(plen) /\ LineKept /\ BufferHolds
      /\ plen \in Nat /\ len \in Nat /\ plen >= 3
  BY Kept, Held DEF Sixth, ThreadInv, ParseInv, PlaceOK
<1>2. /\ Byte(0) \in {SD1, SD2, SD3} /\ (Byte(0) = SD2 => Byte(1) = Byte(2))
      /\ Byte(0) \in StartSymbols \ {SC} /\ Byte(0) # SD4
  BY <1>1, Kind, Symbols
<1>3. Length \in Nat /\ 6 <= Length
  BY <1>1, <1>2, Lengths
<1>4. CASE More(6)
  <2>1. plen + len < 6 /\ 6 <= BufferCapacity
    BY <1>1, <1>4, CapacityAssumption DEF More, Short
  <2>2. Header(plen + len) /\ Incomplete(plen + len)
    BY <1>1, <1>2, <1>3, <2>1 DEF Header, Incomplete
  <2> QED
    BY <1>1, <1>4, <2>1, <2>2, MoreStep
<1>5. CASE ~Short(6) /\ Byte(0) = SD2 /\ Byte(3) # SD2 /\ Skip(3)
  <2>1. 6 <= plen + len
    BY <1>1, <1>5 DEF Short
  <2> QED
    BY <1>1, <1>5, <2>1, HeaderWrong, SkipStep
<1>6. CASE Grow(6) /\ (Byte(0) = SD2 => Byte(3) = SD2) /\ pc' = "body"
  <2>1. /\ PlaceOK' /\ BufferHolds' /\ ChunkIndependent'
        /\ 6 <= plen + len /\ plen' = (IF plen < 6 THEN 6 ELSE plen)
        /\ stream' = stream /\ start' = start
    BY <1>1, <1>6, GrowStep
  <2>2. plen' >= 6 /\ plen' \in Nat /\ Header(plen')
    BY <1>1, <1>2, <1>3, <1>6, <2>1 DEF Header
  <2>3. Header(plen)'
    BY <2>1, <2>2, SameBytes DEF Header
  <2> QED
    BY <1>6, <2>1, <2>2, <2>3 DEF ThreadInv, ParseInv
<1> QED
  BY <1>4, <1>5, <1>6 DEF Sixth

LEMMA BodyStep ==
    ASSUME TypeOK, ThreadInv, Body
    PROVE  PlaceOK' /\ ThreadInv'
<1>1. /\ pc = "body" /\ Header(plen) /\ LineKept /\ BufferHolds
      /\ plen \in Nat /\ len \in Nat /\ plen >= 6 /\ plen <= Length
      /\ Byte(0) = SD2 => Byte(3) = SD2
  BY Kept, Held DEF Body, ThreadInv, ParseInv, PlaceOK, Header
<1>2. /\ Byte(0) \in {SD1, SD2, SD3} /\ (Byte(0) = SD2 => Byte(1) = Byte(2))
      /\ Byte(0) \in StartSymbols \ {SC} /\ Byte(0) # SD4
  BY <1>1, Kind, Symbols
<1>3. /\ Length \in Nat /\ 6 <= Length /\ Length <= BufferCapacity
      /\ Length = Total(stream, start)
  BY <1>1, <1>2, Lengths
<1>4. Length <= plen + len => /\ Advance(stream, start) = Length
                              /\ IsTelegram(stream, start) <=> Verified
  BY <1>1, <1>2, Checked
<1>5. CASE More(Length)
  <2>1. plen + len < Length
    BY <1>1, <1>3, <1>5 DEF More, Short
  <2>2. Header(plen + len) /\ Incomplete(plen + len)
    BY <1>1, <1>2, <1>3, <2>1 DEF Header, Incomplete
  <2> QED
    BY <1>1, <1>3, <1>5, <2>2, MoreStep
<1>6. CASE ~Short(Length) /\ ~Verified /\ Skip(Length)
  <2>1. Length <= plen + len /\ Length \in Nat \ {0}
    BY <1>1, <1>3, <1>6 DEF Short
  <2> QED
    BY <1>1, <1>4, <1>6, <2>1, SkipStep
<1>7. CASE Grow(Length) /\ Verified /\ pc' = "emit"
  <2>1. /\ PlaceOK' /\ BufferHolds' /\ ChunkIndependent'
        /\ Length <= plen + len /\ plen' = (IF plen < Length THEN Length ELSE plen)
        /\ stream' = stream /\ start' = start
    BY <1>1, <1>3, <1>7, GrowStep
  <2>2. plen' = Total(stream, start) /\ IsTelegram(stream, start)
    BY <1>1, <1>3, <1>4, <1>7, <2>1
  <2> QED
    BY <1>7, <2>1, <2>2 DEF ThreadInv, ParseInv
<1> QED
  BY <1>5, <1>6, <1>7 DEF Body

LEMMA TelegramStep ==
    ASSUME TypeOK, ThreadInv, PacketDone
    PROVE  PlaceOK' /\ ThreadInv'
<1>1. /\ pc = "emit" /\ IsTelegram(stream, start) /\ plen = Total(stream, start)
      /\ pc' = "begin" /\ start' = start + plen /\ plen' = 0 /\ len' = len
      /\ stream' = stream /\ pos' = pos /\ base' = base /\ framed' = Append(framed, start)
  BY DEF PacketDone, ThreadInv, ParseInv, line
<1>2. /\ PlaceOK /\ pos \in Nat /\ base \in Nat /\ start + plen + len = pos
      /\ base <= start /\ pos - base <= BufferCapacity
  BY Held
<1>3. PlaceOK' /\ start' + plen' + len' = pos' /\ base' <= start'
  BY <1>1, <1>2 DEF PlaceOK
<1>4. BufferHolds'
  BY <1>1, <1>2, <1>3 DEF BufferHolds
<1>5. ParseInv'
  <2>1. Header(plen)' /\ Incomplete(plen)'
    BY <1>1 DEF Header, Incomplete
  <2> QED
    BY <1>1, <2>1 DEF ParseInv
<1>6. ChunkIndependent'
  <2>1. Advance(stream, start) = plen /\ start + plen <= Len(stream)
    BY <1>1, AfterTelegram
  <2>2. plen # 0
    BY <1>1, Line, TotalPositive
  <2>3. Append(framed, start) \o Found[stream][start + plen] = Found[stream][0]
    BY <1>1, <1>2, <2>1, <2>2, Onward DEF ThreadInv, PlaceOK
  <2> QED
    BY <1>1, <2>3 DEF ChunkIndependent
<1> QED
  BY <1>3, <1>4, <1>5, <1>6 DEF ThreadInv

LEMMA ReadStep ==
    ASSUME TypeOK, ThreadInv, NEW r \in ReadSizes, NEW now, Read(r, now)
    PROVE  PlaceOK' /\ ThreadInv' /\ pos' \in 0..Len(stream)
<1>1. /\ pc = "read" /\ pc' = "begin" /\ r <= BufferCapacity - plen /\ r <= Len(stream) - pos
      /\ base' = start /\ pos' = pos + r /\ len' = r
      /\ stream' = stream /\ start' = start /\ plen' = plen /\ framed' = framed
  BY DEF Read, ReadLen, sink
<1>2. /\ PlaceOK /\ pos \in Nat /\ start + plen + len = pos /\ len = 0 /\ r \in Nat
      /\ BufferCapacity \in Nat /\ Len(stream) \in Nat
  BY <1>1, Held, ReadSizesAssumption, CapacityAssumption DEF ThreadInv, BufferHolds
<1>3. PlaceOK' /\ BufferHolds' /\ pos' \in 0..Len(stream)
  BY <1>1, <1>2 DEF PlaceOK, BufferHolds
<1>4. ParseInv'
  <2>1. Header(plen) /\ Incomplete(plen) /\ plen \in Nat
    BY <1>1, <1>2 DEF ThreadInv, ParseInv, PlaceOK
  <2> QED
    BY <1>1, <2>1, SameHeader DEF ParseInv
<1>5. ChunkIndependent'
  BY <1>1 DEF ThreadInv, ChunkIndependent
<1> QED
  BY <1>3, <1>4, <1>5 DEF ThreadInv

LEMMA ReadErrorStep ==
    ASSUME TypeOK, ThreadInv, NEW now, ReadError(now)
    PROVE  PlaceOK' /\ ThreadInv'
<1>1. /\ pc = "read" /\ pc' = pc /\ base' = start /\ pos' = pos /\ len' = len
      /\ stream' = stream /\ start' = start /\ plen' = plen /\ framed' = framed
  BY DEF ReadError, sink, place
<1>2. /\ PlaceOK /\ pos \in Nat /\ start + plen + len = pos /\ len = 0 /\ plen < BufferCapacity
      /\ BufferCapacity \in Nat
  BY <1>1, Held, CapacityAssumption DEF ThreadInv, BufferHolds
<1>3. PlaceOK' /\ BufferHolds'
  BY <1>1, <1>2 DEF PlaceOK, BufferHolds
<1>4. ParseInv'
  <2>1. Header(plen) /\ Incomplete(plen) /\ plen \in Nat
    BY <1>1, <1>2 DEF ThreadInv, ParseInv, PlaceOK
  <2> QED
    BY <1>1, <2>1, SameHeader DEF ParseInv
<1>5. ChunkIndependent'
  BY <1>1 DEF ThreadInv, ChunkIndependent
<1> QED
  BY <1>3, <1>4, <1>5 DEF ThreadInv

LEMMA DoneStep ==
    ASSUME TypeOK, ThreadInv, ReadEof \/ ReadCancelled
    PROVE  PlaceOK' /\ ThreadInv'
<1>1. /\ pc' = "done" /\ base' = base /\ pos' = pos /\ len' = len
      /\ stream' = stream /\ start' = start /\ plen' = plen /\ framed' = framed
  BY DEF ReadEof, ReadCancelled, sink, place, line
<1>2. PlaceOK' /\ BufferHolds'
  BY <1>1, Held DEF PlaceOK, BufferHolds
<1>3. ParseInv'
  BY <1>1 DEF ParseInv
<1>4. ChunkIndependent'
  BY <1>1 DEF ThreadInv, ChunkIndependent
<1> QED
  BY <1>2, <1>3, <1>4 DEF ThreadInv

(* The steps of main leave the thread where it is. *)
LEMMA ThreadKept ==
    ASSUME TypeOK, ThreadInv, UNCHANGED <<pc, place, line, framed>>
    PROVE  PlaceOK' /\ ThreadInv'
<1>1. /\ pc' = pc /\ base' = base /\ pos' = pos /\ len' = len
      /\ stream' = stream /\ start' = start /\ plen' = plen /\ framed' = framed
  BY DEF place, line
<1>2. PlaceOK' /\ BufferHolds'
  BY <1>1, Held DEF PlaceOK, BufferHolds, ThreadInv
<1>3. ParseInv'
  <2>1. Header(plen)' <=> Header(plen)
    BY <1>1, SameBytes DEF Header
  <2>2. Incomplete(plen)' <=> Incomplete(plen)
    BY <1>1, SameBytes DEF Incomplete
  <2> QED
    BY <1>1, <2>1, <2>2 DEF ThreadInv, ParseInv
<1>4. ChunkIndependent'
  BY <1>1 DEF ThreadInv, ChunkIndependent
<1> QED
  BY <1>2, <1>3, <1>4 DEF ThreadInv

-----------------------------------------------------------------------------
(* Types.                                                                    *)
LEMMA Period ==
    ASSUME TypeOK, NEW n \in Nat
    PROVE  BytesPeriod(n) \in Nat
<1>1. 11 * Second * n \in Nat /\ speed \in Nat \ {0}
  BY TimeAssumption DEF TypeOK
<1>2. \A a \in Nat, b \in Nat \ {0} : a \div b \in Nat
  OBVIOUS
<1> QED
  BY <1>1, <1>2 DEF BytesPeriod

Packets == [at : Nat, length : Nat, timestamp : Int]

LEMMA ParseType ==
    ASSUME TypeOK, Begin \/ Third \/ Sixth \/ Body, PlaceOK'
    PROVE  TypeOK'
<1>1. pc' \in {"read", "begin", "third", "sixth", "body", "emit", "done"}
  BY DEF Begin, Third, Sixth, Body, More, Grow, Skip
<1>2. UNCHANGED <<line, sink, main>>
  BY DEF Begin, Third, Sixth, Body
<1> QED
  BY <1>1, <1>2 DEF TypeOK, PlaceOK, line, sink, main

(* The queue and the counters after a telegram. *)
LEMMA EmitType ==
    ASSUME TypeOK, ThreadInv, PacketDone
    PROVE  /\ queue' \in Seq(Packets) /\ framed' \in Seq(Nat) /\ lastTs' \in Int
           /\ lost' \in Nat /\ reported' \in Nat /\ woken' \in BOOLEAN
<1>1. Timestamp \in Int
  <2>1. start - base \in Nat
    <3>1. start \in Nat /\ base \in Nat /\ base <= start
      BY Held DEF PlaceOK
    <3> QED
      BY <3>1
  <2>2. bufTs \in Int
    BY DEF TypeOK
  <2> QED
    BY <2>1, <2>2, Period DEF Timestamp
<1>2. /\ queue \in Seq(Packets) /\ framed \in Seq(Nat) /\ start \in Nat /\ plen \in Nat
      /\ lost \in Nat /\ reported \in Nat /\ woken \in BOOLEAN
  BY DEF TypeOK, Packets
<1>3. [at |-> start, length |-> plen, timestamp |-> Timestamp] \in Packets
  BY <1>1, <1>2 DEF Packets
<1>4. queue' \in Seq(Packets)
  <2> DEFINE packet == [at |-> start, length |-> plen, timestamp |-> Timestamp]
  <2>1. queue' = Append(queue, packet) \/ queue' = queue
    BY DEF PacketDone
  <2>2. packet \in Packets
    BY <1>3
  <2>3. queue \in Seq(Packets)
    BY <1>2
  <2> HIDE DEF packet
  <2> QED
    BY <2>1, <2>2, <2>3
<1>5. framed' \in Seq(Nat) /\ lastTs' \in Int
  BY <1>1, <1>2 DEF PacketDone
<1>6. lost' \in Nat /\ reported' \in Nat /\ woken' \in BOOLEAN
  BY <1>2 DEF PacketDone, ReportLoss, WakeUp
<1> QED
  BY <1>4, <1>5, <1>6

LEMMA EmitTypeOK ==
    ASSUME TypeOK, ThreadInv, PacketDone, PlaceOK'
    PROVE  TypeOK'
<1>1. pc' = "begin" /\ UNCHANGED <<line, main>>
  BY DEF PacketDone
<1> QED
  BY <1>1, EmitType DEF TypeOK, PlaceOK, line, main, Packets

LEMMA ReadType ==
    ASSUME TypeOK, ThreadInv, NEW r \in ReadSizes, NEW now \in Clock(r), Read(r, now)
    PROVE  TypeOK'
<1>1. BytesPeriod(r) \in Nat /\ BytesPeriod(plen + r) \in Nat
  <2>1. r \in Nat /\ plen + r \in Nat
    BY Line, ReadSizesAssumption
  <2> QED
    BY <2>1, Period
<1>2. now \in Int /\ lastRead \in Int
  <2>1. lastRead \in Int /\ MaxLate \in Nat
    BY TimeAssumption DEF TypeOK
  <2> QED
    BY <1>1, <2>1 DEF Clock
<1>3. lastRead' \in Int /\ bufTs' \in Int
  BY <1>1, <1>2 DEF Read, ReadEnd
<1>4. pos' \in 0..Len(stream) /\ PlaceOK'
  BY ReadStep
<1>5. /\ base' \in Nat /\ pc' = "begin"
      /\ UNCHANGED <<stream, sink, main>>
  BY Line DEF Read
<1> QED
  BY <1>3, <1>4, <1>5 DEF TypeOK, PlaceOK, sink, main

LEMMA OtherType ==
    ASSUME TypeOK, ThreadInv,
           \/ ReadEof \/ ReadCancelled \/ Configure \/ Prepare \/ Quit \/ Join
           \/ \E now \in Clock(0) : ReadError(now)
    PROVE  TypeOK'
<1>1. UNCHANGED <<place, stream, pos, lastRead, sink, popped>>
  BY DEF ReadEof, ReadCancelled, Configure, Prepare, Quit, Join, ReadError, line, main
<1>2. pc' \in {"read", "begin", "third", "sixth", "body", "emit", "done"}
  BY DEF ReadEof, ReadCancelled, Configure, Prepare, Quit, Join, ReadError, TypeOK
<1>3. base' \in Nat /\ bufTs' \in Int
  <2>1. CASE \E now \in Clock(0) : ReadError(now)
    <3>1. BytesPeriod(0) \in Nat
      BY Period
    <3> QED
      BY <2>1, <3>1, TimeAssumption DEF ReadError, Clock, TypeOK
  <2>2. CASE ReadEof \/ ReadCancelled \/ Configure \/ Prepare \/ Quit \/ Join
    BY <2>2 DEF ReadEof, ReadCancelled, Configure, Prepare, Quit, Join, TypeOK, line
  <2> QED
    BY <2>1, <2>2
<1>4. /\ maxQueue' \in {InitialMaxQueue, MaxQueue} /\ speed' \in {InitialSpeed, Speed}
      /\ cancelled' \in BOOLEAN
      /\ mainPc' \in {"start", "prepare", "poll", "drain", "join", "done"}
  BY DEF ReadEof, ReadCancelled, Configure, SetProperties, Prepare, Quit, Cancel, Join, ReadError,
     TypeOK, main
<1> QED
  BY <1>1, <1>2, <1>3, <1>4 DEF TypeOK, place, sink

LEMMA DrainType ==
    ASSUME TypeOK, Poll \/ Pop
    PROVE  TypeOK'
<1>1. UNCHANGED <<pc, place, line, lost, framed, lastTs, reported, maxQueue, speed, cancelled>>
  BY DEF Poll, Pop
<1>2. /\ mainPc' \in {"start", "prepare", "poll", "drain", "join", "done"}
      /\ woken' \in BOOLEAN /\ popped' \in Nat
  <2>1. popped' = popped \/ popped' = popped + 1
    BY DEF Poll, Pop
  <2>2. woken' = woken \/ woken' = FALSE
    BY DEF Poll, Pop
  <2>3. mainPc' \in {"prepare", "drain"}
    BY DEF Poll, Pop
  <2>4. popped' \in Nat
    BY <2>1 DEF TypeOK
  <2>5. woken' \in BOOLEAN
    BY <2>2 DEF TypeOK
  <2> QED
    BY <2>3, <2>4, <2>5
<1>3. queue' \in Seq(Packets)
  <2>1. queue \in Seq(Packets)
    BY DEF TypeOK, Packets
  <2>2. queue # <<>> => Tail(queue) \in Seq(Packets)
    BY <2>1
  <2> QED
    BY <2>1, <2>2 DEF Poll, Pop
<1> QED
  BY <1>1, <1>2, <1>3 DEF TypeOK, place, line, Packets

-----------------------------------------------------------------------------
(* The queue and the counters.                                               *)

LEMMA EmitQueue ==
    ASSUME TypeOK, QueueInv, LimitInv, PacketDone
    PROVE  QueueInv'
<1>1. /\ Len(queue) \in Nat /\ lost \in Nat /\ reported \in Nat /\ popped \in Nat
      /\ InitialMaxQueue \in Nat /\ MaxQueue \in Nat /\ Len(framed) \in Nat
      /\ maxQueue \in {InitialMaxQueue, MaxQueue}
  BY QueueAssumption DEF TypeOK
<1>2. Len(framed') = Len(framed) + 1 /\ popped' = popped /\ mainPc' = mainPc
  <2>1. framed \in Seq(Nat) /\ start \in Nat /\ framed' = Append(framed, start)
    BY DEF TypeOK, PacketDone
  <2> QED
    BY <2>1 DEF PacketDone, main
<1>3. \/ /\ Len(queue) <= maxQueue /\ Len(queue') = Len(queue) + 1
         /\ reported' = reported + lost /\ lost' = 0
      \/ queue' = queue /\ lost' = lost + 1 /\ reported' = reported
  <2>1. CASE Room /\ ReportLoss /\ queue' =
               Append(queue, [at |-> start, length |-> plen, timestamp |-> Timestamp])
    <3>1. queue \in Seq(Packets)
      BY DEF TypeOK, Packets
    <3>2. \A packet : Len(Append(queue, packet)) = Len(queue) + 1
      BY <3>1
    <3> QED
      BY <2>1, <3>2 DEF Room, ReportLoss
  <2>2. CASE lost' = lost + 1 /\ UNCHANGED <<queue, reported>>
    BY <2>2
  <2> QED
    BY <2>1, <2>2 DEF PacketDone
<1>4. QueueBound'
  BY <1>1, <1>2, <1>3 DEF QueueInv, QueueBound, LimitInv
<1>5. LossCounted'
  BY <1>1, <1>2, <1>3 DEF QueueInv, LossCounted
<1>6. PromptWakeup'
  BY <1>2 DEF QueueInv, PromptWakeup, PacketDone, WakeUp
<1> QED
  BY <1>4, <1>5, <1>6 DEF QueueInv

LEMMA PopQueue ==
    ASSUME TypeOK, QueueInv, Pop
    PROVE  QueueInv'
<1>1. /\ Len(queue) \in Nat /\ popped \in Nat /\ lost \in Nat /\ reported \in Nat
      /\ InitialMaxQueue \in Nat /\ MaxQueue \in Nat
  BY QueueAssumption DEF TypeOK
<1>2. UNCHANGED <<framed, lost, reported>> /\ mainPc' # "poll"
  BY DEF Pop
<1>3. \/ Len(queue') = Len(queue) - 1 /\ popped' = popped + 1
      \/ queue' = queue /\ popped' = popped
  <2>1. queue \in Seq(Packets)
    BY DEF TypeOK, Packets
  <2>2. queue # <<>> => Len(Tail(queue)) = Len(queue) - 1
    BY <2>1
  <2> QED
    BY <2>2 DEF Pop
<1> QED
  BY <1>1, <1>2, <1>3 DEF QueueInv, QueueBound, LossCounted, PromptWakeup

(* Main waits only when it has found the queue empty. *)
LEMMA PrepareQueue ==
    ASSUME TypeOK, QueueInv, Prepare
    PROVE  QueueInv'
<1>1. UNCHANGED <<queue, lost, framed, reported, popped>>
  BY DEF Prepare, sink
<1>2. mainPc' = "poll" => Len(queue') = 0
  BY <1>1 DEF Prepare
<1> QED
  BY <1>1, <1>2, QueueAssumption
  DEF QueueInv, QueueBound, LossCounted, PromptWakeup, TypeOK

(* No other step of main begins to wait. *)
LEMMA OtherQueue ==
    ASSUME TypeOK, QueueInv, UNCHANGED <<queue, lost, framed, reported, popped>>,
           mainPc' # "poll" \/ UNCHANGED <<mainPc, woken>>
    PROVE  QueueInv'
BY DEF QueueInv, QueueBound, LossCounted, PromptWakeup

(* Main sets the limit before anything else, and nobody sets it again. *)
LEMMA LimitStep == LimitInv /\ [Next]_vars => LimitInv'
BY DEF LimitInv, Next, FramerStep, MainStep, Environment, Parse, Read, ReadEof, ReadError,
   ReadCancelled, Begin, Third, Sixth, Body, PacketDone, Configure, SetProperties, Prepare,
   Poll, Pop, Quit, Join, main, vars

-----------------------------------------------------------------------------
LEMMA StepInv ==
    ASSUME IInv, [Next]_vars
    PROVE  IInv'
<1>1. TypeOK /\ ThreadInv /\ QueueInv /\ LimitInv /\ LimitInv'
  BY LimitStep DEF IInv
<1>2. ASSUME NEW r \in ReadSizes, NEW now \in Clock(r), Read(r, now)
      PROVE  IInv'
  <2>1. UNCHANGED <<queue, lost, framed, reported, popped, mainPc, woken>>
    BY <1>2 DEF Read, sink, main
  <2> QED
    BY <1>1, <1>2, <2>1, ReadStep, ReadType, OtherQueue DEF IInv
<1>3. ASSUME NEW now \in Clock(0), ReadError(now)
      PROVE  IInv'
  <2>1. UNCHANGED <<queue, lost, framed, reported, popped, mainPc, woken>>
    BY <1>3 DEF ReadError, sink, main
  <2> QED
    BY <1>1, <1>3, <2>1, ReadErrorStep, OtherType, OtherQueue DEF IInv
<1>4. CASE ReadEof \/ ReadCancelled
  <2>1. UNCHANGED <<queue, lost, framed, reported, popped, mainPc, woken>>
    BY <1>4 DEF ReadEof, ReadCancelled, sink, main
  <2> QED
    BY <1>1, <1>4, <2>1, DoneStep, OtherType, OtherQueue DEF IInv
<1>5. CASE Begin \/ Third \/ Sixth \/ Body
  <2>1. UNCHANGED <<queue, lost, framed, reported, popped, mainPc, woken>>
    BY <1>5 DEF Begin, Third, Sixth, Body, sink, main
  <2>2. PlaceOK' /\ ThreadInv'
    BY <1>1, <1>5, BeginStep, ThirdStep, SixthStep, BodyStep
  <2> QED
    BY <1>1, <1>5, <2>1, <2>2, ParseType, OtherQueue DEF IInv
<1>6. CASE PacketDone
  BY <1>1, <1>6, TelegramStep, EmitTypeOK, EmitQueue DEF IInv
<1>7. CASE Configure \/ Quit \/ Join
  <2>1. /\ UNCHANGED <<queue, lost, framed, reported, popped>> /\ mainPc' # "poll"
        /\ UNCHANGED <<pc, place, line, framed>>
    BY <1>7 DEF Configure, Quit, Join, sink
  <2> QED
    BY <1>1, <1>7, <2>1, ThreadKept, OtherType, OtherQueue DEF IInv
<1>8. CASE Prepare
  <2>1. UNCHANGED <<pc, place, line, framed>>
    BY <1>8 DEF Prepare, sink
  <2> QED
    BY <1>1, <1>8, <2>1, ThreadKept, OtherType, PrepareQueue DEF IInv
<1>9. CASE Poll
  <2>1. /\ UNCHANGED <<queue, lost, framed, reported, popped>> /\ mainPc' # "poll"
        /\ UNCHANGED <<pc, place, line, framed>>
    BY <1>9 DEF Poll
  <2> QED
    BY <1>1, <1>9, <2>1, ThreadKept, DrainType, OtherQueue DEF IInv
<1>10. CASE Pop
  <2>1. UNCHANGED <<pc, place, line, framed>>
    BY <1>10 DEF Pop
  <2> QED
    BY <1>1, <1>10, <2>1, ThreadKept, DrainType, PopQueue DEF IInv
<1>11. CASE UNCHANGED vars
  <2>1. /\ UNCHANGED <<queue, lost, framed, reported, popped, mainPc, woken>>
        /\ UNCHANGED <<pc, place, line, framed>>
    BY <1>11 DEF vars, sink, main
  <2>2. TypeOK'
    BY <1>1, <1>11 DEF vars, place, line, sink, main, TypeOK
  <2> QED
    BY <1>1, <2>1, <2>2, ThreadKept, OtherQueue DEF IInv
<1> QED
  BY <1>2, <1>3, <1>4, <1>5, <1>6, <1>7, <1>8, <1>9, <1>10, <1>11
  DEF Next, FramerStep, Parse, MainStep, Environment

LEMMA InitInv == Init => IInv
<1> SUFFICES ASSUME Init PROVE IInv
  OBVIOUS
<1>1. TypeOK
  <2>1. stream \in Streams /\ Len(stream) \in Nat /\ pos \in 0..Len(stream)
    BY StreamsAssumption DEF Init
  <2>2. queue \in Seq([at : Nat, length : Nat, timestamp : Int]) /\ framed \in Seq(Nat)
    BY DEF Init
  <2>3. woken \in BOOLEAN /\ cancelled \in BOOLEAN
    BY DEF Init
  <2> QED
    BY <2>1, <2>2, <2>3 DEF Init, TypeOK
<1>2. BufferHolds
  BY CapacityAssumption DEF Init, BufferHolds
<1>3. ParseInv
  BY DEF Init, ParseInv, Header, Incomplete
<1>4. ChunkIndependent
  <2>1. Found[stream][0] \in Seq(Nat) /\ framed = <<>> /\ start = 0
    BY <1>1, Line, FoundEquation DEF Init
  <2> QED
    BY <2>1 DEF ChunkIndependent
<1>5. QueueInv
  BY QueueAssumption DEF Init, QueueInv, QueueBound, LossCounted, PromptWakeup
<1>6. LimitInv
  BY DEF Init, LimitInv
<1> QED
  BY <1>1, <1>2, <1>3, <1>4, <1>5, <1>6 DEF IInv, ThreadInv

(* Every variable keeps its type. *)
THEOREM TypeCorrect == Spec => []TypeOK
<1>1. Init => IInv
  BY InitInv
<1>2. IInv /\ [Next]_vars => IInv'
  BY StepInv
<1>3. IInv => TypeOK
  BY DEF IInv
<1> QED
  BY <1>1, <1>2, <1>3, PTL DEF Spec

(* The buffer has room for what is read into it and for a whole telegram, and
   the queue never has more than one packet above the larger of the limits it is
   given, the first and main's, nor above main's limit when main waits. *)
THEOREM Bounded == Spec => []WithinBounds
<1>1. Init => IInv
  BY InitInv
<1>2. IInv /\ [Next]_vars => IInv'
  BY StepInv
<1>3. IInv => WithinBounds
  BY DEF IInv, ThreadInv, QueueInv, WithinBounds
<1> QED
  BY <1>1, <1>2, <1>3, PTL DEF Spec

(* However the bytes come in reads, and through all moves in the buffer, the
   framer finds the packets that a parser of the whole line finds. *)
THEOREM SameTelegrams == Spec => []ChunkIndependent
<1>1. Init => IInv
  BY InitInv
<1>2. IInv /\ [Next]_vars => IInv'
  BY StepInv
<1>3. IInv => ChunkIndependent
  BY DEF IInv, ThreadInv
<1> QED
  BY <1>1, <1>2, <1>3, PTL DEF Spec

(* No packet is lost without being counted. *)
THEOREM NothingForgotten == Spec => []LossCounted
<1>1. Init => IInv
  BY InitInv
<1>2. IInv /\ [Next]_vars => IInv'
  BY StepInv
<1>3. IInv => LossCounted
  BY DEF IInv, QueueInv
<1> QED
  BY <1>1, <1>2, <1>3, PTL DEF Spec

(* Main does not wait for its second with min_queue packets in the queue. *)
THEOREM NoSleepOverPackets == Spec => []PromptWakeup
<1>1. Init => IInv
  BY InitInv
<1>2. IInv /\ [Next]_vars => IInv'
  BY StepInv
<1>3. IInv => PromptWakeup
  BY DEF IInv, QueueInv
<1> QED
  BY <1>1, <1>2, <1>3, PTL DEF Spec

-----------------------------------------------------------------------------
(* What is in the queue.                                                     *)

(* Every packet of the queue is a telegram of the line, all of it. *)
Genuine == \A k \in 1..Len(queue) :
    IsTelegram(stream, queue[k].at) /\ queue[k].length = Total(stream, queue[k].at)

LEMMA GenuineStep ==
    ASSUME IInv, Genuine, [Next]_vars
    PROVE  Genuine'
<1>1. stream' = stream /\ queue \in Seq(Packets)
  BY DEF IInv, TypeOK, Packets, Next, FramerStep, MainStep, Environment, Parse, Read, ReadEof,
         ReadError, ReadCancelled, Begin, Third, Sixth, Body, PacketDone, Configure, Prepare,
         Poll, Pop, Quit, Join, line, vars
<1>2. CASE queue' = queue
  BY <1>1, <1>2 DEF Genuine
<1>3. CASE PacketDone /\ queue' # queue
  <2> DEFINE packet == [at |-> start, length |-> plen, timestamp |-> Timestamp]
  <2>1. queue' = Append(queue, packet)
    BY <1>3 DEF PacketDone
  <2>2. /\ IsTelegram(stream, packet.at)
        /\ packet.length = Total(stream, packet.at)
    BY <1>3 DEF PacketDone, IInv, ThreadInv, ParseInv
  <2> HIDE DEF packet
  <2>3. /\ Len(queue') = Len(queue) + 1 /\ queue'[Len(queue) + 1] = packet
        /\ \A k \in 1..Len(queue) : queue'[k] = queue[k]
    BY <1>1, <2>1
  <2> QED
    BY <1>1, <2>2, <2>3 DEF Genuine
<1>4. CASE Pop /\ queue' # queue
  <2>1. queue # <<>> /\ queue' = Tail(queue)
    BY <1>4 DEF Pop
  <2>2. /\ Len(queue') = Len(queue) - 1
        /\ \A k \in 1..Len(queue') : k + 1 \in 1..Len(queue) /\ queue'[k] = queue[k + 1]
    BY <1>1, <2>1
  <2> QED
    BY <1>1, <2>2 DEF Genuine
<1>5. queue' = queue \/ PacketDone \/ Pop
  BY DEF Next, FramerStep, MainStep, Environment, Parse, Read, ReadEof, ReadError,
         ReadCancelled, Begin, Third, Sixth, Body, Configure, Prepare, Poll, Quit, Join,
         sink, vars
<1> QED
  BY <1>2, <1>3, <1>4, <1>5

(* Main gets nothing that is not a telegram, whatever noise is on the line. *)
THEOREM OnlyTelegrams == Spec => []Genuine
<1>1. Init => IInv /\ Genuine
  BY InitInv DEF Init, Genuine
<1>2. IInv /\ Genuine /\ [Next]_vars => IInv' /\ Genuine'
  BY StepInv, GenuineStep
<1> QED
  BY <1>1, <1>2, PTL DEF Spec

-----------------------------------------------------------------------------
(* The timestamps, when a byte takes a whole number p of microseconds and the
   speed stays the one the thread started with.                              *)
WholePeriod(p) == p \in Nat /\ 11 * Second = p * Speed /\ Speed = InitialSpeed

(* The buffer's timestamp is that of its first byte, and all bytes from the
   packet on came after the last packet began. *)
TimeInv(p) ==
    /\ pc \notin {"read", "done"} => bufTs + p * (pos - base) = lastRead
    /\ framed # <<>> => lastTs + p * (pos - start) <= lastRead

LEMMA Products ==
    ASSUME NEW p \in Nat, NEW a \in Nat, NEW b \in Nat
    PROVE  p * a \in Nat /\ p * b \in Nat /\ p * (a + b) = p * a + p * b
OBVIOUS

LEMMA ExactPeriod ==
    ASSUME TypeOK, NEW p, WholePeriod(p), NEW n \in Nat
    PROVE  BytesPeriod(n) = p * n /\ p * n \in Nat
<1>1. speed = Speed /\ speed \in Nat \ {0} /\ p \in Nat
  BY TimeAssumption DEF TypeOK, WholePeriod
<1>2. 11 * Second * n = speed * (p * n)
  BY <1>1, TimeAssumption DEF WholePeriod
<1>3. p * n \in Nat
  BY <1>1
<1>4. \A a \in Nat, b \in Nat \ {0} : (b * a) \div b = a
  OBVIOUS
<1> QED
  BY <1>1, <1>2, <1>3, <1>4 DEF BytesPeriod

LEMMA ReadTime ==
    ASSUME IInv, NEW p, WholePeriod(p), TimeInv(p),
           NEW r \in ReadSizes, NEW now \in Clock(r), Read(r, now)
    PROVE  TimeInv(p)'
<1>1. /\ PlaceOK /\ pos \in Nat /\ start + plen + len = pos /\ len = 0 /\ r \in Nat
      /\ start \in Nat /\ plen \in Nat /\ plen + r \in Nat
  BY Held, ReadSizesAssumption DEF IInv, Read, ThreadInv, BufferHolds, PlaceOK
<1>2. BytesPeriod(r) = p * r /\ BytesPeriod(plen + r) = p * (plen + r)
      /\ p * r \in Nat /\ p * (plen + r) \in Nat /\ p \in Nat
  BY <1>1, ExactPeriod DEF IInv, WholePeriod
<1>3. now \in Int /\ lastRead \in Int /\ lastTs \in Int
  <2>1. BytesPeriod(r) \in Nat /\ lastRead \in Int /\ lastTs \in Int
    BY <1>2 DEF IInv, TypeOK
  <2> QED
    BY <2>1, TimeAssumption DEF Clock
<1>4. /\ lastRead' \in Int /\ lastRead' >= lastRead + p * r
      /\ bufTs' = lastRead' - p * (plen + r)
  BY <1>2, <1>3 DEF Read, ReadEnd
<1>5. /\ pos' - base' = plen + r /\ pos' - start' = plen + r /\ pos - start = plen
      /\ framed' = framed /\ lastTs' = lastTs
  BY <1>1 DEF Read, sink
<1>6. p * (plen + r) = p * plen + p * r /\ p * plen \in Nat
  BY <1>1, <1>2, Products
<1>7. bufTs' + p * (pos' - base') = lastRead'
  BY <1>2, <1>4, <1>5
<1>8. framed # <<>> => lastTs + p * plen <= lastRead
  BY <1>5 DEF TimeInv
<1>9. framed' # <<>> => lastTs' + p * (pos' - start') <= lastRead'
  <2> DEFINE x == p * plen
             y == p * r
  <2>1. /\ x \in Nat /\ y \in Nat /\ p * (pos' - start') = x + y /\ lastRead' >= lastRead + y
        /\ framed # <<>> => lastTs + x <= lastRead
    BY <1>2, <1>4, <1>5, <1>6, <1>8
  <2> HIDE DEF x, y
  <2>2. framed # <<>> => lastTs + (x + y) <= lastRead'
    BY <1>3, <1>4, <2>1
  <2> QED
    BY <1>5, <2>1, <2>2
<1> QED
  BY <1>7, <1>9 DEF TimeInv

(* What holds of more bytes holds of fewer. *)
LEMMA FewerBytes ==
    ASSUME NEW p \in Nat, NEW a \in Nat, NEW b \in Nat, a <= b,
           NEW t \in Int, NEW u \in Int, t + p * b <= u
    PROVE  t + p * a <= u
<1>1. b - a \in Nat /\ b = a + (b - a)
  OBVIOUS
<1>2. p * (a + (b - a)) = p * a + p * (b - a) /\ p * (b - a) \in Nat /\ p * a \in Nat
  BY <1>1, Products
<1> QED
  BY <1>1, <1>2

(* The parser only goes forward. *)
LEMMA Forward ==
    ASSUME IInv, Begin \/ Third \/ Sixth \/ Body
    PROVE  start <= start'
<1>1. start \in Nat /\ plen \in Nat /\ len \in Nat
  BY Line DEF IInv
<1>2. CASE Begin
  BY <1>1, <1>2 DEF Begin, More, Grow, Skip
<1>3. CASE Third
  BY <1>1, <1>3 DEF Third, More, Grow, Skip
<1>4. CASE Sixth
  BY <1>1, <1>4 DEF Sixth, More, Grow, Skip
<1>5. CASE Body
  <2>1. pc = "body" /\ plen >= 6 /\ Header(plen)
    BY <1>5 DEF Body, IInv, ThreadInv, ParseInv
  <2>2. Length \in Nat
    BY <1>1, <2>1, Kind, Lengths DEF IInv, ThreadInv
  <2> QED
    BY <1>1, <1>5, <2>2 DEF Body, More, Grow, Skip
<1> QED
  BY <1>2, <1>3, <1>4, <1>5

LEMMA ParseTime ==
    ASSUME IInv, NEW p \in Nat, TimeInv(p), Begin \/ Third \/ Sixth \/ Body, IInv'
    PROVE  TimeInv(p)'
<1>1. /\ pc \notin {"read", "done"} /\ UNCHANGED <<stream, pos, base, bufTs, lastRead, framed, lastTs>>
  BY DEF Begin, Third, Sixth, Body, line, sink
<1>2. /\ start \in Nat /\ plen \in Nat /\ len \in Nat /\ start + plen + len = pos
      /\ start' \in Nat /\ plen' \in Nat /\ len' \in Nat /\ start' + plen' + len' = pos
  BY <1>1, Line DEF IInv, ThreadInv, BufferHolds, TypeOK
<1>3. /\ pos - start' \in Nat /\ pos - start \in Nat /\ pos - start' <= pos - start
  BY <1>2, Forward
<1>4. framed' # <<>> => lastTs' + p * (pos' - start') <= lastRead'
  <2>1. lastTs \in Int /\ lastRead \in Int
    BY DEF IInv, TypeOK
  <2>2. framed # <<>> => lastTs + p * (pos - start) <= lastRead
    BY DEF TimeInv
  <2>3. framed # <<>> => lastTs + p * (pos - start') <= lastRead
    BY <1>3, <2>1, <2>2, FewerBytes
  <2> QED
    BY <1>1, <2>3
<1> QED
  BY <1>1, <1>4 DEF TimeInv

(* A packet's timestamp is that of its first byte. *)
LEMMA EmitTime ==
    ASSUME IInv, NEW p, WholePeriod(p), TimeInv(p), PacketDone
    PROVE  /\ TimeInv(p)'
           /\ framed # <<>> => lastTs <= lastTs'
<1>1. /\ pc = "emit" /\ pc' = "begin" /\ UNCHANGED <<pos, base, bufTs, lastRead>>
      /\ lastTs' = Timestamp /\ start' = start + plen
  BY DEF PacketDone, line
<1>2. /\ start \in Nat /\ plen \in Nat /\ len \in Nat /\ start + plen + len = pos
      /\ base \in Nat /\ base <= start /\ p \in Nat
  BY Held DEF IInv, PlaceOK, WholePeriod
<1>3. bufTs \in Int /\ lastRead \in Int /\ lastTs \in Int
  BY DEF IInv, TypeOK
<1>4. bufTs + p * (pos - base) = lastRead
  BY <1>1 DEF TimeInv
<1>5. start - base \in Nat /\ Timestamp = bufTs + p * (start - base) /\ p * (start - base) \in Nat
  <2>1. start - base \in Nat
    BY <1>2
  <2> QED
    BY <2>1, ExactPeriod DEF Timestamp, IInv
<1>6. p * (pos - base) = p * (pos - start) + p * (start - base) /\ p * (pos - start) \in Nat
  <2>1. pos - start \in Nat /\ pos - base = (pos - start) + (start - base)
    BY <1>2
  <2> QED
    BY <1>2, <1>5, <2>1, Products
<1>7. Timestamp \in Int /\ Timestamp + p * (pos - start) = lastRead
  BY <1>3, <1>4, <1>5, <1>6
<1>8. lastTs' + p * (pos' - start') <= lastRead'
  <2>1. pos - start' \in Nat /\ pos - start \in Nat /\ pos - start' <= pos - start
    BY <1>1, <1>2
  <2>2. Timestamp + p * (pos - start) <= lastRead
    BY <1>3, <1>7
  <2>3. Timestamp + p * (pos - start') <= lastRead
    BY <1>2, <1>3, <1>7, <2>1, <2>2, FewerBytes
  <2> QED
    BY <1>1, <2>3
<1>9. TimeInv(p)'
  BY <1>1, <1>4, <1>8 DEF TimeInv
<1>10. framed # <<>> => lastTs <= Timestamp
  <2>1. framed # <<>> => lastTs + p * (pos - start) <= lastRead
    BY DEF TimeInv
  <2> QED
    BY <1>3, <1>6, <1>7, <2>1
<1> QED
  BY <1>1, <1>9, <1>10

(* All other steps leave the packet and the last read as they are. *)
LEMMA OtherTime ==
    ASSUME NEW p, TimeInv(p), UNCHANGED <<pos, start, lastRead, framed, lastTs>>,
           pc' \in {"read", "done"} \/ UNCHANGED <<pc, base, bufTs>>
    PROVE  TimeInv(p)'
BY DEF TimeInv

LEMMA StepTime ==
    ASSUME IInv, NEW p, WholePeriod(p), TimeInv(p), [Next]_vars
    PROVE  TimeInv(p)' /\ (framed # <<>> => lastTs <= lastTs')
<1>1. IInv' /\ p \in Nat /\ lastTs \in Int
  BY StepInv DEF WholePeriod, IInv, TypeOK
<1>2. CASE \E r \in ReadSizes : \E now \in Clock(r) : Read(r, now)
  <2>1. lastTs' = lastTs
    BY <1>2 DEF Read, sink
  <2> QED
    BY <1>1, <1>2, <2>1, ReadTime
<1>3. CASE Begin \/ Third \/ Sixth \/ Body
  <2>1. lastTs' = lastTs
    BY <1>3 DEF Begin, Third, Sixth, Body, sink
  <2> QED
    BY <1>1, <1>3, <2>1, ParseTime
<1>4. CASE PacketDone
  BY <1>4, EmitTime
<1>5. CASE (\E now \in Clock(0) : ReadError(now)) \/ ReadEof \/ ReadCancelled
  <2>1. /\ UNCHANGED <<pos, start, lastRead, framed, lastTs>> /\ pc' \in {"read", "done"}
    BY <1>5 DEF ReadError, ReadEof, ReadCancelled, place, line, sink
  <2> QED
    BY <1>1, <2>1, OtherTime
<1>6. CASE MainStep \/ Quit \/ UNCHANGED vars
  <2>1. UNCHANGED <<pos, start, lastRead, framed, lastTs, pc, base, bufTs>>
    BY <1>6 DEF MainStep, Configure, Prepare, Poll, Pop, Join, Quit, vars, place, line, sink
  <2> QED
    BY <1>1, <2>1, OtherTime
<1> QED
  BY <1>2, <1>3, <1>4, <1>5, <1>6 DEF Next, FramerStep, Parse, Environment

(* The timestamps of the packets never go back, whatever the clock does. *)
THEOREM NeverBack ==
    ASSUME NEW p \in Nat, 11 * Second = p * Speed, Speed = InitialSpeed
    PROVE  Spec => TimeOrdered
<1>1. WholePeriod(p)
  BY DEF WholePeriod
<1>2. Init => IInv /\ TimeInv(p)
  BY InitInv DEF Init, TimeInv
<1>3. IInv /\ TimeInv(p) /\ [Next]_vars => IInv' /\ TimeInv(p)'
  BY <1>1, StepInv, StepTime
<1>4. IInv /\ TimeInv(p) /\ [Next]_vars => [framed # <<>> => lastTs <= lastTs']_vars
  BY <1>1, StepTime
<1> QED
  BY <1>2, <1>3, <1>4, PTL DEF Spec, TimeOrdered
=============================================================================

------------------------ MODULE SnifferParserProofs ------------------------
(* That pbsniffer's parser keeps within its buffer, writes nothing but whole
   telegrams, and on a line of telegrams writes all of them: for every line,
   and for all limits as long as the buffer is longer than what is admitted.

   What parse_byte has found out of the bytes in the buffer is in Checked: the
   checks are made at the first, the third and the sixth byte, so that between
   two of them the length alone says which have been passed.  That the length
   is smaller than the telegram's follows, and with it all the rest.          *)
EXTENDS SnifferParser, SequenceTheorems, WellFoundedInduction, TLAPS

TypeOK ==
    /\ stream \in Streams
    /\ pos \in 0..Len(stream) /\ packetLen \in 0..pos /\ telegramLen \in Nat \cup {-1}
    /\ found \in Seq(Nat) /\ reading \in BOOLEAN

(* The first n bytes of a telegram at i, when telegram_len is t. *)
Checked(s, i, n, t) ==
    /\ n >= 1 => At(s, i, 0) \in {SD1, SD2, SD3, SD4}
    /\ n >= 3 => /\ At(s, i, 0) # SD4 /\ n < Total(s, i)
                 /\ At(s, i, 0) = SD2 => /\ At(s, i, 1) = At(s, i, 2) /\ t = At(s, i, 1)
                                         /\ At(s, i, 1) \in 4..MaxData
    /\ n >= 6 => At(s, i, 0) # SD1

CheckedInv == Checked(stream, Start, packetLen, telegramLen)

(* On a clean line a packet begins where a telegram does. *)
CleanInv == stream \in CleanStreams =>
    /\ found \o Telegrams[stream][Start] = Telegrams[stream][0]
    /\ EndOf(stream, found) = Start

IInv == TypeOK /\ CheckedInv /\ FoundClosed /\ CleanInv

-----------------------------------------------------------------------------
LEMMA Symbols ==
    /\ SC = 229 /\ SD1 = 16 /\ SD2 = 104 /\ SD3 = 162 /\ SD4 = 220
    /\ StartSymbols = {SC, SD1, SD2, SD3, SD4}
BY DEF SC, SD1, SD2, SD3, SD4, StartSymbols

LEMMA Line ==
    ASSUME TypeOK
    PROVE  /\ stream \in Seq(0..255) /\ Len(stream) \in Nat /\ pos \in Nat /\ pos <= Len(stream)
           /\ packetLen \in Nat /\ Start \in Nat /\ Start <= pos /\ Start + packetLen = pos
BY SnifferAssumption DEF TypeOK, Start

(* The bytes of a line are bytes. *)
LEMMA Bytes ==
    ASSUME NEW s \in Seq(0..255), NEW i \in Nat, NEW k \in Nat, Has(s, i, k + 1)
    PROVE  At(s, i, k) \in 0..255
<1>1. Len(s) \in Nat /\ i + k + 1 \in 1..Len(s)
  BY DEF Has
<1>2. s[i + k + 1] \in 0..255
  BY <1>1, ElementOfSeq
<1> QED
  BY <1>2 DEF At

(* What Total says for each first byte. *)
LEMMA Totals ==
    ASSUME NEW s \in Seq(0..255), NEW i \in Nat, Has(s, i, 1)
    PROVE  /\ At(s, i, 0) = SC => Total(s, i) = 1
           /\ At(s, i, 0) = SD4 => Total(s, i) = 3
           /\ At(s, i, 0) = SD1 => Total(s, i) = 6
           /\ At(s, i, 0) = SD3 => Total(s, i) = 14
           /\ At(s, i, 0) = SD2 /\ Has(s, i, 3) => Total(s, i) = At(s, i, 1) + 6
<1>1. \A symbol : Starts(s, i, symbol) <=> At(s, i, 0) = symbol
  BY DEF Starts
<1> QED
  BY <1>1, Symbols DEF Total

(* A telegram has at least one byte. *)
LEMMA TotalIn ==
    ASSUME NEW s \in Seq(0..255), NEW i \in Nat, IsTelegram(s, i)
    PROVE  Total(s, i) \in Nat \ {0} /\ i + Total(s, i) <= Len(s)
<1>1. Has(s, i, 1) /\ At(s, i, 0) \in StartSymbols /\ i + Total(s, i) <= Len(s)
  BY DEF IsTelegram, Starts, Has
<1>2. CASE At(s, i, 0) = SD2
  <2>1. Has(s, i, 3)
    <3>1. CASE ~Has(s, i, 3)
      <4>1. Starts(s, i, SD2) /\ \A symbol : Starts(s, i, symbol) => symbol = SD2
        BY <1>1, <1>2 DEF Starts
      <4>2. Total(s, i) = 6
        BY <3>1, <4>1, Symbols DEF Total
      <4> QED
        BY <1>1, <4>2 DEF Has
    <3> QED
      BY <3>1
  <2>2. At(s, i, 1) \in 0..255
    <3>1. Has(s, i, 1 + 1)
      BY <2>1 DEF Has
    <3> QED
      BY <3>1, Bytes
  <2> DEFINE b == At(s, i, 1)
  <2>3. Total(s, i) = b + 6 /\ b \in 0..255
    BY <1>1, <1>2, <2>1, <2>2, Totals
  <2> HIDE DEF b
  <2> QED
    BY <1>1, <2>3
<1>3. CASE At(s, i, 0) # SD2
  BY <1>1, <1>3, Totals, Symbols
<1> QED
  BY <1>2, <1>3

(* Induction from n down to 0: a set of them that has every number above which
   it has all is the whole of them. *)
LEMMA Downward ==
    ASSUME NEW n \in Nat, NEW P \in SUBSET (0..n),
           \A k \in 0..n : (k + 1)..n \subseteq P => k \in P
    PROVE  P = 0..n
<1> DEFINE R == {ss \in Nat \X Nat : ss[1] < ss[2]}
           S == {m \in 0..n : n - m \notin P}
<1>1. IsWellFoundedOn(R, Nat)
  BY NatLessThanWellFounded DEF OpToRel
<1>2. SUFFICES ASSUME S # {} PROVE FALSE
  <2>1. ASSUME NEW k \in 0..n PROVE k \in P
    <3>1. n - k \in 0..n /\ n - (n - k) = k
      OBVIOUS
    <3> QED
      BY <1>2, <3>1
  <2> QED
    BY <2>1
<1>3. PICK m \in S : \A j \in S : ~(<<j, m>> \in R)
  <2>1. S \subseteq Nat
    OBVIOUS
  <2> HIDE DEF R, S
  <2> QED
    BY <1>1, <1>2, <2>1, WFMin
<1>4. ASSUME NEW k \in (n - m + 1)..n PROVE k \in P
  <2>1. n - k \in Nat /\ m \in Nat /\ n - k < m /\ n - k \in 0..n /\ n - (n - k) = k
    BY <1>4
  <2>2. <<n - k, m>> \in R
    BY <2>1
  <2> QED
    BY <1>3, <2>1, <2>2
<1>5. n - m \in 0..n /\ n - m \notin P
  OBVIOUS
<1> QED
  BY <1>4, <1>5

(* The telegrams from i on, if rest are those further on. *)
FromHere(s, rest, i) ==
    IF i < Len(s) /\ IsTelegram(s, i) THEN <<i>> \o rest[i + Total(s, i)] ELSE <<>>

LEMMA TelegramsEquation ==
    ASSUME NEW s \in Streams
    PROVE  /\ Telegrams[s] \in [0..Len(s) -> Seq(Nat)]
           /\ \A i \in 0..Len(s) : Telegrams[s][i] = FromHere(s, Telegrams[s], i)
<1> DEFINE n == Len(s)
           Solves(g, k) == g \in [k..n -> Seq(Nat)] /\ \A i \in k..n : g[i] = FromHere(s, g, i)
           P == {k \in 0..n : \E g : Solves(g, k)}
<1>1. s \in Seq(0..255) /\ n \in Nat
  BY SnifferAssumption
<1>2. ASSUME NEW k \in 0..n, (k + 1)..n \subseteq P PROVE k \in P
  <2>1. \E g : Solves(g, k + 1)
    <3>1. CASE k = n
      <4>1. (k + 1)..n = {}
        BY <1>1, <3>1
      <4>2. Solves([i \in (k + 1)..n |-> <<>>], k + 1)
        BY <4>1
      <4> QED
        BY <4>2
    <3>2. CASE k < n
      <4>1. k + 1 \in (k + 1)..n
        BY <1>1, <3>2
      <4> QED
        BY <1>2, <4>1
    <3> QED
      BY <1>1, <3>1, <3>2
  <2>2. PICK g : Solves(g, k + 1)
    BY <2>1
  <2> DEFINE h == [i \in k..n |-> IF i = k THEN FromHere(s, g, k) ELSE g[i]]
  <2>3. ASSUME NEW i \in k..n
        PROVE  FromHere(s, h, i) = FromHere(s, g, i) /\ FromHere(s, g, i) \in Seq(Nat)
    <3>1. CASE ~(i < n /\ IsTelegram(s, i))
      BY <3>1 DEF FromHere
    <3>2. CASE i < n /\ IsTelegram(s, i)
      <4>1. i \in 0..n /\ i + Total(s, i) \in (k + 1)..n
        <5>1. i \in 0..n
          BY <1>1, <2>3
        <5>2. Total(s, i) \in Nat \ {0} /\ i + Total(s, i) <= n
          BY <1>1, <3>2, <5>1, TotalIn
        <5> QED
          BY <1>1, <2>3, <5>1, <5>2
      <4>2. h[i + Total(s, i)] = g[i + Total(s, i)] /\ g[i + Total(s, i)] \in Seq(Nat)
        BY <1>1, <2>2, <4>1
      <4>3. i \in Nat
        BY <4>1
      <4>4. FromHere(s, h, i) = FromHere(s, g, i)
        <5> HIDE DEF h
        <5> QED
          BY <4>2 DEF FromHere
      <4>5. FromHere(s, g, i) \in Seq(Nat)
        <5>1. FromHere(s, g, i) =
                  <<i>> \o g[i + Total(s, i)]
          BY <3>2 DEF FromHere
        <5>2. <<i>> \in Seq(Nat) /\ <<>> \in Seq(Nat)
          BY <4>3
        <5> QED
          BY <4>2, <5>1, <5>2
      <4> QED
        BY <4>4, <4>5
    <3> QED
      BY <3>1, <3>2
  <2>4. ASSUME NEW i \in k..n PROVE h[i] = FromHere(s, g, i)
    <3>1. i = k \/ i \in (k + 1)..n
      BY <1>1, <2>4
    <3> QED
      BY <2>2, <2>4, <3>1
  <2>5. Solves(h, k)
    <3> HIDE DEF h
    <3>1. h \in [k..n -> Seq(Nat)]
      <4>1. h = [i \in k..n |-> h[i]]
        BY DEF h
      <4> QED
        BY <2>3, <2>4, <4>1
    <3> QED
      BY <2>3, <2>4, <3>1
  <2> QED
    BY <2>5
<1>3. P = 0..n
  <2> HIDE DEF P
  <2>1. P \subseteq 0..n
    BY DEF P
  <2> QED
    BY <1>1, <1>2, <2>1, Downward
<1>4. PICK g : Solves(g, 0)
  <2>1. 0 \in P
    <3> HIDE DEF P
    <3> QED
      BY <1>1, <1>3
  <2> QED
    BY <2>1
<1> DEFINE f == Telegrams[s]
<1>5. f = CHOOSE f0 : f0 = [i \in 0..n |-> FromHere(s, f0, i)]
  BY DEF Telegrams, TelegramsOf, FromHere
<1>6. g = [i \in 0..n |-> FromHere(s, g, i)]
  BY <1>4
<1>7. f = [i \in 0..n |-> FromHere(s, f, i)]
  BY <1>5, <1>6
<1> DEFINE Q == {k \in 0..n : f[k] \in Seq(Nat)}
<1>8. Q = 0..n
  <2>1. ASSUME NEW k \in 0..n, (k + 1)..n \subseteq Q PROVE k \in Q
    <3>1. CASE ~(k < n /\ IsTelegram(s, k))
      BY <1>7, <3>1 DEF FromHere
    <3>2. CASE k < n /\ IsTelegram(s, k)
      <4>1. k + Total(s, k) \in (k + 1)..n
        <5>1. Total(s, k) \in Nat \ {0} /\ k + Total(s, k) <= n
          BY <1>1, <3>2, TotalIn
        <5> QED
          BY <1>1, <5>1
      <4>2. f[k + Total(s, k)] \in Seq(Nat) /\ <<k>> \in Seq(Nat) /\ <<>> \in Seq(Nat)
        BY <2>1, <4>1
      <4>3. f[k] = <<k>> \o f[k + Total(s, k)]
        BY <1>7, <3>2 DEF FromHere
      <4>4. f[k] \in Seq(Nat)
        <5> HIDE DEF f
        <5> QED
          BY <4>2, <4>3
      <4> QED
        BY <2>1, <4>4
    <3> QED
      BY <3>1, <3>2
  <2>2. Q \subseteq 0..n
    OBVIOUS
  <2> HIDE DEF Q
  <2> QED
    BY <1>1, <2>1, <2>2, Downward
<1> QED
  BY <1>7, <1>8

-----------------------------------------------------------------------------
(* Before the end of a clean line there is a telegram where the packet begins,
   and it is admitted. *)
LEMMA CleanHere ==
    ASSUME TypeOK, CleanInv, stream \in CleanStreams, pos < Len(stream)
    PROVE  /\ IsTelegram(stream, Start)
           /\ Starts(stream, Start, SD2) => At(stream, Start, 1) \in 4..MaxData
           /\ Start + Total(stream, Start) \in 0..Len(stream)
           /\ Telegrams[stream][Start] =
                  <<Start>> \o Telegrams[stream][Start + Total(stream, Start)]
<1> DEFINE all == Telegrams[stream][0]
           rest == Telegrams[stream][Start]
<1>1. /\ stream \in Streams /\ stream \in Seq(0..255) /\ Len(stream) \in Nat
      /\ Start \in 0..Len(stream) /\ Start \in Nat /\ Start < Len(stream) /\ 0 \in 0..Len(stream)
      /\ found \in Seq(Nat)
  BY Line DEF TypeOK
<1>2. /\ all \in Seq(Nat) /\ rest \in Seq(Nat) /\ rest = FromHere(stream, Telegrams[stream], Start)
  BY <1>1, TelegramsEquation
<1>3. found \o rest = all /\ EndOf(stream, found) = Start
  BY DEF CleanInv
<1>4. /\ EndOf(stream, all) = Len(stream)
      /\ \A n \in 1..Len(all) :
            Starts(stream, all[n], SD2) => At(stream, all[n], 1) \in 4..MaxData
  BY DEF CleanStreams
<1> HIDE DEF all, rest
<1>5. IsTelegram(stream, Start)
  <2>1. SUFFICES ASSUME ~IsTelegram(stream, Start) PROVE FALSE
    OBVIOUS
  <2>2. rest = <<>>
    BY <1>2, <2>1 DEF FromHere
  <2>3. all = found
    BY <1>1, <1>3, <2>2
  <2> QED
    BY <1>1, <1>3, <1>4, <2>3
<1>6. Start + Total(stream, Start) \in 0..Len(stream)
  BY <1>1, <1>5, TotalIn
<1> DEFINE later == Telegrams[stream][Start + Total(stream, Start)]
<1>7. rest = <<Start>> \o later /\ later \in Seq(Nat)
  BY <1>1, <1>2, <1>5, <1>6, TelegramsEquation DEF FromHere
<1>8. Len(found) + 1 \in 1..Len(all) /\ all[Len(found) + 1] = Start
  <2> HIDE DEF later
  <2>1. Len(<<Start>>) = 1 /\ <<Start>>[1] = Start /\ <<Start>> \in Seq(Nat)
    BY <1>1
  <2>2. Len(rest) = 1 + Len(later) /\ rest[1] = Start /\ Len(later) \in Nat
    BY <1>7, <2>1
  <2>3. Len(all) = Len(found) + Len(rest) /\ all[Len(found) + 1] = rest[1]
    <3>1. Len(found) + 1 \in 1..(Len(found) + Len(rest))
      BY <1>1, <2>2
    <3> QED
      BY <1>1, <1>2, <1>3, <3>1, ConcatProperties
  <2> QED
    BY <1>1, <2>2, <2>3
<1> QED
  BY <1>4, <1>5, <1>6, <1>7, <1>8 DEF rest

(* A byte comes and the telegram goes on. *)
LEMMA GoOnStep ==
    ASSUME IInv, NEW n, Comes(n), packetLen' = n, telegramLen' \in Nat \cup {-1},
           UNCHANGED <<stream, found, reading>>,
           Checked(stream, Start, n, telegramLen')
    PROVE  IInv'
<1>1. n = packetLen + 1 /\ pos' = pos + 1 /\ pos < Len(stream)
  BY DEF Comes
<1>2. TypeOK' /\ Start' = Start
  BY <1>1, Line DEF IInv, TypeOK, Start
<1>3. CheckedInv'
  BY <1>2 DEF CheckedInv
<1>4. FoundClosed' /\ CleanInv'
  BY <1>2 DEF IInv, FoundClosed, CleanInv
<1> QED
  BY <1>2, <1>3, <1>4 DEF IInv

(* A byte comes that completes a telegram. *)
LEMMA WriteStep ==
    ASSUME IInv, NEW n, Comes(n), Write, WellEnded(stream, Start), Total(stream, Start) = n
    PROVE  IInv'
<1>1. /\ n = packetLen + 1 /\ pos' = pos + 1 /\ pos < Len(stream) /\ Start' = Start + n
      /\ stream' = stream /\ found' = Append(found, Start) /\ packetLen' = 0
  BY Line DEF IInv, Comes, Write, Reset, Start
<1>2. /\ found \in Seq(Nat) /\ Start \in Nat /\ Len(found) \in Nat /\ found' \in Seq(Nat)
      /\ Len(found') = Len(found) + 1 /\ found'[Len(found) + 1] = Start
      /\ \A k \in 1..Len(found) : found'[k] = found[k]
  BY <1>1, Line DEF IInv, TypeOK
<1>3. TypeOK'
  BY <1>1, <1>2, Line DEF IInv, TypeOK, Write, Reset
<1>4. CheckedInv'
  BY <1>1 DEF CheckedInv, Checked
<1>5. FoundClosed'
  BY <1>1, <1>2 DEF IInv, FoundClosed
<1>6. ASSUME stream \in CleanStreams PROVE CleanInv'
  <2> DEFINE rest == Telegrams[stream][Start + n]
  <2>1. Telegrams[stream][Start] = <<Start>> \o rest /\ Start + n \in 0..Len(stream)
    BY <1>1, <1>6, CleanHere DEF IInv
  <2>2. rest \in Seq(Nat)
    BY <2>1, TelegramsEquation DEF IInv, TypeOK
  <2>3. found \o (<<Start>> \o rest) = Telegrams[stream][0]
    BY <1>6, <2>1 DEF IInv, CleanInv
  <2> HIDE DEF rest
  <2>4. Append(found, Start) \o rest = found \o (<<Start>> \o rest)
    <3>1. found \in Seq(Nat) /\ <<Start>> \in Seq(Nat)
      BY <1>2
    <3>2. Append(found, Start) = found \o <<Start>>
      BY <1>2
    <3>3. (found \o <<Start>>) \o rest = found \o (<<Start>> \o rest)
      BY <2>2, <3>1, ConcatAssociative
    <3> QED
      BY <3>2, <3>3
  <2>5. EndOf(stream', found') = Start'
    BY <1>1, <1>2 DEF EndOf
  <2> QED
    BY <1>1, <2>3, <2>4, <2>5 DEF CleanInv, rest
<1>7. CleanInv'
  BY <1>1, <1>6 DEF CleanInv
<1> QED
  BY <1>3, <1>4, <1>5, <1>7 DEF IInv

(* A byte comes that shows that there is no telegram, or one that is not
   admitted. *)
LEMMA DropStep ==
    ASSUME IInv, NEW n, Comes(n), Drop,
           IsTelegram(stream, Start) =>
               At(stream, Start, 0) = SD2 /\ At(stream, Start, 1) \notin 4..MaxData
    PROVE  IInv'
<1>1. pos' = pos + 1 /\ pos < Len(stream) /\ packetLen' = 0 /\ telegramLen' = -1
  BY DEF Comes, Drop, Reset
<1>2. TypeOK'
  BY <1>1, Line DEF IInv, TypeOK, Drop
<1>3. CheckedInv' /\ FoundClosed'
  BY <1>1 DEF IInv, CheckedInv, Checked, FoundClosed, Drop
<1>4. stream \notin CleanStreams
  <2>1. SUFFICES ASSUME stream \in CleanStreams PROVE FALSE
    OBVIOUS
  <2>2. /\ IsTelegram(stream, Start)
        /\ Starts(stream, Start, SD2) => At(stream, Start, 1) \in 4..MaxData
    BY <1>1, <2>1, CleanHere DEF IInv
  <2>3. Has(stream, Start, 1)
    BY <2>2 DEF IsTelegram, Starts
  <2> QED
    BY <2>2, <2>3 DEF Starts
<1>5. CleanInv'
  BY <1>4 DEF CleanInv, Drop
<1> QED
  BY <1>2, <1>3, <1>5 DEF IInv

-----------------------------------------------------------------------------
(* The byte that comes is one of the line, at its place in the telegram. *)
LEMMA Coming ==
    ASSUME IInv, NEW n, Comes(n)
    PROVE  /\ stream \in Seq(0..255) /\ Start \in Nat /\ n \in Nat \ {0} /\ n = packetLen + 1
           /\ Has(stream, Start, n) /\ Has(stream, Start, 1) /\ (n >= 3 => Has(stream, Start, 3))
           /\ \A k : Buffer(k) = At(stream, Start, k)
           /\ \A symbol : Starts(stream, Start, symbol) <=> Buffer(0) = symbol
           /\ Checked(stream, Start, n - 1, telegramLen) /\ telegramLen \in Nat \cup {-1}
<1>1. /\ n = packetLen + 1 /\ pos < Len(stream) /\ packetLen \in Nat /\ Start \in Nat /\ pos \in Nat
      /\ Len(stream) \in Nat /\ Start + packetLen = pos /\ stream \in Seq(0..255)
      /\ telegramLen \in Nat \cup {-1}
  BY Line DEF IInv, Comes, TypeOK
<1>2. Has(stream, Start, n) /\ Has(stream, Start, 1) /\ (n >= 3 => Has(stream, Start, 3))
  BY <1>1 DEF Has
<1>3. Checked(stream, Start, n - 1, telegramLen)
  BY <1>1 DEF IInv, CheckedInv
<1> QED
  BY <1>1, <1>2, <1>3 DEF Buffer, Starts

LEMMA FirstStep == IInv /\ FirstByte => IInv'
<1> SUFFICES ASSUME IInv, FirstByte PROVE IInv'
  OBVIOUS
<1>1. Comes(1)
  BY DEF FirstByte
<1>2. CASE Buffer(0) = SC /\ Write
  <2>1. Total(stream, Start) = 1
    BY <1>1, <1>2, Coming, Totals
  <2>2. WellEnded(stream, Start)
    BY <1>1, <1>2, <2>1, Coming, Symbols DEF WellEnded
  <2> QED
    BY <1>1, <1>2, <2>1, <2>2, WriteStep
<1>3. CASE Buffer(0) \in {SD1, SD2, SD3, SD4} /\ GoOn(1)
  <2>1. Checked(stream, Start, 1, telegramLen)
    BY <1>1, <1>3, Coming DEF Checked
  <2> QED
    BY <1>1, <1>3, <2>1, Coming, GoOnStep DEF GoOn
<1>4. CASE Buffer(0) \notin StartSymbols /\ Drop
  <2>1. ~IsTelegram(stream, Start)
    BY <1>1, <1>4, Coming DEF IsTelegram
  <2> QED
    BY <1>1, <1>4, <2>1, DropStep
<1> QED
  BY <1>2, <1>3, <1>4 DEF FirstByte

LEMMA ThirdStep == IInv /\ ThirdByte => IInv'
<1> SUFFICES ASSUME IInv, ThirdByte PROVE IInv'
  OBVIOUS
<1>1. Comes(3)
  BY DEF ThirdByte
<1>2. Buffer(0) \in {SD1, SD2, SD3, SD4} /\ Has(stream, Start, 3)
  BY <1>1, Coming DEF Checked
<1>3. Buffer(1) \in 0..255
  <2>1. Has(stream, Start, 1 + 1)
    BY <1>1, <1>2, Line DEF IInv, Has
  <2>2. stream \in Seq(0..255) /\ Start \in Nat /\ Buffer(1) = At(stream, Start, 1)
    BY <1>1, Coming
  <2>3. At(stream, Start, 1) \in 0..255
    BY <2>1, <2>2, Bytes
  <2> QED
    BY <2>2, <2>3
<1> DEFINE b == Buffer(1)
<1>4. /\ LengthOk(b) <=> b \in 4..MaxData
      /\ LengthOk(b) => 3 < b + 6
  <2>1. b \in 0..255
    BY <1>3
  <2> HIDE DEF b
  <2> QED
    BY <2>1, SnifferAssumption DEF LengthOk
<1>5. CASE Buffer(0) = SD4 /\ Write
  <2>1. Total(stream, Start) = 3
    BY <1>1, <1>5, Coming, Totals
  <2>2. WellEnded(stream, Start)
    BY <1>1, <1>5, <2>1, Coming, Symbols DEF WellEnded
  <2> QED
    BY <1>1, <1>5, <2>1, <2>2, WriteStep
<1>6. CASE /\ Buffer(0) = SD2 /\ Buffer(1) = Buffer(2) /\ LengthOk(Buffer(1))
           /\ telegramLen' = Buffer(1) /\ packetLen' = 3
           /\ UNCHANGED <<stream, found, reading>>
  <2>1. Total(stream, Start) = Buffer(1) + 6
    BY <1>1, <1>2, <1>6, Coming, Totals
  <2>2. Buffer(1) \in 4..MaxData /\ 3 < Buffer(1) + 6
    BY <1>6, <1>4
  <2>3. Checked(stream, Start, 3, telegramLen')
    BY <1>1, <1>6, <2>1, <2>2, Coming, Symbols DEF Checked
  <2> QED
    BY <1>1, <1>3, <1>6, <2>3, GoOnStep
<1>7. CASE Buffer(0) = SD2 /\ ~(Buffer(1) = Buffer(2) /\ LengthOk(Buffer(1))) /\ Drop
  <2>1. IsTelegram(stream, Start) => Buffer(1) = Buffer(2)
    BY <1>1, <1>2, <1>7, Coming DEF IsTelegram, BadHeader
  <2> QED
    BY <1>1, <1>7, <1>4, <2>1, Coming, DropStep
<1>8. CASE Buffer(0) \in {SD1, SD3} /\ GoOn(3)
  <2>1. 3 < Total(stream, Start)
    BY <1>1, <1>8, Coming, Totals
  <2>2. Checked(stream, Start, 3, telegramLen)
    BY <1>1, <1>8, <2>1, Coming, Symbols DEF Checked
  <2> QED
    BY <1>1, <1>8, <2>2, Coming, GoOnStep DEF GoOn
<1> QED
  BY <1>5, <1>6, <1>7, <1>8 DEF ThirdByte

(* What an end that is not right says of the telegram. *)
LEMMA Ends ==
    ASSUME IInv, NEW n, Comes(n), Total(stream, Start) = n,
           NEW first, first = IF Buffer(0) = SD2 THEN 4 ELSE 1,
           Buffer(0) \in {SD1, SD2, SD3}, n >= 3,
           Buffer(0) = SD2 => Buffer(1) = Buffer(2)
    PROVE  /\ EndsWell(first, n) => WellEnded(stream, Start)
           /\ ~EndsWell(first, n) => ~IsTelegram(stream, Start)
<1>1. EndsWell(first, n) <=> Closed(stream, Start, first, n)
  BY Coming DEF EndsWell, Closed
<1>2. /\ Has(stream, Start, Total(stream, Start))
      /\ \A symbol : Starts(stream, Start, symbol) <=> Buffer(0) = symbol
  BY Coming
<1>3. \A k : Buffer(k) = At(stream, Start, k)
  BY Coming
<1> QED
  BY <1>1, <1>2, <1>3, Symbols DEF WellEnded, IsTelegram

LEMMA SixthStep == IInv /\ SixthByte => IInv'
<1> SUFFICES ASSUME IInv, SixthByte PROVE IInv'
  OBVIOUS
<1>1. Comes(6) /\ Checked(stream, Start, 5, telegramLen)
  BY Coming DEF SixthByte
<1>2. CASE Buffer(0) = SD1
  <2>1. Total(stream, Start) = 6
    BY <1>1, <1>2, Coming, Totals
  <2>2. /\ EndsWell(1, 6) => WellEnded(stream, Start)
        /\ ~EndsWell(1, 6) => ~IsTelegram(stream, Start)
    BY <1>1, <1>2, <2>1, Ends, Symbols
  <2>3. CASE EndsWell(1, 6) /\ Write
    BY <1>1, <2>1, <2>2, <2>3, WriteStep
  <2>4. CASE ~EndsWell(1, 6) /\ Drop
    BY <1>1, <2>2, <2>4, DropStep
  <2> QED
    BY <1>2, <2>3, <2>4 DEF SixthByte
<1>3. CASE Buffer(0) # SD1 /\ GoOn(6)
  <2>1. 6 < Total(stream, Start)
    <3>1. CASE Buffer(0) = SD3
      BY <1>1, <3>1, Coming, Totals
    <3>2. CASE Buffer(0) = SD2
      <4> DEFINE b == At(stream, Start, 1)
      <4>1. Total(stream, Start) = b + 6 /\ b \in 4..MaxData
        BY <1>1, <3>2, Coming, Totals DEF Checked
      <4> HIDE DEF b
      <4> QED
        BY <4>1, SnifferAssumption
    <3> QED
      BY <1>1, <1>3, <3>1, <3>2, Coming DEF Checked
  <2>2. Checked(stream, Start, 6, telegramLen)
    BY <1>1, <1>3, <2>1, Coming DEF Checked
  <2> QED
    BY <1>1, <1>3, <2>2, Coming, GoOnStep DEF GoOn
<1> QED
  BY <1>2, <1>3 DEF SixthByte

LEMMA OtherStep == IInv /\ OtherByte(packetLen + 1) => IInv'
<1> DEFINE n == packetLen + 1
           first == IF Buffer(0) = SD2 THEN 4 ELSE 1
<1> SUFFICES ASSUME IInv, OtherByte(n) PROVE IInv'
  OBVIOUS
<1>1. /\ n \notin {1, 3, 6} /\ Comes(n) /\ n \in Nat /\ n >= 2
      /\ Checked(stream, Start, n - 1, telegramLen)
  BY Coming, Line DEF OtherByte, IInv
<1>2. /\ Fails(n, first) => Drop
      /\ ~Fails(n, first) => IF Complete(n) THEN Write ELSE GoOn(n)
  BY DEF OtherByte
<1> HIDE DEF n, first
<1>3. /\ first = IF Buffer(0) = SD2 THEN 4 ELSE 1
      /\ Buffer(0) \in {SD1, SD2, SD3, SD4} /\ telegramLen \in Nat \cup {-1}
      /\ \A k : Buffer(k) = At(stream, Start, k)
  BY <1>1, Coming DEF first, Checked
<1>4. CASE n = 2
  <2>1. ~Complete(n) /\ ~Fails(n, first)
    BY <1>3, <1>4, SnifferAssumption DEF Complete, Fails
  <2>2. Checked(stream, Start, n, telegramLen)
    BY <1>3, <1>4 DEF Checked
  <2> QED
    BY <1>1, <1>2, <2>1, <2>2, Coming, GoOnStep DEF GoOn
<1>5. CASE n >= 4
  <2>1. /\ n <= Total(stream, Start) /\ Total(stream, Start) \in Nat
        /\ n < MaxPacketLen
        /\ n = Total(stream, Start) <=> Complete(n)
    <3>1. Buffer(0) # SD4 /\ n - 1 < Total(stream, Start)
      BY <1>1, <1>3, <1>5 DEF Checked
    <3>2. CASE Buffer(0) = SD1
      <4>1. Total(stream, Start) = 6 /\ ~Complete(n)
        BY <1>1, <3>2, Coming, Totals, Symbols DEF Complete
      <4> QED
        BY <1>1, <3>1, <4>1, SnifferAssumption
    <3>3. CASE Buffer(0) = SD3
      <4>1. Total(stream, Start) = 14 /\ (Complete(n) <=> n = 14)
        BY <1>1, <3>3, Coming, Totals, Symbols DEF Complete
      <4> QED
        BY <1>1, <3>1, <4>1, SnifferAssumption
    <3>4. CASE Buffer(0) = SD2
      <4> DEFINE b == At(stream, Start, 1)
      <4>1. Total(stream, Start) = b + 6 /\ b \in 4..MaxData /\ telegramLen = b
        BY <1>1, <1>3, <1>5, <3>4, Coming, Totals DEF Checked
      <4>2. Complete(n) <=> b + 6 = n
        BY <3>4, <4>1, Symbols DEF Complete
      <4> HIDE DEF b
      <4> QED
        BY <1>1, <3>1, <4>1, <4>2, SnifferAssumption
    <3> QED
      BY <1>3, <3>1, <3>2, <3>3, <3>4
  <2>2. CASE Complete(n)
    <3>1. /\ Total(stream, Start) = n /\ n >= 3 /\ Buffer(0) \in {SD1, SD2, SD3}
          /\ Buffer(0) = SD2 => Buffer(1) = Buffer(2)
      BY <1>1, <1>3, <1>5, <2>1, <2>2 DEF Checked
    <3>2. /\ EndsWell(first, n) => WellEnded(stream, Start)
          /\ ~EndsWell(first, n) => ~IsTelegram(stream, Start)
      BY <1>1, <1>3, <3>1, Ends
    <3>3. Fails(n, first) <=> ~EndsWell(first, n)
      BY <1>1, <2>1, <2>2, SnifferAssumption DEF Fails
    <3>4. CASE EndsWell(first, n)
      BY <1>1, <1>2, <2>2, <3>1, <3>2, <3>3, <3>4, WriteStep
    <3>5. CASE ~EndsWell(first, n)
      BY <1>1, <1>2, <3>2, <3>3, <3>5, DropStep
    <3> QED
      BY <3>4, <3>5
  <2>3. CASE ~Complete(n)
    <3>1. ~Fails(n, first)
      BY <1>1, <2>1, <2>3, SnifferAssumption DEF Fails
    <3>2. Checked(stream, Start, n, telegramLen)
      BY <1>1, <1>3, <1>5, <2>1, <2>3 DEF Checked
    <3> QED
      BY <1>1, <1>2, <2>3, <3>1, <3>2, Coming, GoOnStep DEF GoOn
  <2> QED
    BY <2>2, <2>3
<1> QED
  BY <1>1, <1>4, <1>5

-----------------------------------------------------------------------------
LEMMA InitIInv == Init => IInv
<1> SUFFICES ASSUME Init PROVE IInv
  OBVIOUS
<1>1. stream \in Seq(0..255) /\ Len(stream) \in Nat /\ pos = 0 /\ packetLen = 0 /\ found = <<>>
  BY SnifferAssumption DEF Init
<1>2. TypeOK /\ Start = 0
  BY <1>1 DEF Init, TypeOK, Start
<1>3. Telegrams[stream][0] \in Seq(Nat)
  BY <1>1, <1>2, TelegramsEquation DEF TypeOK
<1>4. CleanInv
  BY <1>1, <1>2, <1>3 DEF CleanInv, EndOf
<1> QED
  BY <1>1, <1>2, <1>4 DEF IInv, CheckedInv, Checked, FoundClosed

LEMMA NextIInv == IInv /\ [Next]_vars => IInv'
<1> SUFFICES ASSUME IInv, [Next]_vars PROVE IInv'
  OBVIOUS
<1>1. CASE ReadFails
  BY <1>1 DEF ReadFails, IInv, TypeOK, CheckedInv, FoundClosed, CleanInv, Start
<1>2. CASE UNCHANGED vars
  BY <1>2 DEF vars, IInv, TypeOK, CheckedInv, FoundClosed, CleanInv, Start
<1> QED
  BY <1>1, <1>2, FirstStep, ThirdStep, SixthStep, OtherStep DEF Next, ParseByte

LEMMA Inductive == Spec => []IInv
BY InitIInv, NextIInv, PTL DEF Spec

(* The packet in the buffer is shorter than the buffer, so that parse_byte
   never gives up a telegram for its length: the limit of 249 is small enough. *)
THEOREM Fits == Spec => []NeverTooLong
<1>1. IInv => NeverTooLong
  <2> SUFFICES ASSUME IInv PROVE NeverTooLong
    OBVIOUS
  <2>1. /\ packetLen \in Nat /\ stream \in Seq(0..255)
        /\ Start \in Nat /\ Start + packetLen <= Len(stream)
    BY Line DEF IInv
  <2>2. CASE packetLen < 3
    BY <2>1, <2>2, SnifferAssumption DEF NeverTooLong
  <2>3. CASE packetLen >= 3
    <3> DEFINE b == At(stream, Start, 1)
               total == Total(stream, Start)
    <3>1. Has(stream, Start, 1) /\ Has(stream, Start, 3)
      BY <2>1, <2>3 DEF Has
    <3>2. /\ packetLen < total /\ At(stream, Start, 0) \in {SD1, SD2, SD3}
          /\ At(stream, Start, 0) = SD2 => b \in 4..MaxData
      BY <2>1, <2>3 DEF IInv, CheckedInv, Checked
    <3>3. total = 6 \/ total = 14 \/ (total = b + 6 /\ b \in 4..MaxData)
      BY <2>1, <3>1, <3>2, Totals
    <3> HIDE DEF b, total
    <3> QED
      BY <2>1, <3>2, <3>3, SnifferAssumption DEF NeverTooLong
  <2> QED
    BY <2>1, <2>2, <2>3
<1> QED
  BY <1>1, Inductive, PTL

(* write_packet is given nothing but whole telegrams with their sum and end,
   whatever noise is on the line. *)
THEOREM Uncorrupted == Spec => []FoundClosed
<1>1. IInv => FoundClosed
  BY DEF IInv
<1> QED
  BY <1>1, Inductive, PTL

(* Of a line of telegrams that are admitted pbsniffer writes all, as the framer
   of pblog finds them. *)
THEOREM NoneMissed == Spec => []FindsAll
<1>1. IInv => FindsAll
  BY DEF IInv, CleanInv, FindsAll
<1> QED
  BY <1>1, Inductive, PTL
=============================================================================

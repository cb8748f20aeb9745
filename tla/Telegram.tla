------------------------------ MODULE Telegram ------------------------------
(* The PROFIBUS telegrams that the framer (pbframer.c) and pbsniffer
   (sniffer.c) look for, as a property of a sequence s of bytes at an offset i
   (from 0): what both parsers have to find, however they do it.            *)
EXTENDS Integers, Sequences

(* The start delimiters, the end delimiter, and the short confirmation. *)
SC == 229
SD1 == 16
SD2 == 104
SD3 == 162
SD4 == 220
ED == 22
StartSymbols == {SC, SD1, SD2, SD3, SD4}

At(s, i, k) == s[i + k + 1]
Has(s, i, n) == i + n <= Len(s)
Starts(s, i, symbol) == Has(s, i, 1) /\ At(s, i, 0) = symbol

(* The length of the telegram, known for SD2 when its third byte is there. *)
Total(s, i) ==
    CASE Starts(s, i, SC)  -> 1
      [] Starts(s, i, SD4) -> 3
      [] Starts(s, i, SD1) -> 6
      [] Starts(s, i, SD3) -> 14
      [] Starts(s, i, SD2) -> IF Has(s, i, 3) THEN At(s, i, 1) + 6 ELSE 6

BadHeader(s, i) ==
    /\ Starts(s, i, SD2)
    /\ \/ Has(s, i, 3) /\ At(s, i, 1) # At(s, i, 2)
       \/ Has(s, i, 6) /\ At(s, i, 3) # SD2

(* The sum modulo 256 of the bytes at the offsets first to last. *)
Sum(s, first, last) ==
    LET f[i \in first..(last + 1)] == IF i = first THEN 0 ELSE (f[i - 1] + s[i]) % 256
    IN  f[last + 1]

(* The n bytes from i end with ED, after the sum of those from first on. *)
Closed(s, i, first, n) ==
    At(s, i, n - 1) = ED /\ At(s, i, n - 2) = Sum(s, i + first, i + n - 3)

IsTelegram(s, i) ==
    /\ \E symbol \in StartSymbols : Starts(s, i, symbol)
    /\ ~BadHeader(s, i)
    /\ Has(s, i, Total(s, i))
    /\ Starts(s, i, SD2) => Closed(s, i, 4, Total(s, i))
    /\ Starts(s, i, SD1) \/ Starts(s, i, SD3) => Closed(s, i, 1, Total(s, i))

(* The offsets of the telegrams that follow one another directly from an
   offset of s on. *)
TelegramsOf(s) ==
    LET f[i \in 0..Len(s)] ==
            IF i < Len(s) /\ IsTelegram(s, i) THEN <<i>> \o f[i + Total(s, i)] ELSE <<>>
    IN  f
=============================================================================

--------------------------- MODULE SnifferParser ---------------------------
(* pbsniffer's parser (src/sniffer/sniffer.c): read_callback gives the bytes
   of the line to parse_byte one at a time, which collects a telegram in
   packet_buffer and writes it to the capture file when it is complete.  All
   of it runs in the main loop, so that where a read ends does not matter.

   The packet is the last packetLen bytes of the line.  Definitions named after
   another one (EndsWithEd, LengthUnlimited, ...) are that definition with a
   plausible mistake, used to show that a property depends on the code.     *)
EXTENDS Telegram

CONSTANTS
    Streams,        \* what may come over the line
    MaxPacketLen,   \* MAX_PACKET_LEN, 256
    MaxData         \* the longest data of a telegram SD2 admitted, 249

(* The buffer is longer than the longest telegrams that are admitted. *)
ASSUME SnifferAssumption ==
    /\ Streams \subseteq Seq(0..255) /\ {MaxPacketLen, MaxData} \subseteq Nat
    /\ MaxData + 6 < MaxPacketLen /\ 14 < MaxPacketLen

VARIABLES
    stream, pos,        \* the line, and how much of it has been parsed
    packetLen,          \* app->packet_len
    telegramLen,        \* app->telegram_len
    found,              \* history: offsets of the packets given to write_packet
    reading             \* is a read under way?

vars == <<stream, pos, packetLen, telegramLen, found, reading>>

Init ==
    /\ stream \in Streams /\ pos = 0
    /\ packetLen = 0 /\ telegramLen = 255
    /\ found = <<>>
    /\ reading = TRUE

(* The buffer with the byte that comes; its length is then n. *)
Start == pos - packetLen
Buffer(i) == At(stream, Start, i)
Comes(n) ==
    /\ reading /\ pos < Len(stream)
    /\ packetLen + 1 = n
    /\ pos' = pos + 1

(* parse_byte returns TRUE: the telegram goes on. *)
GoOn(n) == packetLen' = n /\ UNCHANGED <<stream, telegramLen, found, reading>>

(* parse_byte returns FALSE: the callback empties the buffer. *)
Reset == packetLen' = 0 /\ telegramLen' = -1
Drop == Reset /\ UNCHANGED <<stream, found, reading>>

(* write_packet; whether or not it succeeds, the telegram is done with. *)
Write ==
    /\ found' = Append(found, Start)
    /\ Reset
    /\ UNCHANGED <<stream, reading>>

(* Does a telegram of n bytes end with ED, after the sum from first on? *)
EndsWithEd(first, n) == Buffer(n - 1) = ED
EndsWell(first, n) ==
    /\ Buffer(n - 1) = ED
    /\ Buffer(n - 2) = Sum(stream, Start + first, Start + n - 3)

-----------------------------------------------------------------------------
FirstByte ==
    /\ Comes(1)
    /\ \/ Buffer(0) = SC /\ Write
       \/ Buffer(0) \in {SD1, SD2, SD3, SD4} /\ GoOn(1)
       \/ Buffer(0) \notin StartSymbols /\ Drop

(* The lengths a telegram SD2 may have. *)
LengthUnlimited(l) == 4 <= l
LengthAbove(l) == 4 < l /\ l <= MaxData
LengthOk(l) == 4 <= l /\ l <= MaxData

ThirdByte ==
    /\ Comes(3)
    /\ \/ Buffer(0) = SD4 /\ Write
       \/ /\ Buffer(0) = SD2 /\ Buffer(1) = Buffer(2) /\ LengthOk(Buffer(1))
          /\ telegramLen' = Buffer(1) /\ packetLen' = 3
          /\ UNCHANGED <<stream, found, reading>>
       \/ Buffer(0) = SD2 /\ ~(Buffer(1) = Buffer(2) /\ LengthOk(Buffer(1))) /\ Drop
       \/ Buffer(0) \in {SD1, SD3} /\ GoOn(3)

SixthByte ==
    /\ Comes(6)
    /\ \/ Buffer(0) = SD1 /\ EndsWell(1, 6) /\ Write
       \/ Buffer(0) = SD1 /\ ~EndsWell(1, 6) /\ Drop
       \/ Buffer(0) # SD1 /\ GoOn(6)

(* Is a packet of n bytes as long as its telegram? *)
Complete(n) ==
    \/ Buffer(0) = SD2 /\ telegramLen + 6 = n
    \/ Buffer(0) = SD3 /\ n = 14

(* "Telegram too long" is one of the errors; the byte goes with the buffer. *)
Fails(n, first) == n > MaxPacketLen \/ (Complete(n) /\ ~EndsWell(first, n))

OtherByte(n) ==
    /\ n \notin {1, 3, 6}
    /\ Comes(n)
    /\ LET first == IF Buffer(0) = SD2 THEN 4 ELSE 1
       IN  IF Fails(n, first) THEN Drop
           ELSE IF Complete(n) THEN Write ELSE GoOn(n)

(* After a failed read no other is started. *)
ReadFails ==
    /\ reading
    /\ reading' = FALSE
    /\ UNCHANGED <<stream, pos, packetLen, telegramLen, found>>

ParseByte == FirstByte \/ ThirdByte \/ SixthByte \/ OtherByte(packetLen + 1)

Next == ParseByte \/ ReadFails

Spec == Init /\ [][Next]_vars

-----------------------------------------------------------------------------
(* The buffer is never full, so that "Telegram too long" never happens. *)
NeverTooLong == packetLen < MaxPacketLen

(* A whole telegram with its end delimiter and the sum of its bytes. *)
WellEnded(s, i) ==
    /\ \E symbol \in StartSymbols : Starts(s, i, symbol)
    /\ Has(s, i, Total(s, i))
    /\ Starts(s, i, SD2) => At(s, i, 1) = At(s, i, 2) /\ Closed(s, i, 4, Total(s, i))
    /\ Starts(s, i, SD1) \/ Starts(s, i, SD3) => Closed(s, i, 1, Total(s, i))

(* A packet found ends with ED after the sum of its bytes: nothing that was
   corrupted on the line in its data is logged. *)
FoundClosed == \A n \in 1..Len(found) : WellEnded(stream, found[n])

(* From each offset of a line on, the telegrams that directly follow one another. *)
Telegrams == [s \in Streams |-> TelegramsOf(s)]

(* Where the last of the telegrams of s that begin at offsets ends. *)
EndOf(s, offsets) ==
    IF offsets = <<>> THEN 0
    ELSE offsets[Len(offsets)] + Total(s, offsets[Len(offsets)])

(* The lines of telegrams only, with lengths that pbsniffer admits. *)
CleanStreams == {s \in Streams :
    /\ EndOf(s, Telegrams[s][0]) = Len(s)
    /\ \A n \in 1..Len(Telegrams[s][0]) :
          LET i == Telegrams[s][0][n] IN Starts(s, i, SD2) => At(s, i, 1) \in 4..MaxData}

(* On a line of telegrams only pbsniffer finds what pblog's framer finds: the
   packets so far and the telegrams still to come are those of the line. *)
FindsAll ==
    stream \in CleanStreams => found \o Telegrams[stream][Start] = Telegrams[stream][0]
=============================================================================

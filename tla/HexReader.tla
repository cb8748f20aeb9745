----------------------------- MODULE HexReader -----------------------------
(* hex2pcapng (src/sniffer/hex2pcapng.c): reads lines of hexadecimal numbers
   and writes the bytes of each line as a packet with pcapng.c, one block after the
   other and in read_callback itself.  The reads of the input are
   asynchronous and end anywhere in a line, so that read_callback keeps the
   beginning of a line in the buffer for the next one.

   The buffer is the last bufferLen characters that have been read; "\n" stands
   for the ends of lines, " " for white space, "z" for anything that is no part
   of a line.  Definitions named after another one (InputSizeDouble, ...) are that
   definition with a plausible mistake, used to show that a property depends on
   the code.                                                                *)
EXTENDS Pcapng, SequencesExt

CONSTANTS
    Texts,          \* what may be read: sequences of characters
    ReadSizes,      \* how many characters a read may return
    PacketSize,     \* PACKET_SIZE, 2048
    StartTs, Period, \* --ts-start, --ts-period, in microseconds
    Guint           \* 2^32

InputSizeDouble == 4 * PacketSize
InputSize == 2 * PacketSize

DecDigits == {"0", "1", "5"}
HexDigits == DecDigits \cup {"f"}
Chars == HexDigits \cup {" ", "#", "z", "\n"}
Digit(c) == CASE c = "0" -> 0 [] c = "1" -> 1 [] c = "5" -> 5 [] c = "f" -> 15

ASSUME HexAssumption ==
    /\ Texts \subseteq Seq(Chars) /\ ReadSizes \subseteq Nat \ {0}
    /\ {PacketSize, Guint} \subseteq Nat \ {0} /\ 1..PacketSize \subseteq PacketLengths
    /\ {StartTs, Period} \subseteq Nat

VARIABLES
    text, pos,      \* the input, and how much of it has been read
    parseTs,        \* app->parse_ts, of --parse-ts
    stage,          \* of open_output; "read", "lines" in the loop of
                    \* read_callback, or the end
    bufferLen,      \* app->input_buffer_len
    lineStart,      \* p: where the next line begins in the buffer
    currentTs,      \* app->current_ts
    packets         \* history: timestamp and bytes of the packets parsed

input == <<text, parseTs>>
output == <<currentTs, packets>>
reader == <<input, pos, stage, bufferLen, lineStart, output>>

HexInit ==
    /\ Init
    /\ text \in Texts /\ pos = 0 /\ parseTs \in BOOLEAN
    /\ stage = "options" /\ bufferLen = 0 /\ lineStart = 0
    /\ currentTs = StartTs
    /\ packets = <<>>

-----------------------------------------------------------------------------
(* The parts of a line s, from its i-th character on.                       *)

(* Where characters of a set end. *)
EndOf(s, i, set) == CHOOSE j \in i..(Len(s) + 1) :
    (j = Len(s) + 1 \/ s[j] \notin set) /\ \A k \in i..(j - 1) : s[k] \in set
SkipWhite(s, i) == EndOf(s, i, {" "})

Number(s, i, j, base) ==
    FoldLeft(LAMBDA v, c : (v * base + Digit(c)) % Guint, 0, SubSeq(s, i, j - 1))

(* The bytes of the numbers up to a comment; Invalid is among them when there
   is something else or a number is too large for a byte. *)
Invalid == -1
BytesOf(s) ==
    LET bytes[i \in 1..(Len(s) + 1)] ==
            IF i > Len(s) \/ s[i] = "#" THEN <<>>
            ELSE LET j == EndOf(s, i, HexDigits)
                 IN  IF j = i \/ Number(s, i, j, 16) > 255 THEN <<Invalid>>
                     ELSE <<Number(s, i, j, 16)>> \o bytes[SkipWhite(s, j)]
    IN  bytes

(* What parse_line does with a line at a time: the bytes it puts into
   packet_buffer, and the timestamp it sets. *)
Parsed(s, ts) ==
    LET i == SkipWhite(s, 1)
        j == EndOf(s, i, DecDigits)
        none == [bytes |-> <<>>, ts |-> ts]
        from(k, t) == [bytes |-> BytesOf(s)[k], ts |-> t]
    IN  IF i > Len(s) \/ s[i] = "#" THEN none
        ELSE IF ~parseTs THEN from(i, ts)
        ELSE IF j = i THEN none
        ELSE from(SkipWhite(s, j), Number(s, i, j, 10) * 1000)

(* No packet when there are no bytes or something else is among them. *)
IsPacket(result) == result.bytes # <<>> /\ Invalid \notin ToSet(result.bytes)

-----------------------------------------------------------------------------
(* open_output: the program's name is the only option of the only section.   *)
Opening(part, step, next) ==
    /\ stage = part /\ step
    /\ stage' = next
    /\ UNCHANGED <<input, pos, bufferLen, lineStart, output>>

(* What comes after a write that may have failed. *)
AfterWrite(next) == IF wrote = "all" THEN next ELSE "failed"

AddProgramName == Opening("options", AddOption, "section")
WriteSection == Opening("section", SectionHeader, "clear")
ClearProgramName == Opening("clear", ClearOptions, AfterWrite("interface"))
WriteInterface == Opening("interface", InterfaceDescription, "opened")
Opened == pc = "none" /\ Opening("opened", UNCHANGED vars, AfterWrite("read"))

(* A block is written to its end before anything else happens. *)
Writing == WriteStep /\ UNCHANGED reader

-----------------------------------------------------------------------------
(* Characters of the buffer, from 0. *)
Buffer(k) == text[pos - bufferLen + k + 1]
Ends == {k \in lineStart..(bufferLen - 1) : Buffer(k) = "\n"}

Room == InputSize - bufferLen
ReadDone ==
    /\ stage = "read"
    /\ \E r \in ReadSizes :
          LET n == Min({r, Len(text) - pos, Room})
          IN  /\ n > 0
              /\ pos' = pos + n /\ bufferLen' = bufferLen + n
    /\ lineStart' = 0 /\ stage' = "lines"
    /\ UNCHANGED <<input, output, vars>>

(* A read returns 0 at the end, and also when there is no room for it. *)
ReadEnds ==
    /\ stage = "read" /\ (pos = Len(text) \/ bufferLen = InputSize)
    /\ stage' = "done"
    /\ UNCHANGED <<input, pos, bufferLen, lineStart, output, vars>>

(* The read fails, or the program is told to stop. *)
ReadFails ==
    /\ stage = "read"
    /\ stage' = "failed"
    /\ UNCHANGED <<input, pos, bufferLen, lineStart, output, vars>>

(* The next line, without its end. *)
NextLine == [k \in 1..(Min(Ends) - lineStart) |-> Buffer(lineStart + k - 1)]

(* parse_line; a packet that cannot be written is given its time all the same. *)
LaterNever(ts) == ts
Later(ts) == ts + Period
Line ==
    /\ stage = "lines" /\ pc = "none" /\ Ends # {}
    /\ lineStart' = Min(Ends) + 1
    /\ LET result == Parsed(NextLine, currentTs)
       IN  IF ~IsPacket(result) THEN currentTs' = result.ts /\ UNCHANGED <<packets, vars>>
           ELSE /\ EnhancedPacket(Len(result.bytes))
                /\ currentTs' = Later(result.ts)
                /\ packets' = Append(packets, result)
    /\ UNCHANGED <<input, pos, stage, bufferLen>>

(* What is left of the buffer is the beginning of a line, unless it is full. *)
TooLong(len) == len >= InputSize
Rest ==
    /\ stage = "lines" /\ pc = "none" /\ Ends = {}
    /\ bufferLen' = IF TooLong(bufferLen - lineStart) THEN 0 ELSE bufferLen - lineStart
    /\ lineStart' = 0 /\ stage' = "read"
    /\ UNCHANGED <<input, pos, output, vars>>

HexNext ==
    \/ AddProgramName \/ WriteSection \/ ClearProgramName \/ WriteInterface \/ Opened
    \/ Writing \/ ReadDone \/ ReadEnds \/ ReadFails \/ Line \/ Rest

HexSpec == HexInit /\ [][HexNext]_<<vars, reader>>

-----------------------------------------------------------------------------
(* parse_line writes to packet_buffer without a check, one byte after the other, and
   may find out later that the line is no packet.  Whatever the line and the reads it
   came in, each byte has a place: the buffer of the line is twice as large, and a
   byte takes at least one digit and a character after it, white space or the end
   of the line. *)
PacketFits ==
    stage = "lines" /\ Ends # {} =>
        LET bytes == Parsed(NextLine, currentTs).bytes
        IN  \A n \in DOMAIN bytes : bytes[n] # Invalid => n <= PacketSize

(* What the packets of a text s are, by its lines, which are what stands before the
   ends of lines, in pieces: of one that does not fit in the buffer only the end
   is a line.  A line begins at first. *)
LineOf(s, first, last) ==
    LET n == last - first IN SubSeq(s, first + InputSize * (n \div InputSize), last - 1)
AtStart == [first |-> 1, ts |-> StartTs, packets |-> <<>>]
AtEnd(s, last, before) ==
    LET result == Parsed(LineOf(s, before.first, last), before.ts)
        taken == IsPacket(result)
    IN  [first |-> last + 1,
         ts |-> IF taken THEN result.ts + Period ELSE result.ts,
         packets |-> IF taken THEN Append(before.packets, result) ELSE before.packets]
After(s) ==
    LET after[i \in 0..Len(s)] ==
            IF i = 0 THEN AtStart
            ELSE IF s[i] = "\n" THEN AtEnd(s, i, after[i - 1]) ELSE after[i - 1]
    IN  after

(* However the input is cut into reads, the packets are those of its lines, at
   the times that the lines or the options give them. *)
ChunkIndependent ==
    /\ stage = "read" => packets = After(text)[pos].packets
    /\ stage = "done" => packets = After(text)[Len(text)].packets
=============================================================================

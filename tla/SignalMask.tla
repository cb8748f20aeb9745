----------------------------- MODULE SignalMask -----------------------------
(* How signal_extractor_extract (src/signallogger/signal_extractor.c) takes the
   value of a signal from the bits of a block: the bits from bit_offset on, the
   lowest bit of each byte first.  The bytes are those of the block and what
   follows it in the packet, since a mask outside the block gives a warning
   only.  A byte has ByteBits bits and a guint WordBits, so that small ones can
   be checked.  Definitions named after another one (EndBitsByOne, ...) are that
   definition with a plausible mistake, used to show that a property depends on
   the code.                                                                *)
EXTENDS Integers, Sequences

CONSTANTS
    ByteBits,       \* 8
    WordBits,       \* 32
    Blocks,         \* sequences of bytes
    Masks           \* bit_offset, bit_width and type of signals

ASSUME MaskAssumption ==
    /\ {ByteBits, WordBits} \subseteq Nat \ {0}
    /\ Blocks \subseteq Seq(0..(2^ByteBits - 1))
    /\ Masks \subseteq [offset : Nat, width : 1..WordBits, signed : BOOLEAN]

VARIABLES
    block, mask,
    stage,
    next,           \* p, the byte to be taken next
    value

maskVars == <<block, mask, stage, next, value>>

Word == 2^WordBits

(* mask_start clears the bits below the first, mask_last those above the last. *)
BitEnd == mask.offset + mask.width
ByteStart == mask.offset \div ByteBits
ByteLast == (BitEnd - 1) \div ByteBits
Shift == mask.offset % ByteBits
FromStart(byte) == byte - (byte % 2^Shift)
EndBitsByOne == BitEnd % ByteBits
EndBits == ((BitEnd - 1) % ByteBits) + 1
UpToLast(byte) == byte % 2^EndBits
Byte(k) == block[k + 1]

MaskInit ==
    /\ block \in Blocks /\ mask \in Masks
    /\ ByteLast < Len(block)
    /\ stage = "first" /\ next = 0 /\ value = 0

OneByte ==
    /\ stage = "first" /\ ByteStart = ByteLast
    /\ value' = FromStart(UpToLast(Byte(ByteStart)))
    /\ stage' = "shift"
    /\ UNCHANGED <<block, mask, next>>

First ==
    /\ stage = "first" /\ ByteStart # ByteLast
    /\ value' = FromStart(Byte(ByteStart))
    /\ next' = ByteStart + 1
    /\ stage' = "more"
    /\ UNCHANGED <<block, mask>>

(* value << 8 | byte; what is shifted out of the word is lost. *)
Appended(byte) == ((value * 2^ByteBits) % Word) + byte
Middle ==
    /\ stage = "more" /\ next < ByteLast
    /\ value' = Appended(Byte(next))
    /\ next' = next + 1
    /\ UNCHANGED <<block, mask, stage>>

LastByte ==
    /\ stage = "more" /\ next = ByteLast
    /\ value' = Appended(UpToLast(Byte(ByteLast)))
    /\ stage' = "shift"
    /\ UNCHANGED <<block, mask, next>>

ShiftDown ==
    /\ stage = "shift"
    /\ value' = value \div 2^Shift
    /\ stage' = "sign"
    /\ UNCHANGED <<block, mask, next>>

(* ~0U << bit_width: to shift by the whole width of the word is undefined, and
   either gives all of the bits or none. *)
Negative == mask.signed /\ (value \div 2^(mask.width - 1)) % 2 = 1
SignBits == IF mask.width = WordBits THEN {0, Word - 1} ELSE {Word - 2^mask.width}
SignOr(bits) == IF bits = Word - 1 THEN bits ELSE bits + (value % (Word - bits))
Sign ==
    /\ stage = "sign"
    /\ IF Negative THEN \E bits \in SignBits : value' = SignOr(bits)
       ELSE UNCHANGED value
    /\ stage' = "done"
    /\ UNCHANGED <<block, mask, next>>

MaskNext == OneByte \/ First \/ Middle \/ LastByte \/ ShiftDown \/ Sign
MaskSpec == MaskInit /\ [][MaskNext]_maskVars

-----------------------------------------------------------------------------
(* The value as the gint that the callback gets. *)
AsInt == IF value < Word \div 2 THEN value ELSE value - Word

Bit(k) == (Byte(k \div ByteBits) \div 2^(k % ByteBits)) % 2
Complement(n, width) == IF n < 2^(width - 1) THEN n ELSE n - 2^width

(* Is n the number that a mask of whole bytes, or of bits in one byte, stands for?
   The first byte is the highest, and a signed number is a complement of two. *)
WholeBytes == Shift = 0 /\ EndBits = ByteBits
IsNumber(n) ==
    IF WholeBytes
    THEN \A k \in ByteStart..ByteLast : (n \div 2^(ByteBits * (ByteLast - k))) % 2^ByteBits = Byte(k)
    ELSE \A k \in 0..(mask.width - 1) : (n \div 2^k) % 2 = Bit(mask.offset + k)

(* Such a signal gets its number, except for a signed one as wide as a guint,
   where the code is undefined. *)
ValueRight ==
    stage = "done" /\ (WholeBytes \/ ByteStart = ByteLast) =>
        \/ mask.signed /\ mask.width = WordBits
        \/ LET n == value % 2^mask.width
           IN  IsNumber(n) /\ IF mask.signed THEN AsInt = Complement(n, mask.width) ELSE value = n
=============================================================================

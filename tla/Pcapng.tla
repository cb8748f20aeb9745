------------------------------- MODULE Pcapng -------------------------------
(* The blocks of a capture file (src/sniffer/pcapng.c).  A block is its type
   and length, a body of a header, data and options, padding, and its length
   again; a reader of the file finds the next block by the length.

   Of a ByteChain only its length matters here, and of the file how much has
   been written.  A body is written piece by piece, but a write that fails may
   have written any part of it.  Definitions named after another one
   (PacketBodyUnpadded, ...) are that definition with a plausible mistake, used to
   show that a property depends on the code.                                *)
EXTENDS Integers

CONSTANTS
    OptionLengths,  \* lengths of the values of options
    PacketLengths,  \* lengths of packets
    MaxFile,        \* bound: bytes in a file before the last block
    MaxOptions,     \* bound: bytes of options before the last one
    MaxPart         \* bound: bytes that a failing write has written

ASSUME PcapngAssumption ==
    /\ OptionLengths \subseteq Nat
    /\ PacketLengths \subseteq Nat \ {0}
    /\ {MaxFile, MaxOptions, MaxPart} \subseteq Nat

VARIABLES
    options,        \* the length of the chain of options, 0 for NULL
    file,           \* bytes written to the file
    pc,             \* the part of a block that is written next
    start,          \* where the block begins
    body, says,     \* body_len, and header[1]: what the block says it is
    sayStart,       \* history: the length at the beginning of the last block
    wrote           \* history: has every write written "all", or one only a "part"?

block == <<start, body, says, sayStart>>
vars == <<options, file, pc, block, wrote>>

Init ==
    /\ options = 0
    /\ file = 0 /\ pc = "none"
    /\ start = 0 /\ body = 0 /\ says = 0 /\ sayStart = 0
    /\ wrote = "all"

(* PADLEN: from a length to a multiple of p, or 0 for none. *)
PadLen(l, p) == (p - 1) - ((l + (p - 1)) % p)

-----------------------------------------------------------------------------
(* pcapng_add_option: an option is its code and length, its value and padding;
   the first one gets the end of the options after it. *)
OptionBytes(length) == length + 4 + PadLen(length, 4)
AddOption ==
    /\ pc = "none" /\ options <= MaxOptions
    /\ \E length \in OptionLengths :
          options' = OptionBytes(length) + IF options = 0 THEN OptionBytes(0) ELSE options
    /\ UNCHANGED <<file, pc, block, wrote>>

ClearOptions ==
    /\ pc = "none"
    /\ options' = 0
    /\ UNCHANGED <<file, pc, block, wrote>>

(* The length of the options in a body: default_options when there are none. *)
OptionsLength == IF options = 0 THEN 4 ELSE options

(* pcapng_write_block for a body of a length: it says so before any padding. *)
Begin(length) ==
    /\ pc = "none" /\ file <= MaxFile
    /\ start' = file
    /\ body' = length /\ says' = length + 12
    /\ pc' = "header"
    /\ UNCHANGED <<options, file, sayStart, wrote>>

SectionHeader == Begin(16 + OptionsLength)
InterfaceDescription == Begin(8 + OptionsLength)

(* A packet is padded for itself, and has no options of its own. *)
PacketBodyUnpadded(length) == 20 + length + 4
PacketBody(length) == 20 + length + PadLen(length, 4) + 4
EnhancedPacket(length) == Begin(PacketBody(length))

-----------------------------------------------------------------------------
(* pcapng_write_chain, one write after the other.                           *)
Write(part, bytes, rest) ==
    /\ pc = part
    /\ file' = file + bytes
    /\ pc' = rest
    /\ UNCHANGED <<options, start, body, says, wrote>>

WriteHeader == Write("header", 8, "body") /\ sayStart' = says
WriteBody == Write("body", body, "pad") /\ UNCHANGED sayStart
WritePad == Write("pad", PadLen(body, 4), "trailer") /\ UNCHANGED sayStart
WriteTrailer == Write("trailer", 4, "none") /\ UNCHANGED sayStart

(* The callers give a warning and write the next block, if there is one. *)
Size == [header |-> 8, body |-> body, pad |-> PadLen(body, 4), trailer |-> 4]
WriteFails ==
    /\ pc # "none"
    /\ \E n \in 0..Size[pc] : n <= MaxPart /\ file' = file + n
    /\ pc' = "none" /\ wrote' = "part"
    /\ UNCHANGED <<options, block>>

WriteStep == WriteHeader \/ WriteBody \/ WritePad \/ WriteTrailer \/ WriteFails

Next ==
    \/ AddOption \/ ClearOptions
    \/ SectionHeader \/ InterfaceDescription
    \/ \E length \in PacketLengths : EnhancedPacket(length)
    \/ WriteStep

Spec == Init /\ [][Next]_vars

-----------------------------------------------------------------------------
(* Every variable has its type, and the options are whole words. *)
TypeOK ==
    /\ options \in Nat /\ options % 4 = 0
    /\ file \in Nat /\ start \in Nat
    /\ pc \in {"none", "header", "body", "pad", "trailer"}
    /\ body \in Nat /\ says \in Nat /\ sayStart \in Nat
    /\ wrote \in {"all", "part"}

(* While no write has failed, every block has the length that it says at both
   ends, a multiple of four: pcapng_write_block says it before its padding is
   known, so that a body must come padded, and every part of it counted, or the
   next block is not found where it begins. *)
BlockAsSaid ==
    wrote = "all" /\ pc = "none" /\ file > 0 =>
        sayStart = says /\ file - start = says /\ file % 4 = 0
=============================================================================

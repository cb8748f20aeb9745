SPECIFICATION HexSpec
CONSTANTS
    OptionLengths = {10}
    PacketLengths = {1, 2, 3}
    MaxFile = 1000
    MaxOptions = 0
    MaxPart = 1
    Texts <- MCTexts
    ReadSizes = {1, 3, 20}
    PacketSize = 3
    StartTs = 2
    Period = 7
    Guint = 65536
INVARIANTS BlockAsSaid PacketFits ChunkIndependent
CHECK_DEADLOCK FALSE

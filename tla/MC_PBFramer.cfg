SPECIFICATION FairSpec
CONSTANTS
    Streams <- MCStreams
    ReadSizes = {1, 13}
    BufferCapacity = 15
    MinQueue = 2
    InitialMaxQueue = 3
    MaxQueue = 2
    InitialSpeed = 11
    Speed = 11
    Second = 3
    MaxLate = 2
INVARIANTS WithinBounds LossCounted PromptWakeup ChunkIndependent
PROPERTIES TimeOrdered QueueDrained FinalizeEnds
CHECK_DEADLOCK FALSE

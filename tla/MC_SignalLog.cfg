SPECIFICATION MCSpec
CONSTANTS
    Signals = {"a", "b"}
    Values = {0, 1}
    Archives <- MCArchives
    Half = 16
    Stale = {2, 9}
    Requests <- MCRequests
    Keys = {"k1", "k2"}
    Ids = {"a", "b"}
    MaxSignals = 2
    MaxTraces = 3
    MaxDepth = 5
    ByteBits = 3
    WordBits = 9
    Blocks <- MCBlocks
    Masks <- MCMasks
INVARIANTS HoldsValue StartsAtSample NoOverlap WithinCapture Covered ShowsTable
    AssertionsHold ConfigComplete TracesDeclared ValueRight
CHECK_DEADLOCK FALSE

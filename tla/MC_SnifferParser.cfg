SPECIFICATION Spec
CONSTANTS
    Streams <- MCStreams
    MaxPacketLen = 16
    MaxData = 9
INVARIANTS NeverTooLong FoundClosed FindsAll
CHECK_DEADLOCK FALSE

SPECIFICATION PblogSpec
CONSTANTS
    Frames <- MCFrames
    MaxInputs = 6
    Silence = 1
    MaxPeriod = 2
INVARIANTS ResponseAfterRequest OutputInOrder LogComplete NoRepeat FiledByTime
PROPERTY WritesAsPromised
CHECK_DEADLOCK FALSE

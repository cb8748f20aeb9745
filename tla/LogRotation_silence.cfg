SPECIFICATION FairSpec
CONSTANTS
    MaxTime = 4
    MaxSwaps = 6
    MaxGap = 3
    MaxLag = 2
    EarlyQuit = FALSE
    IoMayFail = FALSE
PROPERTY AdvanceValid
CHECK_DEADLOCK FALSE

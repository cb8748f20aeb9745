SPECIFICATION FairSpec
CONSTANTS
    MaxTime = 4
    MaxSwaps = 6
    MaxGap = 1
    MaxLag = 2
    EarlyQuit = TRUE
    IoMayFail = FALSE
INVARIANT UnusedDeleted
CHECK_DEADLOCK FALSE

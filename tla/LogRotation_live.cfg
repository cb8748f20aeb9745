SPECIFICATION FairSpec
CONSTANTS
    MaxTime = 4
    MaxSwaps = 6
    MaxGap = 1
    MaxLag = 2
    EarlyQuit = FALSE
    IoMayFail = FALSE
PROPERTIES SwapReturns KeepsFilesLive
CHECK_DEADLOCK FALSE

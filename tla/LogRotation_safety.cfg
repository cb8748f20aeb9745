SPECIFICATION Spec
CONSTANTS
    MaxTime = 4
    MaxSwaps = 6
    MaxGap = 1
    MaxLag = 2
    EarlyQuit = TRUE
    IoMayFail = TRUE
INVARIANTS SlotFree WriteSafe
PROPERTIES KeepsFiles
CHECK_DEADLOCK FALSE

CONSTANTS
    Slot = 3
    Debounce = 1
    MaxSignals = 2
    BackSteps = FALSE
    MaxClockSteps = 0
    MaxStep = 1
SPECIFICATION Spec
INVARIANT NoUseAfterFree
CHECK_DEADLOCK FALSE

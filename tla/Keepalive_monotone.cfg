CONSTANTS
    Slot = 3
    Debounce = 1
    MaxSignals = 2
    BackSteps = FALSE
    MaxClockSteps = 1
    MaxStep = 2
SPECIFICATION Spec
INVARIANT TypeOK
PROPERTY ReadsContinue
PROPERTY StopWhileRunningHonored
PROPERTY NoShotAfterStop
CHECK_DEADLOCK FALSE

CONSTANTS
    Slot = 3
    Debounce = 1
    MaxSignals = 0
    BackSteps = TRUE
    MaxClockSteps = 1
    MaxStep = 3
SPECIFICATION Spec
PROPERTY ReadsContinue
CHECK_DEADLOCK FALSE

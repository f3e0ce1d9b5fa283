CONSTANTS
    Slot = 3
    Debounce = 1
    MaxSignals = 1
    BackSteps = FALSE
    MaxClockSteps = 0
    MaxStep = 1
SPECIFICATION Spec
PROPERTY StopHonored
CHECK_DEADLOCK FALSE

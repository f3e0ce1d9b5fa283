CONSTANTS
    Interval = 3
    MaxOverrun = 2
    LoopMod <- MCLoopMod
    MaxSignals = 1
    MaxUsr1 = 1
    ClockSteps = TRUE
    MaxClockSteps = 2
    MaxStep = 2
SPECIFICATION Spec
INVARIANT OversleepWithinStep
PROPERTY StopHonored
CHECK_DEADLOCK FALSE
PROPERTY LoopSpecImplemented

CONSTANTS
    Interval = 2
    MaxOverrun = 1
    LoopMod <- MCLoopMod
    MaxSignals = 1
    MaxUsr1 = 2
    ClockSteps = FALSE
    MaxClockSteps = 0
    MaxStep = 1
SPECIFICATION Spec
INVARIANT FlushPerSignal
CHECK_DEADLOCK FALSE

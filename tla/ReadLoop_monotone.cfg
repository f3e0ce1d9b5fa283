CONSTANTS
    Interval = 3
    MaxOverrun = 2
    LoopMod <- MCLoopMod
    MaxSignals = 2
    MaxUsr1 = 2
    ClockSteps = FALSE
    MaxClockSteps = 0
    MaxStep = 1
SPECIFICATION Spec
INVARIANT TypeOK
INVARIANT DeadlineOnGrid
INVARIANT NoOversleep
PROPERTY StopHonored
CHECK_DEADLOCK FALSE

CONSTANTS
    MaxSignals = 1
SPECIFICATION Spec
INVARIANT ExitStatusReportsFailures
CHECK_DEADLOCK FALSE

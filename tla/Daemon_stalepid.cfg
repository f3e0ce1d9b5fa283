CONSTANTS
    MaxSignals = 1
SPECIFICATION Spec
INVARIANT PidFileReleasedOnExit
CHECK_DEADLOCK FALSE

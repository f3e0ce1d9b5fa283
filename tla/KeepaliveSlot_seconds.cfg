CONSTANTS
    Res = 1
    MaxInterval = 4000
SPECIFICATION Spec
INVARIANT SlotMatchesInterval
CHECK_DEADLOCK FALSE

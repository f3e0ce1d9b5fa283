CONSTANTS
    Res = 10
    MaxInterval = 400
SPECIFICATION Spec
INVARIANT SlotMatchesInterval
CHECK_DEADLOCK FALSE

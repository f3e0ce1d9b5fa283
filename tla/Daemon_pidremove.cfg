CONSTANTS
    MaxSignals = 1
SPECIFICATION Spec
PROPERTY PidFileRemovedOnlyByOwner
CHECK_DEADLOCK FALSE

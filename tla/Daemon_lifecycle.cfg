CONSTANTS
    MaxSignals = 2
SPECIFICATION Spec
INVARIANT TypeOK
INVARIANT ReadinessProtocol
PROPERTY StopLeadsToExit
CHECK_DEADLOCK FALSE

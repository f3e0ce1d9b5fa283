CONSTANTS
    SunPath = 5
    MaxNameLen = 4
SPECIFICATION Spec
INVARIANT AddressIsNamed
CHECK_DEADLOCK FALSE

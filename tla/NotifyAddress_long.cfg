CONSTANTS
    SunPath = 5
    MaxNameLen = 6
SPECIFICATION Spec
INVARIANT AddressIsNamed
CHECK_DEADLOCK FALSE

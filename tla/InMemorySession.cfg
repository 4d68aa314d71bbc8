CONSTANTS
    c1 = c1
    d1 = d1
    d2 = d2
    Caller <- MCCaller
    Data <- MCData
    MaxHistory = 2
    MaxObjects = 4
SPECIFICATION Spec
CHECK_DEADLOCK FALSE
PROPERTIES PreviousStateKept

CONSTANTS
    Container <- Names
    Begins <- Prefix
    Days = 2
    LastDay = 5
SPECIFICATION Spec
PROPERTY LastGoodKept
CHECK_DEADLOCK FALSE

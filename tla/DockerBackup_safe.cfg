CONSTANTS
    Container <- Names
    Begins <- Prefix
    Days = 2
    LastDay = 5
SPECIFICATION Spec
INVARIANTS TypeOK YoungKept NoPile
CHECK_DEADLOCK FALSE

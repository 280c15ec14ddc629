CONSTANTS
    Lines = 3
    Text <- AAndUmlaut
    ReadMax = 2
    MaxRestart = 1
    Faults = {"kill"}
SPECIFICATION Spec
INVARIANTS TypeOK LinesIntact
PROPERTY FifoIsChannel
CHECK_DEADLOCK FALSE

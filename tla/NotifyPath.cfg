CONSTANTS
    Lines = 2
    Text <- JustA
    ReadMax = 4
    MaxRestart = 1
    Faults = {"kill"}
    Device = {d1, d2}
    Bad = {d2}
    ForwardHistory = TRUE
    CredsRoom = FALSE
    MaxRequests = 0
    MaxLeave = 1
    PipeFaults = {"alias", "flush"}
SPECIFICATION PathLiveSpec
PROPERTIES PathIsChannel WriterServed LineDelivered
CHECK_DEADLOCK FALSE

CONSTANTS
    Device = {d1, d2}
    Bad = {d1}
    ForwardHistory = TRUE
    CredsRoom = FALSE
    MaxMsg = 2
    MaxRequests = 1
    MaxRestart = 1
    MaxLeave = 1
    Faults = {"store", "alias", "marker", "flush", "send"}
SPECIFICATION LiveSpec
INVARIANTS TypeOK EachLineOnce KeyFirst HistoryKept
PROPERTIES PipeIsChannel RequestAnswered
CHECK_DEADLOCK FALSE

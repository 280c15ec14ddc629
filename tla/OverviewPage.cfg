CONSTANTS
    Thread = {t1, t2}
    Cards = 3
    TTL = 2
    Timeout = 3
    MaxTime = 5
    Poll = 2
    MaxHist = 2
    Visits = 1
SPECIFICATION PageSpec
INVARIANTS TypeOK ServedFresh MapComplete PageInOrder
SYMMETRY Sym
CHECK_DEADLOCK FALSE

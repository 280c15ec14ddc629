CONSTANTS
    d1 = d1
    d2 = d2
    alice = alice
    bob = bob
    Store = {r1, r2}
    Device = {d1, d2}
    Owner <- MCOwner
    MaxFaults = 2
SPECIFICATION FairSpec
INVARIANTS TypeOK InStep
PROPERTIES OnlyLiveUnmarked Repaired
CHECK_DEADLOCK FALSE

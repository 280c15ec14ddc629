CONSTANTS
    MaxEvents = 4
    MaxMinute = 3
    Listed = 20
SPECIFICATION Spec
INVARIANTS EventOnce
CHECK_DEADLOCK FALSE

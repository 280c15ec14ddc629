SPECIFICATION Spec
CONSTANTS
    Activity = {"gpu"}
    IdleTimeout = 2
    Grace = 1
    SlowPing = 2
    FastPing = 1
    MaxLines = 1
    Faults = {"ssh"}
PROPERTY NoActiveCompute

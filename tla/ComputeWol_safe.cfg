SPECIFICATION RetrySpec
CONSTANTS
    Activity = {"gpu", "localflag"}
    IdleTimeout = 2
    Grace = 1
    SlowPing = 2
    FastPing = 1
    MaxLines = 1
    Faults = {"ssh", "packet", "rotate", "manual", "restart"}
INVARIANTS TypeOK
PROPERTIES SleepsArmed SparesLasting GraceRespected OverrideHonoured RetriesWake

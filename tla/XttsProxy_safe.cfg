SPECIFICATION Spec
CONSTANTS
    r1 = r1
    r2 = r2
    Request <- MCRequest
    Idler = Idler
    Nobody = Nobody
    IdleTimeout = 2
INVARIANTS TypeOK BusyCounts NoTruncatedAudio
PROPERTIES LeaseSafety QuietFreesGpu

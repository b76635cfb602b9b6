\* Ring of three samples, ramp of two, a threshold of 7/3 means.
SPECIFICATION Spec
CONSTANTS
    Window = 3
    Ramp = 2
    PhiNum = 3
    PhiDen = 7
    Scheme = "TS_ACCRUAL"
    timeout_lb_ms = 1
    timeout_ub_ms = 2
    ACCRUAL_INTERVAL_MS = 1
    MS = 3
    HEARTBEAT_INTERVAL = 2
    CrashAfter = 2
    MinGap = 1
    MaxGap = 4
    MaxSilence = 10
INVARIANTS
    TypeOK
    RingIsRecent
PROPERTIES
    SuspicionJustified
    SilenceDetected

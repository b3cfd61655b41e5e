SPECIFICATION FairSpec
CONSTANTS
    Replicas = {r1, r2}
    Shared = TRUE
    Timeout = 2
    Period = 1
    MaxTroubles = 2
INVARIANTS
    IdleTypeOK
PROPERTIES
    PausesOnlyIdle
    SessionRuns
    IdleStops
CHECK_DEADLOCK FALSE

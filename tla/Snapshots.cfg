SPECIFICATION Spec
CONSTANTS
    a = a
    b = b
    c1 = c1
    c2 = c2
    Run = {a, b}
    Cron = {a}
    Collector = {c1, c2}
    Score <- MCScore
    Forecast = c2
    Trend = c1
    Stale <- MCStale
    MinTypes = 2
    MaxAttempts <- MCAttempts
    MaxExpiry = 1
    MaxTroubles = 1
INVARIANTS
    TypeOK
    OwnSignalsMerged
    TtlRestored
CHECK_DEADLOCK FALSE

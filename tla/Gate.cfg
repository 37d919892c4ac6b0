CONSTANTS
    cron1 = cron1
    cron2 = cron2
    scan = scan
    sym = sym
    other = other
    Run = {cron1, cron2, scan}
    Cron = {cron1, cron2}
    NoRun = NoRun
    Symbol = {sym, other}
    Batches <- MCBatches
    Passing <- MCPassing
    Proposals <- MCProposals
    Markets <- MCMarkets
    DecayCycles = 1
    WatchMax = 2
    StressedMax = 1
    Threshold = 1
    MaxAttempts = 2
    MaxExpiry <- MCMaxExpiry
    MaxTroubles = 1
SPECIFICATION Spec
INVARIANTS TypeOK RepeatsBounded DirectionalKeyIsLive WeakAlertsSuppressed ExtendedHoursStricter OwnEvidence
SYMMETRY MCSymmetry
CHECK_DEADLOCK FALSE

CONSTANTS
    cron = cron
    scan = scan
    longA = longA
    longB = longB
    watchA = watchA
    watchA2 = watchA2
    keyA = keyA
    keyB = keyB
    keyW = keyW
    Run = {cron, scan}
    Alert = {longA, longB, watchA, watchA2}
    Key = {keyA, keyB, keyW}
    Directional = {longA, longB}
    RunOf <- MCRunOf
    KeyOf <- MCKeyOf
    Score <- MCScore
    MaxDirectional = 1
    MaxPosts = 2
    MaxSends = 2
    CbThreshold = 1
    MaxExpiry <- MCMaxExpiry
    ExecEnabled = TRUE
    DryRun = FALSE
SPECIFICATION Spec
INVARIANT SuppressedOnlyIfNotified
CHECK_DEADLOCK FALSE

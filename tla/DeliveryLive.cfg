\* The instance of Delivery.cfg without the contending alerts: liveness
\* concerns each run alone.
CONSTANTS
    cron = cron
    scan = scan
    longA = longA
    longB = longB
    watchA = watchA
    watchA2 = watchA2
    keyA = keyA
    keyB = keyB
    keyW = keyW
    Run = {cron, scan}
    Alert = {longA, watchA2}
    Key = {keyA, keyW}
    Directional = {longA}
    RunOf <- MCRunOf
    KeyOf <- MCKeyOf
    Score <- MCScore
    MaxDirectional = 1
    MaxPosts = 2
    MaxSends = 2
    CbThreshold = 1
    MaxExpiry <- MCMaxExpiry
    ExecEnabled = TRUE
    DryRun = FALSE
SPECIFICATION FairSpec
PROPERTIES
    DiscordNotBlocked
    EveryRunEnds
CHECK_DEADLOCK FALSE

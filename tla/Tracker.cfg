CONSTANTS
    cron = cron
    loop = loop
    symbolA = symbolA
    Rows = 3
    Symbol = {symbolA}
    SymbolOf <- MCSymbolOf
    Tracker = {cron, loop}
    Looping = {loop}
    Deployments <- MCDeployments
    Limit = 2
    Forecasting = TRUE
    MaxTroubles = 2
SPECIFICATION Spec
INVARIANT TypeOK
INVARIANT OverwriteNeedsOverlap
INVARIANT LossInProfitHasForecast
PROPERTY FinalWhenAlone
PROPERTY ResolvedOrOutOfReach
CHECK_DEADLOCK FALSE

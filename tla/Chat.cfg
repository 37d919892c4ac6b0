CONSTANTS
    old = old
    t1 = t1
    t2 = t2
    None = None
    Thread = {old, t1, t2}
    Listed = {old}
    MaxRequests = 2
    MaxClicks = 3
SPECIFICATION Spec
INVARIANT TypeOK
PROPERTY NoLeftoverStop
INVARIANT InputComesBack
PROPERTY FinishKeepsPick
PROPERTY MessageGoesToPick
PROPERTY StopTakesEffect
CHECK_DEADLOCK FALSE

CONSTANTS
    old = old
    t1 = t1
    t2 = t2
    None = None
    Thread = {old, t1, t2}
    Listed = {old}
    MaxRequests = 2
    MaxClicks = 1
SPECIFICATION Spec
INVARIANT HistoryFollowsSelection
CHECK_DEADLOCK FALSE

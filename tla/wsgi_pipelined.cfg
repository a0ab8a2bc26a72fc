SPECIFICATION WSpec
CONSTANTS
    Sess = {s1}
    PoolEx = 1
    MaxEx = 2
    MaxReqs = 2
    MaxBody = 2
    MaxStops = 1
    Pipelining = TRUE
INVARIANT LockMeansClosed
CHECK_DEADLOCK FALSE

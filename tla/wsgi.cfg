SPECIFICATION WsgiSpec
CONSTANTS
    Sess = {s1, s2}
    PoolEx = 1
    MaxEx = 2
    MaxReqs = 2
    MaxBody = 1
    MaxStops = 1
    Pipelining = FALSE
    NProc = 3
    MaxRestarts = 2
    MaxConns = 2
    MaxSignals = 1
INVARIANTS RefsExact  LockMeansClosed 
PROPERTIES Answered TermEnds Supervised Accepted
CHECK_DEADLOCK FALSE

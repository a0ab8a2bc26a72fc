SPECIFICATION Spec
CONSTANTS
    Conns = {c1, c2}
    NoConn = NoConn
    SizeMax = 3
    MaxIn = 1
    MaxWork = 1
    MaxCalls = 2
    TLS = TRUE
    InitMayFail = TRUE
    TxNow = {"last", "mid"}
SYMMETRY Symmetry
CHECK_DEADLOCK FALSE
INVARIANTS TypeOK NoDanglingWatcher IdleTimerArmed

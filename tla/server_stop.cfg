SPECIFICATION FairSpec
CONSTANTS
    Conns = {c1, c2}
    NoConn = NoConn
    SizeMax = 2
    MaxIn = 1
    MaxWork = 1
    MaxCalls = 1
    TLS = FALSE
    InitMayFail = FALSE
    TxNow = {"last"}
CHECK_DEADLOCK FALSE
INVARIANTS  GracefulBreak
PROPERTIES ConnectionsEnd GracefulStopEnds

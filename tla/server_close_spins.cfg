SPECIFICATION LoopSpec
CONSTANTS
    Conns = {c1}
    NoConn = NoConn
    SizeMax = 2
    MaxIn = 0
    MaxWork = 1
    MaxCalls = 1
    TLS = FALSE
    InitMayFail = FALSE
    TxNow = {}
PROPERTIES CloseReturns

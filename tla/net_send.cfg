SPECIFICATION MCSpec
CONSTANTS
    MaxBytes = 7
    MaxChain = 3
    MinLen = 1
    MaxLen = 3
    MaxIov = 2
    SockBuf = 3
    Ssl = FALSE
INVARIANTS InOrder OkayMeansSent
PROPERTIES ImplementsStream EveryByteLeaves
CHECK_DEADLOCK FALSE

SPECIFICATION Spec
CONSTANTS
    Inputs <- TwoBodies
    RecvBuf = 30
    MaxBody = 4
    SizeMod = 1024
INVARIANTS LengthIsBody
CHECK_DEADLOCK FALSE

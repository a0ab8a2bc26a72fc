SPECIFICATION Spec
CONSTANTS
    Inputs <- OneMessage
    Requests <- OneRequest
    AppFrames <- SomeFrames
    MaxApp = 1
    ByteBase = 4
    FrameMax = 6
    Buffered = TRUE
INVARIANTS MessagesComplete
CHECK_DEADLOCK FALSE

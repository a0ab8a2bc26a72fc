SPECIFICATION FairSpec
CONSTANTS
    Inputs <- AllInputs
    Requests <- AllRequests
    AppFrames <- SomeFrames
    MaxApp = 1
    ByteBase = 4
    FrameMax = 6
    Buffered = FALSE
INVARIANTS FramesInOrder Delivered 
PROPERTIES ClosingEnds
CHECK_DEADLOCK FALSE

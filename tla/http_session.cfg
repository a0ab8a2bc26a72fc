SPECIFICATION FairSpec
CONSTANTS
    MaxReq = 2
    MaxItems = 2
    MaxQueue = 3
    Kinds <- AllKinds
INVARIANTS  NoStall FramingExact
PROPERTIES ResponsesInOrder EveryResponseSent
CHECK_DEADLOCK FALSE

SPECIFICATION Spec
CONSTANTS
    MaxReq = 2
    MaxItems = 1
    MaxQueue = 3
    Kinds <- PlainKinds
INVARIANT NeverSendsNothing
CHECK_DEADLOCK FALSE

SPECIFICATION CSpec
CONSTANTS
    Buffers <- TheBuffers
    MaxText = 5
    Words <- TheWords
    MaxOffset = 255
    QItems = {x, y}
    PoolSize = 2
    MaxNodes = 4
    MaxBuckets = 4
    Names <- TheNames
    Vals = {v, w}
    SetCookie <- TheCookie
    NBuckets = 4
    HdrPool = 2
    MaxHdrs = 3
    BlockSize = 40
    BlockStart = 16
    Sizes = {1, 7, 8, 12}
    MaxObjs = 4
    Packets <- ThePackets
    LenBase = 2
    Bodies <- TheBodies
    ReadSizes = {NoSize, 0, 1, 3}
    NoSize = NoSize
    MaxReads = 3
    HdrLists <- TheHeaders
    Inputs <- PassInputs
    RecvBuf = 30
    MaxBody = 4
    SizeMod = 1024
INVARIANTS RoundTrip   TextExact LookupExact QueueLinked BucketsConserved  ObjectsApart  RequestSeen
PROPERTIES ImplementsDeque
CHECK_DEADLOCK FALSE

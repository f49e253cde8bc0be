SPECIFICATION ThreadsSpec
CONSTANTS
    CleanSession = FALSE
    MaxMsgId = 3
    Qos = {1, 2}
    PubrelDup = TRUE
    MaxSends = 2
    MaxIncoming = 2
    MaxBreaks = 2
    MaxRefusals = 2
    MaxRetries = 0
    LocalMac = "me"
    Traffic <- SomeTraffic
    FrameBytes = 3
    BufferLen = 4
    AckLimit = 1
    MaxOnWay = 1
INVARIANTS
    ExchangedOnce
    SuccessMeansPublished
    OrderIsKept
    AckedIsKept
    ReceivedWhole
    SentWhole
CHECK_DEADLOCK FALSE

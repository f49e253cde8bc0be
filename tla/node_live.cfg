SPECIFICATION ThreadsFairSpec
CONSTANTS
    CleanSession = TRUE
    MaxMsgId = 4
    Qos = {1, 2}
    PubrelDup = TRUE
    MaxSends = 5
    MaxIncoming = 0
    MaxBreaks = 1
    MaxRefusals = 0
    MaxRetries = 0
    LocalMac = "me"
    Traffic <- SomeTraffic
    FrameBytes = 2
    BufferLen = 4
    AckLimit = 1
    MaxOnWay = 1
INVARIANT OwnCallbacks
PROPERTIES GrantedIsReleased JunkIsFlushed
CHECK_DEADLOCK FALSE

SPECIFICATION ClientSpec
CONSTANTS
    MaxMsgId = 4
    Qos = {1, 2}
    Starts = {3}
    MaxSends = 2
    MaxIncoming = 1
    MaxTroubles = 2
    ConnectOptions <- SomeOptions
    MayWait = {FALSE, TRUE}
    Asks = {"SUBSCRIBE", "PUBLISH0", "PUBLISH1"}
    MaxAPICalls = 4
    MaxAsks = 2
    MaxFaults = 3
INVARIANTS CrashesLoseNothing CallsAreTold
PROPERTIES StoredGetsThrough CallsAreAnswered
CHECK_DEADLOCK FALSE

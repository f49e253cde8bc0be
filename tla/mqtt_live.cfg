SPECIFICATION FairSpec
CONSTANTS
    CleanSession = FALSE
    MaxMsgId = 3
    Qos = {1, 2}
    PubrelDup = TRUE
    MaxSends = 1
    MaxIncoming = 1
    MaxBreaks = 2
    MaxRefusals = 2
    MaxRetries = 1
PROPERTIES EverySendAnswered IncomingIsServed
CHECK_DEADLOCK FALSE

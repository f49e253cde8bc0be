SPECIFICATION Spec
CONSTANTS
    LengthBase = 4
    MAX_NO_OF_REMAINING_LENGTH_BYTES = 2
    Sockets = {1, 2}
    Packets <- SentPackets
    MaxPackets = 2
    MaxConnections = 3
    TextBytes = {65, 128, 143, 144, 159, 160, 191, 193, 194, 224, 237, 240, 244, 245}
    MaxText = 4
    Options <- MCOptions
    Topics <- Strings
    MaxTopics = 3
    MaxLength = 70
    Stored <- Records
    MaxPuts = 3
    MaxFaults = 2
INVARIANTS ReadsAreWhole CodecIsFaithful FilesAreWhole
PROPERTIES PacketsArrive
CHECK_DEADLOCK FALSE

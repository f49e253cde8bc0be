SPECIFICATION Spec
CONSTANTS
    Key = {1, 2, 3, 4, 5, 6}
    Size = {1}
    ListElement = {1, 2, 3, 4}
    Content = {c1, c2}
    Thread = {t1, t2}
    Address = {a1, a2, a3}
    Bytes = {1, 20}
    Rounding = 16
    MaxFailures = 1
    FD = {1, 2}
    Buffer <- PacketBuffers
    MaxWrites = 2
    MaxOpens = 2
INVARIANTS TreeIsSound ListIsSound HeapIsSound WritesAreSound
PROPERTIES IsBalancedDictionary IsSequence PendingWritesEnd
CHECK_DEADLOCK FALSE

SPECIFICATION Spec
CONSTANTS
    Node = {N_PC, N_EPS}
    Broadcast = Broadcast
    NoFrame = NoFrame
    Junk = Junk
    FrameLen <- Lengths
    AckTimeout = 1
    MaxPings = 2
    MaxRequests = 1
    MaxCommands = 0
    Targets = {N_EPS, Broadcast}
    Listeners = {N_EPS}
    Early = {"grant", "ack", "puback", "poll", "slot", "ping", "pulse"}
INVARIANTS
    TypeOK
    DeliveredOnce

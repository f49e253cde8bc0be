SPECIFICATION Spec
CONSTANTS
    Node = {N_PC, N_EPS}
    Broadcast = Broadcast
    NoFrame = NoFrame
    Junk = Junk
    FrameLen <- Lengths
    AckTimeout = 1
    MaxPings = 2
    MaxRequests = 2
    MaxCommands = 0
    Targets = {N_PC, N_EPS, Broadcast}
    Listeners = {}
    Early = {"ack"}
INVARIANT AckMeansDelivered

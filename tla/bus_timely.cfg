SPECIFICATION Spec
CONSTANTS
    Node = {N_PC, N_EPS, N_CAM}
    Broadcast = Broadcast
    NoFrame = NoFrame
    Junk = Junk
    FrameLen <- Lengths
    AckTimeout = 1
    MaxPings = 2
    MaxRequests = 2
    MaxCommands = 0
    Targets = {N_EPS, Broadcast}
    Listeners = {}
    Early = {}
INVARIANTS
    OneTransmitter
    AckMeansDelivered
    NoIdleHold
    ReceiverServesHolder
PROPERTY FrameIsHeard
SYMMETRY Symmetry

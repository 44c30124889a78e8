SPECIFICATION FairSpec
CONSTANTS
    Devices = {d1}
    NoDevice = none
    Callers = {c1}
    EndType = "SINK"
    Protocol = "MIRROR"
    LinkNotifies = FALSE
    MaxQueue = 2
    MaxTimers = 1
    MaxChannels = 1
INVARIANTS
    EngagedHasEngine
PROPERTIES
    ConnectingEnds
    TransferReturns
    

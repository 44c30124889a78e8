SPECIFICATION Spec
CONSTANTS
    Devices = {d1}
    NoDevice = none
    Callers = {c1, c2}
    EndType = "SOURCE"
    Protocol = "STREAM"
    LinkNotifies = TRUE
    MaxQueue = 2
    MaxTimers = 1
    MaxChannels = 1
SYMMETRY AnyCaller
INVARIANTS
    DeferredAwaitsTransfer
    DisconnectedDevicesAgree
PROPERTIES
    LivesAsPromised

SPECIFICATION Spec
CONSTANTS
    Pulse = 2
    MaxStall = 1
    Wrap = 8
    DepthMax = 2
    PreemptAt <- Nowhere
PROPERTY GuardReleased

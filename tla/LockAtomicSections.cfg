SPECIFICATION Spec
CONSTANTS
    Pulse = 2
    MaxStall = 1
    Wrap = 8
    DepthMax = 2
    PreemptAt <- AtomicSections
INVARIANT SolenoidInHand
PROPERTY PulseRunsFull
PROPERTY PulseEnds
PROPERTY LockoutSticky
PROPERTY PolicySpec

SPECIFICATION Spec
CONSTANTS
    Count = 2
    Timeout <- MCTimeout
    Reported <- Nothing
    Linked <- MqttLinked
    Ota = 1
    Recovers <- MqttRecovers
    WarnInterval = 1
    RebootAfter = 2
    TaskTimeout = 5
    MaxStall = 1
    MaxStray = 1
    DepthMax = 4
    PreemptAt <- BeforeBlame
INVARIANT GuardExact
INVARIANT DoomedUnguarded
INVARIANT HealthyNotBitten
INVARIANT BusySpared
PROPERTY Escalates

SPECIFICATION Spec
CONSTANTS
    Count = 2
    Timeout <- MCTimeout
    Reported <- Nothing
    Linked <- MqttLinked
    Ota = 1
    Recovers <- MqttRecovers
    WarnInterval = 1
    RebootAfter = 2
    TaskTimeout = 3
    MaxStall = 1
    MaxStray = 0
    DepthMax = 4
    PreemptAt <- Nothing
INVARIANT RestartEarned

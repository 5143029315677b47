SPECIFICATION Spec
CONSTANTS
    Versions = {v1}
    Junk = junk
    None = none
    Chunks = 1
    ReadTimeout = 0
    MaxFaults = 1
    MaxReleases = 0
    MaxEnrolments = 0
    MaxPeople = 0
    HistoryLength = 1
    Interval = 0
    SlowInterval = 0
    QuietWindow = 0
    Channels = {c1}
    Images = {i1, i2}
    Cadences = {1, 2}
    BindRetry = 1
    ErrorBase = 1
    ErrorCap = 2
    QuietCap = 6
    FullEvery = 12
    MaxStreak = 3
    MaxChanges = 1
    Networks = {n1}
    MaxProfiles = 1
    ConnectTime = 1
    ProbeTime = 1
    BiteTime = 1
    Debounce = 1
    TickStall = 1
    SolenoidPulse = 0
INVARIANT UnchangedIsShown

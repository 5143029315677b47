SPECIFICATION Spec
CONSTANTS
    Versions = {v1, v2, v3}
    Junk = junk
    None = none
    Chunks = 1
    ReadTimeout = 1
    MaxFaults = 2
    MaxReleases = 2
    MaxEnrolments = 2
    MaxPeople = 1
    HistoryLength = 2
    Interval = 1
    SlowInterval = 1
    QuietWindow = 0
    Channels = {c1, c2}
    Images = {i1, i2}
    Cadences = {1, 2}
    BindRetry = 1
    ErrorBase = 1
    ErrorCap = 2
    QuietCap = 2
    FullEvery = 4
    MaxStreak = 1
    MaxChanges = 2
    Networks = {n1, n2}
    MaxProfiles = 2
    ConnectTime = 2
    ProbeTime = 1
    BiteTime = 3
    Debounce = 3
    TickStall = 2
    SolenoidPulse = 2
INVARIANT TypeOK
INVARIANT SlotsSound
INVARIANT VersionsTrue
INVARIANT IdentityWhole
INVARIANT NothingResurfaces
INVARIANT NothingLost
INVARIANT RelayRemembered
PROPERTY UpdateIsAtomic
PROPERTY DownloadEnds
PROPERTY Settles
INVARIANT ShownUnlessMissed
PROPERTY ErasedReenrols
PROPERTY Shown
PROPERTY CommitsJoined
PROPERTY Rejoins
PROPERTY Steady
PROPERTY Relatches
CHECK_DEADLOCK FALSE

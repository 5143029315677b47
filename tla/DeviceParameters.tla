-------------------------- MODULE DeviceParameters --------------------------
(***************************************************************************)
(* The parameters of the components that Device composes.                  *)
(***************************************************************************)
EXTENDS Integers

(* Both builds' firmware update: Ota.                                      *)
CONSTANTS
    Versions,     \* the firmware versions OMS releases
    Junk, None,   \* no image; no version, no ETag
    Chunks,       \* reads that deliver a whole image
    ReadTimeout,  \* 20 s in empty reads, of the Arduino build
    MaxReleases   \* bound: how often OMS replaces the retained dispatch

(* Both builds' identity: Provisioning.                                    *)
CONSTANTS
    MaxEnrolments, \* bound: enrolments OMS answers
    MaxFaults      \* bound: resets and failed calls, of Ota too

(* The people counter of the Arduino camera builds: PeopleCounter.         *)
CONSTANTS
    MaxPeople,     \* counts[] has room for 0..MaxPeople: 5
    HistoryLength, \* detectionHistory: 5
    Interval,      \* DETECTION_INTERVAL_MS in units of the model's clock
    SlowInterval,  \* LOW_MQTT_DETECTION_INTERVAL_MS
    QuietWindow    \* PHOTO_QUIET_WINDOW_MS

(* The relays of the Arduino power build: PowerRelay.                      *)
CONSTANT
    Channels

(* The e-paper display: EPaper.  The intervals are in units of the model.  *)
CONSTANTS
    Images,     \* what OMS may render for the display
    Cadences,   \* the values of wake_min OMS sets: 5 at least, 60 at first
    BindRetry,  \* kSetupRetryWakeIntervalMin: 5
    ErrorBase,  \* kErrorBaseWakeIntervalMin: 15
    ErrorCap,   \* kMaxErrorWakeIntervalMin: 240
    QuietCap,   \* kMaxQuiet- and kRetiredWakeIntervalMin: 720
    FullEvery,  \* kFullRefreshIntervalMin: 1440
    MaxStreak,  \* the counters stop here: no interval doubles as often
    MaxChanges  \* bound: what OMS does to the display

(* Both builds' search for a network: Wifi.  Times are in units of the     *)
(* model's clock, 10 s in MCDevice.                                        *)
CONSTANTS
    Networks,    \* networks around the device
    MaxProfiles, \* kMaxStoredProfiles: 5
    ConnectTime, \* kConnectTimeoutMs: 20 s
    ProbeTime,   \* reachabilityTimeoutMs: 5 s
    BiteTime     \* kTaskWatchdogTimeoutMs: 30 s

(* The lock's sensors, and the lock of the Arduino build: LockDevice.      *)
CONSTANTS
    Debounce,      \* FORGEKEY_LOCK_*_DEBOUNCE_MS in units of the model
    TickStall,     \* the longest time between two ticks
    SolenoidPulse  \* FORGEKEY_LOCK_SOLENOID_PULSE_MS

ASSUME VersionsAssumption == Junk \notin Versions /\ None \notin Versions
ASSUME DownloadAssumption == Chunks \in Nat \ {0} /\ ReadTimeout \in Nat
ASSUME BoundsAssumption ==
    MaxReleases \in Nat /\ MaxEnrolments \in Nat /\ MaxFaults \in Nat
ASSUME CounterAssumption == MaxPeople \in Nat /\ HistoryLength \in Nat \ {0}
ASSUME ClockAssumption ==
    /\ Interval \in Nat /\ SlowInterval \in Nat /\ QuietWindow \in Nat
    /\ Interval <= SlowInterval
ASSUME ChannelsAssumption == Channels # {}
ASSUME NetworksAssumption ==
    /\ None \notin Networks /\ MaxProfiles \in Nat \ {0}
    /\ {ConnectTime, ProbeTime, BiteTime} \subseteq Nat \ {0}
ASSUME SensorsAssumption ==
    Debounce \in Nat \ {0} /\ TickStall \in Nat \ {0} /\ SolenoidPulse \in Nat
ASSUME PanelAssumption ==
    /\ Images # {} /\ None \notin Images
    /\ Cadences # {} /\ Cadences \subseteq Nat \ {0}
    /\ {BindRetry, ErrorBase} \subseteq Nat \ {0}
    /\ {ErrorCap, QuietCap, FullEvery, MaxStreak, MaxChanges} \subseteq Nat \ {0}
    /\ \A base \in Cadences : base * 2^MaxStreak >= QuietCap
    /\ ErrorBase * 2^MaxStreak >= ErrorCap

=============================================================================

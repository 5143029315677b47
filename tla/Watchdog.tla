------------------------------ MODULE Watchdog ------------------------------
(***************************************************************************)
(* The subsystem watchdog: health timers, local recovery, the restart of   *)
(* last resort and the safe guards that defer it, over the ESP task        *)
(* watchdog (esp32c6-lock/main/watchdog_manager.c and                      *)
(* src/watchdog/watchdog_manager.cpp, the same statements twice).          *)
(*                                                                         *)
(* The main task's loop marks subsystems healthy and runs the tick.  On    *)
(* the C6 the esp-mqtt task, of a higher priority, handles the firmware    *)
(* dispatch and starts solenoid pulses: it marks, suspends and resumes     *)
(* between any two statements of main.  In the Arduino build everything    *)
(* runs in one loop: that is PreemptAt = {}.                               *)
(***************************************************************************)
EXTENDS Integers, FiniteSets

CONSTANTS
    Count,        \* the enabled subsystems are 0..Count - 1
    Timeout,      \* of each, timeout_ms in units of the model's clock
    Reported,     \* those the main loop marks healthy in every iteration
    Linked,       \* those the tick marks healthy while their link is up
    Ota,          \* the one the firmware dispatch marks
    Recovers,     \* what the recovery callback may return, for each
    WarnInterval, \* WARNING_INTERVAL_MS
    RebootAfter,  \* REBOOT_AFTER_MS
    TaskTimeout,  \* TASK_WDT_TIMEOUT_MS
    MaxStall,     \* longest time between two ticks, and within one
    MaxStray,     \* so many ticks in a row may stray: see strays
    DepthMax,     \* the suspend depth saturates here: 255 in the code
    PreemptAt     \* where in main's code the other task may run

Subsystems == 0..(Count - 1)
Points == {"store", "mark", "link", "check", "warn", "escalate", "doomed"}
Guards == {"ota", "nvs", "pulse", "save"}

ASSUME CountAssumption   == Count \in Nat \ {0}
ASSUME TimeoutAssumption == Timeout \in [Subsystems -> Nat]
ASSUME KindsAssumption   ==
    /\ Reported \subseteq Subsystems /\ Linked \subseteq Subsystems
    /\ Ota \in Subsystems
    /\ Recovers \in [Subsystems -> SUBSET BOOLEAN]
ASSUME TimesAssumption   ==
    /\ WarnInterval \in Nat /\ RebootAfter \in Nat /\ MaxStall \in Nat
    /\ MaxStray \in Nat
    /\ TaskTimeout \in Nat /\ TaskTimeout > 2 * MaxStall * (MaxStray + 1)
ASSUME DepthAssumption   == DepthMax \in Nat /\ DepthMax >= Cardinality(Guards)
ASSUME PreemptAssumption == PreemptAt \subseteq Points

VARIABLES
    up,         \* the time since boot
    age,        \* the time since last_healthy_ms, of each subsystem
    since,      \* the time since first_overdue_ms, Never while that is 0
    warned,     \* the time since last_warning_ms, Never while that is 0
    busy,       \* the subsystems marked busy
    depth,      \* s_suspend_depth
    holders,    \* the critical sections being executed
    fed,        \* the time since main last fed the task watchdog
    pc,         \* main's next statement; "loop" is outside the watchdog
    i,          \* the tick's loop variable
    unsafe,     \* any_unsafe_overdue
    lag,        \* the time since `now` was read, in a tick, or since the last
    loaded,     \* the suspend depth main has loaded, to store it changed
    section,    \* the critical section main is entering or leaving
    late,       \* history: a subsystem exceeded its timeout since boot
    strays,     \* history: the ticks in a row, while not late, whose first
                \* overdue subsystem was one marked after they read `now`
    overlapped  \* history: since boot, an unlock met a running pulse

timers == <<age, since, warned>>
guard  == <<depth, holders>>
tick   == <<pc, i, unsafe>>
rmw    == <<loaded, section>>
history == <<late, strays, overlapped>>
vars   == <<up, timers, busy, guard, fed, tick, lag, rmw, history>>

Never == -1
AgeMax(s) == Timeout[s] + 1 + MaxStall
OverdueMax == RebootAfter + MaxStall
WarnedMax == WarnInterval + MaxStall

TypeOK ==
    /\ up \in 0..OverdueMax
    /\ age \in [Subsystems -> Nat] /\ \A s \in Subsystems : age[s] <= AgeMax(s)
    /\ since \in [Subsystems -> {Never} \cup 0..OverdueMax]
    /\ warned \in [Subsystems -> {Never} \cup 0..WarnedMax]
    /\ busy \subseteq {Ota}
    /\ depth \in 0..DepthMax
    /\ holders \subseteq Guards
    /\ fed \in 0..TaskTimeout
    /\ pc \in Points \cup {"loop"}
    /\ i \in 0..Count
    /\ unsafe \in BOOLEAN
    /\ lag \in 0..MaxStall
    /\ loaded \in 0..DepthMax
    /\ section \in {"none", "save", "saved", "pulsed"}
    /\ late \in BOOLEAN /\ overlapped \in BOOLEAN
    /\ strays \in 0..(MaxStray + 1)

Init ==
    /\ up = 0
    /\ age = [s \in Subsystems |-> 0]
    /\ since = [s \in Subsystems |-> Never]
    /\ warned = [s \in Subsystems |-> Never]
    /\ busy = {} /\ depth = 0 /\ holders = {}
    /\ fed = 0
    /\ pc = "loop" /\ i = 0 /\ unsafe = FALSE
    /\ lag = 0 /\ loaded = 0 /\ section = "none"
    /\ late = FALSE /\ strays = 0 /\ overlapped = FALSE

----------------------------------------------------------------------------
(* Operators marked "fault" are plausible slips of the definition after    *)
(* them; only the mutation runs use them.                                  *)

(* forgekey_watchdog_mark_healthy, of every subsystem in S.                *)
MarkHealthy(S) ==
    /\ age' = [s \in Subsystems |-> IF s \in S THEN 0 ELSE age[s]]
    /\ since' = [s \in Subsystems |-> IF s \in S THEN Never ELSE since[s]]

(* The depth after forgekey_watchdog_suspend and _resume.                  *)
SuspendedNever(d) == d \* fault: the guard is not taken
Suspended(d) == IF d < DepthMax THEN d + 1 ELSE d

Resumed(d) == IF d > 0 THEN d - 1 ELSE 0

(* What the last resume refreshes: the timers of busy subsystems.          *)
Refresh(d) == age' = [s \in Subsystems |-> IF d = 0 /\ s \in busy THEN 0 ELSE age[s]]

(* Time passes.                                                            *)
Older(x, max) == IF x = Never \/ x >= max THEN x ELSE x + 1

Advance ==
    /\ lag < MaxStall
    /\ lag' = lag + 1
    /\ up' = Older(up, OverdueMax)
    /\ age' = [s \in Subsystems |-> Older(age[s], AgeMax(s))]
    /\ since' = [s \in Subsystems |-> Older(since[s], OverdueMax)]
    /\ warned' = [s \in Subsystems |-> Older(warned[s], WarnedMax)]
    /\ fed' = Older(fed, TaskTimeout)
    /\ late' = (late \/ \E s \in Subsystems \ busy : age'[s] > Timeout[s])
    /\ strays' = IF late' THEN 0 ELSE strays
    /\ UNCHANGED <<busy, guard, tick, rmw, overlapped>>

----------------------------------------------------------------------------
(* The main task: critical sections of its own.  It enters and leaves the  *)
(* saving of the outbox, during which it does nothing else, and leaves the *)
(* pulse that the tick of the lock switches off; s_suspend_depth++ and --  *)
(* are a load and a store.                                                 *)

LoadDepth(what) ==
    /\ pc = "loop"
    /\ \/ what = "save"   /\ "save" \notin holders /\ UNCHANGED holders
       \/ what = "saved"  /\ "save" \in holders  /\ holders' = holders \ {"save"}
       \/ /\ what = "pulsed" /\ "save" \notin holders
          /\ "pulse" \in holders /\ holders' = holders \ {"pulse"}
    /\ pc' = "store"
    /\ loaded' = depth
    /\ section' = what
    /\ UNCHANGED <<up, timers, busy, depth, fed, i, unsafe, lag, history>>

StoreDepth ==
    /\ pc = "store"
    /\ pc' = "loop"
    /\ IF section = "save"
       THEN /\ depth' = Suspended(loaded)
            /\ holders' = holders \cup {"save"}
            /\ fed' = 0
            /\ UNCHANGED age
       ELSE /\ depth' = Resumed(loaded)
            /\ UNCHANGED holders
            /\ fed' = IF Resumed(loaded) = 0 THEN 0 ELSE fed
            /\ Refresh(Resumed(loaded))
    /\ loaded' = 0 /\ section' = "none"
    /\ UNCHANGED <<up, since, warned, busy, i, unsafe, lag, history>>

----------------------------------------------------------------------------
(* The main task: forgekey_watchdog_tick.                                  *)

(* An iteration of the main loop has marked what it serves.                *)
MarkLoop ==
    /\ pc = "loop" /\ "save" \notin holders
    /\ pc' = "mark"
    /\ MarkHealthy(Reported)
    /\ UNCHANGED <<up, warned, busy, guard, fed, i, unsafe, lag, rmw, history>>

(* The tick reads `now`, and only then marks; the marks read the clock.    *)
BeginTick ==
    /\ pc = "mark"
    /\ pc' = "link"
    /\ i' = 0 /\ unsafe' = FALSE
    /\ lag' = 0
    /\ UNCHANGED <<up, timers, busy, guard, fed, rmw, history>>

(* The links may be up or down in any tick.                                *)
MarkLinked ==
    /\ pc = "link"
    /\ pc' = "check"
    /\ \E connected \in SUBSET Linked : MarkHealthy(connected)
    /\ UNCHANGED <<up, warned, busy, guard, fed, i, unsafe, lag, rmw, history>>

(* now - last_healthy_ms > timeout_ms: a subsystem marked healthy after    *)
(* `now` was read has an enormous age.                                     *)
Expired(s) == age[s] < lag \/ age[s] - lag > Timeout[s]

OverdueBusy(s) == Expired(s) \* fault: busy is not looked at
Overdue(s) == s \notin busy /\ Expired(s)

(* first_overdue_ms = now, unless it is set.                               *)
Again(s) == lag \* fault: set in every tick
First(s) == IF since[s] = Never THEN lag ELSE since[s]

Skip ==
    /\ pc = "check" /\ i < Count
    /\ ~Overdue(i)
    /\ i' = i + 1
    /\ UNCHANGED <<up, timers, busy, guard, fed, pc, unsafe, lag, rmw, history>>

FindOverdue ==
    /\ pc = "check" /\ i < Count
    /\ Overdue(i)
    /\ pc' = "warn"
    /\ since' = [since EXCEPT ![i] = First(i)]
    /\ unsafe' = TRUE
    /\ strays' = IF age[i] < lag /\ ~unsafe /\ ~late /\ strays <= MaxStray
                 THEN strays + 1 ELSE strays
    /\ UNCHANGED <<up, age, warned, busy, guard, fed, i, lag, rmw,
                   late, overlapped>>

(* The local recovery and a warning.  When that is not published at once,  *)
(* the outbox is saved, in a guard of its own, whose end feeds.            *)
WarningDue == warned[i] = Never \/ warned[i] - lag >= WarnInterval

Warn(recovered) ==
    /\ pc = "warn" /\ WarningDue
    /\ recovered => depth = 0
    /\ depth = 0 => recovered \in Recovers[i]
    /\ pc' = "escalate"
    /\ warned' = [warned EXCEPT ![i] = lag]
    /\ since' = [since EXCEPT ![i] = IF recovered THEN Never ELSE @]
    /\ \E saved \in BOOLEAN :
          /\ fed' = IF saved THEN 0 ELSE fed
          /\ age' = [s \in Subsystems |->
                        IF \/ recovered /\ s = i
                           \/ saved /\ depth = 0 /\ s \in busy
                        THEN 0 ELSE age[s]]
    /\ UNCHANGED <<up, busy, guard, i, unsafe, lag, rmw, history>>

NoWarning ==
    /\ pc = "warn" /\ ~WarningDue
    /\ pc' = "escalate"
    /\ UNCHANGED <<up, timers, busy, guard, fed, i, unsafe, lag, rmw, history>>

(* now - first_overdue_ms: the uptime, when that was reset meanwhile.      *)
OverdueFor(s) == (IF since[s] = Never THEN up ELSE since[s]) - lag

LastResortAnyway(s) == OverdueFor(s) >= RebootAfter \* fault: guards are ignored
LastResort(s) == depth = 0 /\ OverdueFor(s) >= RebootAfter

Escalate ==
    /\ pc = "escalate"
    /\ IF LastResort(i) THEN pc' = "doomed" /\ UNCHANGED i
                        ELSE pc' = "check" /\ i' = i + 1
    /\ UNCHANGED <<up, timers, busy, guard, fed, unsafe, lag, rmw, history>>

FeedsUnguarded == ~unsafe /\ depth = 0 \* fault: not fed under a guard
Feeds == ~unsafe \/ depth > 0

EndTick ==
    /\ pc = "check" /\ i = Count
    /\ pc' = "loop"
    /\ i' = 0 /\ unsafe' = FALSE
    /\ fed' = IF Feeds THEN 0 ELSE fed
    /\ strays' = IF Feeds THEN 0 ELSE strays
    /\ lag' = 0
    /\ UNCHANGED <<up, timers, busy, guard, rmw, late, overlapped>>

(* esp_restart 100 ms after the last warning, a bite of the task watchdog  *)
(* where its configuration makes it one, or a power loss at any point.     *)
Boot ==
    /\ up' = 0
    /\ age' = [s \in Subsystems |-> 0]
    /\ since' = [s \in Subsystems |-> Never]
    /\ warned' = [s \in Subsystems |-> Never]
    /\ busy' = {} /\ depth' = 0 /\ holders' = {}
    /\ fed' = 0
    /\ pc' = "loop" /\ i' = 0 /\ unsafe' = FALSE
    /\ lag' = 0 /\ loaded' = 0 /\ section' = "none"
    /\ late' = FALSE /\ strays' = 0 /\ overlapped' = FALSE

EspRestart == pc = "doomed" /\ Boot
Bite       == fed >= TaskTimeout /\ Boot
PowerLoss  == Boot

Main ==
    \/ \E what \in {"save", "saved", "pulsed"} : LoadDepth(what)
    \/ StoreDepth \/ MarkLoop \/ BeginTick \/ MarkLinked \/ Skip \/ FindOverdue
    \/ \E recovered \in BOOLEAN : Warn(recovered)
    \/ NoWarning \/ Escalate \/ EndTick \/ EspRestart

----------------------------------------------------------------------------
(* The MQTT task.  Its resets of the task watchdog do not feed main.       *)

MayRun == pc = "loop" \/ pc \in PreemptAt

Enter(g) ==
    /\ holders' = holders \cup {g}
    /\ depth' = Suspended(depth)
    /\ overlapped' = (overlapped \/ g \in holders)
    /\ UNCHANGED <<up, timers, busy, fed, tick, lag, rmw, late, strays>>

Leave(g) ==
    /\ holders' = holders \ {g}
    /\ depth' = Resumed(depth)
    /\ Refresh(Resumed(depth))
    /\ UNCHANGED <<up, since, warned, busy, fed, tick, lag, rmw, history>>

MarkBusy(b) ==
    /\ busy' = b
    /\ MarkHealthy({Ota})
    /\ UNCHANGED <<up, warned, guard, fed, tick, lag, rmw, history>>

(* The task has one handler running at a time: no other begins while it    *)
(* writes to NVS, and no command is handled during a firmware dispatch.    *)
Free == MayRun /\ "nvs" \notin holders

OtaBegin    == Free /\ Ota \notin busy /\ MarkBusy({Ota})
OtaEnd      == Free /\ Ota \in busy /\ "ota" \notin holders /\ MarkBusy({})
OtaSuspend  == Free /\ Ota \in busy /\ "ota" \notin holders /\ Enter("ota")
OtaProgress == Free /\ "ota" \in holders /\ MarkBusy(busy)
OtaResume   == Free /\ "ota" \in holders /\ Leave("ota")

(* A write to NVS: the previous version, or a queue or credential saved.   *)
NvsSuspend == Free /\ Enter("nvs")
NvsResume  == MayRun /\ "nvs" \in holders /\ Leave("nvs")

(* An unlock starts the pulse, or starts it again while it is running: it   *)
(* suspends in either case.  A lockout ends a running pulse.               *)
PulseSuspend == Free /\ Ota \notin busy /\ Enter("pulse")
PulseResume  == Free /\ Ota \notin busy /\ "pulse" \in holders /\ Leave("pulse")

Handler ==
    \/ OtaBegin \/ OtaSuspend \/ OtaProgress \/ OtaResume \/ OtaEnd
    \/ NvsSuspend \/ NvsResume \/ PulseSuspend \/ PulseResume

Next == Advance \/ Main \/ Handler \/ Bite \/ PowerLoss

(* The main loop is not blocked for ever and the clock runs.               *)
Fairness == WF_vars(Main) /\ WF_vars(Advance)

Spec == Init /\ [][Next]_vars /\ Fairness

----------------------------------------------------------------------------
(* The depth that is due to the critical sections being executed, and to   *)
(* one main has left whose resume it has yet to store.                     *)
Owed == IF pc = "store" /\ section \in {"saved", "pulsed"} THEN 1 ELSE 0
Due  == Cardinality(holders) + Owed

(* Whatever the two tasks interleave, no critical section being executed   *)
(* loses its guard, and none leaves a guard behind, except where an unlock *)
(* met a running pulse: two suspends, one resume (LockGuardLeak shows it). *)
(* Needs "store" atomic with the load.                                     *)
GuardExact == depth = Due \/ (overlapped /\ depth > Due)

(* The watchdog does not restart the device during a critical section,     *)
(* although one may begin while it checks, warns and escalates.  Needs     *)
(* "doomed" atomic with "escalate", and GuardExact.                        *)
DoomedUnguarded == pc = "doomed" => holders = {}

(* Nor on account of a subsystem that is busy, although it may have become *)
(* so during the tick.  Needs "warn", "escalate" and "doomed" atomic.      *)
BusySpared == pc = "doomed" => i \notin busy

(* A device none of whose subsystems exceeded its timeout since boot is    *)
(* not reset by the task watchdog, guarded or not, as long as its loop     *)
(* stalls at most MaxStall and no more than MaxStray ticks in a row find   *)
(* one overdue that was marked after they read `now`.                      *)
HealthyNotBitten == ~late /\ strays <= MaxStray => fed < TaskTimeout

(* A subsystem that stays unhealthy, neither busy nor guarded, is at last  *)
(* recovered or the device is restarted, unless an overlapping unlock left *)
(* a guard behind.                                                         *)
Escalates ==
    \A s \in Subsystems :
        []<>(age[s] <= Timeout[s] \/ s \in busy \/ holders # {} \/ overlapped)

----------------------------------------------------------------------------
(* What the documents say and the code does not do.                        *)

(* FORGEKEY_DEVICE.md: only if a subsystem remains unhealthy after         *)
(* repeated warnings is the device restarted, a transient stall recovers   *)
(* without.  So whoever is blamed has been overdue for RebootAfter.        *)
RestartEarned == pc = "doomed" => since[i] >= RebootAfter
=============================================================================

----------------------------- MODULE LockState -----------------------------
(***************************************************************************)
(* The cabinet lock's state machine and solenoid pulse, as two FreeRTOS    *)
(* tasks of the single-core ESP32-C6 execute them                          *)
(* (esp32c6-lock/main/lock_state.c, with the event sampling of main.c).    *)
(*                                                                         *)
(* The main task (priority 1) runs lock_state_tick every 10 ms and then    *)
(* compares a telemetry sample with the previous one.  The esp-mqtt task   *)
(* (priority 5) runs the command handlers.  No lock is taken anywhere, so  *)
(* a handler may run whole between any two statements of the tick, never   *)
(* the reverse: each command is one action, and the tick is one action per *)
(* access to what the two tasks share.                                     *)
(***************************************************************************)
EXTENDS Integers

CONSTANTS
    Pulse,      \* FORGEKEY_LOCK_SOLENOID_PULSE_MS, in units of the model's clock
    MaxStall,   \* longest preemption between reading `now` and using it
    Wrap,       \* uint32_t: 2^32 in the code
    DepthMax,   \* the watchdog's suspend depth saturates here: 255 in the code
    PreemptAt   \* where in the tick a command may run: Points in the code

(* The statements of the tick, each named for what it is about to do.      *)
Points == {"pulse", "dropPin", "dropFlag", "resume", "switch",
           "storeState", "storeTrigger", "events"}

ASSUME PulseAssumption    == Pulse \in Nat \ {0}
ASSUME MaxStallAssumption == MaxStall \in Nat
ASSUME WrapAssumption     == Wrap \in Nat /\ Wrap > Pulse + MaxStall
ASSUME DepthMaxAssumption == DepthMax \in Nat \ {0, 1}
ASSUME PreemptAssumption  == PreemptAt \subseteq Points

States == {"INITIALIZING", "SECURE", "UNLOCKED", "ACCESSING", "ALARM",
           "LOCKOUT", "COMMISSIONING"}
Triggers == {"NONE", "SIGNED_COMMAND", "MORTISE", "DOOR_CLOSE",
             "ALARM_TIMEOUT", "LOCKOUT", "CLEAR_LOCKOUT", "COMMISSION",
             "INIT_ACK", "EMERGENCY_UNLOCK"}

VARIABLES
    state,      \* g_state
    trigger,    \* g_last_trigger
    reed,       \* g_reed_closed, debounced
    latch,      \* g_latch_locked, debounced
    mortise,    \* g_mortise_active, debounced
    pin,        \* the level of the solenoid's GPIO
    active,     \* g_solenoid_active
    depth,      \* s_suspend_depth of the watchdog manager
    age,        \* clock - g_solenoid_start_ms, saturating
    lag,        \* clock - now, `now` being the tick's local
    pc,         \* the main task's next statement; "delay" is vTaskDelay
    pending,    \* the assignment the tick's switch has chosen
    sampled,    \* prev_event_tel.tamper_active, "none" before the first sample
    told        \* the last "tamper" event handed to MQTT

solenoid == <<pin, active, depth, age>>
door     == <<reed, latch, mortise>>
events   == <<sampled, told>>
vars     == <<state, trigger, door, solenoid, lag, pc, pending, events>>

Idle == [state |-> "INITIALIZING", trigger |-> "NONE"]

FlagsOK ==
    /\ reed \in BOOLEAN
    /\ latch \in BOOLEAN
    /\ mortise \in BOOLEAN
    /\ pin \in BOOLEAN
    /\ active \in BOOLEAN
    /\ told \in BOOLEAN

(* Every variable has its type: in particular the watchdog's suspend depth *)
(* stays within its uint8_t, whatever resumes the two tasks repeat.        *)
TypeOK ==
    /\ FlagsOK
    /\ state \in States
    /\ trigger \in Triggers
    /\ depth \in 0..DepthMax
    /\ age \in 0..(Pulse + MaxStall)
    /\ lag \in 0..MaxStall
    /\ pc \in Points \cup {"delay"}
    /\ pending \in [state : States, trigger : Triggers]
    /\ sampled \in {"none", "clear", "tamper"}

Init ==
    /\ state = "INITIALIZING"
    /\ trigger = "NONE"
    /\ reed = FALSE /\ latch = FALSE /\ mortise = FALSE
    /\ pin = FALSE /\ active = FALSE
    /\ depth = 0
    /\ age = 0 /\ lag = 0
    /\ pc = "delay"
    /\ pending = Idle
    /\ sampled = "none" /\ told = FALSE

----------------------------------------------------------------------------
(* Operators marked "fault" are plausible slips of the definition after    *)
(* them; only the mutation runs use them.                                  *)

(* forgekey_watchdog_suspend and forgekey_watchdog_resume.                 *)
SuspendedNever(d) == d \* fault: the guard is not taken
Suspended(d) == IF d < DepthMax THEN d + 1 ELSE d

Resumed(d) == IF d > 0 THEN d - 1 ELSE 0

(* gpio_set_level(FORGEKEY_LOCK_SOLENOID_PIN, 0).                          *)
LowInverted == TRUE \* fault: an active-low driver
Low == FALSE

(* A command other than the two lockout commands and emergency_unlock is   *)
(* rejected under lockout.                                                 *)
AcceptedAlways == TRUE \* fault: the test is dropped
Accepted == state # "LOCKOUT"

Secure == reed /\ latch

(* now - g_solenoid_start_ms in uint32_t: a pulse started after `now` was  *)
(* read has an enormous age.                                               *)
Elapsed == IF age >= lag THEN age - lag ELSE Wrap + age - lag

(* Time passes.  `now` is used for the last time at the pulse check.       *)
Advance ==
    /\ age' = IF age < Pulse + MaxStall THEN age + 1 ELSE age
    /\ IF pc = "pulse" THEN lag < MaxStall /\ lag' = lag + 1 ELSE UNCHANGED lag
    /\ UNCHANGED <<state, trigger, door, pin, active, depth, pc, pending, events>>

----------------------------------------------------------------------------
(* The main task.                                                          *)

(* `now` is read and the debounced sensors take any values.                *)
BeginTick ==
    /\ pc = "delay"
    /\ pc' = "pulse"
    /\ reed' \in BOOLEAN /\ latch' \in BOOLEAN /\ mortise' \in BOOLEAN
    /\ UNCHANGED <<state, trigger, solenoid, lag, pending, events>>

PulseExpiredEarly == active /\ Elapsed + 1 >= Pulse \* fault: off by one
PulseExpired == active /\ Elapsed >= Pulse

CheckPulse ==
    /\ pc = "pulse"
    /\ pc' = IF PulseExpired THEN "dropPin" ELSE "switch"
    /\ lag' = 0
    /\ UNCHANGED <<state, trigger, door, solenoid, pending, events>>

DropPin ==
    /\ pc = "dropPin"
    /\ pc' = "dropFlag"
    /\ pin' = Low
    /\ UNCHANGED <<state, trigger, door, active, depth, age, lag, pending, events>>

DropFlag ==
    /\ pc = "dropFlag"
    /\ pc' = "resume"
    /\ active' = FALSE
    /\ UNCHANGED <<state, trigger, door, pin, depth, age, lag, pending, events>>

ResumeAfterPulse ==
    /\ pc = "resume"
    /\ pc' = "switch"
    /\ depth' = Resumed(depth)
    /\ UNCHANGED <<state, trigger, door, pin, active, age, lag, pending, events>>

(* The switch on g_state: one action per assignment it can choose.         *)
Choose(from, to, why) ==
    /\ pc = "switch"
    /\ state \in from
    /\ pc' = "storeState"
    /\ pending' = [state |-> to, trigger |-> why]
    /\ UNCHANGED <<state, trigger, door, solenoid, lag, events>>

ReleasedOnlyAccessing == {"ACCESSING"} \* fault: a state is forgotten
Released == {"UNLOCKED", "ACCESSING"}

DoorForcedByLatch == ~Secure /\ Choose({"SECURE"}, "ALARM", "ALARM_TIMEOUT") \* fault
DoorForced    == ~reed /\ Choose({"SECURE"}, "ALARM", "ALARM_TIMEOUT")
LatchReleased == reed /\ ~latch /\ Choose({"SECURE"}, "UNLOCKED", "SIGNED_COMMAND")
DoorSecured   == Secure /\ Choose(Released, "SECURE", "DOOR_CLOSE")
MortiseTurned == ~Secure /\ mortise /\ Choose(Released, "ALARM", "MORTISE")
AlarmCleared  == Secure /\ Choose({"ALARM"}, "SECURE", "ALARM_TIMEOUT")

NoChange ==
    /\ pc = "switch"
    /\ CASE state = "SECURE"   -> Secure
         [] state \in Released  -> ~Secure /\ ~mortise
         [] state = "ALARM"    -> ~Secure
         [] OTHER               -> TRUE
    /\ pc' = "events"
    /\ UNCHANGED <<state, trigger, door, solenoid, lag, pending, events>>

StoreState ==
    /\ pc = "storeState"
    /\ pc' = "storeTrigger"
    /\ state' = pending.state
    /\ UNCHANGED <<trigger, door, solenoid, lag, pending, events>>

StoreTrigger ==
    /\ pc = "storeTrigger"
    /\ pc' = "events"
    /\ trigger' = pending.trigger
    /\ pending' = Idle
    /\ UNCHANGED <<state, door, solenoid, lag, events>>

(* main.c compares the sample with the previous one.  The first sample is  *)
(* only recorded.                                                          *)
SampleInverted == IF state = "ALARM" THEN "clear" ELSE "tamper" \* fault
Sample == IF state = "ALARM" THEN "tamper" ELSE "clear"

SampleEvents ==
    /\ pc = "events"
    /\ pc' = "delay"
    /\ sampled' = Sample
    /\ told' = IF sampled \in {"none", Sample} THEN told ELSE Sample = "tamper"
    /\ UNCHANGED <<state, trigger, door, solenoid, lag, pending>>

MainStep ==
    \/ BeginTick \/ CheckPulse \/ DropPin \/ DropFlag \/ ResumeAfterPulse
    \/ DoorForced \/ LatchReleased \/ DoorSecured \/ MortiseTurned
    \/ AlarmCleared \/ NoChange \/ StoreState \/ StoreTrigger \/ SampleEvents

----------------------------------------------------------------------------
(* The MQTT task: commands that passed validation.                         *)

MayRun == pc = "delay" \/ pc \in PreemptAt

Enter(s, why) == state' = s /\ trigger' = why

(* g_solenoid_start_ms, g_solenoid_active, suspend and the GPIO.           *)
StartPulse ==
    /\ age' = 0
    /\ active' = TRUE
    /\ depth' = Suspended(depth)
    /\ pin' = TRUE

Unlock ==
    /\ MayRun
    /\ Accepted
    /\ StartPulse
    /\ Enter("UNLOCKED", "SIGNED_COMMAND")
    /\ UNCHANGED <<door, lag, pc, pending, events>>

EmergencyUnlock ==
    /\ MayRun
    /\ StartPulse
    /\ Enter("UNLOCKED", "EMERGENCY_UNLOCK")
    /\ UNCHANGED <<door, lag, pc, pending, events>>

DisarmedLater == active \* fault: the flag is left to the tick
Disarmed == FALSE

SetLockout ==
    /\ MayRun
    /\ active' = Disarmed
    /\ pin' = IF active THEN Low ELSE pin
    /\ depth' = IF active THEN Resumed(depth) ELSE depth
    /\ Enter("LOCKOUT", "LOCKOUT")
    /\ UNCHANGED <<door, age, lag, pc, pending, events>>

ClearLockout ==
    /\ MayRun
    /\ Enter(IF Secure THEN "SECURE" ELSE "ALARM", "CLEAR_LOCKOUT")
    /\ UNCHANGED <<door, solenoid, lag, pc, pending, events>>

StartCommissioning ==
    /\ MayRun
    /\ Accepted
    /\ Enter("COMMISSIONING", "COMMISSION")
    /\ UNCHANGED <<door, solenoid, lag, pc, pending, events>>

AckInitialization ==
    /\ MayRun
    /\ Accepted
    /\ Enter(IF Secure THEN "SECURE" ELSE "ALARM", "INIT_ACK")
    /\ UNCHANGED <<door, solenoid, lag, pc, pending, events>>

Command ==
    \/ Unlock \/ EmergencyUnlock \/ SetLockout
    \/ ClearLockout \/ StartCommissioning \/ AckInitialization

(* Power loss, esp_restart or a panic, at any statement: nothing of this   *)
(* state is persisted, and lock_state_gpio_init drives the solenoid low.   *)
Restart ==
    /\ state' = "INITIALIZING"
    /\ trigger' = "NONE"
    /\ reed' = FALSE /\ latch' = FALSE /\ mortise' = FALSE
    /\ pin' = FALSE /\ active' = FALSE
    /\ depth' = 0
    /\ age' = 0 /\ lag' = 0
    /\ pc' = "delay"
    /\ pending' = Idle
    /\ sampled' = "none" /\ told' = FALSE

Next == Advance \/ MainStep \/ Command \/ Restart

(* The main loop is never blocked for ever by the tasks modelled here, and *)
(* the clock runs.                                                         *)
Fairness == WF_vars(MainStep) /\ WF_vars(Advance)

Spec == Init /\ [][Next]_vars /\ Fairness

----------------------------------------------------------------------------
(* What the two tasks keep together.  A property holds for every choice of *)
(* PreemptAt unless its comment names the statements it needs atomic.      *)

(* A locked-out lock has no pulse armed: whatever the tick was doing when  *)
(* the lockout arrived, no later tick and no later unlock arms one.        *)
LockoutDisarms == state = "LOCKOUT" => ~active

(* The solenoid is energised only while a pulse is being timed, so that    *)
(* something will switch it off.  Needs "dropFlag" atomic with "dropPin".  *)
PinIsTimed == pin => active

(* The solenoid is never energised under lockout, although the pulse may   *)
(* have been expiring when the lockout was ordered.  As PinIsTimed.        *)
LockoutHoldsBolt == state = "LOCKOUT" => ~pin

(* The watchdog is suspended while the solenoid is energised, whatever     *)
(* mixture of overlapping unlocks, lockouts and expiring pulses led there. *)
(* Needs "dropPin" and "dropFlag" atomic.                                  *)
GuardHeld == pin => depth > 0

(* The solenoid is never on unattended: it is timed, guarded, and not under*)
(* lockout.  Each part fails along another sequence of the two tasks' steps*)
SolenoidInHand == PinIsTimed /\ LockoutHoldsBolt /\ GuardHeld

(* No release out of LOCKOUT except by emergency_unlock: not by an unlock  *)
(* command, and not by a pulse that the tick had already begun to end.     *)
ReleaseAuthorised ==
    [][~pin /\ pin' => \/ state # "LOCKOUT"
                       \/ trigger' = "EMERGENCY_UNLOCK"]_vars

(* A pulse that neither a lockout nor a restart cuts short lasts Pulse.    *)
(* Needs "pulse" and "dropPin" atomic.                                     *)
PulseRunsFull ==
    [][pin /\ ~pin' => \/ age >= Pulse
                       \/ state' = "LOCKOUT"
                       \/ state' = "INITIALIZING"]_vars

(* Unless unlocks keep arriving, the solenoid is switched off.  Needs      *)
(* "dropFlag" atomic with "dropPin".                                       *)
PulseEnds == <>[][~Unlock /\ ~EmergencyUnlock]_vars => []<>~pin

(* A cabinet that stays closed and latched is never stuck released or in   *)
(* alarm: the tick gets it back to SECURE even while commands interleave.  *)
Relocks == ~<>[](Secure /\ state \in {"UNLOCKED", "ALARM"})

(* An alarm that persists while the event sampling runs is reported.       *)
AlarmReported == (state = "ALARM" /\ sampled = "clear") ~> (told \/ state # "ALARM")

(* Lockout is left only by clear_lockout, emergency_unlock or a restart:   *)
(* lock_state.c:576.  Needs "storeState" atomic with "switch".             *)
LockoutSticky ==
    [][state = "LOCKOUT" /\ state' # "LOCKOUT" =>
          \/ trigger' \in {"CLEAR_LOCKOUT", "EMERGENCY_UNLOCK"}
          \/ state' = "INITIALIZING"]_vars

(* With the switch and its assignments atomic the two tasks implement the  *)
(* transition table of LockPolicy.                                         *)
Policy == INSTANCE LockPolicy WITH
    trigger <- IF pc = "storeTrigger" THEN pending.trigger ELSE trigger
PolicySpec == Policy!Spec

----------------------------------------------------------------------------
(* What the documents say and the code does not do.                        *)

(* FORGEKEY_DEVICE.md: once the critical section exits, normal timeout     *)
(* escalation resumes.  After the last release the suspend depth is 0.     *)
GuardReleased ==
    <>[][~Unlock /\ ~EmergencyUnlock]_vars => <>[](depth = 0)
============================================================================

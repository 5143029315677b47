# A TLA+ model of ForgeKey

ForgeKey is the firmware of a family of makerspace devices. The repository
holds two programs:

- `src/` — the Arduino build for ESP32 boards: one `loop()`, with pluggable
  capabilities (people counter, power relay, BLE, e-paper, badge reader, lock).
- `esp32c6-lock/` — the ESP-IDF build for the cabinet lock: a FreeRTOS main task
  (priority 1, one iteration every 10 ms) and the esp-mqtt client's task
  (priority 5) on a single core, sharing static variables and **no lock**.

Both are driven over MQTT by signed commands, keep what must survive a restart in
NVS, and are guarded by the same subsystem watchdog. Every definition below
translates the C and C++ sources; documents are quoted only where a run shows
that the code does otherwise.

## 1. Inventory

| Component | Sources | State | Operations | Interacts with | Correct when | Module |
|---|---|---|---|---|---|---|
| Lock state machine (C6) | `lock_state.c` | `g_state`, `g_last_trigger`, debounced sensors, `g_solenoid_active`, `g_solenoid_start_ms`, the pin | `lock_state_tick` (main); unlock, emergency_unlock, lockout, clear_lockout, commission, init_ack (esp-mqtt) | suspends the watchdog during a pulse; `main.c` samples it for events | the solenoid is never left on or on under lockout; lockout sticks; a closed cabinet gets back to SECURE; alarms are reported | `LockState`, `LockPolicy` |
| Sensors, and the Arduino lock | `lock_gpio_read` of `lock_state.c`, `lock/lock_device.cpp` | per sensor value and debounce time; state, pulse | tick, unlock | dispatch | a debounced value takes the debounce time to change; a shut cabinet gets back to SECURE | `LockDevice` |
| Command replay cache | `command_validation.c`, `security/command_validation.cpp` | ring of ids and nonces in RAM, one NVS string | validate, remember, load at boot | command dispatch, trusted time | no command runs twice in its window, across restarts too; an expired one not for ever | `CommandReplay` |
| Trusted time | `forgekey_time.c`, `time/time_sync.cpp` | last valid epoch and when | sync, is_valid, now | replay cache | valid only while recent | (in `CommandReplay`) |
| MQTT retry queue | `mqtt_handler.c`, `mqtt/mqtt_client.cpp` | `s_outbound_queue[8]`, count, backoffs, NVS copy of the critical entries | publish_queued, tick, persist, load, restart | all publishers; watchdog recovery restarts the client | accepted critical messages stay until sent; the NVS copy follows; no duplicates but from reloading | `Outbox` |
| MQTT session | the same, and the setup of `main.c`, `main.cpp` | topics, handlers, the connected flag; at the broker: the session, its subscriptions, the retained state and dispatch | begin, set topic and handler, connect, resubscribe, restart, lifecycle commands | everybody | the retained state is the truth; no subscription is missing; the dispatch is heard | `Session` |
| Subsystem watchdog | `watchdog_manager.c`, `.cpp` | per subsystem: last healthy, first overdue, last warning, busy; `s_suspend_depth` | mark_healthy, mark_busy, suspend, resume, tick, recovery, restart | everybody | no restart in a critical section or for a busy subsystem; a healthy device is fed; a dead subsystem is dealt with | `Watchdog` |
| Main loop and dispatch (C6, Arduino) | `main.c`, `main.cpp` | previous telemetry sample, timers | ticks, marks, event sampling, dispatch, lifecycle commands | all of the above | order of remember, execute, ack | in the modules of what they call |
| Firmware update | `ota_update.c`, `firmware_verify.c`, `ota/ota_updater.cpp` | two slots and the OTA data, `prev_ver` in NVS, the download | dispatch, download, verify, switch, restart, mark stable, roll back | watchdog guards; MQTT dispatch and status | only verified images boot; a proven one survives; "applied" is true; updates end | `Ota` |
| Provisioning, credentials, lifecycle | `provisioning.c`, `credential_rotation.c`, `register.cpp`, `device_lifecycle.cpp` | several NVS keys, the credentials in RAM | load, enrol, store, wipe, rotate | commands, photo upload | the identity in use is of one enrolment; an erased one stays erased | `Provisioning` |
| WiFi setup | `wifi_setup.c`, `captive.cpp` | stored profiles, the driver's own configuration, the portal | connect, portal, set_wifi with its probes and its restoration, forget | task watchdog, dispatch | a device with a sound profile gets back online | `Wifi` |
| Power relay | `power_relay.cpp` | contacts, `g_states`, the mask in NVS | on, off, toggle, restore | dispatch | reported and restored positions are those of the contacts | `PowerRelay` |
| People counter, camera, uploader | `people_counter.cpp`, `counting/`, `detection/`, `camera/`, `photo_upload/` | result and busy flag under a spinlock, history, count | inference task; tick: count, trigger, publish, photograph | MQTT, OMS | every result counts once; every change is told | `PeopleCounter` |
| E-paper display | `epaper_pm_capability.cpp` | ETag, counters and intervals in NVS; the panel's paint | wake: orders, card, sweep, fetch, paint, save, sleep | OMS | the panel comes to show what OMS has for it | `EPaper` |
| BLE | `capabilities/ble_*`, `ble_desired_state.cpp` | bounded tables, desired state | scan, relay, apply | MQTT, NVS | — | not modelled (section 5) |
| LEDs, badge reader, button, sensors, web pages, boards, power | the rest | small | polling, presentation | | — | not modelled |

**What is hard.** On the C6 a command handler may run whole between any two
statements of the main task: the lock tick, the watchdog tick, the queue code and
setup's subscriptions are all exposed to it; on the camera boards an inference
task shares a result with the loop. Restarts come at any statement — power,
`esp_restart` after a command, the watchdog — while NVS is written in several
calls that may fail, a relay's coil is driven, a slot is switched or a panel is
being painted. The broker redelivers, the client refuses or is offline, connections
are taken over, backoffs and time windows overlap. `PROJECT.json` lists 40 such
hazards at their lines, with the properties that watch each of them or the reason
why none does.

## 2. Modules

| Module | Models | State ↔ code |
|---|---|---|
| `LockPolicy` | The transition table of the lock, each transition atomic | `state` = `g_state`, `trigger` = `g_last_trigger`, the three debounced sensors |
| `LockState` | `lock_state.c` and the event sampling of `main.c` as two tasks | `pc` names the tick's next statement; `age` and `lag` are clock − `g_solenoid_start_ms` and clock − `now`; `depth` is the watchdog's; `sampled`/`told` the event sampling |
| `CommandReplay` | Acceptance, the ring, its NVS string in both encodings, dispatch, restarts | `slot`, `count`, `next` = `s_cache`, `s_count`, `s_next`; `nvs` is what the string decodes to; `stage` separates remembering (RAM), writing and executing |
| `Watchdog` | `watchdog_manager` and whoever marks, guards and recovers | `age`, `since`, `warned` are times since `last_healthy_ms`, `first_overdue_ms`, `last_warning_ms`; `depth`, `holders` the guards; `pc`, `i`, `unsafe` the tick, `lag` the time since its `now`: it is read at `BeginTick`, the link's marks follow at `MarkLinked`, and time may pass between; whether a link is up is chosen anew in each tick; `late`, `strays`, `overlapped` are history. `Free` and "save" keep each task to one thing at a time: no handler inside another's write, no tick while the outbox is saved |
| `Outbox` | The retry queue in both builds | `slot`, `due`, `count` = `s_outbound_queue`; `task` holds each task's place in the queue code and its locals |
| `Session` | The MQTT session in both builds, with the broker's end of it | `at` is setup's next statement, `callback` what is left of the CONNECTED handler or of `connect()`; `client` is `s_mqtt_connected`; `session`, `subs`, `state` are the broker's |
| `MqttClient` | `Outbox` and `Session` composed | |
| `Ota` | The update in both builds, with the bootloader and its slots | `step` is the next statement of the handler; `slot`, `st`, `boot` the flash; `prev` is `prev_ver` |
| `UpdatePolicy` | What an update promises, without its steps: two images, exchanged at restarts | `runs`, `spare` the images, `armed` the OTA data's selection, `standing` of the image that runs |
| `Provisioning` | The identity in both builds | `nvs`, `ram` map each key to the enrolment its value comes from; `phase`, `k` are the place in a pass over the keys |
| `PeopleCounter` | The tick and the inference task between their critical sections | `busy`, `ready`, `pending` = `g_inferenceBusy`, `g_resultReady`, `g_pendingResult`; `snap` is what the tick read |
| `PowerRelay` | The latching channels | `contacts` the hardware, `states` = `g_states`, `mask` the NVS value |
| `EPaper` | The wake cycle | `kept` = namespace `epaper`, `held` its globals, `cycle` the place in `tickFn` |
| `Wifi` | The search for a network in both builds | `stored` = the profiles, `conf` what the driver retries by itself, `todo` the profiles left, `unfed` the task watchdog |
| `LockDevice` | The debouncing of both locks; the whole Arduino lock | `sense` per sensor: value, clock, and how often the pin was another |
| `DeviceParameters`, `Device` | The seven above composed, and their parameters | `focus` says which one moves |
| `MC…` | Instances for TLC | |
| `…Proofs` | Theorems (section 4) | |

How they fit together: `LockState` INSTANCEs `LockPolicy`, and `Ota` `UpdatePolicy`,
with a refinement mapping. `LockState` and `Watchdog` meet at `suspend`/`resume`: `LockState` has
the depth as the lock sees it, `Watchdog` has the pulse as one of four kinds of
guard. `CommandReplay` is in front of the handlers of `LockState`, `MqttClient`
behind its events; they exchange values and share no state.

**Compositions with a focus.** The parts of `Device`, and the two of
`MqttClient`, share no variable of the code. What one does to another — a refused
photo clears the identity, a published count marks the firmware as stable, a
connection comes and goes — is an action of the other that may happen whenever
it is possible at all, so each part alone already has all the behaviours it has
in company. The composition therefore lets one part move, `focus`, while the
others rest in an initial state: its state space is the sum of theirs and not the
product, and what is checked of a part is what would be checked of it alone.
`DeviceProofs` proves the safety properties of the composition from the lemmas of
the parts, including that the other parts' steps disturb nothing.

**The two builds.** `PreemptAt` (in `LockState` and `Watchdog`) is the set of
statements of the main task before which the esp-mqtt task may run. `Points` is
the C6; `{}` is the Arduino loop. The sets in between say *how much* atomicity a
property needs, which is what a reader who wants to add a lock or a critical
section has to know. `Exclusive` does the same for `Outbox`, and `target` selects
the NVS encoding in `CommandReplay`. `Session`, `Ota`, `Provisioning`, `Wifi` and
`LockDevice` choose `build` in the initial state.

**What is abstracted.** Times are counters in units of the model's clock, each
saturating one step beyond the last threshold the code compares it with. In
`LockState` debounced sensors take any value at each tick; how they come by it is
`LockDevice`. A command is one that passes signature, claim and device checks. A
message, a version, an image, a network is a model value; an NVS value is the
number of the enrolment it comes from. Whether the bootloader was built with
rollback is a choice of the initial state (`Ota.rollback`): neither build's
configuration in the repository settles it. Operators marked `fault` are plausible
slips used as mutants, never by the specifications.

## 3. Runs

All of them explore the whole state space of their instance.

| Run | Asks | Answer |
|---|---|---|
| `lock_any_preemption` | What does the lock guarantee with a command between *any* two statements? | `LockoutDisarms` (no pulse armed under lockout), `ReleaseAuthorised` (out of LOCKOUT only emergency_unlock energises), `Relocks`, `AlarmReported` |
| `lock_atomic_sections` | And if the end of a pulse and the storing of a transition are not interrupted? | `SolenoidInHand` (a raised pin is being timed, is low under lockout, has the watchdog suspended), `PulseRunsFull`, `PulseEnds`, `LockoutSticky`, and `PolicySpec`: the tasks implement `LockPolicy` |
| `lock_stuck_on` | Does every pulse end on the C6? | No: violation (finding 1) |
| `lock_guard_leak` | Is the watchdog resumed after the last pulse? | No, without any preemption: violation (finding 2) |
| `command_replay` | Does the ring refuse what was executed? | `NeverTwice`, `RebootRemembers`, `ReplayEnds`, in both encodings |
| `command_replay_crash` | Is a refused replay always of something done? | No: violation (finding 3) |
| `mqtt_client` | Does the queue keep its promises with one task at a time, and is the session what it seems? | `CriticalKept`, `SavedOnce`, `Delivered`; `SessionHonest` (state, subscriptions, dispatch), `Online` |
| `outbox_two_tasks` | And the queue with the C6's two tasks? | No: violation (finding 4) |
| `watchdog_tick` | With the other task in the loop and anywhere in the tick until a subsystem is found overdue: are guards kept, restarts unguarded, busy subsystems spared, healthy devices fed, dead subsystems dealt with? | `GuardExact`, `DoomedUnguarded`, `BusySpared`, `HealthyNotBitten`, `Escalates` |
| `watchdog_restart` | Is a restart always earned by `REBOOT_AFTER_MS` of trouble? | No, without any preemption: violation (finding 5) |
| `device` | What do the seven parts of a device promise through resets, failed calls and interleavings? | see below |
| `epaper_unchanged` | Is a page that is taken for unchanged on the panel? | No: violation (finding 6) |

The run `device`:

- firmware: `SlotsSound` (`BootsVerified` and `ProvenSurvives` of `Ota`),
  `VersionsTrue` (`AppliedRuns` and `PrevVersionTrue`), `UpdateIsAtomic` (`Ota` implements `UpdatePolicy`), and `DownloadEnds`, `Settles`;
- identity: `IdentityWhole`, `NothingResurfaces`, `ErasedReenrols`;
- people counter `NothingLost`; relays `RelayRemembered`;
- display: `ShownUnlessMissed`, `Shown`; network: `CommitsJoined`, `Rejoins`;
- lock sensors: `Steady`, `Relatches`.

The properties are more telling with their exceptions. `CriticalKept` names the
two ways an accepted critical message is lost: eviction by a queue full of
critical ones, and a reboot during a save or after one that failed.
`RebootRemembers` excepts one entry: the
string has no place for `s_next`, so after a restart the ring's order is that of
the slots, and a command that was remembered but not executed may have taken the
place of one that was. `ReplayEnds` is needed because eviction makes a command
acceptable again: its expiry is what ends that, and only under a valid clock.
`GuardExact` has two halves: no section being executed lacks its guard, ever, and none
has left one behind unless an unlock met a running pulse (`overlapped`), which suspends
twice for one resume (finding 2); `Escalates` excepts the same. `HealthyNotBitten` bears
the ticks that find a healthy subsystem overdue because it was marked after they read
`now`, as long as they are at most `MaxStray` in a row: such a tick does not
feed. It is about devices none of whose subsystems is late: on the C6
`ota`, `camera` and `ble` are enabled and hardly ever marked, so such devices
have no more than 180 s after boot to be in (a hazard in the list).
`ProvenSurvives` excepts an update that the Arduino build begins while its
predecessor is on probation, `DownloadEnds` the C6's read loop under a silent
server. `PrevVersionTrue` excepts the pass in which the store or the switch failed.
`IdentityWhole` has three degrees: a key pair always goes together unless
two passes over the keys were disturbed, the rest unless one was. `Rejoins` is
about a profile that the device gets to before the task watchdog bites; behind a
dead one of 20 s there is no time for another. `CommitsJoined` says of a set that
`set_wifi` stores that the device has joined one network of it with the password it
stores, not that the others work: the whole set is committed. `UpdateIsAtomic` leaves
open which image starts once an update has overwritten the one to fall back to
(`standing = "lost"`): only the Arduino build gets there. `Informed`, of `SessionHonest`,
excepts a retained dispatch that the C6 gets between `set_firmware_topic` and
`set_firmware_handler`: it is dropped until the next connection.

### Findings

1. **The solenoid may stay on** (`lock_state.c:501`). The tick ends a pulse with
   the pin and then the flag; an unlock between the two raises the pin, and the
   tick then clears the flag that would have ended it. `SolenoidInHand` shows that
   making `dropFlag` atomic with `dropPin` suffices.
2. **The watchdog may stay suspended** (`lock_state.c:649`). An unlock during a
   pulse suspends twice; the one pulse resumes once.
3. **A retry may be refused as a replay of what never happened** (`main.c:521`).
   The command is remembered before it is executed.
4. **Two tasks corrupt the retry queue** (`mqtt_handler.c:446`). A slot is
   claimed, the array shifts, and the slot is filled at its old address.
5. **A recovery may restart the device** (`watchdog_manager.c:201`). A successful
   recovery sets `first_overdue_ms` to 0, and the same tick subtracts that from
   `now`: after 15 minutes of uptime the first transient stall restarts.
6. **A failed image is never tried again** (`epaper_pm_capability.cpp:802`). The
   ETag is kept as soon as the header is read; when the body fails, the next wake
   gets a 304 for an image that was never painted, until the image changes or the
   daily sweep forgets the ETag. `Shown` rests on that sweep.

### Observed without a run

Met while modelling, and outside what a run here asks. Each was read in the source
and, where a model covers it, seen in its behaviours.

- *What the atomic sections exclude.* Some properties name statements that they need
  together; each fails as soon as `PreemptAt` has the point. With `storeState` in it a
  lockout that comes between the tick's choice and its store is overwritten
  (`lock_state.c:519`, `LockoutSticky`), and the next signed unlock is accepted. With
  `pulse` in it an unlock between the tick's reading of `now` and its use makes the
  elapsed time underflow, and the pulse ends as it begins (`lock_state.c:500`,
  `PulseRunsFull`). With `store` in it a suspend between main's load and store of
  `s_suspend_depth` is lost, a resume left behind (`watchdog_manager.c:152`,
  `GuardExact`). With `doomed` in it a section that begins in the last warning or the
  100 ms after it is cut by the restart (`watchdog_manager.c:203`, `DoomedUnguarded`).
- *A healthy link may be found overdue* (`watchdog_manager.c:180`). The tick reads
  `now` and then marks wifi and mqtt with the clock read again: a millisecond between
  the two makes the age underflow; the link is recovered, a warning published, the tick
  not fed. It needs no second task, and with finding 5 it restarts a device after 15
  minutes of uptime. In `Watchdog` it is an `Advance` between `BeginTick` and
  `MarkLinked`; `HealthyNotBitten` says what it leaves of the feeding.
- *Final state.* Both builds publish the retained final state of a lifecycle
  command (`FORGEKEY_DEVICE.md:248-252`) and restart without DISCONNECT
  (`device_lifecycle.cpp:61`, `main.c:640-663`): the broker's Last Will, on the same
  topic, replaces it. In `Session`, `state` goes from `"final"` to `"lost"`.
- *Client id.* The Arduino id is `ForgeKey_` and the low 32 bits of
  `ESP.getEfuseMac()` (`mqtt_client.cpp:471`), the first four bytes of the MAC: boards
  of one batch share it and displace each other at the broker (`Session.Dropped`).
- *Order at a connection.* The Arduino build is "online" before it subscribes. The
  C6 sets `capabilities_announced` whether or not the publish was accepted
  (`main.c:285-308`).
- *Photos.* Detections start every 2 s and a photo waits for 5 s without one: while
  MQTT is connected a requested photo need never be taken
  (`people_counter.cpp:251`).
- *Portal.* The Arduino portal stores a profile without its password, so that after
  the reboot it does not join as `FORGEKEY_DEVICE.md:98` says. The same document's
  "sits in AP mode forever" (line 100) lasts until the 30 s task watchdog, which only
  `loop()` feeds. `captive.h` says that only profiles that connect and pass are
  committed; the whole set is. A boot takes the first network that joins, without
  a probe. Giving up on WiFi works only because of finding 5: the recovery always
  reports success. The C6 portal configures its AP in station mode, and writes the
  form's keys one by one.
- *Priorities.* Profiles of equal priority are ordered by `lastSuccess`, an epoch
  that before NTP is small: the order may be reversed.
- *Arduino lock.* INITIALIZING is left by an unlock only; the comment at
  `lock_device.cpp:304` expects `main.cpp` to leave it at boot, which has no code for it. A forced latch is
  reported as UNLOCKED by a signed command, where the comment says ALARM. With a
  spring latch the machine goes to SECURE while the door is open, and from there to
  a false ALARM. ACCESSING is never entered; `publishTelemetry` is never called.
- *C6 lock.* LOCKOUT lives in RAM. An unlock with a detached signature is remembered
  and then refused (`main.c:555`): its retry is a replay.
- *BLE.* `DEVICE_COMMANDS.md:545` excludes "devices seen in last 60 scan cycles"; the
  ring (`macInRing`) holds the last 60 distinct MACs without regard to time, so with
  fewer around each is reported once per boot, and one whose publication failed never.
  A scan of up to 30 s blocks the loop under the 30 s task watchdog. A desired
  state with an invalid `identity_mode` is rejected after half of it has been taken,
  and a partial one without lists clears them. Nothing calls the relay's
  `enqueueMessage` or the equipment's `matchTag`.
- *Small.* `PATTERN_PROVISIONING` (11) indexes a table of 10 patterns in the status
  LED; a card held at the badge reader is published every 2 s; the state stored in
  `fk_lifecycle` is never read.

### Bounds, and why they are enough

- `LockState`: `Pulse = 2`, `MaxStall = 1`, `Wrap = 8`, `DepthMax = 2`. A pulse
  has a beginning, a middle and an end; the stall exceeds the distance between a
  stale `now` and a fresh start, so the subtraction wraps; the depth saturates.
- `CommandReplay`: a ring of 2 with four commands (one a retry with a fresh nonce,
  one of the challenge flow), so that the ring fills, wraps and evicts; `Blob = 8`
  with entries of 4 bytes (both fit) and of 5 (one does, and the next is cut after
  its id); `MaxTime = 1`, with commands that expire and one that does not.
- `Outbox`: `Size = 2` with two critical messages and one that is not: full
  queues, both kinds of eviction, and a shift that moves an entry.
- `Session` has no bound: faults may be as many as they like, and its state space is
  finite (some 2000 states).
- `Watchdog`: two subsystems, so that the tick goes on from one to the next: `ota`,
  which the dispatch marks, and beside it mqtt, marked by the state of its link.
  `MaxStall = 1`, and a timeout of 1, let time pass once between any two statements of a
  tick, enough for every subtraction to underflow. In `watchdog_tick` `MaxStray = 1` and
  `TaskTimeout = 5` (`> 2 * MaxStall * (MaxStray + 1)`) have a tick that strays and one
  that must then feed; `WarnInterval` and `RebootAfter` are 1 and 2, in the order of
  60 s and 15 min. The run leaves out preemption between finding a subsystem overdue
  and the restart, where `BusySpared` fails; the theorems on the others have it.
  `DepthMax = 4` is the number of guards, which 255 exceeds by far; unlocks that
  overlap a pulse let the depth saturate there.
- `Device`: `MaxFaults = 2`, since what a promise excepts takes one fault and what
  breaks the exception another. For `Ota` three versions and two releases (one that
  runs, one on probation, one that overtakes it), one read per image and one empty
  one before the timeout. Two enrolments: an old identity and a new one. A history
  of two with counts 0 and 1 has a majority and a tie. Two channels and two
  images tell one from the other. For the display `ErrorBase = 1`, `ErrorCap = 2`,
  `QuietCap = 2`, `FullEvery = 4` keep the order of 15, 240, 720 and 1440 minutes and
  `MaxStreak = 1` lets every interval reach its cap (`PanelAssumption`). For the network
  the unit is 10 s: an attempt takes 2, a probe 1, the task watchdog bites at 3; two
  networks give every order of two profiles (`MaxProfiles = 2` of the code's 5), with
  right, wrong and missing passwords. `Debounce = 3` with `TickStall = 2` has
  ticks that are shorter and stalls that are longer than what is left of the
  debounce time.
- `MCEPaper` has the display alone in units of two hours, with the real caps (12 h, 24 h,
  `MaxStreak = 3`).

The proofs below lift all of these bounds for the properties they are about.

### Fairness

- The main task goes on (`WF` of `MainStep`, `Main`): `app_main` loops with
  `vTaskDelay`, and no task modelled blocks it for ever. The clock runs (`WF` of
  `Advance`). Handlers and commands are never required to happen.
- `CommandReplay`: once accepted, a command is written and dispatched in the same
  call (`WF` of `Persist`, `Execute`).
- `MqttClient`: each task goes on in the queue (`WF`), every iteration of the main
  loop ticks (`SF` of `Tick("main")`, since its guard is disabled while a task is in
  the queue), and a connected client accepts a publish now and then (`SF` of
  `TryAccepted`): that is the assumption `Delivered` is about, and `Delivered`
  assumes besides that the connection lasts and nothing restarts. One `WF` of the
  session's `Statement`: setup, the client with its reconnections and callbacks, and
  the delivery of what is on its way. Faults, the broker's timeout, further
  enrolments and refreshes are not required; `Online` assumes that from some time on
  links stay and nothing restarts.
- `Device`: one `WF` of its `Statement`: the update's handler, setup and the
  lifecycle commands, the display's cycle, the search for a network with the driver's
  retries, the lock's tick. Only one of them moves in a behaviour, so one conjunct says
  it of each. Releases, enrolments, faults and commands are not required.

## 4. Proofs

Checked by TLAPS for every value of the constants that meets the named
assumptions of the module.

| Theorem | Says | Argument |
|---|---|---|
| `LockStateProofs!TypeCorrect` | `[]TypeOK` | inductive as it stands |
| `LockoutIsDisarmed` | `[]LockoutDisarms` | with `NeverChosen`: the tick's pending assignment is never LOCKOUT, so a late store cannot return there with a pulse armed |
| `ReleaseIsAuthorised` | `ReleaseAuthorised` | only two actions raise the pin |
| `SolenoidIsInHand` | `[]SolenoidInHand` | with `PinIsLow`: at `dropFlag` the pin is low; the depth is positive while a pulse is armed or being ended; needs `dropPin`, `dropFlag` |
| `PulseLasts` | `PulseRunsFull` | at `pulse`, `lag ≤ age`; so the modular difference is the true one for every `Wrap > Pulse + MaxStall`; needs `pulse`, `dropPin` |
| `LockoutIsSticky` | `LockoutSticky` | `ChoiceIsFresh`: a chosen transition is stored in the state it was chosen in; needs `storeState` |
| `ImplementsPolicy` | `PolicySpec` | initial states map to initial states; each step to a rule, to `Sense`, to `Restart` or to a stutter; needs `storeState`, `storeTrigger` |
| `CommandReplayProofs!TypeCorrect` | `[]TypeOK` | inductive with the assumptions on `Commands` |
| `ExecutesOnce` | `NeverTwice` | `Window`: the last `CacheSize` commands executed since boot are in the ring, at the places before `next` in order; a ring that is not full is filled from its start |
| `RestartRemembers` | `[]RebootRemembers` | `Memory`: what the string decodes to is the ring as of the last save, as far as it fits (`ProductMonotone`, `AllSurvive`), and at most one entry behind |
| `WatchdogProofs!TypeCorrect` | `[]TypeOK` | in six parts (`TickOK`, `GuardOK`, `ClockOK`, `AgeOK`, `SinceOK`, `HistoryOK`), all but `SinceOK` inductive alone |
| `GuardIsExact` | `[]GuardExact` | `Exact`: `Enough` (the depth is at least what the sections being executed are due) and `NoneLeft` (and no more, unless `overlapped`), inductive with `LoadedExact`: what main has loaded is still the depth; the depth may saturate, since `DepthMax` is at least the number of guards; needs `store` |
| `DoomedIsUnguarded` | `[]DoomedUnguarded` | depth 0 is no guard at all, by `Enough`; needs `store`, `doomed` |
| `BusyIsSpared` | `[]BusySpared` | `Blamed`: from `warn` on, `i` is not busy; needs `warn`, `escalate`, `doomed` |
| `HealthyIsNotBitten` | `[]HealthyNotBitten` | `FedInTime`: while none is late (`OnTime`) a tick finds one overdue only by a newer mark, and is then counted; main goes unfed for two stalls per counted tick (`Borne`), one after the last tick and one within; for every `PreemptAt` |
| `OtaProofs!TypeCorrect` | `[]TypeOK` of `Ota` | inductive as it stands |
| `OtaProofs!ImplementsPolicy` | `PolicySpec` of `Ota` | initial states map to initial states; `Begin` and the last read map to `Write`, `Finish` to `Arm`, marking to `Confirm`, restarts to `Restart`, all else to stutters; `TrialInv`: only a switched slot is new, and none is on trial without rollback |
| `ProvisioningProofs!TypeCorrect` | `[]TypeOK` of `Provisioning` | inductive, with the books of the faults |
| `DeviceProofs!AlwaysBoots` | `[]SlotsSound` | `FlashInv`: what each slot holds at each step, and in which OTA state; after verification the target is whole. `SurvivesInv`: the target of an update is not the last proven image unless the running one is on probation |
| `VersionsStayTrue` | `[]VersionsTrue` | `AppliedInv`: what was announced is confirmed, in the slot that boots, until the switch takes the announcement back. `PrevInv`: between the store and the switch, on either side of it, one of the two is ahead |
| `ErasedStaysErased` | `[]NothingResurfaces` | `ErasureInv`: in a clean pass every key before `k` is gone, and every later enrolment is above `floor` |
| `OneEnrolment` | `[]IdentityWhole` | `Fresh`/`Agree`: in a clean pass the keys before `k` are the new enrolment's; `Steady`, `Shaken` for one and two disturbed passes; `AssetInv` for the key that may stay away |
| `NoResultLost` | `[]NothingLost` | the busy flag lets one result be under way at a time; inductive with the places of both tasks |
| `Remembered` | `[]RelayRemembered` | `Moving`: while a channel's contacts move nobody vouches for it; afterwards they are where the command wants them |
| `OnlyMissesMislead` | `[]ShownUnlessMissed` | `Truthful`: unless something was missed, ETag and panel agree at every place of the cycle; `Tells`: a missed one is forgotten or noted |
| `SensorsAreSteady` | `Steady` | `Aged`: a sensor's clock is at most the ticks at which the pin was another times the longest stall |
| `UpdatesAreAtomic` | `UpdateIsAtomic` | `ImplementsPolicy`, and that the other components leave the flash alone |
| `SetsWork` | `CommitsJoined` | `NetworkInv`: the networks still to try are of the set being tested, and what is probed was joined with its password |
| `DeviceTyped` | `[]TypeOK` of all seven components | `StableCount` is among the counts seen, `Orders` are injective and bounded, intervals stay under their caps; `Shared`: `build` and `faults` are common to several |
| `MqttClientProofs!ClientTyped` | `[]ClientTypeOK` | part of the two invariants below; needs `Exclusive` |
| `Honest` | `[]SessionHonest` | `SessionInv`: in a session every topic that setup is done with is subscribed to or still to be joined by the CONNECTED handler, which will find it set (`SetSoFar`, `Joined`); the birth message was sent or is left to be (`Born`); a subscription to the firmware topic brings the dispatch (`Awaited`) |
| `CriticalStays` | `[]CriticalKept` | `Turn`: one task has the queue and the other is outside it; `Kept`: at every place of the queue code each accepted critical message is in a slot below `Top` (the slots in use there), sent, evicted or lost, and saved unless the save failed; needs `Exclusive` |
| `SentOnce` | `[]SavedOnce` | `Exact`: unless a save is due, under way or failed, the stored copy has the critical messages of the queue; `Novel`, `Known`, `Single`: a message that was not reloaded is in one slot at most, and in none once sent; needs `Exclusive` |

"Needs *p*" is a premise `p ∉ PreemptAt` of the theorem: the statement *p* is not
separated from the one before it. For the Arduino loop (`PreemptAt = {}`) all
premises hold. `CommandReplay`, like the code, relies on a single task validating
and dispatching commands.

`DeviceProofs` composes: its invariant is `OtaInv ∧ IdentityInv ∧ CameraInv ∧
DisplayInv ∧ RelayInv ∧ SensorsInv ∧ NetworkInv ∧ TypeOK`. Where a component has a proof
module of its own, its part says that the component's inductive invariant holds while it
has the focus, and its promise always. `Device`
instantiates the proof modules themselves, so that the components' lemmas (`InitIInv`,
`StepIInv`, `Promises`) can be cited for the composition; what remains is that the
steps of the others leave a component's variables alone.

*Where the data are.* Three definitions compute something from a sequence of any
length: the vote over the history (`PeopleCounter.StableCount`), the stored part of the
queue (`Outbox.Saved`) and the doubled interval (`EPaper.Doubled`). Each is stated by
what it returns instead of by a recursion: the least count with the most votes, the
increasing enumeration of the places that hold a critical message, the power of two. Their
properties then follow from the existence of least elements (`Least`), not from an induction
over the data, which is out of the provers' reach.

Every invariant and every safety property (`[][…]`, refinement) of the passing runs is a
theorem. Only model-checked are:

- liveness: `Relocks`, `AlarmReported`, `PulseEnds`, `ReplayEnds`, `Delivered`, `Online`,
  `Escalates`, `DownloadEnds`, `Settles`, `ErasedReenrols`, `Shown`, `Rejoins`,
  `Relatches`. TLAPS has neither `ENABLED` nor the rules that derive them from fairness;
- what the violation runs refute: it is no theorem. In particular the queue's
  promises are theorems under `Exclusive` alone: with the C6's two tasks they are false
  (finding 4).

No definition is recursive.

## 5. Not modelled

- **The detection model** (`tflite_model.cpp`): 23 148 of the 44 403 lines of
  implementation are generated weights. What the detector returns is any number.
- **BLE.** The relay's queue is never filled and the equipment's matching never
  called; the scanner fills a ring from a blocking library scan; a desired state is
  applied whole within one loop. What is wrong with them (above) shows in one call, not
  in an interleaving.
- **Web pages, LEDs, matrix, badge reader, button, temperature, presence, registry,
  boards, power.** Read-only reports, presentation, static tables and small polling
  sensors: no state that two actors share or that a restart could split.
- **Within modelled components:** the state of `fk_lifecycle`, which is never read; the
  rollout cohort and the policy's clock of an update, which are a dispatch that does or
  does not arrive; the display's own update poll; static addresses and enterprise
  settings of a WiFi profile; the telemetry and LED intervals of the locks; the
  length of the Arduino client's reconnect backoff and the capability announcement;
  signatures and the parsing of messages, which either pass or do not.
- **Libraries** (TLS, HTTP, MQTT, NVS, the WiFi driver, the bootloader) appear as what
  the code expects of them, with their failures.

### What would come next

1. The C6's sleep policy and the reported boot counter.
2. The Arduino status web page as an observer of the lock and the identity, whose
   snapshot is taken field by field.
3. An abstract identity (none, or one enrolment) that `Provisioning` implements between
   disturbed passes, as `Ota` implements `UpdatePolicy`.

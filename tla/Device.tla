------------------------------- MODULE Device -------------------------------
(***************************************************************************)
(* A device: its firmware update, its identity, its people counter, its    *)
(* relays, its e-paper display, its network and its lock's sensors.  They  *)
(* share no state of the code; what one does to another (a refused photo   *)
(* clears the identity, a published count or a wake cycle marks the        *)
(* firmware) is an action of the other that may happen at any time.  So    *)
(* each of them, with whatever the others do, is a behaviour in which it   *)
(* alone moves: `focus` says which, and the others rest in an initial      *)
(* state.                                                                  *)
(*                                                                         *)
(* A component with proofs is instantiated from the module that holds      *)
(* them, so that DeviceProofs can cite them.                               *)
(***************************************************************************)
EXTENDS DeviceParameters

VARIABLES
    focus, build, faults,
    rollback, slot, st, boot, running, want, step, ver, good, got, quiet, prev,
    marked, releases, announced, replaced, slip, hasty,
    nvs, ram, token, wifi, phase, k, plan, asset, issued, clean, slips, orphan,
    floor,
    pc, task, raw, busy, ready, pending, snap, lastRequest, lastDone, recent,
    count, changed, oneShot, connected, provisioned, told, unread,
    contacts, states, mask, coil, target, sureRam, sureNvs,
    page, panel, kept, held, cycle, desired, result, changes, missed,
    stored, tested, air, link, conf, socket, mode, todo, unfed,
    sense, lock, cause, pulse, beat

ota      == <<rollback, slot, st, boot, running, want, step, ver, good, got, quiet,
              prev, marked, releases, announced, replaced, slip, hasty>>
identity == <<nvs, ram, token, wifi, phase, k, plan, asset, issued, clean, slips,
              orphan, floor>>
camera   == <<pc, task, raw, busy, ready, pending, snap, lastRequest, lastDone,
              recent, count, changed, oneShot, connected, provisioned, told, unread>>
relay    == <<contacts, states, mask, coil, target, sureRam, sureNvs>>
display  == <<page, panel, kept, held, cycle, desired, result, changes, missed>>
network  == <<stored, tested, air, link, conf, socket, mode, todo, unfed>>
sensors  == <<sense, lock, cause, pulse, beat>>
vars     == <<focus, build, faults, ota, identity, camera, relay, display, network, sensors>>

O == INSTANCE OtaProofs
P == INSTANCE ProvisioningProofs
C == INSTANCE PeopleCounter
R == INSTANCE PowerRelay
E == INSTANCE EPaperProofs
W == INSTANCE Wifi
L == INSTANCE LockDevice

Init ==
    /\ focus \in {"ota", "identity", "camera", "relay", "display", "network", "sensors"}
    /\ O!Init /\ P!Init /\ C!Init /\ R!Init /\ E!Init /\ W!Init /\ L!Init
    /\ focus # "relay" => contacts = states
    /\ focus # "ota" => ~rollback /\ want = CHOOSE v \in Versions : TRUE
    /\ focus # "network" => air = [n \in Networks |-> "down"]
    /\ focus \in {"camera", "relay", "display"} => build = "arduino"

OtherThanOta      == <<focus, identity, camera, relay, display, network, sensors>>
OtherThanIdentity == <<focus, ota, camera, relay, display, network, sensors>>
OtherThanCamera   == <<focus, build, faults, ota, identity, relay, display, network, sensors>>
OtherThanRelay    == <<focus, build, faults, ota, identity, camera, display, network, sensors>>
OtherThanDisplay  == <<focus, build, ota, identity, camera, relay, network, sensors>>
OtherThanNetwork  == <<focus, ota, identity, camera, relay, display, sensors>>
OtherThanSensors  == <<focus, faults, ota, identity, camera, relay, display, network>>

Ota      == focus = "ota" /\ O!Next /\ UNCHANGED OtherThanOta
Identity == focus = "identity" /\ P!Next /\ UNCHANGED OtherThanIdentity
Camera   == focus = "camera" /\ C!Next /\ UNCHANGED OtherThanCamera
Relay    == focus = "relay" /\ R!Next /\ UNCHANGED OtherThanRelay
Display  == focus = "display" /\ E!Next /\ UNCHANGED OtherThanDisplay
Network  == focus = "network" /\ W!Next /\ UNCHANGED OtherThanNetwork
Sensing  == focus = "sensors" /\ L!Next /\ UNCHANGED OtherThanSensors

Next == Ota \/ Identity \/ Camera \/ Relay \/ Display \/ Network \/ Sensing

(* The handler of an update, the setup and the lifecycle of the identity,  *)
(* the wake cycle of the display, the search for a network and the lock's  *)
(* tick go on: the tasks they run in are scheduled.  One conjunct states   *)
(* it for all, only one of which moves.                                    *)
Statement ==
    \/ focus = "ota" /\ O!Statement /\ UNCHANGED OtherThanOta
    \/ focus = "identity" /\ P!Statement /\ UNCHANGED OtherThanIdentity
    \/ focus = "display" /\ E!Cycle /\ UNCHANGED OtherThanDisplay
    \/ focus = "network" /\ W!Statement /\ UNCHANGED OtherThanNetwork
    \/ focus = "sensors" /\ L!Tick /\ UNCHANGED OtherThanSensors

Fairness == WF_vars(Statement)

Spec == Init /\ [][Next]_vars /\ Fairness

----------------------------------------------------------------------------
(* The components' type invariants, each stated in its module.             *)
TypeOK ==
    /\ O!TypeOK /\ P!TypeOK /\ C!TypeOK /\ R!TypeOK /\ E!TypeOK /\ W!TypeOK
    /\ L!TypeOK

(* What the update promises: the slots that boot and run hold verified     *)
(* images and a proven one survives, "applied" is final and prev_ver true, *)
(* an update is atomic, downloads and reinstallations end.  Each is stated *)
(* and explained in Ota.                                                   *)
SlotsSound     == O!BootsVerified /\ O!ProvenSurvives
VersionsTrue   == O!AppliedRuns /\ O!PrevVersionTrue
UpdateIsAtomic == O!PolicySpec
DownloadEnds   == O!DownloadEnds
Settles        == O!Settles

(* What the identity's storage promises: it is of one enrolment, what was  *)
(* erased stays so and is asked for anew.  See Provisioning.               *)
IdentityWhole     == P!IdentityWhole
NothingResurfaces == P!NothingResurfaces
ErasedReenrols    == P!ErasedReenrols

(* No result and no change of the count is lost.  See PeopleCounter.       *)
NothingLost == C!NothingLost

(* The relays are where the device says they are.  See PowerRelay.         *)
RelayRemembered == R!RelayRemembered

(* The panel comes to show what OMS has for it, and an ETag is a reason to *)
(* leave it as it is.  See EPaper.                                         *)
Shown             == <>[](focus = "display" => E!Rested)
ShownUnlessMissed == E!ShownUnlessMissed

(* What set_wifi stores has a network that works, and a device with a      *)
(* sound profile gets back online.  See Wifi.                              *)
CommitsJoined == W!CommitsJoined
Rejoins == W!Rejoins

(* A sensor's value takes the debounce time to change, and a cabinet that  *)
(* stays shut gets back to SECURE.  See LockDevice.                        *)
Steady    == L!Steady
Relatches == L!Relatches

=============================================================================

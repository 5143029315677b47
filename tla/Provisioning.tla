---------------------------- MODULE Provisioning ----------------------------
(***************************************************************************)
(* The identity of a device of either build: loaded at boot, enrolled when *)
(* it is missing, stored key by key, erased by lifecycle commands, by a    *)
(* refused photo upload or by a topic outside the contract                 *)
(* (esp32c6-lock/main/provisioning.c, its callers in main.c, and           *)
(* src/provisioning/register.cpp, src/config/, the setup of src/main.cpp). *)
(*                                                                         *)
(* NVS is not transactional: a reset, or a call that fails with a result   *)
(* nobody reads, stops a pass over the keys anywhere.  A value is the      *)
(* number of the enrolment it comes from, 0 for a key that is absent.      *)
(***************************************************************************)
EXTENDS DeviceParameters, Sequences

Builds == {"c6", "arduino"}
Keys == {"dev_id", "topics", "cert", "key", "cmd_pub", "broker", "asset"}
Order == <<"dev_id", "topics", "cert", "key", "cmd_pub", "broker", "asset">>
Plans == {"clear", "retire", "factory_reset"} \* reprovision erases as retire

VARIABLES
    build,     \* which device this is
    nvs, ram,  \* the keys stored, and the credentials in use
    token,     \* NVS holds a bootstrap token that was rotated in
    wifi,      \* NVS holds WiFi profiles
    phase,     \* what the device does
    k,         \* the next key of a pass
    plan,      \* what a wipe is for
    asset,     \* the enrolment's answer names an asset
    issued,    \* enrolments answered
    faults,
    clean,     \* history: no fault in this pass
    slips,     \* history: faults since the last clean pass
    orphan,    \* history: a fault since the last clean wipe
    floor      \* history: enrolments answered before the last clean wipe

stored  == <<nvs, token, wifi>>
pass    == <<k, plan, asset, clean>>
history == <<slips, orphan, floor>>
vars    == <<build, stored, ram, phase, pass, issued, faults, history>>

Enrolments == 0..MaxEnrolments
Absent == [key \in Keys |-> 0]

TypeOK ==
    /\ build \in Builds
    /\ nvs \in [Keys -> Enrolments] /\ ram \in [Keys -> Enrolments]
    /\ token \in BOOLEAN /\ wifi \in BOOLEAN
    /\ phase \in {"boot", "enrol", "persist", "check", "ready", "offline", "wipe",
               "restart"}
    /\ k \in 1..Len(Order) + 2
    /\ plan \in Plans /\ asset \in BOOLEAN
    /\ issued \in Enrolments /\ faults \in 0..MaxFaults
    /\ clean \in BOOLEAN /\ orphan \in BOOLEAN
    /\ slips \in 0..MaxFaults /\ floor \in Enrolments

(* A device from the bench: WiFi is set up, nothing else.                  *)
Init ==
    /\ build \in Builds
    /\ nvs = Absent /\ ram = Absent
    /\ token = FALSE /\ wifi = TRUE
    /\ phase = "boot" /\ k = 1 /\ plan = "clear" /\ asset = FALSE
    /\ issued = 0 /\ faults = 0
    /\ clean = TRUE /\ slips = 0 /\ orphan = FALSE /\ floor = 0

----------------------------------------------------------------------------
(* Operators marked "fault" are plausible slips of the definition after    *)
(* them; only the mutation runs use them.                                  *)

Fault ==
    /\ faults < MaxFaults
    /\ faults' = faults + 1 /\ slips' = slips + 1
    /\ clean' = FALSE /\ orphan' = TRUE
    /\ UNCHANGED floor
Smooth == UNCHANGED <<faults, clean, history>>

ProvisionedByKey(c) == c["cert"] # 0 /\ c["key"] # 0 \* fault: device_id left out
Provisioned(c) == c["dev_id"] # 0 /\ c["cert"] # 0 /\ c["key"] # 0

(* provisioning_begin, or Provisioning::begin: what is stored, or nothing  *)
(* when NVS does not open; then setup enrols a device without an identity. *)
Begin ==
    /\ phase = "boot"
    /\ \/ ram' = nvs /\ Smooth
       \/ ram' = Absent /\ Fault
    /\ phase' = IF Provisioned(ram') THEN "check" ELSE "enrol"
    /\ UNCHANGED <<build, stored, k, plan, asset, issued>>

(* provisioning_enroll, with a key pair of its own: OMS answers with a     *)
(* certificate for it, and NVS opens.  The C6 reads the asset as well.     *)
Enrol ==
    /\ phase = "enrol" /\ issued < MaxEnrolments
    /\ issued' = issued + 1
    /\ asset' \in IF build = "c6" THEN BOOLEAN ELSE {FALSE}
    /\ phase' = "persist" /\ k' = 1 /\ clean' = TRUE /\ plan' = "clear"
    /\ UNCHANGED <<build, stored, ram, faults, history>>

(* Every other exit.  The device goes on without an identity: the C6 with  *)
(* MQTT, an Arduino build without.                                         *)
EnrolFails ==
    /\ phase = "enrol"
    /\ phase' = "offline" /\ plan' = "clear"
    /\ UNCHANGED <<build, stored, ram, k, asset, clean, issued, faults, history>>

(* provisioning_persist, key by key; an asset only when there is one.      *)
PersistedBare == {"dev_id", "cert", "key"} \* fault: broker and topics forgotten
Persisted == Keys \ (IF asset THEN {} ELSE {"asset"})

PersistKey ==
    /\ phase = "persist" /\ k <= Len(Order)
    /\ \/ nvs' = [nvs EXCEPT ![Order[k]] =
                      IF Order[k] \in Persisted THEN issued ELSE @]
          /\ Smooth
       \/ UNCHANGED nvs /\ Fault
    /\ k' = k + 1
    /\ UNCHANGED <<build, token, wifi, ram, phase, plan, asset, issued>>

Enrolled == [key \in Keys |-> IF key = "asset" /\ ~asset THEN 0 ELSE issued]

PersistDone ==
    /\ phase = "persist" /\ k > Len(Order)
    /\ ram' = Enrolled
    /\ phase' = "check" /\ k' = 1 /\ asset' = FALSE
    /\ slips' = IF clean THEN 0 ELSE slips
    /\ UNCHANGED <<build, stored, plan, clean, issued, faults, orphan, floor>>

(* A stored topic that the Arduino build does not accept clears the        *)
(* identity; setup goes on with the copy it has.                           *)
TopicAccepted ==
    /\ phase = "check"
    /\ phase' = "ready"
    /\ UNCHANGED <<build, stored, ram, pass, issued, faults, history>>

StartWipe(what) ==
    /\ phase' = "wipe" /\ k' = 1 /\ plan' = what /\ clean' = TRUE
    /\ UNCHANGED <<build, stored, ram, asset, issued, faults, history>>

TopicRejected ==
    /\ phase = "check" /\ build = "arduino" /\ ram["topics"] # 0
    /\ StartWipe("clear")

Serving == phase = "ready" \/ (build = "c6" /\ phase = "offline")

(* A photo upload that OMS answers with 401.                               *)
AuthExpired ==
    /\ phase = "ready" /\ build = "arduino" /\ Provisioned(ram)
    /\ StartWipe("clear")

(* A signed retire, reprovision or factory_reset: acknowledged, then done. *)
Lifecycle == Serving /\ \E what \in {"retire", "factory_reset"} : StartWipe(what)

(* A rotated bootstrap token comes on the config topic.                    *)
SetToken ==
    /\ Serving
    /\ token' = TRUE
    /\ UNCHANGED <<build, nvs, wifi, ram, phase, pass, issued, faults, history>>

(* provisioning_wipe_credentials: the keys in the order they were stored,  *)
(* the token and the profiles for a factory reset.  A failed erasure, or   *)
(* an NVS that does not open, is not looked at.                            *)
WipedSome == Keys \ {"asset"} \* fault: a key added later is not erased
Wiped == Keys

WipeKey ==
    /\ phase = "wipe" /\ k <= Len(Order)
    /\ \/ nvs' = [nvs EXCEPT ![Order[k]] = IF Order[k] \in Wiped THEN 0 ELSE @]
          /\ Smooth
       \/ UNCHANGED nvs /\ Fault
    /\ k' = k + 1
    /\ UNCHANGED <<build, token, wifi, ram, phase, plan, asset, issued>>

WipeToken ==
    /\ phase = "wipe" /\ k = Len(Order) + 1
    /\ \/ token' = (token /\ plan # "factory_reset") /\ Smooth
       \/ UNCHANGED token /\ Fault
    /\ k' = k + 1
    /\ UNCHANGED <<build, nvs, wifi, ram, phase, plan, asset, issued>>

NotOpened ==
    /\ phase = "wipe" /\ k = 1 /\ Fault
    /\ k' = Len(Order) + 2
    /\ UNCHANGED <<build, stored, ram, phase, plan, asset, issued>>

(* The credentials in use are dropped in any case; a lifecycle command     *)
(* restarts the device, the others do not.                                 *)
WipeDone ==
    /\ phase = "wipe" /\ k = Len(Order) + 2
    /\ wifi' = (wifi /\ plan # "factory_reset")
    /\ ram' = Absent
    /\ phase' = IF plan = "clear" THEN "ready" ELSE "restart"
    /\ k' = 1
    /\ slips' = IF clean THEN 0 ELSE slips
    /\ orphan' = (orphan /\ ~clean)
    /\ floor' = IF clean THEN issued ELSE floor
    /\ UNCHANGED <<build, nvs, token, plan, asset, clean, issued, faults>>

Booting ==
    /\ phase' = "boot" /\ ram' = Absent
    /\ k' = 1 /\ asset' = FALSE
    /\ UNCHANGED <<build, stored, plan, issued>>

Restart == phase = "restart" /\ Booting /\ Smooth

(* A reset of a device that stores or erases nothing, for any reason.      *)
Reboot == phase \in {"enrol", "check", "ready", "offline", "restart"}
          /\ Booting /\ Smooth

(* A reset in the middle of a pass.                                        *)
Reset == phase \in {"persist", "wipe"} /\ Booting /\ Fault

----------------------------------------------------------------------------
(* What the device does without being asked.                               *)
Statement ==
    \/ Begin \/ Enrol \/ EnrolFails \/ PersistKey \/ PersistDone
    \/ TopicAccepted \/ TopicRejected
    \/ WipeKey \/ WipeToken \/ NotOpened \/ WipeDone \/ Restart

Next == Statement \/ AuthExpired \/ Lifecycle \/ SetToken \/ Reboot \/ Reset

(* The main task is scheduled.  Nothing is assumed of OMS.                 *)
Fairness == WF_vars(Statement)
Spec == Init /\ [][Next]_vars /\ Fairness

----------------------------------------------------------------------------
Agree(keys) == \A key \in keys : nvs[key] = nvs["dev_id"]
Resting == phase \notin {"persist", "wipe"}

(* The identity a device would boot with is of one enrolment: its key pair *)
(* never goes with the certificate or the id of another, although keys are *)
(* stored one by one, unless two passes over them were disturbed; and it   *)
(* comes with the topics, the command key and the broker of the enrolment, *)
(* and with no asset of an earlier one, unless one was.                    *)
IdentityWhole ==
    Provisioned(nvs) /\ Resting =>
        /\ slips < 2 => Agree({"cert", "key"})
        /\ slips = 0 => Agree(Keys \ {"asset"})
        /\ ~orphan => nvs["asset"] = 0 \/ Agree({"asset"})

(* An erased identity does not come back: after a wipe that was not        *)
(* disturbed, whatever is stored or in use was enrolled later, and a       *)
(* factory reset restarts a device without token and WiFi profiles.        *)
NothingResurfaces ==
    /\ \A key \in Keys : /\ nvs[key] # 0 => nvs[key] > floor
                         /\ ram[key] # 0 => ram[key] > floor
    /\ phase = "restart" /\ plan = "factory_reset" /\ clean => ~token /\ ~wifi

(* A lifecycle command that got as far as the device id ends in a request  *)
(* for a new identity, whatever resets or failures follow it: the device   *)
(* neither rests on the way nor leaves it.                                 *)
Erased ==
    /\ phase \in {"wipe", "restart", "boot"}
    /\ plan # "clear" /\ nvs["dev_id"] = 0

ErasedReenrols ==
    /\ []<>~Erased
    /\ [][Erased => Erased' \/ phase' = "enrol"]_vars

=============================================================================

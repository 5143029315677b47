-------------------------------- MODULE Ota --------------------------------
(***************************************************************************)
(* The firmware update of both builds: the retained dispatch, the download *)
(* into the slot that is not running, its verification, the switch of the  *)
(* boot slot, the restart, and the marking of the new image as stable      *)
(* (esp32c6-lock/main/ota_update.c and src/ota/ota_updater.cpp with their  *)
(* dispatch handlers).  The bootloader and the two slots are external.     *)
(*                                                                         *)
(* An image is the version it was built from, or Junk: erased, partial, or *)
(* of another digest than the dispatch names and signs.  Whether the       *)
(* bootloader keeps unconfirmed images on probation is `rollback`: neither *)
(* build's configuration in the repository settles it.                     *)
(***************************************************************************)
EXTENDS DeviceParameters

Slots == {0, 1}
Other(s) == 1 - s
Builds == {"c6", "arduino"}
States == {"undefined", "new", "pending", "valid", "aborted"}

VARIABLES
    build, rollback,  \* which device this is
    slot,       \* the image in each slot
    st,         \* the state of each slot in the OTA data
    boot,       \* the slot the OTA data selects
    running,    \* the slot being executed
    want,       \* the version of the retained dispatch
    step,       \* the next statement of the update
    ver,        \* the version it installs
    good,       \* the server sends what the dispatch describes
    got, quiet, \* reads that gave data; empty ones since the last that did
    prev,       \* prev_ver in NVS
    marked,     \* stableMarked (Arduino)
    faults, releases,
    announced,  \* history: version of the last "applied", until a switch
    replaced,   \* history: the version that ran when the slot was switched
    slip,       \* history: prev_ver and the switch came apart
    hasty       \* history: an update overwrote the proven image

device == <<build, rollback>>
flash  == <<slot, st, boot>>
job    == <<ver, good, got, quiet>>
oms    == <<want, releases>>
notes  == <<announced, replaced, slip, hasty>>
vars   == <<device, flash, running, oms, step, job, prev, marked, faults, notes>>

TypeOK ==
    /\ build \in Builds /\ rollback \in BOOLEAN
    /\ slot \in [Slots -> Versions \cup {Junk}]
    /\ st \in [Slots -> States]
    /\ boot \in Slots /\ running \in Slots
    /\ want \in Versions /\ ver \in Versions
    /\ step \in {"idle", "begin", "writing", "verify", "save", "finish", "restart"}
    /\ good \in BOOLEAN
    /\ got \in 0..Chunks /\ quiet \in 0..ReadTimeout
    /\ prev \in Versions \cup {None}
    /\ marked \in BOOLEAN
    /\ faults \in 0..MaxFaults /\ releases \in 0..MaxReleases
    /\ announced \in Versions \cup {None} /\ replaced \in Versions \cup {None}
    /\ slip \in BOOLEAN /\ hasty \in BOOLEAN

(* A device flashed over USB with the version its dispatch names.          *)
Init ==
    /\ build \in Builds /\ rollback \in BOOLEAN
    /\ \E v \in Versions : slot = [s \in Slots |-> IF s = 0 THEN v ELSE Junk]
                           /\ want = v /\ ver = v
    /\ st = [s \in Slots |-> "undefined"]
    /\ boot = 0 /\ running = 0
    /\ step = "idle" /\ good = FALSE /\ got = 0 /\ quiet = 0
    /\ prev = None /\ marked = FALSE
    /\ faults = 0 /\ releases = 0
    /\ announced = None /\ replaced = None /\ slip = FALSE /\ hasty = FALSE

----------------------------------------------------------------------------
(* Operators marked "fault" are plausible slips of the definition after    *)
(* them; only the mutation runs use them.                                  *)

Fault  == faults < MaxFaults /\ faults' = faults + 1
Smooth == UNCHANGED faults
Current == slot[running]   \* FORGEKEY_FIRMWARE_VERSION

(* OMS replaces the retained dispatch.                                     *)
Release ==
    /\ releases < MaxReleases
    /\ releases' = releases + 1
    /\ want' \in Versions \ {want}
    /\ UNCHANGED <<device, flash, running, step, job, prev, marked, faults, notes>>

(* The handler is called with the retained dispatch: after a subscription, *)
(* that of rapid checking included.  A dispatch that does not parse, that  *)
(* policy rejects or that is deferred changes nothing.  Only the Arduino   *)
(* handler ignores the version it runs.                                    *)
WantedAlways == TRUE \* fault: the version of the dispatch is not looked at
Wanted == build = "arduino" => want # Current

Dispatch ==
    /\ step = "idle"
    /\ Wanted
    /\ step' = "begin" /\ ver' = want
    /\ UNCHANGED <<device, flash, running, oms, good, got, quiet, prev, marked,
                   faults, notes>>

(* Every failure exit: failed is reported and the handler returns; its     *)
(* locals are gone.                                                        *)
Over == got' = 0 /\ quiet' = 0 /\ UNCHANGED <<ver, good>>

Fail ==
    /\ step' = "idle" /\ Over
    /\ UNCHANGED <<device, flash, running, oms, prev, marked, notes>>

(* The connection, the answer's head and Update.begin, or                  *)
(* esp_https_ota_begin, which erase the slot that does not run; the latter *)
(* refuses while the running image is on probation.                        *)
TargetBoot == boot \* fault: the slot is that of the OTA data's other entry
Target == Other(running)

Begin ==
    /\ step = "begin"
    /\ ~(build = "c6" /\ st[running] = "pending")
    /\ step' = "writing" /\ got' = 0 /\ quiet' = 0
    /\ slot' = [slot EXCEPT ![Target] = Junk]
    /\ \/ good' = TRUE /\ Smooth
       \/ good' = FALSE /\ Fault
    /\ hasty' = (hasty \/ st[running] = "pending")
    /\ UNCHANGED <<device, st, boot, running, oms, ver, prev, marked,
                   announced, replaced, slip>>

BeginRefused == step = "begin" /\ build = "c6" /\ st[running] = "pending"
                /\ Smooth /\ Fail
BeginFails == step = "begin" /\ Fault /\ Fail

(* The download loop: data, written to flash as it comes, or none.         *)
Body == IF good THEN ver ELSE Junk

ReadData ==
    /\ step = "writing"
    /\ got' = got + 1 /\ quiet' = 0
    /\ IF got' = Chunks
       THEN step' = "verify" /\ slot' = [slot EXCEPT ![Target] = Body]
       ELSE UNCHANGED <<step, slot>>
    /\ UNCHANGED <<device, st, boot, running, oms, ver, good, prev, marked,
                   faults, notes>>

TimedOutNever == FALSE \* fault: lastDataMs is refreshed by empty reads
TimedOut == build = "arduino" /\ quiet = ReadTimeout

ReadNothing ==
    /\ step = "writing" /\ ~TimedOut
    /\ quiet' = IF quiet < ReadTimeout THEN quiet + 1 ELSE quiet
    /\ UNCHANGED <<device, flash, running, oms, step, ver, good, got, prev, marked,
                   faults, notes>>

ReadTimesOut == step = "writing" /\ TimedOut /\ Smooth /\ Fail

(* The connection closes, the flash refuses a write or, on the C6, the     *)
(* first request fails.                                                    *)
WriteFails == step = "writing" /\ Fault /\ Fail

(* The C6 takes an empty read of a finished transfer for the end, whatever *)
(* it has received: esp_http_client_perform has read the body before.      *)
ReadEnds ==
    /\ step = "writing" /\ build = "c6" /\ Fault
    /\ step' = "verify"
    /\ UNCHANGED <<device, flash, running, oms, job, prev, marked, notes>>

(* The digest against the dispatch's, then the signature over it.          *)
ChecksLength == TRUE \* fault: what was received is not compared
Checks == slot[Target] = ver

Verify ==
    /\ step = "verify" /\ Checks
    /\ step' = IF build = "c6" THEN "save" ELSE "finish"
    /\ UNCHANGED <<device, flash, running, oms, job, prev, marked, faults, notes>>

VerifyFails ==
    /\ step = "verify"
    /\ \/ ~Checks /\ Smooth
       \/ build = "arduino" /\ Fault   \* the policy no longer allows it
    /\ Fail

(* prev_ver, whose failure nobody sees: before the switch on the C6, after *)
(* it in the Arduino build.                                                *)
SavedNew == ver \* fault: the version installed is stored
Saved == Current

Save ==
    /\ step = "save"
    /\ step' = IF build = "c6" THEN "finish" ELSE "restart"
    /\ \/ prev' = Saved /\ Smooth /\ slip' = FALSE
       \/ UNCHANGED prev /\ Fault /\ slip' = TRUE
    /\ UNCHANGED <<device, flash, running, oms, job, marked, announced,
                   replaced, hasty>>

(* Update.end or esp_https_ota_finish: the OTA data selects the new image. *)
Finish ==
    /\ step = "finish"
    /\ step' = IF build = "c6" THEN "restart" ELSE "save"
    /\ boot' = Target
    /\ st' = [st EXCEPT ![Target] = IF rollback THEN "new" ELSE "undefined"]
    /\ replaced' = Current /\ announced' = None
    /\ slip' = (slip \/ build = "arduino")   \* until the save
    /\ UNCHANGED <<device, slot, running, oms, job, prev, marked, faults, hasty>>

(* The Arduino build reports the failure, the C6 ignores it and restarts.  *)
FinishFailsSwitched == \* fault: fails after the OTA data were written
    /\ step = "finish" /\ Fault
    /\ step' = "idle" /\ boot' = Target
    /\ UNCHANGED <<device, slot, st, running, oms, job, prev, marked, notes>>
FinishFails ==
    /\ step = "finish" /\ Fault
    /\ IF build = "c6"
       THEN step' = "restart" /\ slip' = TRUE
       ELSE step' = "idle" /\ UNCHANGED slip
    /\ UNCHANGED <<device, flash, running, oms, job, prev, marked, announced,
                   replaced, hasty>>

(* The bootloader: an image that was on probation when the device reset is *)
(* aborted and the other one preferred; it never starts a broken image.    *)
Whole(s) == slot[s] # Junk

Bootload ==
    LET wanted == IF st[boot] = "pending" THEN Other(boot) ELSE boot
        fine   == Whole(wanted) /\ st[wanted] # "aborted"
        seen   == [st EXCEPT ![boot] = IF @ = "pending" THEN "aborted" ELSE @]
    IN  \E s \in Slots :
            /\ Whole(s)
            /\ fine => s = wanted
            /\ boot' = s /\ running' = s
            /\ st' = [seen EXCEPT ![s] = IF @ = "new" THEN "pending" ELSE @]

Restarting ==
    /\ Bootload
    /\ step' = "idle" /\ marked' = FALSE /\ Over
    /\ UNCHANGED <<device, slot, oms, prev, announced, replaced, hasty>>

Restart == step = "restart" /\ Restarting /\ UNCHANGED <<faults, slip>>

(* A reset at any moment.  On the C6, one between the saving of prev_ver   *)
(* and the switch leaves the version that still runs as the previous one.  *)
Reset ==
    /\ Fault /\ Restarting
    /\ slip' = (slip \/ (build = "c6" /\ step = "finish"))

(* ota_mark_stable, when the main loop of the C6 sees the broker connect,  *)
(* whatever the esp-mqtt task does; markStableIfPending, after the Arduino *)
(* loop published, once per boot.  The latter announces "applied", which   *)
(* may be lost.                                                            *)
MayMark == build = "arduino" => step = "idle" /\ ~marked

AnnouncedAnyway(ok) == TRUE \* fault: announced whatever marking returned
Announced(ok) == ok   \* esp_ota_mark_app_valid_cancel_rollback() == ESP_OK

MarkStable ==
    /\ MayMark
    /\ st[running] = "pending"
    /\ marked' = (build = "arduino")
    /\ \E ok \in BOOLEAN :
          /\ IF ok THEN st' = [st EXCEPT ![running] = "valid"] /\ Smooth
                   ELSE UNCHANGED st /\ Fault
          /\ \/ UNCHANGED announced
             \/ build = "arduino" /\ Announced(ok) /\ announced' = Current
    /\ UNCHANGED <<device, slot, boot, running, oms, step, job, prev, replaced,
                   slip, hasty>>

NothingToMark ==
    /\ MayMark /\ build = "arduino"
    /\ st[running] # "pending"
    /\ marked' = TRUE
    /\ UNCHANGED <<device, flash, running, oms, step, job, prev, faults, notes>>

----------------------------------------------------------------------------
(* What a handler does by itself once it runs, and what may hit it.        *)
Statement ==
    \/ Begin \/ BeginRefused
    \/ ReadNothing \/ ReadTimesOut
    \/ Verify \/ VerifyFails
    \/ Save \/ Finish \/ Restart

Failure == BeginFails \/ WriteFails \/ ReadEnds \/ FinishFails \/ Reset

Next == Release \/ Dispatch \/ Statement \/ ReadData \/ Failure
        \/ MarkStable \/ NothingToMark

(* The handler runs: its task is scheduled.  Nothing is assumed of OMS,    *)
(* of the broker or of the network: data may never come.                   *)
Fairness == WF_vars(Statement)
Spec == Init /\ [][Next]_vars /\ Fairness

----------------------------------------------------------------------------
(* The slot the OTA data selects and the one that runs always hold a       *)
(* complete image whose digest and signature were verified, whatever step  *)
(* of an update a reset, a failed call or a corrupt download meets.        *)
BootsVerified == Whole(boot) /\ Whole(running)

Proven(s) == Whole(s) /\ st[s] \in {"valid", "undefined"}

(* With rollback enabled, an image that was confirmed, or flashed over USB,*)
(* runs or is there to fall back to, unless an update overwrote it while   *)
(* its successor was on probation, which the Arduino build lets happen.    *)
ProvenSurvives ==
    rollback /\ ~hasty =>
        Proven(running) \/ (st[running] = "pending" /\ Proven(Other(running)))

(* "applied" is final: once the device has announced a version it runs it  *)
(* after any number of resets, until a later update switches the slot.     *)
AppliedRuns == announced # None => Current = announced

(* prev_ver names the version that ran when the slot was last switched,    *)
(* although the builds store it on different sides of the switch, unless   *)
(* the store or the switch failed or a reset came between the two.         *)
PrevVersionTrue ==
    ~slip /\ ~(build = "c6" /\ step = "finish") => prev = replaced

(* An update is atomic: whatever its steps, failures and resets, the image *)
(* that runs is exchanged at a restart only, for one that was whole when   *)
(* it was armed, and an image on trial gives way to the one before it.     *)
Standing ==
    CASE Proven(running) -> "proven"
      [] st[running] = "pending" /\ Proven(Other(running)) -> "trial"
      [] OTHER -> "lost"
Policy == INSTANCE UpdatePolicy WITH
    runs <- Current, spare <- slot[Other(running)],
    armed <- boot # running, standing <- Standing
PolicySpec == Policy!Spec

(* A download ends: with an image, an error or a reset.  Only the C6 reads *)
(* for ever, from a server that keeps silent for longer than the Arduino   *)
(* build waits.                                                            *)
DownloadEnds ==
    []<>(step # "writing" \/ (build = "c6" /\ quiet = ReadTimeout))

(* The Arduino build stops reinstalling: with the dispatch retained, and   *)
(* delivered again after every restart, updates come to an end.            *)
Settles == <>[](build = "arduino" => step # "restart")

=============================================================================

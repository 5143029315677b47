-------------------------------- MODULE Wifi --------------------------------
(***************************************************************************)
(* How both builds find a network: the Arduino build tries its stored      *)
(* profiles one after the other, then the portal, and tests the profiles   *)
(* that a set_wifi brings before it stores them (wifi_setup/captive.cpp);  *)
(* the C6 has one profile, a portal of 300 s and a driver that retries by  *)
(* itself (wifi_setup.c).  The networks need a password.                   *)
(*                                                                         *)
(* Time is in units of the model's clock.  The Arduino build starts its    *)
(* task watchdog before it looks for a network and feeds it in loop() only.*)
(***************************************************************************)
EXTENDS DeviceParameters, Sequences

VARIABLES
    build,   \* "arduino" or "c6"
    faults,  \* how often something failed or changed outside so far
    stored,  \* the profiles in NVS
    tested,  \* the profiles of the set_wifi being tested
    air,     \* what each network is good for: OMS is reached from it or not
    link,    \* the network the device is associated with
    conf,    \* what the driver is configured for and retries by itself
    socket,  \* client->connected() holds
    mode,    \* what the main task is doing
    todo,    \* the networks it still has to try
    unfed    \* since the task watchdog was fed

vars == <<build, faults, stored, tested, air, link, conf, socket, mode, todo, unfed>>

(* Profiles in the order they are tried; those whose password is missing   *)
(* or wrong; and whether several all have the priority they have by default*)
Names(o) == {o[i] : i \in DOMAIN o}
Orders   == {o \in UNION {[1..k -> Networks] : k \in 0..MaxProfiles} :
                \A i, j \in DOMAIN o : o[i] = o[j] => i = j}
Profiles == [order : Orders, bare : SUBSET Networks, equal : BOOLEAN]
Usable(profiles) == Names(profiles.order) \ profiles.bare
Nothing  == [order |-> <<>>, bare |-> {}, equal |-> FALSE]

TypeOK ==
    /\ build \in {"arduino", "c6"} /\ faults \in 0..MaxFaults
    /\ {stored, tested} \subseteq Profiles
    /\ air \in [Networks -> {"down", "joins", "reaches"}]
    /\ {link, conf} \subseteq Networks \cup {None}
    /\ socket \in BOOLEAN
    /\ mode \in {"boot", "portal", "last", "loop", "test", "probe", "restore"}
    /\ todo \in Orders
    /\ unfed \in 0..BiteTime

Init ==
    /\ build \in {"arduino", "c6"} /\ faults = 0
    /\ stored = Nothing /\ tested = Nothing
    /\ air \in [Networks -> {"down", "joins", "reaches"}]
    /\ link = None /\ conf = None /\ socket = FALSE
    /\ mode = "boot" /\ todo = <<>> /\ unfed = 0

----------------------------------------------------------------------------
(* Operators marked "fault" are plausible slips of the definition after    *)
(* them; only the mutation runs use them.                                  *)

Fault == faults < MaxFaults /\ faults' = faults + 1

Heard  == link # None /\ air[link] = "reaches"
Online == mode = "loop" /\ Heard

(* A restart, whoever causes it.  What the driver was configured for may   *)
(* be in its own NVS or not.                                               *)
Restarted(profiles, driver) ==
    /\ mode' = "boot" /\ todo' = profiles.order
    /\ link' = None /\ conf' \in {driver, None}
    /\ socket' = FALSE /\ unfed' = 0 /\ tested' = Nothing

(* sortProfiles, at the next load: profiles of the same priority are in    *)
(* the order of their last success, whose epochs compare only if the clock *)
(* was set; none changes places with one of another priority.              *)
Resorted(profiles) ==
    IF profiles.equal
    THEN {[profiles EXCEPT !.order = o] :
             o \in {x \in Orders : Names(x) = Names(profiles.order)}}
    ELSE {profiles}

(* The main task blocks for d; the task watchdog restarts the device that  *)
(* it was not fed in time.                                                 *)
Blocks(d) == unfed + d <= BiteTime /\ unfed' = unfed + d

Bitten(d) ==
    /\ build = "arduino" /\ unfed + d > BiteTime
    /\ Restarted(stored, conf)
    /\ UNCHANGED <<build, faults, stored, air>>

Enters(place) == mode' = place

(* connectProfile with the next network: 20 s at most.                     *)
Candidate == Head(todo)
PasswordStored == Candidate \notin stored.bare \* fault: that of the stored profile
Password  == IF mode = "test" THEN Candidate \notin tested.bare
                              ELSE Candidate \notin stored.bare

Trying == build = "arduino" /\ mode \in {"boot", "test", "restore"} /\ todo # <<>>

TryFails ==
    /\ Trying /\ (air[Candidate] = "down" \/ ~Password)
    /\ \/ /\ Blocks(ConnectTime)
          /\ link' = None /\ conf' = None \* disconnectForNextAttempt
          /\ socket' = FALSE
          /\ todo' = Tail(todo)
          /\ UNCHANGED <<build, faults, stored, tested, air, mode>>
       \/ Bitten(ConnectTime)

(* The connection of before may still look alive to the MQTT client.       *)
TryJoins ==
    /\ Trying /\ air[Candidate] # "down" /\ Password
    /\ \E d \in 0..ConnectTime :
          \/ /\ IF mode = "test" THEN Blocks(d)
                                 ELSE unfed + d <= BiteTime /\ unfed' = 0
             /\ link' = Candidate /\ conf' = Candidate
             /\ socket' \in {socket, FALSE}
             /\ Enters(IF mode = "test" THEN "probe" ELSE "loop")
             /\ todo' = IF mode = "test" THEN Tail(todo) ELSE <<>>
             /\ stored' \in IF mode = "boot" THEN Resorted(stored) ELSE {stored}
             /\ UNCHANGED <<build, faults, tested, air>>
          \/ Bitten(d)

(* connectOrPortal after the last profile: autoConnect of the library uses *)
(* what the driver has, or raises the portal.                              *)
Reached(n) == n # None /\ air[n] # "down"

AutoConnect ==
    /\ build = "arduino" /\ mode = "boot" /\ todo = <<>>
    /\ \/ /\ Reached(conf)
          /\ link' = conf /\ unfed' = 0 /\ Enters("loop")
          /\ stored' \in {[Nothing EXCEPT !.order = <<conf>>, !.bare = {conf}], stored}
       \/ ~Reached(conf) /\ Enters("portal") /\ UNCHANGED <<link, stored, unfed>>
    /\ UNCHANGED <<build, faults, tested, air, conf, socket, todo>>

(* Somebody fills in the form with the password of a network; the profile  *)
(* that replaces all others is stored without it, or storing it fails.     *)
PortalJoins(n) ==
    /\ build = "arduino" /\ mode = "portal" /\ air[n] # "down"
    /\ link' = n /\ conf' = n /\ unfed' = 0 /\ Enters("loop")
    /\ \/ stored' = [Nothing EXCEPT !.order = <<n>>, !.bare = {n}] /\ UNCHANGED faults
       \/ Fault /\ UNCHANGED stored
    /\ UNCHANGED <<build, tested, air, socket, todo>>

PortalWaits ==
    /\ build = "arduino" /\ mode = "portal"
    /\ \/ Blocks(1) /\ UNCHANGED <<build, faults, stored, tested, air, link, conf, socket, mode, todo>>
       \/ Bitten(1)

(* applyDesiredState: the profiles OMS sends, some with a wrong password.  *)
(* One that comes without any keeps that of the stored one with its name.  *)
SetWifi ==
    /\ build = "arduino" /\ Online
    /\ \E o \in Orders \ {<<>>}, e \in BOOLEAN :
       \E without \in SUBSET Names(o) : \E wrong \in SUBSET (Names(o) \ without) :
          LET known == Usable(stored)
          IN  /\ e => Len(o) > 1
              /\ tested' = [order |-> o, bare |-> (without \ known) \cup wrong, equal |-> e]
              /\ todo' = o
    /\ Enters("test") /\ socket' = TRUE /\ unfed' = 0
    /\ UNCHANGED <<build, faults, stored, air, link, conf>>

(* probeReachability, at once if the client takes itself for connected;    *)
(* then the whole set is stored, or could not be.                          *)
ProbePasses ==
    /\ mode = "probe" /\ (socket \/ Heard)
    /\ \/ stored' \in Resorted(tested) /\ UNCHANGED faults
       \/ Fault /\ UNCHANGED stored
    /\ Enters("loop") /\ tested' = Nothing /\ todo' = <<>> /\ unfed' = 0
    /\ UNCHANGED <<build, air, link, conf, socket>>

ProbeFails ==
    /\ mode = "probe" /\ ~socket /\ ~Heard
    /\ \/ /\ Blocks(ProbeTime)
          /\ link' = None /\ conf' = None
          /\ Enters("test")
          /\ UNCHANGED <<build, faults, stored, tested, air, socket, todo>>
       \/ Bitten(ProbeTime)

(* No candidate passed: the stored profiles are tried again, once.         *)
AllFail ==
    /\ mode = "test" /\ todo = <<>>
    /\ Enters("restore") /\ tested' = Nothing /\ todo' = stored.order
    /\ UNCHANGED <<build, faults, stored, air, link, conf, socket, unfed>>

RestoreFails ==
    /\ mode = "restore" /\ todo = <<>>
    /\ Enters("loop") /\ unfed' = 0
    /\ UNCHANGED <<build, faults, stored, tested, air, link, conf, socket, todo>>

----------------------------------------------------------------------------
(* The C6: the driver has retried since esp_wifi_start; main waits for it  *)
(* 30 s, and again after the portal.                                       *)
CConnect ==
    /\ build = "c6" /\ mode = "boot"
    /\ IF stored.order = <<>> THEN UNCHANGED <<conf, link, socket>> /\ Enters("portal")
       ELSE LET n == stored.order[1]
            IN  /\ conf' = IF n \in stored.bare THEN None ELSE n
                /\ socket' = FALSE
                /\ IF Reached(conf') THEN link' = n /\ Enters("loop")
                                     ELSE link' = None /\ Enters("portal")
    /\ todo' = <<>>
    /\ UNCHANGED <<build, faults, stored, tested, air, unfed>>

(* The form: its two keys are written one after the other, and the driver  *)
(* is stopped without a new configuration.                                 *)
CForm(n) ==
    /\ build = "c6" /\ mode = "portal"
    /\ \/ stored' = [Nothing EXCEPT !.order = <<n>>] /\ UNCHANGED faults
       \/ Fault /\ stored' \in {stored, [Nothing EXCEPT !.order = <<n>>, !.bare = {n}]}
    /\ link' = None /\ conf' = None /\ socket' = FALSE
    /\ UNCHANGED <<build, tested, air, mode, todo, unfed>>

CPortalEnds ==
    /\ build = "c6" /\ mode = "portal"
    /\ Enters("last")
    /\ UNCHANGED <<build, faults, stored, tested, air, link, conf, socket, todo, unfed>>

CLast ==
    /\ build = "c6" /\ mode = "last"
    /\ \/ Reached(conf) /\ link' = conf /\ Enters("loop")
          /\ UNCHANGED <<conf, socket, todo, unfed, tested>>
       \/ ~Reached(conf) /\ Restarted(stored, conf)
    /\ UNCHANGED <<build, faults, stored, air>>

----------------------------------------------------------------------------
(* Both builds' loop.  The driver rejoins what it is configured for.       *)
Relink ==
    /\ mode \in IF build = "arduino" THEN {"loop", "probe"} ELSE {"loop", "portal", "last"}
    /\ link = None /\ Reached(conf)
    /\ link' = conf
    /\ UNCHANGED <<build, faults, stored, tested, air, conf, socket, mode, todo, unfed>>

(* The watchdog restarts a device that stays offline: its recovery of WiFi *)
(* only asks the driver to reconnect.                                      *)
StrandedLinked == mode = "loop" /\ ~Online /\ link # None \* fault: a recovery counts as success
Stranded == mode = "loop" /\ ~Online

GiveUp ==
    /\ Stranded
    /\ Restarted(stored, conf)
    /\ UNCHANGED <<build, faults, stored, air>>

(* forget_wifi; opening the NVS may fail.                                  *)
Forget ==
    /\ Online
    /\ \/ stored' = Nothing /\ UNCHANGED faults
       \/ Fault /\ UNCHANGED stored
    /\ Restarted(stored', IF build = "arduino" THEN None ELSE conf)
    /\ UNCHANGED <<build, air>>

(* A network changes under the device; a device loses its power.           *)
Changes ==
    /\ Fault
    /\ \E n \in Networks, a \in {"down", "joins", "reaches"} :
          /\ a # air[n]
          /\ air' = [air EXCEPT ![n] = a]
          /\ link' = IF link = n /\ a = "down" THEN None ELSE link
          /\ socket' = (socket /\ link # n)
    /\ UNCHANGED <<build, stored, tested, conf, mode, todo, unfed>>

Reset == Fault /\ Restarted(stored, conf) /\ UNCHANGED <<build, stored, air>>

(* What goes on without anybody's doing.                                   *)
Statement ==
    \/ TryFails \/ TryJoins \/ AutoConnect \/ PortalWaits \/ ProbePasses \/ ProbeFails
    \/ AllFail \/ RestoreFails \/ CConnect \/ CPortalEnds \/ CLast \/ Relink
    \/ GiveUp

Next ==
    \/ Statement \/ SetWifi \/ Forget \/ Changes \/ Reset
    \/ \E n \in Networks : PortalJoins(n) \/ CForm(n)

Spec == Init /\ [][Next]_vars /\ WF_vars(Statement)

----------------------------------------------------------------------------
(* captive.cpp:494: a set_wifi replaces the profiles only when the device  *)
(* has just joined one of the new ones with the password it stores: no set *)
(* that OMS gets wrong, whatever of it failed before, replaces what works. *)
CommitsJoined ==
    [][stored' # stored /\ mode \in {"test", "probe", "restore"} =>
          conf \in Usable(stored')]_vars

(* The i-th stored profile brings the device online at the next boot: it   *)
(* has its password and reaches OMS, and the attempts before it, which     *)
(* must fail, leave it the time of its own before the task watchdog bites. *)
Sound(i) ==
    LET n == stored.order[i]
    IN  /\ n \notin stored.bare /\ air[n] = "reaches"
        /\ \A j \in 1..(i - 1) : stored.order[j] \in stored.bare \/ air[stored.order[j]] = "down"
        /\ i * ConnectTime <= BiteTime
        /\ ~stored.equal

(* captive.cpp:393, wifi_setup.c:353, watchdog_manager.cpp:217: whatever   *)
(* was tested, refused, forgotten or reset in between, a device with a     *)
(* sound profile gets back online: no failed set_wifi strands it.          *)
Rejoins ==
    <>[](\E i \in DOMAIN stored.order : Sound(i))
        => []<>Online

=============================================================================

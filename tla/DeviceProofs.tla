---------------------------- MODULE DeviceProofs ----------------------------
(***************************************************************************)
(* What a device promises, for all values of the parameters: the promises  *)
(* of its components carry over to their composition.  The arguments are   *)
(* those of the components' own proofs, cited by name; the relays' is here.*)
(***************************************************************************)
EXTENDS Device, TLAPS, FiniteSetTheorems, SequenceTheorems,
        WellFoundedInduction

(* Each component's invariant holds while it is the one that moves; at     *)
(* rest only its promise is needed, which no step of another disturbs.     *)
OtaInv ==
    /\ focus = "ota" => O!IInv
    /\ focus # "ota" => prev = replaced
    /\ SlotsSound /\ VersionsTrue

IdentityInv ==
    /\ focus = "identity" => P!IInv
    /\ IdentityWhole /\ NothingResurfaces

(* The place of the result is free while the inference task works, and the *)
(* tick triggers it only when it has seen it idle and taken its result.    *)
HandOver ==
    /\ busy <=> task # "wait"
    /\ task # "wait" => ~ready /\ pc # "count"
    /\ pc \in {"count", "trigger"} /\ ~snap.busy => task = "wait" /\ ~ready
    /\ pc = "count" => snap.ready /\ ~ready

CameraInv == C!TypeOK /\ HandOver /\ NothingLost

DisplayInv == (focus = "display" => E!IInv) /\ ShownUnlessMissed

(* While a channel's contacts move nobody vouches for it; once they have,  *)
(* they are where the command wants them.                                  *)
Moving ==
    /\ coil \in {"pulse", "flag"} => target.channel \notin sureRam \cup sureNvs
    /\ coil = "flag" => contacts[target.channel] = target.on

RelayInv == R!TypeOK /\ Moving /\ RelayRemembered

(* A sensor's clock has not run for longer than the ticks at which the pin *)
(* was another account for; that of the Arduino build starts at the first. *)
Readings == [value : BOOLEAN, known : BOOLEAN, since : Int, differ : Nat]

Aged(r) ==
    IF build = "c6" THEN r.since <= r.differ * TickStall
    ELSE r.since = L!Never \/ r.since + TickStall <= r.differ * TickStall

(* Nor has it run for less, nor for the whole debounce time.               *)
Counted(r) == r.since \in L!Never..(Debounce - 1) /\ r.differ <= r.since + 1

SensorsInv ==
    /\ L!TypeOK
    /\ \A s \in L!Sensors : Counted(sense[s])
    /\ focus = "sensors" => \A s \in L!Sensors : Aged(sense[s])

(* The candidates are of the set being tested, and what is being probed is *)
(* one of them, joined with its password.                                  *)
NetworkInv ==
    /\ mode \in {"test", "probe"} => W!Names(todo) \subseteq W!Names(tested.order)
    /\ mode = "probe" => conf \in W!Usable(tested)

Inv == OtaInv /\ IdentityInv /\ CameraInv /\ DisplayInv /\ RelayInv /\ SensorsInv
       /\ NetworkInv /\ TypeOK

----------------------------------------------------------------------------
(* What each component proves of itself holds in a device.                 *)
LEMMA OtaProved ==
    /\ O!Init => O!IInv
    /\ O!IInv /\ [O!Next]_O!vars => O!IInv'
    /\ O!IInv => SlotsSound /\ VersionsTrue
<1> USE VersionsAssumption, DownloadAssumption, BoundsAssumption, CounterAssumption,
        ClockAssumption, ChannelsAssumption, PanelAssumption, NetworksAssumption,
        SensorsAssumption
<1> QED
  BY O!InitIInv, O!StepIInv, O!Promises
  DEF SlotsSound, VersionsTrue

LEMMA IdentityProved ==
    /\ P!Init => P!IInv
    /\ P!IInv /\ [P!Next]_P!vars => P!IInv'
    /\ P!IInv => IdentityWhole /\ NothingResurfaces
<1> USE VersionsAssumption, DownloadAssumption, BoundsAssumption, CounterAssumption,
        ClockAssumption, ChannelsAssumption, PanelAssumption, NetworksAssumption,
        SensorsAssumption
<1> QED
  BY P!InitIInv, P!StepIInv, P!Promises DEF IdentityWhole, NothingResurfaces

LEMMA DisplayProved ==
    /\ E!Init => E!IInv
    /\ E!IInv /\ [E!Next]_E!vars => E!IInv'
    /\ E!IInv => ShownUnlessMissed
<1> USE VersionsAssumption, DownloadAssumption, BoundsAssumption, CounterAssumption,
        ClockAssumption, ChannelsAssumption, PanelAssumption, NetworksAssumption,
        SensorsAssumption
<1> QED
  BY E!InitIInv, E!StepIInv, E!Promises DEF ShownUnlessMissed

----------------------------------------------------------------------------
(* How the time that ticks account for grows.                              *)
LEMMA OneMoreTick ==
    /\ 0 * TickStall = 0
    /\ \A n \in Nat : /\ (n + 1) * TickStall = n * TickStall + TickStall
                      /\ n * TickStall \in Nat
  BY SensorsAssumption DEF SensorsAssumption

LEMMA UnreadFacts == L!Unread \in Readings /\ Aged(L!Unread) /\ Counted(L!Unread)
<1>1. L!Unread \in Readings /\ L!Unread.since = -1 /\ L!Unread.differ = 0
  <2>1. (build = "arduino") \in BOOLEAN /\ FALSE \in BOOLEAN
    OBVIOUS
  <2> QED
    BY <2>1 DEF L!Unread, L!Never, Readings
<1> QED
  BY <1>1, OneMoreTick, SensorsAssumption
  DEF SensorsAssumption, Aged, Counted, L!Never

(* The type of what a sensor remembers, in LockDevice.                     *)
Remembering == [value : BOOLEAN, known : BOOLEAN,
                since : {L!Never} \cup 0..Debounce, differ : 0..Debounce]

LEMMA ReadingTypes ==
  /\ \A r \in Remembering : r \in Readings
  /\ \A r \in Readings : Counted(r) => r \in Remembering
<1>1. ASSUME NEW r \in Remembering
      PROVE  r \in Readings
  BY <1>1, SensorsAssumption DEF SensorsAssumption, Remembering, Readings, L!Never
<1>2. ASSUME NEW r \in Readings, Counted(r)
      PROVE  r \in Remembering
  <2>1. r.since \in {L!Never} \cup 0..Debounce /\ r.differ \in 0..Debounce
    BY <1>2, SensorsAssumption DEF SensorsAssumption, Readings, Counted, L!Never
  <2> QED
    BY <2>1 DEF Remembering, Readings
<1> QED
  BY <1>1, <1>2

(* The people counter.                                                     *)
(* A set of numbers that is not empty has a least member.                  *)
LEMMA Least ==
  ASSUME NEW numbers, numbers \subseteq Nat, numbers # {}
  PROVE  \E n \in numbers : \A m \in numbers : n <= m
<1> DEFINE less == {p \in Nat \X Nat : p[1] < p[2]}
<1>1. IsWellFoundedOn(less, Nat)
  BY NatLessThanWellFounded DEF OpToRel
<1>2. \A m, n \in Nat : m < n => <<m, n>> \in less
  OBVIOUS
<1> HIDE DEF less
<1>3. PICK n \in numbers : \A m \in numbers : ~ (<<m, n>> \in less)
  BY <1>1, WFMin
<1>4. \A m \in numbers : m \in Nat /\ n \in Nat /\ ~ (m < n)
  BY <1>2, <1>3
<1> QED
  BY <1>4

(* No count has more votes than there are detections.                      *)
LEMMA VotesBounded ==
  ASSUME NEW history \in [1..HistoryLength -> C!Detected], NEW people
  PROVE  C!Votes(history, people) \in 0..HistoryLength
<1> DEFINE voters == {n \in DOMAIN history : history[n] = people}
<1>1. HistoryLength \in Nat
  BY CounterAssumption DEF CounterAssumption
<1>2. IsFiniteSet(1..HistoryLength) /\ Cardinality(1..HistoryLength) = HistoryLength
  BY <1>1, FS_Interval
<1>3. voters \in SUBSET (1..HistoryLength)
  OBVIOUS
<1>4. C!Votes(history, people) = Cardinality(voters)
  BY DEF C!Votes, C!Cardinality, Cardinality
<1> HIDE DEF voters
<1>5. IsFiniteSet(voters) /\ Cardinality(voters) <= Cardinality(1..HistoryLength)
  BY <1>2, <1>3, FS_Subset
<1>6. Cardinality(voters) \in Nat
  BY <1>5, FS_CardinalityType
<1> QED
  BY <1>1, <1>2, <1>4, <1>5, <1>6

(* calculateStableCount always finds a winner: the least of those with the *)
(* most votes.                                                             *)
LEMMA StableCountType ==
  ASSUME NEW history \in [1..HistoryLength -> C!Detected]
  PROVE  /\ C!StableCount(history) \in 0..MaxPeople
         /\ \A other \in 0..MaxPeople :
                C!Votes(history, other) <= C!Votes(history, C!StableCount(history))
<1> DEFINE V(people)  == C!Votes(history, people)
           Short      == {HistoryLength - V(people) : people \in 0..MaxPeople}
<1>1. HistoryLength \in Nat /\ MaxPeople \in Nat
  BY CounterAssumption DEF CounterAssumption
<1>2. \A people : V(people) \in 0..HistoryLength
  BY VotesBounded
<1> HIDE DEF V
<1>3. Short \subseteq Nat /\ HistoryLength - V(0) \in Short
  BY <1>1, <1>2
<1>4. PICK fewest \in Short : \A m \in Short : fewest <= m
  BY <1>3, Least
<1>5. \A other \in 0..MaxPeople : fewest <= HistoryLength - V(other)
  BY <1>4
<1> DEFINE Winners == {people \in 0..MaxPeople : HistoryLength - V(people) = fewest}
<1>6. Winners \subseteq Nat /\ Winners # {}
  BY <1>1, <1>4
<1>7. PICK first \in Winners : \A m \in Winners : first <= m
  BY <1>6, Least
<1>8. first \in 0..MaxPeople /\ HistoryLength - V(first) = fewest
  BY <1>7
<1>9. ASSUME NEW other \in 0..MaxPeople
      PROVE  V(other) <= V(first) /\ (other < first => V(other) < V(first))
  <2>1. V(other) <= V(first)
    BY <1>1, <1>2, <1>5, <1>8
  <2>2. ASSUME other < first, V(other) = V(first)
        PROVE  FALSE
    <3>1. other \in Winners
      BY <1>8, <2>2
    <3> QED
      BY <1>1, <1>7, <2>2, <3>1
  <2> QED
    BY <1>2, <2>1, <2>2
<1>10. \E people \in 0..MaxPeople : \A other \in 0..MaxPeople :
          V(other) <= V(people) /\ (other < people => V(other) < V(people))
  BY <1>8, <1>9
<1> QED
  BY <1>10 DEF C!StableCount, V

(* The history moves up by one.                                            *)
LEMMA ShiftedType ==
  ASSUME NEW D, NEW history \in [1..HistoryLength -> D], NEW d \in D
  PROVE  Append(Tail(history), d) \in [1..HistoryLength -> D]
<1>1. HistoryLength \in Nat \ {0}
  BY CounterAssumption DEF CounterAssumption
<1>2. history \in Seq(D) /\ Len(history) = HistoryLength
  BY <1>1
<1>3. Tail(history) \in Seq(D) /\ Len(Tail(history)) = HistoryLength - 1
  BY <1>1, <1>2
<1>4. /\ Append(Tail(history), d) \in Seq(D)
      /\ Len(Append(Tail(history), d)) = HistoryLength
  BY <1>1, <1>3
<1> QED
  BY <1>4, LenProperties

LEMMA BlankFacts == 0 \in C!Detected /\ C!Blank \in C!Snapshots
<1>1. 0 \in C!Detected
  BY CounterAssumption DEF CounterAssumption, C!Detected
<1> QED
  BY <1>1 DEF C!Blank, C!Snapshots

LEMMA CameraInit == C!Init => CameraInv
<1> SUFFICES ASSUME C!Init
             PROVE  CameraInv
  OBVIOUS
<1>1. 0 \in C!Detected /\ C!Blank \in C!Snapshots
  BY BlankFacts
<1>2. /\ busy \in BOOLEAN /\ ready \in BOOLEAN /\ changed \in BOOLEAN
      /\ connected \in BOOLEAN /\ oneShot \in BOOLEAN /\ provisioned \in BOOLEAN
  BY Zenon DEF C!Init
<1>3. /\ 0 \in 0..MaxPeople /\ 0 \in 0..SlowInterval
      /\ lastDone \in {C!Never} \cup 0..(QuietWindow + 1)
  BY CounterAssumption, ClockAssumption
  DEF CounterAssumption, ClockAssumption, C!Init
<1>4. C!TypeOK
  BY <1>1, <1>2, <1>3 DEF C!Init, C!TypeOK
<1>5. HandOver /\ NothingLost
  BY DEF C!Init, HandOver, NothingLost, C!NothingLost
<1> QED
  BY <1>4, <1>5 DEF CameraInv

(* Time, counted no further than anything compares it with.                *)
LEMMA OlderType ==
  /\ \A age \in 0..SlowInterval : C!Older(age, SlowInterval) \in 0..SlowInterval
  /\ \A age \in {C!Never} \cup 0..(QuietWindow + 1) :
         C!Older(age, QuietWindow + 1) \in {C!Never} \cup 0..(QuietWindow + 1)
  BY ClockAssumption DEF ClockAssumption, C!Older, C!Never

LEMMA CameraMoves == CameraInv /\ [C!Next]_C!vars => CameraInv'
<1> SUFFICES ASSUME CameraInv, [C!Next]_C!vars
             PROVE  CameraInv'
  OBVIOUS
<1> USE DEF CameraInv, C!TypeOK, HandOver, NothingLost, C!NothingLost, C!Snapshots,
            C!shared, C!counter, C!link
<1>1. CASE C!Advance
  BY <1>1, OlderType DEF C!Advance
<1>2. CASE C!LinkChange
  <2>1. (~connected) \in BOOLEAN
    OBVIOUS
  <2>2. connected' \in BOOLEAN
    BY <1>2, <2>1, Zenon DEF C!LinkChange
  <2> QED
    BY <1>2, <2>2 DEF C!LinkChange
<1>3. CASE C!RequestCapture
  BY <1>3 DEF C!RequestCapture
<1>4. CASE C!Detect
  BY <1>4 DEF C!Detect
<1>5. CASE C!InferenceDone
  <2>1. busy' \in BOOLEAN /\ ~busy' /\ ready' \in BOOLEAN /\ ready'
    BY <1>5, Zenon DEF C!InferenceDone
  <2>2. lastDone' \in {C!Never} \cup 0..(QuietWindow + 1)
    BY <1>5, ClockAssumption DEF C!InferenceDone, ClockAssumption
  <2> QED
    BY <1>5, <2>1, <2>2, BlankFacts DEF C!InferenceDone
<1>6. CASE C!Snapshot
  BY <1>6 DEF C!Snapshot, C!Taken
<1>7. CASE C!Count
  <2>1. recent' = Append(Tail(recent), snap.people) /\ snap.people \in C!Detected
    BY <1>7 DEF C!Count
  <2>2. recent' \in [1..HistoryLength -> C!Detected]
    BY <2>1, ShiftedType
  <2>3. count' = C!StableCount(recent')
    BY <1>7 DEF C!Count
  <2>4. count' \in 0..MaxPeople
    BY <2>2, <2>3, StableCountType
  <2> QED
    BY <1>7, <2>2, <2>4 DEF C!Count, C!Flag
<1>8. CASE C!Trigger
  <2>1. lastRequest' \in 0..SlowInterval
    BY <1>8, ClockAssumption DEF C!Trigger, ClockAssumption
  <2> QED
    BY <1>8, <2>1 DEF C!Trigger, C!TriggerDue
<1>9. CASE C!NoTrigger
  BY <1>9 DEF C!NoTrigger, C!TriggerDue
<1>10. CASE C!Publish
  BY <1>10 DEF C!Publish
<1>11. CASE C!NoPublish
  BY <1>11 DEF C!NoPublish
<1>12. CASE C!Photo
  BY <1>12 DEF C!Photo, C!Upload, C!GateOpen
<1>13. CASE C!Capture
  <2>1. oneShot' \in BOOLEAN /\ provisioned' \in BOOLEAN /\ UNCHANGED connected
    BY <1>13 DEF C!Capture, C!Upload
  <2>2. snap' \in C!Snapshots
    BY <1>13, BlankFacts DEF C!Capture
  <2> QED
    BY <1>13, <2>1, <2>2 DEF C!Capture
<1>14. CASE UNCHANGED C!vars
  BY <1>14 DEF C!vars
<1> QED
  BY <1>1, <1>2, <1>3, <1>4, <1>5, <1>6, <1>7, <1>8, <1>9, <1>10, <1>11, <1>12,
     <1>13,
     <1>14 DEF C!Next, C!Tick, C!Inference

(* The search for a network.                                               *)
LEMMA OrderFacts ==
  /\ <<>> \in W!Orders
  /\ \A n \in Networks : <<n>> \in W!Orders
  /\ \A o \in W!Orders : o # <<>> =>
         Head(o) \in Networks /\ o[1] \in Networks /\ Tail(o) \in W!Orders
<1>1. MaxProfiles \in Nat \ {0}
  BY NetworksAssumption DEF NetworksAssumption
<1>2. /\ <<>> \in [1..0 -> Networks] /\ 0 \in 0..MaxProfiles
      /\ \A i, j \in DOMAIN <<>> : <<>>[i] = <<>>[j] => i = j
  BY <1>1
<1>3. <<>> \in W!Orders
  BY <1>2 DEF W!Orders
<1>4. ASSUME NEW n \in Networks
      PROVE  <<n>> \in W!Orders
  <2>1. <<n>> \in [1..1 -> Networks] /\ 1 \in 0..MaxProfiles
    BY <1>1
  <2>2. \A i, j \in DOMAIN <<n>> : <<n>>[i] = <<n>>[j] => i = j
    OBVIOUS
  <2> QED
    BY <2>1, <2>2 DEF W!Orders
<1>5. ASSUME NEW o \in W!Orders, o # <<>>
      PROVE  Head(o) \in Networks /\ o[1] \in Networks /\ Tail(o) \in W!Orders
  <2>1. PICK size \in 0..MaxProfiles : o \in [1..size -> Networks]
    BY DEF W!Orders
  <2>2. \A i, j \in DOMAIN o : o[i] = o[j] => i = j
    BY DEF W!Orders
  <2>3. o \in Seq(Networks) /\ Len(o) = size /\ size \in Nat
    BY <1>1, <2>1
  <2>4. size # 0 /\ size - 1 \in 0..MaxProfiles
    BY <1>1, <1>5, <2>3
  <2>5. Head(o) \in Networks /\ o[1] \in Networks
    BY <1>5, <2>3
  <2>6. /\ Tail(o) \in Seq(Networks) /\ Len(Tail(o)) = size - 1
        /\ \A i \in 1..(size - 1) : Tail(o)[i] = o[i + 1]
    BY <1>5, <2>3, <2>4
  <2>7. Tail(o) \in [1..(size - 1) -> Networks] /\ DOMAIN Tail(o) = 1..(size - 1)
    BY <2>6, LenProperties
  <2>8. \A i, j \in DOMAIN Tail(o) : Tail(o)[i] = Tail(o)[j] => i = j
    BY <2>1, <2>2, <2>3, <2>6, <2>7
  <2> QED
    BY <2>4, <2>5, <2>7, <2>8 DEF W!Orders
<1> QED
  BY <1>3, <1>4, <1>5

(* The profiles the handlers make.                                         *)
LEMMA ProfileFacts ==
  /\ W!Nothing \in W!Profiles
  /\ \A n \in Networks : /\ [W!Nothing EXCEPT !.order = <<n>>] \in W!Profiles
                          /\ [W!Nothing EXCEPT !.order = <<n>>, !.bare = {n}] \in W!Profiles
  /\ \A p \in W!Profiles : W!Resorted(p) \subseteq W!Profiles /\ p.order \in W!Orders
<1>1. W!Nothing \in W!Profiles
  BY OrderFacts DEF W!Nothing, W!Profiles
<1>2. ASSUME NEW n \in Networks
      PROVE  /\ [W!Nothing EXCEPT !.order = <<n>>] \in W!Profiles
             /\ [W!Nothing EXCEPT !.order = <<n>>, !.bare = {n}] \in W!Profiles
  BY <1>1, OrderFacts DEF W!Profiles
<1>3. ASSUME NEW p \in W!Profiles
      PROVE  W!Resorted(p) \subseteq W!Profiles /\ p.order \in W!Orders
  BY DEF W!Profiles, W!Resorted
<1> QED
  BY <1>1, <1>2, <1>3

LEMMA RestartedFacts ==
  ASSUME NEW profiles \in W!Profiles, NEW driver \in Networks \cup {None},
         W!Restarted(profiles, driver)
  PROVE  /\ mode' = "boot" /\ todo' \in W!Orders /\ link' = None
         /\ conf' \in Networks \cup {None} /\ socket' = FALSE
         /\ unfed' \in 0..BiteTime /\ tested' \in W!Profiles
<1>1. 0 \in 0..BiteTime
  BY NetworksAssumption DEF NetworksAssumption
<1> QED
  BY <1>1, ProfileFacts DEF W!Restarted

LEMMA NetworkInit == W!Init => W!TypeOK
<1>1. 0 \in 0..BiteTime /\ 0 \in 0..MaxFaults
  BY NetworksAssumption, BoundsAssumption DEF NetworksAssumption, BoundsAssumption
<1> QED
  BY <1>1, ProfileFacts, OrderFacts DEF W!Init, W!TypeOK

LEMMA NetworkMoves == W!TypeOK /\ [W!Next]_W!vars => W!TypeOK'
<1> SUFFICES ASSUME W!TypeOK, [W!Next]_W!vars
             PROVE  W!TypeOK'
  OBVIOUS
<1> USE DEF W!TypeOK, W!Enters
<1>1. /\ BiteTime \in Nat /\ 0 \in 0..BiteTime /\ {ConnectTime, ProbeTime} \subseteq Nat
      /\ ConnectTime \in Nat /\ ProbeTime \in Nat
      /\ stored \in W!Profiles /\ tested \in W!Profiles
      /\ link \in Networks \cup {None} /\ conf \in Networks \cup {None}
      /\ <<>> \in W!Orders
  BY NetworksAssumption, OrderFacts DEF NetworksAssumption
<1>2. ASSUME W!Fault
      PROVE  faults' \in 0..MaxFaults
  BY <1>2, BoundsAssumption DEF W!Fault, BoundsAssumption
<1>3. ASSUME NEW d \in Nat, W!Blocks(d)
      PROVE  unfed' \in 0..BiteTime
  BY <1>1, <1>3 DEF W!Blocks
<1>4. ASSUME NEW d \in Nat, W!Bitten(d)
      PROVE  W!TypeOK'
  BY <1>1, <1>4, RestartedFacts DEF W!Bitten
<1>5. ASSUME todo # <<>>
      PROVE  W!Candidate \in Networks /\ Tail(todo) \in W!Orders
  BY <1>5, OrderFacts DEF W!Candidate
<1>6. CASE W!TryFails
  BY <1>1, <1>3, <1>4, <1>5, <1>6 DEF W!TryFails, W!Trying
<1>7. CASE W!TryJoins
  <2>1. todo # <<>>
    BY <1>7 DEF W!TryJoins, W!Trying
  <2>2. PICK d \in 0..ConnectTime :
          \/ /\ IF mode = "test" THEN W!Blocks(d)
                                 ELSE unfed + d <= BiteTime /\ unfed' = 0
             /\ link' = W!Candidate /\ conf' = W!Candidate
             /\ socket' \in {socket, FALSE}
             /\ W!Enters(IF mode = "test" THEN "probe" ELSE "loop")
             /\ todo' = IF mode = "test" THEN Tail(todo) ELSE <<>>
             /\ stored' \in IF mode = "boot" THEN W!Resorted(stored) ELSE {stored}
             /\ UNCHANGED <<build, faults, tested, air>>
          \/ W!Bitten(d)
    BY <1>7 DEF W!TryJoins
  <2>3. CASE W!Bitten(d)
    BY <1>1, <1>4, <2>2, <2>3
  <2>4. CASE ~W!Bitten(d)
    <3>1. d \in Nat /\ unfed \in Nat
      BY <1>1
    <3>2. unfed + d <= BiteTime /\ unfed' \in {unfed + d, 0}
      BY <2>2, <2>4 DEF W!Blocks
    <3>3. unfed' \in 0..BiteTime
      BY <1>1, <3>1, <3>2
    <3>4. stored' \in W!Profiles
      BY <1>1, <2>2, <2>4, ProfileFacts
    <3> QED
      BY <1>1, <1>5, <2>1, <2>2, <2>4, <3>3, <3>4
  <2> QED
    BY <2>3, <2>4
<1>8. CASE W!AutoConnect
  BY <1>1, <1>8, ProfileFacts DEF W!AutoConnect, W!Reached
<1>9. ASSUME NEW n \in Networks, W!PortalJoins(n)
      PROVE  W!TypeOK'
  BY <1>1, <1>2, <1>9, ProfileFacts DEF W!PortalJoins
<1>10. CASE W!PortalWaits
  BY <1>1, <1>3, <1>4, <1>10 DEF W!PortalWaits
<1>11. CASE W!SetWifi
  <2>1. PICK o \in W!Orders \ {<<>>}, e \in BOOLEAN :
          \E without, wrong \in SUBSET W!Names(o) :
              /\ tested' = [order |-> o,
                            bare |-> (without \ W!Usable(stored)) \cup wrong,
                            equal |-> e]
              /\ todo' = o
    BY <1>11 DEF W!SetWifi
  <2>2. W!Names(o) \subseteq Networks
    BY DEF W!Orders, W!Names
  <2>3. tested' \in W!Profiles
    BY <2>1, <2>2 DEF W!Profiles
  <2> QED
    BY <1>1, <1>11, <2>1, <2>3 DEF W!SetWifi
<1>12. CASE W!ProbePasses
  BY <1>1, <1>2, <1>12, ProfileFacts DEF W!ProbePasses
<1>13. CASE W!ProbeFails
  BY <1>1, <1>3, <1>4, <1>13 DEF W!ProbeFails
<1>14. CASE W!AllFail
  BY <1>1, <1>14, ProfileFacts DEF W!AllFail
<1>15. CASE W!RestoreFails
  BY <1>1, <1>15 DEF W!RestoreFails
<1>16. CASE W!CConnect
  <2>1. ASSUME stored.order # <<>>
        PROVE  stored.order[1] \in Networks
    <3>1. stored.order \in W!Orders
      BY <1>1, ProfileFacts
    <3> QED
      BY <2>1, <3>1, OrderFacts
  <2> QED
    BY <1>1, <1>16, <2>1 DEF W!CConnect
<1>17. ASSUME NEW n \in Networks, W!CForm(n)
       PROVE  W!TypeOK'
  BY <1>1, <1>2, <1>17, ProfileFacts DEF W!CForm
<1>18. CASE W!CPortalEnds
  BY <1>18 DEF W!CPortalEnds
<1>19. CASE W!CLast
  BY <1>1, <1>19, RestartedFacts DEF W!CLast
<1>20. CASE W!Relink
  BY <1>1, <1>20 DEF W!Relink
<1>21. CASE W!GiveUp
  BY <1>1, <1>21, RestartedFacts DEF W!GiveUp
<1>22. CASE W!Forget
  <2>1. stored' \in W!Profiles /\ faults' \in 0..MaxFaults
    BY <1>1, <1>2, <1>22, ProfileFacts DEF W!Forget
  <2>2. (IF build = "arduino" THEN None ELSE conf) \in Networks \cup {None}
    BY <1>1
  <2>3. W!Restarted(stored', IF build = "arduino" THEN None ELSE conf)
    BY <1>22 DEF W!Forget
  <2> QED
    BY <1>22, <2>1, <2>2, <2>3, RestartedFacts DEF W!Forget
<1>23. CASE W!Changes
  <2>1. PICK n \in Networks, a \in {"down", "joins", "reaches"} :
          /\ air' = [air EXCEPT ![n] = a]
          /\ link' = IF link = n /\ a = "down" THEN None ELSE link
          /\ socket' = (socket /\ link # n)
    BY <1>23 DEF W!Changes
  <2>2. socket' \in BOOLEAN
    BY <2>1, Zenon
  <2>3. air' \in [Networks -> {"down", "joins", "reaches"}]
    BY <2>1
  <2> QED
    BY <1>1, <1>2, <1>23, <2>1, <2>2, <2>3 DEF W!Changes
<1>24. CASE W!Reset
  BY <1>1, <1>2, <1>24, RestartedFacts DEF W!Reset
<1>25. CASE UNCHANGED W!vars
  BY <1>25 DEF W!vars
<1> QED
  BY <1>6, <1>7, <1>8, <1>9, <1>10, <1>11, <1>12, <1>13, <1>14, <1>15, <1>16, <1>17,
     <1>18, <1>19, <1>20, <1>21, <1>22, <1>23, <1>24, <1>25 DEF W!Next, W!Statement

(* The candidates: the set's own, and what remains of them.                *)
LEMMA CandidateFacts ==
  ASSUME NEW o \in W!Orders, o # <<>>
  PROVE  Head(o) \in W!Names(o) /\ W!Names(Tail(o)) \subseteq W!Names(o)
<1>1. PICK size \in 0..MaxProfiles : o \in [1..size -> Networks]
  BY DEF W!Orders
<1>2. size \in Nat /\ o \in Seq(Networks) /\ Len(o) = size /\ DOMAIN o = 1..size
  BY <1>1, NetworksAssumption DEF NetworksAssumption
<1>3. size - 1 \in Nat /\ Head(o) = o[1] /\ 1 \in DOMAIN o
  BY <1>2
<1>4. /\ Tail(o) \in Seq(Networks) /\ Len(Tail(o)) = size - 1
      /\ \A i \in 1..(size - 1) : Tail(o)[i] = o[i + 1]
  BY <1>2, <1>3
<1>5. DOMAIN Tail(o) = 1..(size - 1)
  BY <1>4, LenProperties
<1>6. \A i \in 1..(size - 1) : i + 1 \in DOMAIN o
  BY <1>2
<1> QED
  BY <1>3, <1>4, <1>5, <1>6 DEF W!Names

(* What is stored while a set_wifi is at work has the network it joined.   *)
CommitJoins ==
  stored' # stored /\ mode \in {"test", "probe", "restore"} => conf \in W!Usable(stored')

LEMMA NetworkStep ==
  W!TypeOK /\ NetworkInv /\ [W!Next]_W!vars => NetworkInv' /\ CommitJoins
<1> SUFFICES ASSUME W!TypeOK, NetworkInv, [W!Next]_W!vars
             PROVE  NetworkInv' /\ CommitJoins
  OBVIOUS
<1>1. todo \in W!Orders /\ tested \in W!Profiles /\ stored \in W!Profiles
  BY DEF W!TypeOK
<1>2. ASSUME NEW profiles, NEW driver, W!Restarted(profiles, driver), stored' = stored
      PROVE  NetworkInv' /\ CommitJoins
  BY <1>2 DEF W!Restarted, NetworkInv, CommitJoins
<1>3. ASSUME NEW d, W!Bitten(d)
      PROVE  NetworkInv' /\ CommitJoins
  BY <1>2, <1>3 DEF W!Bitten
<1> USE DEF NetworkInv, CommitJoins, W!Enters
<1>4. CASE W!TryFails
  <2>1. CASE W!Bitten(ConnectTime)
    BY <1>3, <2>1
  <2>2. CASE ~W!Bitten(ConnectTime)
    <3>1. /\ todo # <<>> /\ todo' = Tail(todo) /\ mode # "probe"
          /\ UNCHANGED <<stored, tested, mode>>
      BY <1>4, <2>2 DEF W!TryFails, W!Trying
    <3> QED
      BY <1>1, <3>1, CandidateFacts
  <2> QED
    BY <2>1, <2>2
<1>5. CASE W!TryJoins
  <2>1. PICK d \in 0..ConnectTime :
          \/ /\ conf' = W!Candidate /\ UNCHANGED tested
             /\ mode' = IF mode = "test" THEN "probe" ELSE "loop"
             /\ todo' = IF mode = "test" THEN Tail(todo) ELSE <<>>
             /\ stored' \in IF mode = "boot" THEN W!Resorted(stored) ELSE {stored}
          \/ W!Bitten(d)
    BY <1>5 DEF W!TryJoins
  <2>2. todo # <<>> /\ mode # "probe" /\ W!Password
    BY <1>5 DEF W!TryJoins, W!Trying
  <2>3. CASE W!Bitten(d)
    BY <1>3, <2>3
  <2>4. CASE ~W!Bitten(d)
    BY <1>1, <2>1, <2>2, <2>4, CandidateFacts DEF W!Candidate, W!Password, W!Usable
  <2> QED
    BY <2>3, <2>4
<1>6. CASE W!ProbePasses
  <2>1. mode = "probe" /\ mode' = "loop" /\ (stored' \in W!Resorted(tested) \/ stored' = stored)
    BY <1>6 DEF W!ProbePasses
  <2>2. ASSUME stored' \in W!Resorted(tested)
        PROVE  W!Usable(stored') = W!Usable(tested)
    BY <1>1, <2>2 DEF W!Resorted, W!Profiles, W!Usable
  <2> QED
    BY <2>1, <2>2
<1>7. CASE W!ProbeFails
  BY <1>3, <1>7 DEF W!ProbeFails
<1>8. CASE W!PortalWaits
  BY <1>3, <1>8 DEF W!PortalWaits
<1>9. CASE W!SetWifi
  <2>1. mode' = "test" /\ UNCHANGED stored
    BY <1>9 DEF W!SetWifi
  <2>2. todo' = tested'.order
    BY <1>9 DEF W!SetWifi
  <2> QED
    BY <2>1, <2>2
<1>10. CASE W!CConnect
  BY <1>10 DEF W!CConnect
<1>11. CASE W!CLast
  BY <1>2, <1>11 DEF W!CLast
<1>12. CASE W!GiveUp
  BY <1>2, <1>12 DEF W!GiveUp
<1>13. CASE W!Forget
  BY <1>13 DEF W!Forget, W!Online, W!Restarted
<1>14. CASE W!Reset
  BY <1>2, <1>14 DEF W!Reset
<1>15. CASE \E n \in Networks : W!PortalJoins(n) \/ W!CForm(n)
  BY <1>15 DEF W!PortalJoins, W!CForm
<1> QED
  BY <1>4, <1>5, <1>6, <1>7, <1>8, <1>9, <1>10, <1>11, <1>12, <1>13, <1>14, <1>15
  DEF W!Next, W!Statement, W!AutoConnect, W!AllFail, W!RestoreFails, W!CPortalEnds,
      W!Relink, W!Changes, W!vars

----------------------------------------------------------------------------
(* At rest: an initial state.                                              *)
LEMMA InitInv == Init => Inv
<1> SUFFICES ASSUME Init
             PROVE  Inv
  OBVIOUS
<1>1. OtaInv
  BY OtaProved DEF Init, OtaInv, O!Init
<1>2. IdentityInv
  BY IdentityProved DEF Init, IdentityInv
<1>3. CameraInv
  BY CameraInit DEF Init
<1>4. DisplayInv
  BY DisplayProved DEF Init, DisplayInv
<1>5. RelayInv
  BY ChannelsAssumption
  DEF Init, R!Init, RelayInv, R!TypeOK, Moving, RelayRemembered,
      R!RelayRemembered, ChannelsAssumption
<1>6. SensorsInv
  <2> SUFFICES ASSUME L!Init
               PROVE  SensorsInv
    BY DEF Init
  <2>1. L!Unread \in Remembering
    BY UnreadFacts, ReadingTypes
  <2>2. sense = [s \in L!Sensors |-> L!Unread] /\ beat \in BOOLEAN
    BY Zenon DEF L!Init
  <2>3. sense \in [L!Sensors -> Remembering]
    BY <2>1, <2>2
  <2>4. L!TypeOK
    BY <2>2, <2>3 DEF L!Init, L!TypeOK, Remembering
  <2> QED
    BY <2>2, <2>4, UnreadFacts DEF SensorsInv
<1>7. TypeOK
  <2>1. O!TypeOK /\ P!TypeOK /\ E!TypeOK
    BY OtaProved, IdentityProved, DisplayProved
    DEF Init, O!IInv, P!IInv, E!IInv, E!Typed
  <2> QED
    BY <1>3, <1>5, <1>6, <2>1, NetworkInit
    DEF Init, TypeOK, CameraInv, RelayInv, SensorsInv
<1>8. NetworkInv
  BY DEF Init, W!Init, NetworkInv
<1> QED
  BY <1>1, <1>2, <1>3, <1>4, <1>5, <1>6, <1>7, <1>8 DEF Inv

LEMMA OtaStep == OtaInv /\ [Next]_vars => OtaInv'
<1> SUFFICES ASSUME OtaInv, [Next]_vars
             PROVE  OtaInv'
  OBVIOUS
<1>1. CASE focus = "ota" /\ [O!Next]_O!vars /\ UNCHANGED focus
  <2>1. O!IInv'
    BY <1>1, OtaProved DEF OtaInv
  <2>2. (SlotsSound /\ VersionsTrue)'
    BY <2>1, OtaProved, PTL
  <2> QED
    BY <1>1, <2>1, <2>2 DEF OtaInv
<1>2. CASE focus # "ota" /\ UNCHANGED <<focus, ota>>
  BY <1>2
  DEF OtaInv, ota, SlotsSound, VersionsTrue,
      O!BootsVerified, O!ProvenSurvives, O!AppliedRuns, O!PrevVersionTrue, O!Whole,
      O!Proven, O!Current, O!Other
<1> QED
  BY <1>1, <1>2
  DEF Next, vars, Ota, Identity, Camera, Relay, Display, Network, Sensing,
      OtherThanOta, OtherThanIdentity, OtherThanCamera, OtherThanRelay,
      OtherThanDisplay, OtherThanNetwork, OtherThanSensors, ota, O!vars,
      O!device, O!flash, O!oms, O!job, O!notes

LEMMA IdentityStep == IdentityInv /\ [Next]_vars => IdentityInv'
<1> SUFFICES ASSUME IdentityInv, [Next]_vars
             PROVE  IdentityInv'
  OBVIOUS
<1>1. CASE focus = "identity" /\ [P!Next]_P!vars /\ UNCHANGED focus
  <2>1. P!IInv'
    BY <1>1, IdentityProved DEF IdentityInv
  <2>2. (IdentityWhole /\ NothingResurfaces)'
    BY <2>1, IdentityProved, PTL
  <2> QED
    BY <1>1, <2>1, <2>2 DEF IdentityInv
<1>2. CASE focus # "identity" /\ UNCHANGED <<focus, identity>>
  BY <1>2
  DEF IdentityInv, identity, IdentityWhole, NothingResurfaces, P!IdentityWhole,
      P!NothingResurfaces, P!Provisioned, P!Resting, P!Agree
<1> QED
  BY <1>1, <1>2
  DEF Next, vars, Ota, Identity, Camera, Relay, Display, Network, Sensing,
      OtherThanOta, OtherThanIdentity, OtherThanCamera, OtherThanRelay,
      OtherThanDisplay, OtherThanNetwork, OtherThanSensors, identity,
      P!vars, P!stored, P!pass, P!history

LEMMA CameraStep == CameraInv /\ [Next]_vars => CameraInv'
<1>1. [Next]_vars => [C!Next]_C!vars
  BY DEF Next, vars, Ota, Identity, Camera, Relay, Display, Network, Sensing,
      OtherThanOta, OtherThanIdentity, OtherThanCamera, OtherThanRelay,
      OtherThanDisplay, OtherThanNetwork, OtherThanSensors, camera, C!vars,
      C!shared, C!counter, C!link
<1> QED
  BY <1>1, CameraMoves

LEMMA DisplayStep == DisplayInv /\ [Next]_vars => DisplayInv'
<1> SUFFICES ASSUME DisplayInv, [Next]_vars
             PROVE  DisplayInv'
  OBVIOUS
<1>1. CASE focus = "display" /\ [E!Next]_E!vars /\ UNCHANGED focus
  <2>1. E!IInv'
    BY <1>1, DisplayProved DEF DisplayInv
  <2>2. (ShownUnlessMissed)'
    BY <2>1, DisplayProved, PTL
  <2> QED
    BY <1>1, <2>1, <2>2 DEF DisplayInv
<1>2. CASE focus # "display" /\ UNCHANGED <<focus, display>>
  BY <1>2
  DEF DisplayInv, display, ShownUnlessMissed, E!ShownUnlessMissed, E!UnchangedIsShown
<1> QED
  BY <1>1, <1>2
  DEF Next, vars, Ota, Identity, Camera, Relay, Display, Network, Sensing,
      OtherThanOta, OtherThanIdentity, OtherThanCamera, OtherThanRelay,
      OtherThanDisplay, OtherThanNetwork, OtherThanSensors, display,
      E!vars, E!memory

(* The relays: a function that maps to formulas maps to Booleans.          *)
LEMMA Restored == [c \in Channels |-> c \in mask] \in [Channels -> BOOLEAN]
  OBVIOUS

LEMMA Darkened == [c \in Channels |-> FALSE] \in [Channels -> BOOLEAN]
  OBVIOUS

LEMMA RelayStep == RelayInv /\ [Next]_vars => RelayInv'
<1> SUFFICES ASSUME RelayInv, [Next]_vars
             PROVE  RelayInv'
  OBVIOUS
<1> USE DEF RelayInv, R!TypeOK, Moving, RelayRemembered, R!RelayRemembered
<1>1. CASE R!Command
  BY <1>1 DEF R!Command
<1>2. CASE R!Pulse
  BY <1>2 DEF R!Pulse
<1>3. CASE R!Flag
  BY <1>3 DEF R!Flag
<1>4. CASE R!Store
  BY <1>4 DEF R!Store, R!Mask
<1>5. CASE R!StoreFails
  BY <1>5 DEF R!StoreFails
<1>6. CASE R!Boot
  <2>1. states' \in [Channels -> BOOLEAN]
    BY <1>6, Restored, Darkened, Zenon DEF R!Boot
  <2>2. R!TypeOK' /\ Moving'
    BY <1>6, <2>1 DEF R!Boot
  <2>3. ASSUME states' = [c \in Channels |-> c \in mask], sureRam' = sureNvs
        PROVE  \A c \in sureRam' : states'[c] = contacts'[c]
    BY <1>6, <2>3 DEF R!Boot
  <2>4. ASSUME sureRam' = {}
        PROVE  \A c \in sureRam' : states'[c] = contacts'[c]
    BY <2>4
  <2>5. \A c \in sureNvs' : (c \in mask') = contacts'[c]
    BY <1>6 DEF R!Boot
  <2> QED
    BY <1>6, <2>2, <2>3, <2>4, <2>5 DEF R!Boot
<1>7. CASE UNCHANGED relay
  BY <1>7 DEF relay
<1> QED
  BY <1>1, <1>2, <1>3, <1>4, <1>5, <1>6, <1>7
  DEF Next, vars, Ota, Identity, Camera, Relay, Display, Network, Sensing,
      OtherThanOta, OtherThanIdentity, OtherThanCamera, OtherThanDisplay,
      OtherThanNetwork, OtherThanSensors, R!Next

----------------------------------------------------------------------------
(* The sensors.                                                            *)
(* The three ways in which a reading changes what is remembered.           *)
LEMMA Changes ==
    ASSUME NEW r \in Readings, NEW pin \in BOOLEAN, NEW since \in Int
    PROVE  /\ L!Agreed(r, since) \in Readings
           /\ L!Agreed(r, since).value = r.value
           /\ L!Agreed(r, since).since = since /\ L!Agreed(r, since).differ = 0
           /\ L!Adopted(r, pin, since) \in Readings
           /\ L!Adopted(r, pin, since).since = since
           /\ L!Adopted(r, pin, since).differ = 0
           /\ L!Doubted(r, since) \in Readings
           /\ L!Doubted(r, since).value = r.value
           /\ L!Doubted(r, since).since = since
           /\ L!Doubted(r, since).differ = r.differ + 1
<1>1. /\ L!Agreed(r, since) \in Readings
      /\ L!Agreed(r, since).value = r.value
      /\ L!Agreed(r, since).since = since /\ L!Agreed(r, since).differ = 0
  BY DEF L!Agreed, Readings
<1>2. /\ L!Adopted(r, pin, since) \in Readings
      /\ L!Adopted(r, pin, since).since = since
      /\ L!Adopted(r, pin, since).differ = 0
  <2> DEFINE a == L!Agreed(r, since)
  <2>1. L!Adopted(r, pin, since) = [a EXCEPT !.value = pin]
    BY DEF L!Adopted
  <2> HIDE DEF a
  <2> QED
    BY <1>1, <2>1 DEF Readings, a
<1>3. /\ L!Doubted(r, since) \in Readings
      /\ L!Doubted(r, since).value = r.value
      /\ L!Doubted(r, since).since = since
      /\ L!Doubted(r, since).differ = r.differ + 1
  <2>1. r.differ \in Nat /\ r.differ + 1 \in Nat
    BY DEF Readings
  <2>2. L!Doubted(r, since) = [[r EXCEPT !.since = since] EXCEPT !.differ = r.differ + 1]
    BY DEF L!Doubted, Readings
  <2> QED
    BY <2>1, <2>2 DEF Readings
<1> QED
  BY <1>1, <1>2, <1>3

(* Reading a pin, d after the reading before it: what is remembered stays  *)
(* of that age, and a value is adopted when enough ticks have passed.      *)
LEMMA ReadFacts ==
    ASSUME NEW r \in Readings, NEW pin \in BOOLEAN, NEW d \in 1..TickStall, Aged(r), Counted(r)
    PROVE  LET q == L!Read(r, pin, d)
           IN  /\ q \in Readings
               /\ Aged(q) /\ Counted(q)
               /\ r.known /\ q.value # r.value =>
                      (IF build = "c6" THEN r.differ + 1 ELSE r.differ) * TickStall >= Debounce
<1> DEFINE q == L!Read(r, pin, d)
<1>1. /\ d \in Nat /\ d >= 1 /\ d <= TickStall /\ TickStall \in Nat
      /\ Debounce \in Nat /\ Debounce >= 1 /\ L!Never = -1
      /\ r.since \in Int /\ r.differ \in Nat
      /\ (r.differ + 1) * TickStall = r.differ * TickStall + TickStall
      /\ r.differ * TickStall \in Nat
      /\ 0 * TickStall = 0
      /\ L!Never \in Int /\ 0 \in Int /\ r.since + d \in Int
  BY OneMoreTick, SensorsAssumption DEF SensorsAssumption, Readings, L!Never
<1> HIDE DEF q
<1>2. CASE \E t \in Int : /\ q = L!Agreed(r, t)
                          /\ t = (IF build = "c6" THEN 0 ELSE L!Never)
  <2>1. PICK t \in Int : q = L!Agreed(r, t) /\ t = (IF build = "c6" THEN 0 ELSE L!Never)
    BY <1>2
  <2>2. q \in Readings /\ q.value = r.value /\ q.differ = 0 /\ q.since = t
    BY <2>1, Changes
  <2>3. Aged(q) /\ Counted(q)
    BY <1>1, <2>1, <2>2 DEF Aged, Counted
  <2> QED
    BY <2>2, <2>3 DEF q
<1>3. CASE /\ \E t \in Int : /\ q = L!Adopted(r, pin, t)
                             /\ t = (IF build = "c6" THEN 0 ELSE L!Never)
           /\ r.known => r.since + d >= Debounce
           /\ build # "c6" => r.since # L!Never
  <2>1. PICK t \in Int : q = L!Adopted(r, pin, t) /\ t = (IF build = "c6" THEN 0 ELSE L!Never)
    BY <1>3
  <2>2. q \in Readings /\ q.differ = 0 /\ q.since = t
    BY <2>1, Changes
  <2>3. Aged(q) /\ Counted(q)
    BY <1>1, <2>1, <2>2 DEF Aged, Counted
  <2>4. r.known =>
            (IF build = "c6" THEN r.differ + 1 ELSE r.differ) * TickStall >= Debounce
    BY <1>1, <1>3 DEF Aged
  <2> QED
    BY <2>2, <2>3, <2>4 DEF q
<1>4. CASE \E t \in Int : /\ q = L!Doubted(r, t)
                          /\ \/ /\ t = r.since + d /\ t < Debounce
                                /\ build = "c6" \/ r.since # L!Never
                             \/ t = 0 /\ build # "c6" /\ r.since = L!Never
  <2>1. PICK t \in Int : /\ q = L!Doubted(r, t)
                         /\ \/ /\ t = r.since + d /\ t < Debounce
                               /\ build = "c6" \/ r.since # L!Never
                            \/ t = 0 /\ build # "c6" /\ r.since = L!Never
    BY <1>4
  <2>2. q \in Readings /\ q.value = r.value /\ q.differ = r.differ + 1 /\ q.since = t
    BY <2>1, Changes
  <2>3. Aged(q)
    BY <1>1, <2>1, <2>2 DEF Aged
  <2>4. Counted(q)
    <3>1. r.since >= -1 /\ r.differ <= r.since + 1
      BY <1>1 DEF Counted
    <3>2. t >= 0 /\ t < Debounce /\ t >= r.since + 1
      BY <1>1, <2>1, <3>1
    <3> QED
      BY <1>1, <2>2, <3>1, <3>2 DEF Counted
  <2> QED
    BY <2>2, <2>3, <2>4 DEF q
<1> QED
  BY <1>1, <1>2, <1>3, <1>4
  DEF q, L!Read, L!FromAgreement, L!FromDifference, L!Agrees, L!Never

(* A tick reads every sensor, whoever watches.                             *)
LEMMA TickReads ==
    ASSUME SensorsInv, focus = "sensors", L!Tick
    PROVE  /\ sense' \in [L!Sensors -> Remembering]
           /\ \A s \in L!Sensors : Counted(sense'[s]) /\ Aged(sense'[s])
           /\ \A s \in L!Sensors : L!Adopts(s) => L!Samples(s) * TickStall >= Debounce
<1>1. PICK pins \in [L!Sensors -> BOOLEAN], d \in 1..TickStall :
          sense' = [s \in L!Sensors |-> L!Read(sense[s], pins[s], d)]
  BY DEF L!Tick
<1>2. sense \in [L!Sensors -> Remembering]
  BY DEF SensorsInv, L!TypeOK, Remembering
<1>3. ASSUME NEW s \in L!Sensors
      PROVE  /\ sense'[s] \in Readings
             /\ Aged(sense'[s]) /\ Counted(sense'[s])
             /\ L!Adopts(s) => L!Samples(s) * TickStall >= Debounce
  <2>1. /\ sense[s] \in Readings /\ pins[s] \in BOOLEAN
        /\ Aged(sense[s]) /\ Counted(sense[s])
    BY <1>2, <1>3, ReadingTypes DEF SensorsInv
  <2>2. sense'[s] = L!Read(sense[s], pins[s], d)
    BY <1>1, <1>3
  <2> QED
    BY <2>1, <2>2, ReadFacts DEF L!Adopts, L!Samples
<1>4. \A s \in L!Sensors : sense'[s] \in Remembering
  BY <1>3, ReadingTypes
<1> QED
  BY <1>1, <1>3, <1>4

LEMMA TickSteady ==
    ASSUME SensorsInv, focus = "sensors", L!Tick, UNCHANGED focus
    PROVE  SensorsInv'
<1>1. /\ sense' \in [L!Sensors -> Remembering]
      /\ \A s \in L!Sensors : Counted(sense'[s]) /\ Aged(sense'[s])
  BY TickReads
<1>2. build' = build
  BY DEF L!Tick
<1>3. beat' \in BOOLEAN
  <2>1. (~beat) \in BOOLEAN
    OBVIOUS
  <2> QED
    BY <2>1, Zenon DEF L!Tick
<1>4. pulse' \in {L!Never} \cup 0..SolenoidPulse
  BY SensorsAssumption DEF SensorsAssumption, SensorsInv, L!TypeOK, L!Tick, L!Never
<1>5. /\ lock' \in {"INITIALIZING", "SECURE", "UNLOCKED", "ALARM"}
      /\ cause' \in {"NONE", "SIGNED_COMMAND", "DOOR_CLOSE", "MORTISE", "ALARM_TIMEOUT"}
  <2>1. UNCHANGED <<lock, cause>> \/ L!Machine(sense'.latch.value, sense'.reed.value,
                                              sense'.mortise.value)
    BY DEF L!Tick
  <2> QED
    BY <2>1 DEF SensorsInv, L!TypeOK, L!Machine
<1>6. L!TypeOK'
  BY <1>1, <1>2, <1>3, <1>4, <1>5 DEF SensorsInv, L!TypeOK, Remembering
<1> QED
  BY <1>1, <1>2, <1>6 DEF SensorsInv, Aged, Counted

LEMMA SensorsStep ==
    ASSUME SensorsInv, [Next]_vars, build' \in {"arduino", "c6"}
    PROVE  /\ SensorsInv'
           /\ \/ L!Restart
              \/ \A s \in L!Sensors : L!Adopts(s) => L!Samples(s) * TickStall >= Debounce
<1>1. CASE focus = "sensors" /\ L!Tick /\ UNCHANGED focus
  BY <1>1, TickReads, TickSteady
<1>2. CASE focus = "sensors" /\ L!Restart /\ UNCHANGED focus
  <2>1. sense' = [s \in L!Sensors |-> L!Unread] /\ build' = build /\ L!Unread \in Remembering
    BY <1>2, UnreadFacts, ReadingTypes DEF L!Restart
  <2>2. sense' \in [L!Sensors -> Remembering]
    BY <2>1
  <2>3. L!TypeOK'
    BY <1>2, <2>1, <2>2 DEF L!Restart, SensorsInv, L!TypeOK, Remembering
  <2> QED
    BY <1>2, <2>1, <2>3, UnreadFacts DEF SensorsInv, Aged, Counted
<1>3. CASE focus = "sensors" /\ L!Unlock /\ UNCHANGED focus
  <2>1. 0 \in 0..SolenoidPulse
    BY SensorsAssumption DEF SensorsAssumption
  <2> QED
    BY <1>3, <2>1 DEF L!Unlock, SensorsInv, L!TypeOK, Aged, Counted, L!Adopts
<1>4. CASE UNCHANGED <<focus, sensors>> /\ (focus = "sensors" => UNCHANGED build)
  BY <1>4 DEF sensors, SensorsInv, L!TypeOK, Aged, Counted, L!Adopts
<1> QED
  BY <1>1, <1>2, <1>3, <1>4
  DEF Next, vars, Ota, Identity, Camera, Relay, Display, Network, Sensing, L!Next,
      OtherThanOta, OtherThanIdentity, OtherThanCamera, OtherThanRelay,
      OtherThanDisplay, OtherThanNetwork, OtherThanSensors, sensors

----------------------------------------------------------------------------
(* Whoever moves, the build stays one of the two and the faults within     *)
(* their bound.                                                            *)
Shared == build \in {"arduino", "c6"} /\ faults \in 0..MaxFaults

LEMMA SharedStep == Inv /\ [Next]_vars => Shared'
<1> SUFFICES ASSUME Inv, [Next]_vars
             PROVE  Shared'
  OBVIOUS
<1>1. Shared
  BY DEF Inv, TypeOK, O!TypeOK, O!Builds, Shared
<1>2. CASE Ota
  <2>1. O!IInv'
    BY <1>2, OtaProved DEF Ota, Inv, OtaInv
  <2>2. O!TypeOK'
    BY <2>1 DEF O!IInv
  <2> QED
    BY <2>2 DEF O!TypeOK, O!Builds, Shared
<1>3. CASE Identity
  <2>1. P!IInv'
    BY <1>3, IdentityProved DEF Identity, Inv, IdentityInv
  <2>2. P!TypeOK'
    BY <2>1 DEF P!IInv
  <2> QED
    BY <2>2 DEF P!TypeOK, P!Builds, Shared
<1>4. CASE Display
  <2>1. E!IInv'
    BY <1>4, DisplayProved DEF Display, Inv, DisplayInv
  <2>2. E!TypeOK'
    BY <2>1 DEF E!IInv, E!Typed
  <2> QED
    BY <1>1, <1>4, <2>2 DEF Display, OtherThanDisplay, E!TypeOK, Shared
<1>5. CASE Network
  <2>1. W!TypeOK'
    BY <1>5, NetworkMoves DEF Network, Inv, TypeOK
  <2> QED
    BY <2>1 DEF W!TypeOK, Shared
<1>6. CASE UNCHANGED <<build, faults>>
  BY <1>1, <1>6 DEF Shared
<1> QED
  BY <1>2, <1>3, <1>4, <1>5, <1>6
  DEF Next, vars, Camera, Relay, Sensing, OtherThanCamera, OtherThanRelay,
      OtherThanSensors, L!Next, L!Tick, L!Unlock, L!Restart

(* What rests keeps its types.                                             *)
LEMMA RestingTypes ==
  ASSUME TypeOK, Shared'
  PROVE  /\ UNCHANGED ota => O!TypeOK'
         /\ UNCHANGED identity => P!TypeOK'
         /\ UNCHANGED display => E!TypeOK'
         /\ UNCHANGED network => W!TypeOK'
<1>1. ASSUME UNCHANGED ota
      PROVE  O!TypeOK'
  BY <1>1 DEF ota, TypeOK, Shared, O!TypeOK, O!Builds
<1>2. ASSUME UNCHANGED identity
      PROVE  P!TypeOK'
  BY <1>2 DEF identity, TypeOK, Shared, P!TypeOK, P!Builds
<1>3. ASSUME UNCHANGED display
      PROVE  E!TypeOK'
  BY <1>3 DEF display, TypeOK, Shared, E!TypeOK
<1>4. ASSUME UNCHANGED network
      PROVE  W!TypeOK'
  BY <1>4 DEF network, TypeOK, Shared, W!TypeOK
<1> QED
  BY <1>1, <1>2, <1>3, <1>4

LEMMA TypesStep == Inv /\ [Next]_vars /\ CameraInv' /\ RelayInv' /\ SensorsInv' => TypeOK'
<1> SUFFICES ASSUME Inv, [Next]_vars, CameraInv', RelayInv', SensorsInv'
             PROVE  TypeOK'
  OBVIOUS
<1>1. TypeOK /\ Shared'
  BY SharedStep DEF Inv, TypeOK
<1>2. C!TypeOK' /\ R!TypeOK' /\ L!TypeOK'
  BY DEF CameraInv, RelayInv, SensorsInv
<1>3. O!TypeOK'
  <2>1. CASE Ota
    BY <2>1, OtaProved DEF Ota, Inv, OtaInv, O!IInv
  <2>2. CASE UNCHANGED ota
    BY <1>1, <2>2, RestingTypes
  <2> QED
    BY <2>1, <2>2
    DEF Next, vars, Identity, Camera, Relay, Display, Network, Sensing,
       OtherThanIdentity, OtherThanCamera, OtherThanRelay, OtherThanDisplay,
       OtherThanNetwork, OtherThanSensors
<1>4. P!TypeOK'
  <2>1. CASE Identity
    BY <2>1, IdentityProved DEF Identity, Inv, IdentityInv, P!IInv
  <2>2. CASE UNCHANGED identity
    BY <1>1, <2>2, RestingTypes
  <2> QED
    BY <2>1, <2>2 DEF Next, vars, Ota, Camera, Relay, Display, Network, Sensing,
       OtherThanOta, OtherThanCamera, OtherThanRelay, OtherThanDisplay,
       OtherThanNetwork, OtherThanSensors
<1>5. E!TypeOK'
  <2>1. CASE Display
    BY <2>1, DisplayProved DEF Display, Inv, DisplayInv, E!IInv, E!Typed
  <2>2. CASE UNCHANGED display
    BY <1>1, <2>2, RestingTypes
  <2> QED
    BY <2>1, <2>2 DEF Next, vars, Ota, Identity, Camera, Relay, Network, Sensing,
       OtherThanOta, OtherThanIdentity, OtherThanCamera, OtherThanRelay,
       OtherThanNetwork, OtherThanSensors
<1>6. W!TypeOK'
  <2>1. CASE Network
    BY <2>1, NetworkMoves DEF Network, Inv, TypeOK
  <2>2. CASE UNCHANGED network
    BY <1>1, <2>2, RestingTypes
  <2> QED
    BY <2>1, <2>2 DEF Next, vars, Ota, Identity, Camera, Relay, Display, Sensing,
       OtherThanOta, OtherThanIdentity, OtherThanCamera, OtherThanRelay,
       OtherThanDisplay, OtherThanSensors
<1> QED
  BY <1>2, <1>3, <1>4, <1>5, <1>6 DEF TypeOK

LEMMA NetworkKeeps ==
  Inv /\ [Next]_vars => NetworkInv' /\ (CommitJoins \/ UNCHANGED W!vars)
<1> SUFFICES ASSUME Inv, [Next]_vars
             PROVE  NetworkInv' /\ (CommitJoins \/ UNCHANGED W!vars)
  OBVIOUS
<1>1. CASE Network
  BY <1>1, NetworkStep DEF Network, Inv, TypeOK
<1>2. CASE UNCHANGED network
  BY <1>2 DEF network, Inv, NetworkInv, CommitJoins
<1> QED
  BY <1>1, <1>2
  DEF Next, vars, Ota, Identity, Camera, Relay, Display, Sensing, OtherThanOta,
      OtherThanIdentity, OtherThanCamera, OtherThanRelay, OtherThanDisplay,
      OtherThanSensors

THEOREM Inductive == Spec => []Inv
<1>1. Inv /\ [Next]_vars => Inv'
  <2> SUFFICES ASSUME Inv, [Next]_vars
               PROVE  Inv'
    OBVIOUS
  <2>1. OtaInv' /\ IdentityInv' /\ CameraInv' /\ DisplayInv' /\ RelayInv'
    BY OtaStep, IdentityStep, CameraStep, DisplayStep, RelayStep DEF Inv
  <2>2. SensorsInv'
    BY SharedStep, SensorsStep DEF Inv, Shared
  <2>3. TypeOK'
    BY <2>1, <2>2, TypesStep
  <2>4. NetworkInv'
    BY NetworkKeeps
  <2> QED
    BY <2>1, <2>2, <2>3, <2>4 DEF Inv
<1> QED
  BY InitInv, <1>1, PTL DEF Spec

(* Every variable of every component has its type, in both builds and      *)
(* whatever fails: no slot, streak, age or order of networks leaves the    *)
(* range its counter or array has in the code.                             *)
THEOREM DeviceTyped == Spec => []TypeOK
<1>1. Inv => TypeOK
  BY DEF Inv, TypeOK
<1> QED
  BY Inductive, <1>1, PTL

(* No step of an update, and no reset in one, leaves a device with a boot  *)
(* slot that does not hold a verified image; with rollback a proven image  *)
(* is there until its successor is proven, unless an update was accepted   *)
(* on probation.                                                           *)
THEOREM AlwaysBoots == Spec => []SlotsSound
<1>1. Inv => SlotsSound
  BY DEF Inv, OtaInv
<1> QED
  BY Inductive, <1>1, PTL

(* A version announced as applied runs until the next switch, and prev_ver *)
(* is the version that ran at the last one, in both builds.                *)
THEOREM VersionsStayTrue == Spec => []VersionsTrue
<1>1. Inv => VersionsTrue
  BY DEF Inv, OtaInv
<1> QED
  BY Inductive, <1>1, PTL

(* An identity that was erased without disturbance never comes back, and a *)
(* factory reset leaves neither token nor WiFi profiles.                   *)
THEOREM ErasedStaysErased == Spec => []NothingResurfaces
<1>1. Inv => NothingResurfaces
  BY DEF Inv, IdentityInv
<1> QED
  BY Inductive, <1>1, PTL

(* The identity a device boots with is of one enrolment, as far as one or  *)
(* no disturbed pass over its keys lets it be.                             *)
THEOREM OneEnrolment == Spec => []IdentityWhole
<1>1. Inv => IdentityWhole
  BY DEF Inv, IdentityInv
<1> QED
  BY Inductive, <1>1, PTL

(* Every finished inference is counted exactly once, and a count that OMS  *)
(* has not been told is flagged for publication.                           *)
THEOREM NoResultLost == Spec => []NothingLost
<1>1. Inv => NothingLost
  BY DEF Inv, CameraInv
<1> QED
  BY Inductive, <1>1, PTL

(* g_states and the mask in NVS are right about every channel the device   *)
(* vouches for, whatever sequence of commands, failed stores and resets it *)
(* lives through.                                                          *)
THEOREM Remembered == Spec => []RelayRemembered
<1>1. Inv => RelayRemembered
  BY DEF Inv, RelayInv
<1> QED
  BY Inductive, <1>1, PTL

(* Where the display takes its page for unchanged, the panel shows it: in  *)
(* every behaviour, except after a card, an image that failed behind its   *)
(* header, or a reset beside a write of the ETag.                          *)
THEOREM OnlyMissesMislead == Spec => []ShownUnlessMissed
<1>1. Inv => ShownUnlessMissed
  BY DEF Inv, DisplayInv
<1> QED
  BY Inductive, <1>1, PTL

(* A debounced value changes only after as many different readings as the  *)
(* debounce time takes, however the ticks stall, in both builds.           *)
THEOREM SensorsAreSteady == Spec => Steady
<1>1. Inv /\ [Next]_vars =>
          [L!Restart \/ \A s \in L!Sensors :
                L!Adopts(s) => L!Samples(s) * TickStall >= Debounce]_L!vars
  BY SharedStep, SensorsStep DEF Inv, Shared
<1> QED
  BY Inductive, <1>1, PTL DEF Spec, Steady, L!Steady

(* What a set_wifi stores has a network that the device has just joined    *)
(* with the password it stores, for every set of networks and profiles.    *)
THEOREM SetsWork == Spec => CommitsJoined
<1>1. Inv /\ [Next]_vars => [CommitJoins]_W!vars
  BY NetworkKeeps
<1> QED
  BY Inductive, <1>1, PTL DEF Spec, CommitsJoined, W!CommitsJoined, CommitJoins

(* In a device, too, every update is one exchange of images, which a reset *)
(* anywhere in it does not split; what the others do leaves the flash be.  *)
LEMMA UpdateProved ==
    /\ O!Init => O!Policy!Init
    /\ O!IInv /\ [O!Next]_O!vars => [O!Policy!Next]_O!Policy!vars
<1> USE VersionsAssumption, DownloadAssumption, BoundsAssumption, CounterAssumption,
        ClockAssumption, ChannelsAssumption, PanelAssumption, NetworksAssumption,
        SensorsAssumption
<1> QED
  BY O!PolicyInit, O!PolicyStep

THEOREM UpdatesAreAtomic == Spec => UpdateIsAtomic
<1>1. Init => O!Policy!Init
  BY UpdateProved DEF Init
<1>2. Inv /\ [Next]_vars => [O!Policy!Next]_O!Policy!vars
  <2> SUFFICES ASSUME Inv, [Next]_vars
               PROVE  [O!Policy!Next]_O!Policy!vars
    OBVIOUS
  <2>1. CASE Ota
    BY <2>1, UpdateProved DEF Ota, Inv, OtaInv
  <2>2. CASE UNCHANGED ota
    BY <2>2
    DEF ota, O!Policy!vars, O!Current, O!Standing, O!Proven, O!Whole, O!Other
  <2> QED
    BY <2>1, <2>2
    DEF Next, vars, Identity, Camera, Relay, Display, Network, Sensing,
        OtherThanIdentity, OtherThanCamera, OtherThanRelay, OtherThanDisplay,
        OtherThanNetwork, OtherThanSensors
<1> QED
  BY <1>1, <1>2, Inductive, PTL
  DEF Spec, UpdateIsAtomic, O!PolicySpec, O!Policy!Spec

=============================================================================

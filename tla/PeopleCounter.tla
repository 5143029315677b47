--------------------------- MODULE PeopleCounter ---------------------------
(***************************************************************************)
(* The people counter of the Arduino camera builds                         *)
(* (src/capabilities/people_counter/people_counter.cpp with the counter of *)
(* src/counting/occupancy_counter.cpp): an inference task of low priority  *)
(* detects, the loop's tick triggers it, counts its results, publishes the *)
(* count and uploads photos in between.  They share the busy flag and one  *)
(* result under g_stateMux; any statement of one may come between two      *)
(* critical sections of the other.                                         *)
(***************************************************************************)
EXTENDS DeviceParameters, Sequences, FiniteSets

Detected == 0..(MaxPeople + 1)   \* one more than are told apart
Never == -1

VARIABLES
    pc,          \* the next statement of tickFn; "loop" is outside of it
    task,        \* that of the inference task
    raw,         \* what it detected
    busy,        \* g_inferenceBusy
    ready,       \* g_resultReady
    pending,     \* g_pendingResult.count
    snap,        \* what the tick has read: of the task, of time, of the link
    lastRequest, \* the time since g_lastDetectionRequest
    lastDone,    \* the time since g_lastInferenceDoneMs, Never while it is 0
    recent,      \* detectionHistory, the oldest first
    count,       \* the stable count
    changed,     \* g_occupancyChanged
    oneShot,     \* g_oneShotCaptureRequested
    connected,   \* the MQTT client is connected
    provisioned, \* the device has an identity
    told,        \* history: the count last published with success
    unread       \* history: inferences finished, results not yet counted

shared  == <<busy, ready, pending, lastDone>>
counter == <<recent, count>>
link    == <<connected, provisioned>>
vars    == <<pc, task, raw, shared, snap, lastRequest, counter, changed, oneShot,
             link, told, unread>>

Blank == [busy |-> FALSE, ready |-> FALSE, people |-> 0, quiet |-> FALSE,
          online |-> FALSE]

Snapshots == [busy : BOOLEAN, ready : BOOLEAN, people : Detected,
              quiet : BOOLEAN, online : BOOLEAN]

TypeOK ==
    /\ pc \in {"loop", "count", "trigger", "publish", "photo", "capture"}
    /\ task \in {"wait", "detect", "done"}
    /\ raw \in Detected /\ pending \in Detected
    /\ busy \in BOOLEAN /\ ready \in BOOLEAN
    /\ snap \in Snapshots
    /\ lastRequest \in 0..SlowInterval
    /\ lastDone \in {Never} \cup 0..(QuietWindow + 1)
    /\ recent \in [1..HistoryLength -> Detected]
    /\ count \in 0..MaxPeople /\ told \in 0..MaxPeople
    /\ changed \in BOOLEAN /\ oneShot \in BOOLEAN
    /\ connected \in BOOLEAN /\ provisioned \in BOOLEAN
    /\ unread \in Nat

Init ==
    /\ pc = "loop" /\ task = "wait"
    /\ raw = 0 /\ busy = FALSE /\ ready = FALSE /\ pending = 0
    /\ snap = Blank
    /\ lastRequest = 0 /\ lastDone = Never
    /\ recent = [n \in 1..HistoryLength |-> 0] /\ count = 0
    /\ changed = FALSE /\ oneShot = FALSE
    /\ connected = FALSE /\ provisioned = TRUE
    /\ told = 0 /\ unread = 0

----------------------------------------------------------------------------
(* Operators marked "fault" are plausible slips of the definition after    *)
(* them; only the mutation runs use them.                                  *)

(* calculateStableCount: the first count with more votes than all before  *)
(* it, and none of those after it has more; a detection beyond MaxPeople   *)
(* has no vote.                                                            *)
Votes(history, people) ==
    Cardinality({n \in DOMAIN history : history[n] = people})

StableCount(history) ==
    CHOOSE people \in 0..MaxPeople : \A other \in 0..MaxPeople :
        /\ Votes(history, other) <= Votes(history, people)
        /\ other < people => Votes(history, other) < Votes(history, people)

(* Time passes: between ticks, in the calls that block, in the inference.  *)
(* The statements between the tick's reading of the clock and its trigger  *)
(* take none.                                                              *)
Older(age, max) == IF age = Never \/ age = max THEN age ELSE age + 1

Advance ==
    /\ pc \notin {"count", "trigger"}
    /\ lastRequest' = Older(lastRequest, SlowInterval)
    /\ lastDone' = Older(lastDone, QuietWindow + 1)
    /\ UNCHANGED <<pc, task, raw, busy, ready, pending, snap, counter, changed,
                   oneShot, link, told, unread>>

LinkChange ==
    /\ connected' = ~connected
    /\ UNCHANGED <<pc, task, raw, shared, snap, lastRequest, counter, changed,
                   oneShot, provisioned, told, unread>>

(* requestOneShotCapture, from the command handler.                        *)
RequestCapture ==
    /\ pc = "loop" /\ connected
    /\ oneShot' = TRUE
    /\ UNCHANGED <<pc, task, raw, shared, snap, lastRequest, counter, changed,
                   link, told, unread>>

----------------------------------------------------------------------------
(* The inference task.  A frame that is not captured counts as nobody.     *)
Detect ==
    /\ task = "detect"
    /\ raw' \in Detected
    /\ task' = "done"
    /\ UNCHANGED <<pc, shared, snap, lastRequest, counter, changed, oneShot, link,
                   told, unread>>

InferenceDone ==
    /\ task = "done"
    /\ pending' = raw /\ ready' = TRUE /\ busy' = FALSE /\ lastDone' = 0
    /\ task' = "wait" /\ raw' = 0   \* a local of the task
    /\ unread' = unread + 1
    /\ UNCHANGED <<pc, snap, lastRequest, counter, changed, oneShot, link,
                   told>>

----------------------------------------------------------------------------
(* tickFn.  It takes the state of the task and the result.                 *)
TakenLate == ready \* fault: the result is cleared by whoever publishes it
Taken == FALSE

Snapshot ==
    /\ pc = "loop"
    /\ snap' = [busy |-> busy, ready |-> ready, people |-> pending,
                quiet |-> ~busy /\ (lastDone = Never \/ lastDone > QuietWindow),
                online |-> FALSE]
    /\ ready' = Taken
    /\ pc' = IF ready THEN "count" ELSE "trigger"
    /\ UNCHANGED <<task, raw, busy, pending, lastRequest, lastDone, counter,
                   changed, oneShot, link, told, unread>>

FlagAssigned(stable) == stable # count \* fault: a change not yet told is forgotten
Flag(stable) == changed \/ stable # count

Count ==
    /\ pc = "count"
    /\ recent' = Append(Tail(recent), snap.people)
    /\ count' = StableCount(recent')
    /\ changed' = Flag(count')
    /\ unread' = unread - 1
    /\ pc' = "trigger"
    /\ UNCHANGED <<task, raw, shared, snap, lastRequest, oneShot, link, told>>

Due == lastRequest >= (IF connected THEN Interval ELSE SlowInterval)

TriggerDue == ~snap.busy /\ Due

Trigger ==
    /\ pc = "trigger" /\ TriggerDue
    /\ lastRequest' = 0
    /\ busy' = TRUE
    /\ task' = "detect"     \* xSemaphoreGive: the task is waiting
    /\ pc' = "publish"
    /\ UNCHANGED <<raw, ready, pending, lastDone, snap, counter, changed, oneShot,
                   link, told, unread>>

NoTrigger ==
    /\ pc = "trigger" /\ ~TriggerDue
    /\ pc' = "publish"
    /\ UNCHANGED <<task, raw, shared, snap, lastRequest, counter, changed, oneShot,
                   link, told, unread>>

(* The count is published when it changed, or every ten seconds, which may *)
(* fail; the first success marks the firmware as stable.                   *)
Publish ==
    /\ pc = "publish" /\ connected
    /\ told' = count /\ changed' = FALSE
    /\ snap' = [snap EXCEPT !.online = TRUE]
    /\ pc' = "photo"
    /\ UNCHANGED <<task, raw, shared, lastRequest, counter, oneShot, link, unread>>

NoPublish ==
    /\ pc = "publish"
    /\ snap' = [snap EXCEPT !.online = connected]
    /\ pc' = "photo"
    /\ UNCHANGED <<task, raw, shared, lastRequest, counter, changed, oneShot, link,
                   told, unread>>

(* The periodic photo, if it is due and the gate is open: captured and     *)
(* uploaded before the tick goes on; a 401 clears the identity.            *)
GateOpen == provisioned /\ snap.online /\ snap.quiet

Upload == provisioned' \in BOOLEAN /\ UNCHANGED connected

Photo ==
    /\ pc = "photo"
    /\ \/ GateOpen /\ Upload
       \/ UNCHANGED link
    /\ pc' = "capture"
    /\ UNCHANGED <<task, raw, shared, snap, lastRequest, counter, changed, oneShot,
                   told, unread>>

(* The photo an operator asked for, behind the same gate.                  *)
Capture ==
    /\ pc = "capture"
    /\ IF oneShot /\ GateOpen
       THEN oneShot' = FALSE /\ Upload
       ELSE UNCHANGED <<oneShot, link>>
    /\ pc' = "loop" /\ snap' = Blank
    /\ UNCHANGED <<task, raw, shared, lastRequest, counter, changed, told,
                   unread>>

----------------------------------------------------------------------------
Tick == \/ Snapshot \/ Count \/ Trigger \/ NoTrigger \/ Publish \/ NoPublish
        \/ Photo \/ Capture
Inference == Detect \/ InferenceDone

Next == Advance \/ LinkChange \/ RequestCapture \/ Inference \/ Tick

Spec == Init /\ [][Next]_vars

----------------------------------------------------------------------------
(* Between the two tasks nothing gets lost: every finished inference is    *)
(* counted exactly once, and a count OMS has not been told is flagged for  *)
(* publication, whatever the link does and however often it changes.       *)
NothingLost ==
    /\ unread = IF ready \/ (pc = "count" /\ snap.ready) THEN 1 ELSE 0
    /\ count # told => changed

=============================================================================

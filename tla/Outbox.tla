------------------------------- MODULE Outbox -------------------------------
(***************************************************************************)
(* The outbound retry queue: publishes the MQTT client did not accept, the *)
(* critical ones of them saved in NVS.  Both builds have it, with the same *)
(* statements: esp32c6-lock/main/mqtt_handler.c, which the main task and   *)
(* the esp-mqtt task run without a lock, and src/mqtt/mqtt_client.cpp,     *)
(* which runs in one loop.  Exclusive says whether the queue code of one   *)
(* task keeps the other's out: so it is in the Arduino build, whose two    *)
(* "tasks" are the callbacks and the rest of the loop.                     *)
(*                                                                         *)
(* The C6 has one core and the esp-mqtt task has the higher priority: main *)
(* runs only while that task waits for a message or is blocked in a call   *)
(* of the client.  While it handles an event it holds the client's lock,   *)
(* on which the calls of main wait.                                        *)
(***************************************************************************)
EXTENDS Integers, SequencesExt

CONSTANTS
    Messages,   \* what the firmware publishes, each once
    Critical,   \* acks, lock events, OTA status, watchdog warnings
    NoMessage,
    Size,       \* MQTT_OUTBOUND_QUEUE_SIZE, 8
    Exclusive   \* see above

ASSUME MessagesAssumption  == Critical \subseteq Messages /\ NoMessage \notin Messages
ASSUME SizeAssumption      == Size \in Nat \ {0}
ASSUME ExclusiveAssumption == Exclusive \in BOOLEAN

Tasks == {"main", "mqtt"}
Slots == 0..(Size - 1)

VARIABLES
    slot,       \* s_outbound_queue: the messages
    due,        \* now >= next_attempt_ms, of each slot
    count,      \* s_outbound_count
    nvs,        \* the messages load_critical_queue would find
    connected,  \* s_mqtt_connected, and the client's own state
    task,       \* where each task is in the queue code, and its locals
    accepted,   \* history: messages whose publish_queued returned ESP_OK
    sent,       \* history: how often the client accepted each, 2 for more
    evicted,    \* history: critical messages dropped from a full queue
    reloaded,   \* history: messages that load_critical_queue queued
    lost,       \* history: accepted messages a reboot forgot, unsaved
    unsaved     \* history: the last save failed, or has not ended

queue   == <<slot, due, count>>
history == <<accepted, sent, evicted, reloaded, lost, unsaved>>
vars    == <<queue, nvs, connected, task, history>>

(* A task's locals: the message it publishes, the index its loop or its    *)
(* new item is at, critical_changed, and where a save returns to.          *)
Task == [pc : {"idle", "offer", "room", "claim", "fill", "erase", "write",
               "tick", "scan", "try", "sent", "failed"},
         item : Messages \cup {NoMessage},
         at : 0..Size,
         changed : BOOLEAN,
         after : {"claim", "idle"}]
Outside == [pc |-> "idle", item |-> NoMessage, at |-> 0, changed |-> FALSE,
            after |-> "idle"]

(* Every variable has its type: in particular the count stays within the   *)
(* array, whoever removes and adds.                                        *)
TypeOK ==
    /\ slot \in [Slots -> Messages \cup {NoMessage}]
    /\ due \in [Slots -> BOOLEAN]
    /\ count \in 0..Size
    /\ nvs \in BoundedSeq(Critical, Size)
    /\ connected \in BOOLEAN
    /\ task \in [Tasks -> Task]
    /\ sent \in [Messages -> 0..2]
    /\ accepted \subseteq Messages /\ evicted \subseteq Critical
    /\ reloaded \subseteq Critical /\ lost \subseteq Critical
    /\ unsaved \in BOOLEAN

Init ==
    /\ slot = [i \in Slots |-> NoMessage]
    /\ due = [i \in Slots |-> FALSE]
    /\ count = 0
    /\ nvs = <<>>
    /\ connected = FALSE
    /\ task = [t \in Tasks |-> Outside]
    /\ accepted = {} /\ evicted = {} /\ reloaded = {} /\ lost = {}
    /\ sent = [m \in Messages |-> 0]
    /\ unsaved = FALSE

----------------------------------------------------------------------------
(* Operators marked "fault" are plausible slips of the definition after    *)
(* them; only the mutation runs use them.                                  *)

(* The queue as a sequence, and what of it is saved.                       *)
Queue == [k \in 1..count |-> slot[k - 1]]
Queued == {slot[i] : i \in {j \in Slots : j < count}}

SavedAll == Queue \* fault: the test for critical is dropped
SavedButLast == SelectSeq(SubSeq(Queue, 1, Size - 1), LAMBDA m : m \in Critical) \* fault: off by one
Saved ==
    LET places == {i \in Slots : i < count /\ slot[i] \in Critical}
        order  == CHOOSE s \in BoundedSeq(places, Size) :
                      /\ ToSet(s) = places
                      /\ \A j, k \in DOMAIN s : j < k => s[j] < s[k]
    IN  [k \in DOMAIN order |-> slot[order[k]]]

(* for (j = i + 1; ...) q[j - 1] = q[j]; the last slot keeps its contents. *)
ShiftedLate(f, i) == \* fault: the loop starts at i + 2
    [j \in Slots |-> IF i < j /\ j + 1 < count THEN f[j + 1] ELSE f[j]]
Shifted(f, i) ==
    [j \in Slots |-> IF i <= j /\ j + 1 < count THEN f[j + 1] ELSE f[j]]

TakeOut(i) ==
    /\ slot' = Shifted(slot, i)
    /\ due' = Shifted(due, i)
    /\ count' = count - 1

(* The client accepts m.                                                   *)
Emit(m) == sent' = [sent EXCEPT ![m] = IF @ < 2 THEN @ + 1 ELSE @]

(* Who may run.                                                            *)
Other(t) == IF t = "main" THEN "mqtt" ELSE "main"
BlockedInClient == task["mqtt"].pc \in {"idle", "tick", "room", "sent", "failed"}
MayRun(t) ==
    IF Exclusive THEN task[Other(t)].pc = "idle" ELSE t = "main" => BlockedInClient
HasClient(t) == t = "main" => task["mqtt"].pc = "idle"

At(t, label) == task[t].pc = label /\ MayRun(t)
Go(t, label) == task' = [task EXCEPT ![t].pc = label]
Leave(t)     == task' = [task EXCEPT ![t] = Outside]

----------------------------------------------------------------------------
(* mqtt_handler_publish_queued; enqueueOutbound and its callers.           *)

(* The MQTT task publishes acks and events from its handlers, which run    *)
(* when connected.                                                         *)
Offer(t, m) ==
    /\ At(t, "idle")
    /\ m \notin accepted \cup reloaded /\ \A u \in Tasks : task[u].item # m
    /\ t = "mqtt" => connected /\ m \in Critical
    /\ task' = [task EXCEPT ![t] = [Outside EXCEPT !.pc = "offer", !.item = m]]
    /\ UNCHANGED <<queue, nvs, connected, history>>

PublishAtOnce(t) ==
    /\ At(t, "offer")
    /\ connected /\ HasClient(t)
    /\ Emit(task[t].item)
    /\ accepted' = accepted \cup {task[t].item}
    /\ Leave(t)
    /\ UNCHANGED <<queue, nvs, connected, evicted, reloaded, lost, unsaved>>

(* Not connected, or the client refuses.                                   *)
PublishRefused(t) ==
    /\ At(t, "offer")
    /\ connected => HasClient(t)
    /\ Go(t, "room")
    /\ UNCHANGED <<queue, nvs, connected, history>>

HasRoom(t) ==
    /\ At(t, "room")
    /\ count < Size
    /\ Go(t, "claim")
    /\ UNCHANGED <<queue, nvs, connected, history>>

(* The entry a full queue drops: the first noncritical one, or the oldest. *)
Dropped ==
    LET others == {i \in Slots : slot[i] \notin Critical}
    IN  IF others = {} THEN 0 ELSE CHOOSE i \in others : \A j \in others : i <= j

MakeRoom(t) ==
    /\ At(t, "room")
    /\ count = Size
    /\ slot[Dropped] \notin Critical \/ task[t].item \in Critical
    /\ TakeOut(Dropped)
    /\ evicted' = evicted \cup (Critical \cap {slot[Dropped]})
    /\ task' = [task EXCEPT
                   ![t].pc = IF slot[Dropped] \in Critical THEN "erase" ELSE "claim",
                   ![t].after = "claim"]
    /\ UNCHANGED <<nvs, connected, accepted, sent, reloaded, lost, unsaved>>

NoRoom(t) ==
    /\ At(t, "room")
    /\ count = Size
    /\ slot[Dropped] \in Critical /\ task[t].item \notin Critical
    /\ Leave(t)
    /\ UNCHANGED <<queue, nvs, connected, history>>

(* item = &s_outbound_queue[s_outbound_count++], and then its fields.      *)
Claim(t) ==
    /\ At(t, "claim")
    /\ count < Size
    /\ count' = count + 1
    /\ task' = [task EXCEPT ![t].pc = "fill", ![t].at = count]
    /\ UNCHANGED <<slot, due, nvs, connected, history>>

Fill(t) ==
    /\ At(t, "fill")
    /\ slot' = [slot EXCEPT ![task[t].at] = task[t].item]
    /\ due' = [due EXCEPT ![task[t].at] = TRUE]
    /\ IF task[t].item \in Critical
       THEN /\ task' = [task EXCEPT ![t].pc = "erase", ![t].after = "idle"]
            /\ UNCHANGED accepted
       ELSE Leave(t) /\ accepted' = accepted \cup {task[t].item}
    /\ UNCHANGED <<count, nvs, connected, sent, evicted, reloaded, lost, unsaved>>

(* persist_critical_queue: nvs_erase_all, then the entries and the count.  *)
(* A task saves when it made room for its item, when it has added it, and  *)
(* at the end of its loop over the queue.                                  *)
AfterSave(t) ==
    IF task[t].after = "claim"
    THEN Go(t, "claim") /\ UNCHANGED accepted
    ELSE Leave(t) /\ accepted' = accepted \cup ({task[t].item} \ {NoMessage})

OpenFails(t) ==
    /\ At(t, "erase")
    /\ unsaved' = TRUE
    /\ AfterSave(t)
    /\ UNCHANGED <<queue, nvs, connected, sent, evicted, reloaded, lost>>

Erase(t) ==
    /\ At(t, "erase")
    /\ nvs' = <<>>
    /\ unsaved' = TRUE
    /\ Go(t, "write")
    /\ UNCHANGED <<queue, connected, accepted, sent, evicted, reloaded, lost>>

Write(t) ==
    /\ At(t, "write")
    /\ nvs' = Saved
    /\ unsaved' = FALSE
    /\ AfterSave(t)
    /\ UNCHANGED <<queue, connected, sent, evicted, reloaded, lost>>

----------------------------------------------------------------------------
(* mqtt_handler_tick; serviceOutboundQueue.                                *)

(* MQTT_EVENT_CONNECTED, up to its call of mqtt_handler_tick.              *)
Connect ==
    /\ At("mqtt", "idle")
    /\ ~connected
    /\ connected' = TRUE
    /\ Go("mqtt", "tick")
    /\ UNCHANGED <<queue, nvs, history>>

Tick(t) ==
    /\ At(t, IF t = "main" THEN "idle" ELSE "tick")
    /\ IF connected /\ count > 0 THEN Go(t, "scan") ELSE Leave(t)
    /\ UNCHANGED <<queue, nvs, connected, history>>

(* One turn of the loop, up to the call of the client.                     *)
EndedEarly(t) == task[t].at + 1 >= count \* fault: off by one
Ended(t) == task[t].at >= count

Scan(t) ==
    /\ At(t, "scan")
    /\ LET i == task[t].at
       IN  \/ /\ ~Ended(t) /\ ~due[i]
              /\ task' = [task EXCEPT ![t].at = i + 1]
           \/ ~Ended(t) /\ due[i] /\ Go(t, "try")
           \/ Ended(t) /\ task[t].changed /\ Go(t, "erase")
           \/ Ended(t) /\ ~task[t].changed /\ Leave(t)
    /\ UNCHANGED <<queue, nvs, connected, history>>

(* The item is read when the call has the client, perhaps later.           *)
TryAccepted(t) ==
    /\ At(t, "try")
    /\ connected /\ HasClient(t)
    /\ slot[task[t].at] \in Messages
    /\ Emit(slot[task[t].at])
    /\ Go(t, "sent")
    /\ UNCHANGED <<queue, nvs, connected, accepted, evicted, reloaded, lost, unsaved>>

TryRefused(t) ==
    /\ At(t, "try")
    /\ HasClient(t)
    /\ Go(t, "failed")
    /\ UNCHANGED <<queue, nvs, connected, history>>

NotedNever(t) == FALSE \* fault: the save after the loop is forgotten
Noted(t) == task[t].changed \/ slot[task[t].at] \in Critical

Sent(t) ==
    /\ At(t, "sent")
    /\ TakeOut(task[t].at)
    /\ task' = [task EXCEPT ![t].pc = "scan", ![t].changed = Noted(t)]
    /\ UNCHANGED <<nvs, connected, history>>

Failed(t) ==
    /\ At(t, "failed")
    /\ due' = [due EXCEPT ![task[t].at] = FALSE]
    /\ task' = [task EXCEPT ![t].pc = "scan", ![t].at = @ + 1]
    /\ UNCHANGED <<slot, count, nvs, connected, history>>

(* retry_backoff_ms has passed since the failed attempt.                   *)
BackoffEnds(i) ==
    /\ i < count /\ ~due[i]
    /\ due' = [due EXCEPT ![i] = TRUE]
    /\ UNCHANGED <<slot, count, nvs, connected, task, history>>

----------------------------------------------------------------------------
Disconnect ==
    /\ At("mqtt", "idle")
    /\ connected
    /\ connected' = FALSE
    /\ UNCHANGED <<queue, nvs, task, history>>

(* load_critical_queue appends to the first n entries, as far as they fit. *)
Loaded(n) == IF Len(nvs) <= Size - n THEN Len(nvs) ELSE Size - n
Load(n) ==
    LET fresh == n..(n + Loaded(n) - 1)
    IN  /\ slot' = [i \in Slots |-> IF i \in fresh THEN nvs[i - n + 1] ELSE slot[i]]
        /\ due' = [i \in Slots |-> i \in fresh \/ due[i]]
        /\ count' = n + Loaded(n)
        /\ reloaded' = reloaded \cup {nvs[k] : k \in 1..Loaded(n)}

(* mqtt_handler_restart, by the watchdog's recovery of MQTT: the queue is  *)
(* not emptied before.                                                     *)
ClientRestart ==
    /\ \A t \in Tasks : task[t].pc = "idle"
    /\ connected' = FALSE
    /\ Load(count)
    /\ UNCHANGED <<nvs, task, accepted, sent, evicted, lost, unsaved>>

(* A reboot at any step: the zeroed queue is loaded.                       *)
Reboot ==
    /\ connected' = FALSE
    /\ task' = [t \in Tasks |-> Outside]
    /\ slot' = [i \in Slots |-> IF i < Len(nvs) THEN nvs[i + 1] ELSE NoMessage]
    /\ due' = [i \in Slots |-> i < Len(nvs)]
    /\ count' = Len(nvs)
    /\ reloaded' = reloaded \cup ToSet(nvs)
    /\ lost' = lost \cup {m \in Queued \cap accepted \cap Critical :
                            unsaved /\ sent[m] = 0 /\ m \notin ToSet(nvs)}
    /\ UNCHANGED <<nvs, accepted, sent, evicted, unsaved>>

Work(t) ==
    \/ PublishAtOnce(t) \/ PublishRefused(t)
    \/ HasRoom(t) \/ MakeRoom(t) \/ NoRoom(t) \/ Claim(t) \/ Fill(t)
    \/ OpenFails(t) \/ Erase(t) \/ Write(t)
    \/ Tick(t) \/ Scan(t) \/ TryAccepted(t) \/ TryRefused(t) \/ Sent(t) \/ Failed(t)

Next ==
    \/ \E t \in Tasks : Work(t) \/ \E m \in Messages : Offer(t, m)
    \/ \E i \in Slots : BackoffEnds(i)
    \/ Connect \/ Disconnect \/ ClientRestart \/ Reboot

(* Every iteration of the main loop ticks, the client accepts a publish    *)
(* now and then while connected, and the clock runs.                       *)
Fairness ==
    /\ \A t \in Tasks : WF_vars(Work(t)) /\ SF_vars(TryAccepted(t))
    /\ SF_vars(Tick("main"))
    /\ \A i \in Slots : WF_vars(BackoffEnds(i))

Spec == Init /\ [][Next]_vars /\ Fairness

----------------------------------------------------------------------------
(* DEVICE_COMMANDS.md: critical acks remain queued until the client        *)
(* accepts the publish.  The two ways out are a queue full of critical     *)
(* messages and a reboot between the erase and the end of a save, or       *)
(* after a save that failed.                                               *)
CriticalKept ==
    \A m \in accepted \cap Critical :
        sent[m] > 0 \/ m \in Queued \cup evicted \cup lost

(* Outside the queue code, NVS holds what is still to be sent: neither a   *)
(* message sent meanwhile nor, unless the last save failed, less.  So a    *)
(* message is published twice only if it was reloaded from NVS.            *)
SavedIsQueued ==
    ~unsaved /\ (\A t \in Tasks : task[t].pc = "idle") =>
        ToSet(nvs) = Queued \cap Critical
TwiceIsReloaded == \A m \in Messages : sent[m] = 2 => m \in reloaded
SavedOnce == SavedIsQueued /\ TwiceIsReloaded

(* While the connection lasts and nothing restarts, no critical message    *)
(* stays queued unsent, whatever the backoffs and new messages do: with    *)
(* CriticalKept, it is sent or was evicted.                                *)
Delivered ==
    <>[]connected /\ <>[][~Reboot /\ ~ClientRestart]_vars =>
        \A m \in Critical : []<>(sent[m] > 0 \/ m \notin Queued)
============================================================================

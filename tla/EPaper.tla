------------------------------- MODULE EPaper -------------------------------
(***************************************************************************)
(* The wake cycle of the e-paper display                                   *)
(* (src/capabilities/epaper_pm/epaper_pm_capability.cpp): it wakes, asks   *)
(* OMS for orders and for its page, paints what is new, and sleeps for a   *)
(* time that depends on what came of it.  The panel keeps its paint        *)
(* without power; all else the next cycle knows is in NVS.  Time is counted*)
(* in the units of the intervals.  OMS and the panel are external.         *)
(***************************************************************************)
EXTENDS DeviceParameters

(* What OMS has for this display: an image, whose ETag names it; 409, not  *)
(* bound to an asset; 404, retired.                                        *)
Pages == Images \cup {"bind", "gone"}

Orders == {"force", "full", "retire", "unretire", "identify", "reset"}

VARIABLES
    page,    \* what OMS has
    panel,   \* what can be seen
    kept,    \* NVS, namespace "epaper"
    held,    \* its copy in the globals
    cycle,   \* the next step of tickFn
    desired, \* what pollDesiredState returned
    result,  \* the result of the cycle so far
    changes, \* bound: what OMS did
    faults,
    missed   \* history: a card, a failed image or a reset came between the
             \* panel and the ETag, and no image was painted since

memory == <<kept, held>>
vars   == <<page, panel, memory, cycle, desired, result, changes, faults,
            missed>>

Longest == FullEvery   \* the accumulated time is only compared with it
Streaks == 0..MaxStreak

Memories == [etag : Images \cup {None}, unchanged : Streaks, failures : Streaks,
             minutes : 0..Longest, sched : Nat, wake : Cadences,
             retired : BOOLEAN]

TypeOK ==
    /\ page \in Pages
    /\ panel \in Images \cup {"blank", "bind", "retired", "identify", "reset"}
    /\ kept \in Memories /\ held \in Memories
    /\ cycle \in {"asleep", "orders", "act", "clear", "fetch", "paint", "save"}
    /\ desired \subseteq Orders
    /\ result \in {"ok", "unchanged", "bind", "retired", "error"}
    /\ changes \in 0..MaxChanges /\ faults \in 0..MaxFaults
    /\ missed \in BOOLEAN

Default == CHOOSE wake \in Cadences : TRUE

(* loadFromNvs on an erased namespace.                                     *)
Fresh == [etag |-> None, unchanged |-> 0, failures |-> 0, minutes |-> 0,
          sched |-> Default, wake |-> Default, retired |-> FALSE]

Init ==
    /\ page = "bind" /\ panel = "blank"
    /\ kept = Fresh /\ held = Fresh
    /\ cycle = "asleep" /\ desired = {} /\ result = "error"
    /\ changes = 0 /\ faults = 0 /\ missed = FALSE

----------------------------------------------------------------------------
(* Operators marked "fault" are plausible slips of the definition after    *)
(* them; only the mutation runs use them.                                  *)

(* OMS gets another page for the display: rendered, bound, retired.        *)
PageChange ==
    /\ changes < MaxChanges
    /\ page' \in Pages \ {page}
    /\ changes' = changes + 1
    /\ UNCHANGED <<panel, memory, cycle, desired, result, faults, missed>>

Fault == faults < MaxFaults /\ faults' = faults + 1

(* A reset or a loss of power inside the cycle: the globals are lost.      *)
Reset ==
    /\ cycle # "asleep" /\ Fault
    /\ cycle' = "asleep" /\ held' = kept
    /\ desired' = {} /\ result' = "error"
    /\ missed' = (missed \/ cycle \in {"clear", "save"})
    /\ UNCHANGED <<page, panel, kept, changes>>

(* setupFn, and tickFn adds the time slept since the cycle before.         *)
Capped(n) == IF n > Longest THEN Longest ELSE n

ElapsedOfThisSleep(m) == m.sched \* fault: the sum is not carried over the sleep
Elapsed(m) == m.minutes + m.sched

Wake ==
    /\ cycle = "asleep"
    /\ held' = [kept EXCEPT !.minutes = Capped(Elapsed(kept))]
    /\ result' = "error"
    /\ cycle' = "orders"
    /\ UNCHANGED <<page, panel, kept, desired, changes, faults, missed>>

(* pollDesiredState: nothing ordered, or it cannot be asked.               *)
NoOrders ==
    /\ cycle = "orders"
    /\ cycle' = "act"
    /\ UNCHANGED <<page, panel, memory, desired, result, changes, faults,
                   missed>>

(* An answer may set the cadence, which is stored at once, and order things*)
PollOrders ==
    /\ cycle = "orders" /\ changes < MaxChanges
    /\ changes' = changes + 1
    /\ desired' \in SUBSET Orders
    /\ \E wake \in Cadences :
          /\ held' = [held EXCEPT !.wake = wake]
          /\ kept' = [kept EXCEPT !.wake = wake]
    /\ cycle' = "act"
    /\ UNCHANGED <<page, panel, result, faults, missed>>

----------------------------------------------------------------------------
(* factoryResetAndRestart: a new display_id, which OMS sees unbound.       *)
FactoryReset ==
    /\ cycle = "act" /\ "reset" \in desired
    /\ panel' = "reset" /\ page' = "bind"
    /\ kept' = Fresh /\ held' = Fresh
    /\ cycle' = "asleep" /\ desired' = {}
    /\ missed' = FALSE
    /\ UNCHANGED <<result, changes, faults>>

(* A reset after its card has been painted: the namespace is kept.         *)
FactoryResetCut ==
    /\ cycle = "act" /\ "reset" \in desired /\ Fault
    /\ panel' = "reset"
    /\ held' = kept
    /\ cycle' = "asleep" /\ desired' = {} /\ result' = "error"
    /\ missed' = TRUE
    /\ UNCHANGED <<page, kept, changes>>

(* The retired flag after the orders; "retire" has the last word.          *)
Retired == "retire" \in desired \/ (held.retired /\ "unretire" \notin desired)

StoreRetired ==
    /\ held' = [held EXCEPT !.retired = Retired]
    /\ kept' = [kept EXCEPT !.retired = Retired]

Shows(card) == panel' = card /\ cycle' = "save" /\ desired' = {}

Identify ==
    /\ cycle = "act"
    /\ "identify" \in desired /\ desired \cap {"reset", "retire"} = {}
    /\ StoreRetired
    /\ Shows("identify") /\ result' = "ok"
    /\ missed' = TRUE
    /\ UNCHANGED <<page, changes, faults>>

StayRetired ==
    /\ cycle = "act" /\ "reset" \notin desired
    /\ "identify" \in desired => "retire" \in desired
    /\ Retired /\ StoreRetired
    /\ Shows("retired") /\ result' = "retired"
    /\ missed' = TRUE
    /\ UNCHANGED <<page, changes, faults>>

(* Otherwise the panel is to show the page: after a sweep of the panel if  *)
(* it is ordered or due, and with the ETag forgotten if that is ordered.   *)
ForgottenCount(m) == [m EXCEPT !.unchanged = 0] \* fault: the ETag is kept
Forgotten(m) == [m EXCEPT !.etag = None, !.unchanged = 0]

SweepDue == "full" \in desired \/ held.minutes >= FullEvery

ShowPage ==
    /\ cycle = "act"
    /\ desired \cap {"reset", "retire", "identify"} = {} /\ ~Retired
    /\ LET Told(m) == [(IF "force" \in desired THEN Forgotten(m) ELSE m)
                          EXCEPT !.retired = FALSE]
       IN  held' = Told(held) /\ kept' = Told(kept)
    /\ IF SweepDue
       THEN panel' = "blank" /\ cycle' = "clear"
       ELSE cycle' = "fetch" /\ UNCHANGED panel
    /\ desired' = {}
    /\ missed' = (missed /\ "force" \notin desired)
    /\ UNCHANGED <<page, result, changes, faults>>

(* The sweep is followed by clearImageCache.                               *)
Clear ==
    /\ cycle = "clear"
    /\ held' = [Forgotten(held) EXCEPT !.minutes = 0]
    /\ kept' = Forgotten(kept)
    /\ cycle' = "fetch"
    /\ missed' = FALSE
    /\ UNCHANGED <<page, panel, desired, result, changes, faults>>

----------------------------------------------------------------------------
(* fetchImage.  The ETag is stored when the header has been read, the image*)
(* is painted if the rest can be read and decoded.                         *)
FetchCard ==
    /\ cycle = "fetch" /\ page \notin Images
    /\ panel' = (IF page = "bind" THEN "bind" ELSE "retired")
    /\ result' = (IF page = "bind" THEN "bind" ELSE "retired")
    /\ cycle' = "save"
    /\ missed' = TRUE
    /\ UNCHANGED <<page, memory, desired, changes, faults>>

FetchUnchanged ==
    /\ cycle = "fetch" /\ page \in Images /\ held.etag = page
    /\ result' = "unchanged"
    /\ cycle' = "save"
    /\ UNCHANGED <<page, panel, memory, desired, changes, faults, missed>>

FetchHeader ==
    /\ cycle = "fetch" /\ page \in Images /\ held.etag # page
    /\ held' = [held EXCEPT !.etag = page]
    /\ cycle' = "paint"
    /\ UNCHANGED <<page, panel, kept, desired, result, changes, faults, missed>>

Paint ==
    /\ cycle = "paint"
    /\ panel' = held.etag /\ result' = "ok"
    /\ cycle' = "save"
    /\ missed' = FALSE
    /\ UNCHANGED <<page, memory, desired, changes, faults>>

(* No WiFi, an error of transport, or a PNG that is too long, short or bad.*)
FetchFails ==
    /\ cycle \in {"fetch", "paint"} /\ Fault
    /\ cycle' = "save"
    /\ missed' = (missed \/ cycle = "paint")
    /\ UNCHANGED <<page, panel, memory, desired, result, changes>>

----------------------------------------------------------------------------
(* nextWakeIntervalForResult.                                              *)
Doubled(base, times, most) ==
    LET interval == base * 2^times
    IN  IF interval \in 0..most THEN interval ELSE most

More(n) == IF n = MaxStreak THEN n ELSE n + 1

Scheduled(m) ==
    CASE result = "ok" ->
           [m EXCEPT !.unchanged = 0, !.failures = 0, !.sched = m.wake]
      [] result = "unchanged" ->
           [m EXCEPT !.unchanged = More(m.unchanged), !.failures = 0,
                     !.sched = Doubled(m.wake, m.unchanged, QuietCap)]
      [] result = "bind" ->
           [m EXCEPT !.unchanged = 0, !.failures = 0, !.sched = BindRetry]
      [] result = "retired" ->
           [m EXCEPT !.unchanged = 0, !.failures = 0, !.sched = QuietCap]
      [] result = "error" ->
           [m EXCEPT !.unchanged = 0, !.failures = More(m.failures),
                     !.sched = Doubled(ErrorBase, m.failures, ErrorCap)]

(* persistWakeState, then deep sleep.                                      *)
Save ==
    /\ cycle = "save"
    /\ held' = Scheduled(held)
    /\ kept' = held'
    /\ cycle' = "asleep" /\ result' = "error"
    /\ UNCHANGED <<page, panel, desired, changes, faults, missed>>

(* Power is lost between two of its writes.                                *)
Written == <<"etag", "unchanged", "failures", "minutes", "sched">>

SaveCut ==
    /\ cycle = "save" /\ Fault
    /\ \E n \in 1..4 :
          kept' = [key \in DOMAIN kept |->
                      IF \E i \in 1..n : Written[i] = key
                      THEN Scheduled(held)[key] ELSE kept[key]]
    /\ held' = kept'
    /\ cycle' = "asleep" /\ result' = "error"
    /\ UNCHANGED <<page, panel, desired, changes, missed>>

----------------------------------------------------------------------------
Cycle == \/ Wake \/ NoOrders \/ PollOrders
         \/ FactoryReset \/ Identify \/ StayRetired \/ ShowPage \/ Clear
         \/ FetchCard \/ FetchUnchanged \/ FetchHeader \/ Paint \/ FetchFails
         \/ Save

Next == Cycle \/ PageChange \/ Reset \/ FactoryResetCut \/ SaveCut

(* The timer wakes the device, and every wait of the cycle has an end.     *)
Fairness == WF_vars(Cycle)
Spec == Init /\ [][Next]_vars /\ Fairness

----------------------------------------------------------------------------
(* Whatever failed, was ordered or was cut short on the way: once OMS has  *)
(* no more changes and nothing fails any more, the panel comes to show what*)
(* OMS has for it, and stays so through every sleep.                       *)
Due == IF kept.retired \/ page = "gone" THEN "retired" ELSE page

Rested == cycle = "asleep" => panel = Due

Shown == <>[]Rested

(* After a failure of transport or decoding the image is tried again on the*)
(* next wake, and the comment on the sweep wants no 304 to leave the panel *)
(* white: where the device takes its page for unchanged, the panel shows   *)
(* it.                                                                     *)
UnchangedIsShown == cycle = "save" /\ result = "unchanged" => panel = held.etag

(* The device takes its page for unchanged on the word of the ETag, and so *)
(* leaves the panel as it is: rightly, unless something that can be seen   *)
(* took the place of the image, or the image of the ETag was never painted,*)
(* or a reset came before the ETag was stored or forgotten.                *)
ShownUnlessMissed == missed \/ UnchangedIsShown

=============================================================================

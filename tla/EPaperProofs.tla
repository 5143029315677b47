---------------------------- MODULE EPaperProofs ----------------------------
(***************************************************************************)
(* What EPaper promises of the ETag, for all intervals and bounds: short of*)
(* the cases its history counts, an unchanged page is on the panel.        *)
(***************************************************************************)
EXTENDS EPaper, TLAPS

(* As much of the types as the argument needs.                             *)
Keys == {"etag", "unchanged", "failures", "minutes", "sched", "wake", "retired"}

IsMemory(m) == m = [key \in Keys |-> m[key]]

Shape ==
    /\ IsMemory(kept) /\ IsMemory(held)
    /\ result \in {"ok", "unchanged", "bind", "retired", "error"}

(* The ETag speaks of the panel, or of nothing.                            *)
Tells(m) == m.etag \in {None, panel}

(* Where each copy can be relied on.  Between the sweep and the clearing of*)
(* the cache neither can; between the header and the paint the one in NVS; *)
(* before the save, the one in memory.                                     *)
Truthful ==
    \/ missed
    \/ cycle = "asleep" /\ Tells(kept) /\ held.etag = kept.etag
    \/ cycle \in {"orders", "act", "fetch"} /\ Tells(kept)
       /\ held.etag = kept.etag
    \/ cycle = "clear"
    \/ cycle = "paint" /\ Tells(kept)
    \/ cycle = "save" /\ Tells(held)
       /\ (result = "unchanged" => held.etag # None)

(* Until the image has been asked for there is no result.                  *)
Undecided == cycle \notin {"asleep", "save"} => result = "error"

ETagInv == Shape /\ Truthful /\ Undecided

----------------------------------------------------------------------------
(* What is saved is of the same shape and keeps the ETag.                  *)
LEMMA ScheduledShape ==
  ASSUME Shape
  PROVE  IsMemory(Scheduled(held)) /\ Scheduled(held).etag = held.etag
<1>1. /\ IsMemory(held)
      /\ result \in {"ok", "unchanged", "bind", "retired", "error"}
  BY DEF Shape
<1> USE <1>1 DEF IsMemory, Keys, Scheduled
<1>2. CASE result = "ok"
  BY <1>2
<1>3. CASE result = "unchanged"
  BY <1>3
<1>4. CASE result = "bind"
  BY <1>4
<1>5. CASE result = "retired"
  BY <1>5
<1>6. CASE result = "error"
  BY <1>6
<1>7. QED
  BY <1>2, <1>3, <1>4, <1>5, <1>6

LEMMA InitETagInv == Init => ETagInv
<1> SUFFICES ASSUME Init
             PROVE  ETagInv
  OBVIOUS
<1>1. IsMemory(Fresh) /\ Fresh.etag = None
  BY DEF IsMemory, Keys, Fresh
<1>2. QED
  BY <1>1 DEF Init, ETagInv, Shape, Truthful, Tells, Undecided

(* The steps of OMS and of the environment.                                *)
LEMMA OutsideStep ==
  ASSUME ETagInv, PageChange \/ Reset
  PROVE  ETagInv'
<1> USE DEF ETagInv, Shape, Truthful, Tells, Undecided
<1>1. CASE PageChange
  BY <1>1 DEF PageChange, memory, IsMemory
<1>2. CASE Reset
  BY <1>2 DEF Reset, Fault, IsMemory
<1>3. QED
  BY <1>1, <1>2

(* From the wake to the decision what to show.                             *)
LEMMA OrderStep ==
  ASSUME ETagInv, Wake \/ NoOrders \/ PollOrders
  PROVE  ETagInv'
<1> USE DEF ETagInv, Shape, Truthful, Tells, Undecided
<1>1. CASE Wake
  <2>1. IsMemory(held') /\ held'.etag = kept.etag
    BY <1>1 DEF Wake, IsMemory, Keys
  <2>2. QED
    BY <1>1, <2>1 DEF Wake, IsMemory
<1>2. CASE NoOrders
  BY <1>2 DEF NoOrders, memory, IsMemory
<1>3. CASE PollOrders
  <2>1. PICK wake \in Cadences : /\ held' = [held EXCEPT !.wake = wake]
                                 /\ kept' = [kept EXCEPT !.wake = wake]
    BY <1>3 DEF PollOrders
  <2>2. /\ IsMemory(held') /\ held'.etag = held.etag
        /\ IsMemory(kept') /\ kept'.etag = kept.etag
    BY <2>1 DEF IsMemory, Keys
  <2>3. QED
    BY <1>3, <2>2 DEF PollOrders, IsMemory
<1>4. QED
  BY <1>1, <1>2, <1>3

(* A card takes the panel, which the history notes, or the namespace is    *)
(* erased with it.                                                         *)
LEMMA CardStep ==
  ASSUME ETagInv, FactoryReset \/ FactoryResetCut \/ Identify \/ StayRetired
               \/ FetchCard
  PROVE  ETagInv'
<1> USE DEF ETagInv, Shape, Truthful, Tells, Undecided
<1>1. CASE FactoryReset
  <2>1. IsMemory(Fresh) /\ Fresh.etag = None
    BY DEF IsMemory, Keys, Fresh
  <2>2. QED
    BY <1>1, <2>1 DEF FactoryReset, IsMemory
<1>2. CASE Identify \/ StayRetired
  <2>1. IsMemory(held') /\ IsMemory(kept')
    BY <1>2 DEF Identify, StayRetired, StoreRetired, IsMemory, Keys
  <2>2. missed' /\ cycle' = "save" /\ result' \in {"ok", "retired"}
    BY <1>2 DEF Identify, StayRetired, Shows
  <2>3. QED
    BY <2>1, <2>2
<1>3. CASE FetchCard
  BY <1>3 DEF FetchCard, memory, IsMemory
<1>4. CASE FactoryResetCut
  BY <1>4 DEF FactoryResetCut, Fault, IsMemory
<1>5. QED
  BY <1>1, <1>2, <1>3, <1>4

(* The sweep, and the cache cleared on order or after it.                  *)
LEMMA ForgottenShape ==
  ASSUME NEW m, IsMemory(m)
  PROVE  IsMemory(Forgotten(m)) /\ Forgotten(m).etag = None
BY DEF IsMemory, Keys, Forgotten

LEMMA SweepStep ==
  ASSUME ETagInv, ShowPage \/ Clear
  PROVE  ETagInv'
<1> USE DEF ETagInv, Shape, Truthful, Tells, Undecided
<1>1. CASE ShowPage
  <2> DEFINE Told(m) == [(IF "force" \in desired THEN Forgotten(m) ELSE m)
                            EXCEPT !.retired = FALSE]
  <2>1. ASSUME NEW m, IsMemory(m)
        PROVE  /\ IsMemory(Told(m))
               /\ Told(m).etag = IF "force" \in desired THEN None ELSE m.etag
    BY <2>1, ForgottenShape DEF IsMemory, Keys
  <2>2. held' = Told(held) /\ kept' = Told(kept)
    BY <1>1 DEF ShowPage
  <2>3. /\ IsMemory(held') /\ IsMemory(kept')
        /\ held'.etag = IF "force" \in desired THEN None ELSE held.etag
        /\ kept'.etag = IF "force" \in desired THEN None ELSE kept.etag
    BY <2>1, <2>2
  <2>4. /\ cycle = "act" /\ result' = result
        /\ missed' = (missed /\ "force" \notin desired)
        /\ cycle' = "clear" \/ (cycle' = "fetch" /\ panel' = panel)
    BY <1>1 DEF ShowPage
  <2> HIDE DEF Told
  <2>5. Truthful'
    BY <2>3, <2>4
  <2>6. QED
    BY <2>3, <2>4, <2>5
<1>2. CASE Clear
  <2>1. /\ IsMemory(Forgotten(held)) /\ Forgotten(held).etag = None
        /\ IsMemory(Forgotten(kept)) /\ Forgotten(kept).etag = None
    BY ForgottenShape
  <2>2. IsMemory(held') /\ held'.etag = None
    BY <1>2, <2>1 DEF Clear, IsMemory, Keys
  <2>3. QED
    BY <1>2, <2>1, <2>2 DEF Clear
<1>3. QED
  BY <1>1, <1>2

(* The image.                                                              *)
LEMMA ImageStep ==
  ASSUME ETagInv, FetchUnchanged \/ FetchHeader \/ Paint \/ FetchFails
  PROVE  ETagInv'
<1> USE DEF ETagInv, Shape, Truthful, Tells, Undecided
<1>1. CASE FetchUnchanged
  <2>1. held.etag # None
    BY <1>1, PanelAssumption DEF FetchUnchanged, PanelAssumption
  <2>2. QED
    BY <1>1, <2>1 DEF FetchUnchanged, memory, IsMemory
<1>2. CASE FetchHeader
  <2>1. IsMemory(held')
    BY <1>2 DEF FetchHeader, IsMemory, Keys
  <2>2. QED
    BY <1>2, <2>1 DEF FetchHeader
<1>3. CASE Paint
  BY <1>3 DEF Paint, memory, IsMemory
<1>4. CASE FetchFails
  BY <1>4 DEF FetchFails, Fault, memory, IsMemory
<1>5. QED
  BY <1>1, <1>2, <1>3, <1>4

(* The save, whole or cut short: the ETag is its first write.              *)
LEMMA SaveStep ==
  ASSUME ETagInv, Save \/ SaveCut
  PROVE  ETagInv'
<1> USE DEF ETagInv, Shape, Truthful, Tells, Undecided
<1>1. IsMemory(Scheduled(held)) /\ Scheduled(held).etag = held.etag
  BY ScheduledShape
<1>2. CASE Save
  BY <1>1, <1>2 DEF Save, IsMemory
<1>3. CASE SaveCut
  <2>1. PICK n \in 1..4 :
           kept' = [key \in DOMAIN kept |->
                      IF \E i \in 1..n : Written[i] = key
                      THEN Scheduled(held)[key] ELSE kept[key]]
    BY <1>3 DEF SaveCut
  <2>2. DOMAIN kept = Keys
    BY DEF IsMemory
  <2>3. IsMemory(kept')
    BY <2>1, <2>2 DEF IsMemory
  <2>4. 1 \in 1..n /\ Written[1] = "etag" /\ "etag" \in DOMAIN kept
    BY <2>2 DEF Written, Keys
  <2>5. kept'["etag"] = Scheduled(held)["etag"]
    BY <2>1, <2>4
  <2>6. QED
    BY <1>1, <1>3, <2>3, <2>5 DEF SaveCut
<1>4. QED
  BY <1>2, <1>3

LEMMA StepETagInv == ETagInv /\ [Next]_vars => ETagInv'
<1> SUFFICES ASSUME ETagInv, [Next]_vars
             PROVE  ETagInv'
  OBVIOUS
<1>1. CASE UNCHANGED vars
  BY <1>1 DEF vars, memory, ETagInv, Shape, Truthful, Tells, Undecided, IsMemory
<1>2. CASE Next
  BY <1>2, OutsideStep, OrderStep, CardStep, SweepStep, ImageStep, SaveStep
     DEF Next, Cycle
<1>3. QED
  BY <1>1, <1>2

----------------------------------------------------------------------------
(* The types.  Of an image whose header was read the ETag is known.        *)
Typed == TypeOK /\ (cycle = "paint" => held.etag \in Images)

LEMMA Intervals ==
  /\ {BindRetry, ErrorBase, ErrorCap, QuietCap, Longest, MaxStreak} \subseteq Nat \ {0}
  /\ Cadences \subseteq Nat /\ Default \in Cadences
  BY PanelAssumption DEF PanelAssumption, Default, Longest

LEMMA FreshType == Fresh \in Memories
<1>1. Default \in Cadences /\ Default \in Nat /\ 0 \in Streaks /\ 0 \in 0..Longest
  BY Intervals DEF Streaks
<1>2. FALSE \in BOOLEAN
  OBVIOUS
<1> QED
  BY <1>1, <1>2 DEF Fresh, Memories

LEMMA DoubledType ==
  ASSUME NEW base, NEW times, NEW most \in Nat
  PROVE  Doubled(base, times, most) \in Nat
<1> DEFINE interval == base * 2^times
<1>1. Doubled(base, times, most) = IF interval \in 0..most THEN interval ELSE most
  BY DEF Doubled
<1> HIDE DEF interval
<1> QED
  BY <1>1

(* What the steps do to a memory leaves one.                               *)
LEMMA MemoryTypes ==
  ASSUME NEW m \in Memories
  PROVE  /\ \A wake \in Cadences : [m EXCEPT !.wake = wake] \in Memories
         /\ \A b \in BOOLEAN : [m EXCEPT !.retired = b] \in Memories
         /\ \A e \in Images : [m EXCEPT !.etag = e] \in Memories
         /\ \A n \in 0..Longest : [m EXCEPT !.minutes = n] \in Memories
         /\ Forgotten(m) \in Memories
         /\ Capped(Elapsed(m)) \in 0..Longest
<1>1. /\ \A wake \in Cadences : [m EXCEPT !.wake = wake] \in Memories
      /\ \A b \in BOOLEAN : [m EXCEPT !.retired = b] \in Memories
      /\ \A e \in Images : [m EXCEPT !.etag = e] \in Memories
      /\ \A n \in 0..Longest : [m EXCEPT !.minutes = n] \in Memories
  BY DEF Memories
<1>2. Forgotten(m) \in Memories
  <2>1. 0 \in Streaks
    BY Intervals DEF Streaks
  <2> QED
    BY <2>1 DEF Memories, Forgotten
<1>3. Capped(Elapsed(m)) \in 0..Longest
  BY Intervals DEF Memories, Capped, Elapsed
<1> QED
  BY <1>1, <1>2, <1>3

LEMMA ScheduledType ==
  ASSUME NEW m \in Memories, result \in {"ok", "unchanged", "bind", "retired", "error"}
  PROVE  Scheduled(m) \in Memories /\ Scheduled(m).etag = m.etag
<1>1. 0 \in Streaks /\ \A n \in Streaks : More(n) \in Streaks
  BY Intervals DEF Streaks, More
<1>2. /\ m.wake \in Nat /\ m.unchanged \in Streaks /\ m.failures \in Streaks
      /\ BindRetry \in Nat /\ QuietCap \in Nat /\ ErrorCap \in Nat
  BY Intervals DEF Memories
<1>3. /\ Doubled(m.wake, m.unchanged, QuietCap) \in Nat
      /\ Doubled(ErrorBase, m.failures, ErrorCap) \in Nat
  BY <1>2, DoubledType
<1>4. \A u, f \in Streaks, n \in Nat :
          /\ [m EXCEPT !.unchanged = u, !.failures = f, !.sched = n] \in Memories
          /\ [m EXCEPT !.unchanged = u, !.failures = f, !.sched = n].etag = m.etag
  BY DEF Memories
<1> DEFINE Updated(u, f, n) == [m EXCEPT !.unchanged = u, !.failures = f, !.sched = n]
<1>5. \A u, f \in Streaks, n \in Nat :
          Updated(u, f, n) \in Memories /\ Updated(u, f, n).etag = m.etag
  BY <1>4
<1>6. \E u, f \in Streaks, n \in Nat : Scheduled(m) = Updated(u, f, n)
  <2>1. CASE result = "ok"
    <3>1. Scheduled(m) = Updated(0, 0, m.wake)
      BY <2>1 DEF Scheduled
    <3> HIDE DEF Updated
    <3> QED
      BY <1>1, <1>2, <3>1
  <2>2. CASE result = "unchanged"
    <3>1. Scheduled(m) = Updated(More(m.unchanged), 0, Doubled(m.wake, m.unchanged, QuietCap))
      BY <2>2 DEF Scheduled
    <3> HIDE DEF Updated
    <3> QED
      BY <1>1, <1>2, <1>3, <3>1
  <2>3. CASE result = "bind"
    <3>1. Scheduled(m) = Updated(0, 0, BindRetry)
      BY <2>3 DEF Scheduled
    <3> HIDE DEF Updated
    <3> QED
      BY <1>1, <1>2, <3>1
  <2>4. CASE result = "retired"
    <3>1. Scheduled(m) = Updated(0, 0, QuietCap)
      BY <2>4 DEF Scheduled
    <3> HIDE DEF Updated
    <3> QED
      BY <1>1, <1>2, <3>1
  <2>5. CASE result = "error"
    <3>1. Scheduled(m) = Updated(0, More(m.failures), Doubled(ErrorBase, m.failures, ErrorCap))
      BY <2>5 DEF Scheduled
    <3> HIDE DEF Updated
    <3> QED
      BY <1>1, <1>2, <1>3, <3>1
  <2> QED
    BY <2>1, <2>2, <2>3, <2>4, <2>5
<1> HIDE DEF Updated
<1> QED
  BY <1>5, <1>6

LEMMA InitTyped == Init => Typed
<1>1. /\ 0 \in 0..MaxChanges /\ 0 \in 0..MaxFaults
  BY PanelAssumption, BoundsAssumption DEF PanelAssumption, BoundsAssumption
<1> QED
  BY <1>1, FreshType DEF Init, Typed, TypeOK, Pages

(* Told OMS's orders, a memory is one.                                     *)
LEMMA ToldType ==
  ASSUME NEW m \in Memories, NEW force \in BOOLEAN
  PROVE  [(IF force THEN Forgotten(m) ELSE m) EXCEPT !.retired = FALSE] \in Memories
<1>1. (IF force THEN Forgotten(m) ELSE m) \in Memories
  BY MemoryTypes
<1> QED
  BY <1>1, MemoryTypes

LEMMA StepTyped == Typed /\ [Next]_vars => Typed'
<1> SUFFICES ASSUME Typed, [Next]_vars
             PROVE  Typed'
  OBVIOUS
<1> USE DEF Typed, TypeOK
<1>1. CASE PageChange
  <2>1. changes' \in 0..MaxChanges
    BY <1>1, PanelAssumption DEF PageChange, PanelAssumption
  <2> QED
    BY <1>1, <2>1 DEF PageChange, memory
<1>2. ASSUME Fault
      PROVE  faults' \in 0..MaxFaults
  BY <1>2, BoundsAssumption DEF Fault, BoundsAssumption
<1>3. CASE Reset
  BY <1>2, <1>3 DEF Reset
<1>4. CASE Wake
  <2>1. held' \in Memories
    BY <1>4, MemoryTypes DEF Wake
  <2> QED
    BY <1>4, <2>1 DEF Wake
<1>5. CASE NoOrders
  BY <1>5 DEF NoOrders, memory
<1>6. CASE PollOrders
  <2>1. held' \in Memories /\ kept' \in Memories
    BY <1>6, MemoryTypes DEF PollOrders
  <2>2. changes' \in 0..MaxChanges
    BY <1>6, PanelAssumption DEF PollOrders, PanelAssumption
  <2> QED
    BY <1>6, <2>1, <2>2 DEF PollOrders
<1>7. CASE FactoryReset
  BY <1>7, FreshType DEF FactoryReset, Pages
<1>8. CASE FactoryResetCut
  BY <1>2, <1>8 DEF FactoryResetCut
<1>9. ASSUME StoreRetired
      PROVE  held' \in Memories /\ kept' \in Memories
  <2>1. Retired \in BOOLEAN
    BY Zenon DEF Retired, Memories
  <2> QED
    BY <1>9, <2>1, MemoryTypes DEF StoreRetired
<1>10. CASE Identify
  BY <1>9, <1>10 DEF Identify, Shows
<1>11. CASE StayRetired
  BY <1>9, <1>11 DEF StayRetired, Shows
<1>12. CASE ShowPage
  <2>1. held' \in Memories /\ kept' \in Memories
    BY <1>12, ToldType DEF ShowPage
  <2> QED
    BY <1>12, <2>1 DEF ShowPage
<1>13. CASE Clear
  <2>1. Forgotten(held) \in Memories /\ Forgotten(kept) \in Memories /\ 0 \in 0..Longest
    BY MemoryTypes, Intervals
  <2>2. held' \in Memories /\ kept' \in Memories
    BY <1>13, <2>1, MemoryTypes DEF Clear
  <2> QED
    BY <1>13, <2>2 DEF Clear
<1>14. CASE FetchCard
  BY <1>14 DEF FetchCard, memory
<1>15. CASE FetchUnchanged
  BY <1>15 DEF FetchUnchanged, memory
<1>16. CASE FetchHeader
  <2>1. held' \in Memories /\ held'.etag = page
    BY <1>16, MemoryTypes DEF FetchHeader, Memories
  <2> QED
    BY <1>16, <2>1 DEF FetchHeader
<1>17. CASE Paint
  BY <1>17 DEF Paint, memory
<1>18. CASE FetchFails
  BY <1>2, <1>18 DEF FetchFails, memory
<1>19. CASE Save
  <2>1. Scheduled(held) \in Memories
    BY ScheduledType
  <2> QED
    BY <1>19, <2>1 DEF Save
<1>20. CASE SaveCut
  <2>1. Scheduled(held) \in Memories
    BY ScheduledType
  <2>2. PICK n \in 1..4 :
           kept' = [key \in DOMAIN kept |->
                      IF \E i \in 1..n : Written[i] = key
                      THEN Scheduled(held)[key] ELSE kept[key]]
    BY <1>20 DEF SaveCut
  <2>3. kept' \in Memories
    BY <2>1, <2>2 DEF Memories
  <2> QED
    BY <1>2, <1>20, <2>3 DEF SaveCut
<1>21. CASE UNCHANGED vars
  BY <1>21 DEF vars, memory
<1> QED
  BY <1>1, <1>3, <1>4, <1>5, <1>6, <1>7, <1>8, <1>10, <1>11, <1>12, <1>13, <1>14,
     <1>15, <1>16, <1>17, <1>18, <1>19, <1>20, <1>21 DEF Next, Cycle

IInv == Typed /\ ETagInv

LEMMA InitIInv == Init => IInv
  BY InitTyped, InitETagInv DEF IInv

LEMMA StepIInv == IInv /\ [Next]_vars => IInv'
  BY StepTyped, StepETagInv DEF IInv

(* What the invariant was strengthened from: where the device takes its    *)
(* page for unchanged, the panel shows it, except after a card, an image   *)
(* that failed behind its header, or a reset beside a write of the ETag.   *)
LEMMA Promises == IInv => TypeOK /\ ShownUnlessMissed
  BY DEF IInv, Typed, ETagInv, Truthful, Tells, ShownUnlessMissed, UnchangedIsShown

=============================================================================

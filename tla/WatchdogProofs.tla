--------------------------- MODULE WatchdogProofs ---------------------------
(***************************************************************************)
(* Proofs about Watchdog, for every number of subsystems, their timeouts,  *)
(* every bound on time and depth and every set of preemption points.  A    *)
(* premise on PreemptAt names the statements of main's code that the other *)
(* task must not separate from the one before.                             *)
(***************************************************************************)
EXTENDS Watchdog, TLAPS, FiniteSetTheorems

(* The parts of TypeOK, proved one by one; the loop variable is that of a   *)
(* subsystem while one is dealt with.                                      *)
TickOK ==
    /\ pc \in Points \cup {"loop"}
    /\ i \in 0..Count
    /\ pc \in {"warn", "escalate", "doomed"} => i \in Subsystems
    /\ unsafe \in BOOLEAN

GuardOK ==
    /\ busy \subseteq {Ota}
    /\ depth \in 0..DepthMax
    /\ holders \subseteq Guards
    /\ loaded \in 0..DepthMax
    /\ section \in {"none", "save", "saved", "pulsed"}

ClockOK ==
    /\ up \in 0..OverdueMax
    /\ lag \in 0..MaxStall
    /\ fed \in 0..TaskTimeout
    /\ warned \in [Subsystems -> {Never} \cup 0..WarnedMax]

AgeOK == age \in [Subsystems -> Nat] /\ \A s \in Subsystems : age[s] <= AgeMax(s)
SinceOK == since \in [Subsystems -> {Never} \cup 0..OverdueMax]

HistoryOK ==
    /\ late \in BOOLEAN /\ overlapped \in BOOLEAN
    /\ strays \in 0..(MaxStray + 1)

Typed == TickOK /\ GuardOK /\ ClockOK /\ AgeOK /\ SinceOK /\ HistoryOK

LEMMA TypeInit == Init => Typed
<1> SUFFICES ASSUME Init PROVE Typed
  OBVIOUS
<1>1. TickOK
  <2>1. unsafe \in BOOLEAN
    BY Zenon DEF Init
  <2>2. QED
    BY <2>1, CountAssumption DEF Init, TickOK, CountAssumption
<1>2. GuardOK /\ ClockOK
  BY DepthAssumption, TimesAssumption
  DEF Init, GuardOK, ClockOK, OverdueMax, Never, DepthAssumption, TimesAssumption
<1>3. AgeOK /\ SinceOK
  BY TimeoutAssumption, TimesAssumption
  DEF Init, AgeOK, SinceOK, AgeMax, Never, TimeoutAssumption, TimesAssumption
<1>4. HistoryOK
  <2>1. late \in BOOLEAN /\ overlapped \in BOOLEAN
    BY Zenon DEF Init
  <2>2. QED
    BY <2>1, TimesAssumption DEF Init, HistoryOK, TimesAssumption
<1>5. QED
  BY <1>1, <1>2, <1>3, <1>4 DEF Typed

----------------------------------------------------------------------------
LEMMA TickStep == ASSUME TickOK, [Next]_vars PROVE TickOK'
<1> USE DEF tick, Subsystems
<1>1. CASE Advance \/ MarkLoop \/ MarkLinked
  BY <1>1 DEF Advance, MarkLoop, MarkLinked, TickOK, Points
<1>2. CASE (\E what \in {"save", "saved", "pulsed"} : LoadDepth(what)) \/ StoreDepth
  BY <1>2 DEF LoadDepth, StoreDepth, TickOK, Points
<1>3. CASE BeginTick \/ EndTick
  <2>1. unsafe' \in BOOLEAN
    BY <1>3, Zenon DEF BeginTick, EndTick, TickOK
  <2>2. QED
    BY <1>3, <2>1, CountAssumption
    DEF BeginTick, EndTick, TickOK, Points, CountAssumption
<1>4. CASE FindOverdue
  <2>1. unsafe' \in BOOLEAN
    BY <1>4, Zenon DEF FindOverdue
  <2>2. QED
    BY <1>4, <2>1, CountAssumption DEF FindOverdue, TickOK, Points, CountAssumption
<1>5. CASE Skip \/ (\E recovered \in BOOLEAN : Warn(recovered)) \/ NoWarning
  BY <1>5, CountAssumption
  DEF Skip, Warn, NoWarning, TickOK, Points, CountAssumption
<1>6. CASE Escalate
  BY <1>6, CountAssumption DEF Escalate, TickOK, Points, CountAssumption
<1>7. CASE EspRestart \/ Bite \/ PowerLoss
  <2>1. unsafe' \in BOOLEAN
    BY <1>7, Zenon DEF EspRestart, Bite, PowerLoss, Boot
  <2>2. QED
    BY <1>7, <2>1, CountAssumption
    DEF EspRestart, Bite, PowerLoss, Boot, TickOK, CountAssumption
<1>8. CASE Handler \/ UNCHANGED vars
  BY <1>8 DEF Handler, OtaBegin, OtaSuspend, OtaProgress, OtaResume, OtaEnd,
     NvsSuspend, NvsResume, PulseSuspend, PulseResume, Enter, Leave, MarkBusy, vars,
     TickOK
<1>9. QED
  BY <1>1, <1>2, <1>3, <1>4, <1>5, <1>6, <1>7, <1>8 DEF Next, Main

LEMMA GuardStep == ASSUME GuardOK, [Next]_vars PROVE GuardOK'
<1> USE DEF guard, rmw
<1>1. DepthMax \in Nat
  BY DepthAssumption DEF DepthAssumption
<1>2. CASE Advance
  BY <1>2 DEF Advance, GuardOK
<1>3. CASE \E what \in {"save", "saved", "pulsed"} : LoadDepth(what)
  BY <1>3 DEF LoadDepth, GuardOK
<1>4. CASE StoreDepth
  <2>1. holders' \subseteq Guards
    BY <1>4 DEF StoreDepth, GuardOK, Guards
  <2>2. depth' \in 0..DepthMax
    BY <1>1, <1>4 DEF StoreDepth, GuardOK, Suspended, Resumed
  <2>3. QED
    BY <1>1, <1>4, <2>1, <2>2 DEF StoreDepth, GuardOK
<1>5. CASE \/ MarkLoop \/ BeginTick \/ MarkLinked \/ Skip \/ FindOverdue
           \/ NoWarning \/ Escalate \/ EndTick
  BY <1>5
  DEF MarkLoop, BeginTick, MarkLinked, Skip, FindOverdue, NoWarning, Escalate,
      EndTick, GuardOK
<1>6. CASE \E recovered \in BOOLEAN : Warn(recovered)
  BY <1>6 DEF Warn, GuardOK
<1>7. CASE EspRestart \/ Bite \/ PowerLoss
  BY <1>1, <1>7 DEF EspRestart, Bite, PowerLoss, Boot, GuardOK
<1>8. CASE OtaBegin \/ OtaEnd \/ OtaProgress
  BY <1>8 DEF OtaBegin, OtaEnd, OtaProgress, MarkBusy, GuardOK
<1>9. CASE OtaSuspend \/ NvsSuspend \/ PulseSuspend
  <2>1. holders' \subseteq Guards
    BY <1>9 DEF OtaSuspend, NvsSuspend, PulseSuspend, Enter, Guards, GuardOK
  <2>2. QED
    BY <1>1, <1>9, <2>1
    DEF OtaSuspend, NvsSuspend, PulseSuspend, Enter, Suspended, GuardOK
<1>10. CASE OtaResume \/ NvsResume \/ PulseResume
  BY <1>1, <1>10 DEF OtaResume, NvsResume, PulseResume, Leave, Resumed, GuardOK
<1>11. CASE UNCHANGED vars
  BY <1>11 DEF vars, GuardOK
<1>12. QED
  BY <1>2, <1>3, <1>4, <1>5, <1>6, <1>7, <1>8, <1>9, <1>10, <1>11
  DEF Next, Main, Handler

LEMMA ClockStep == ASSUME ClockOK, [Next]_vars PROVE ClockOK'
<1> USE TimesAssumption
    DEF ClockOK, TimesAssumption, OverdueMax, WarnedMax, Never, timers
<1>1. CASE Advance
  BY <1>1 DEF Advance, Older
<1>2. CASE \E what \in {"save", "saved", "pulsed"} : LoadDepth(what)
  BY <1>2 DEF LoadDepth
<1>3. CASE StoreDepth
  BY <1>3 DEF StoreDepth
<1>4. CASE \/ MarkLoop \/ BeginTick \/ MarkLinked \/ Skip \/ FindOverdue
           \/ NoWarning \/ Escalate \/ EndTick
  BY <1>4
  DEF MarkLoop, BeginTick, MarkLinked, Skip, FindOverdue, NoWarning, Escalate,
      EndTick
<1>5. CASE \E recovered \in BOOLEAN : Warn(recovered)
  <2>1. warned' = [warned EXCEPT ![i] = lag] /\ fed' \in {0, fed} /\ UNCHANGED <<up, lag>>
    BY <1>5 DEF Warn
  <2>2. lag \in {Never} \cup 0..WarnedMax
    OBVIOUS
  <2>3. warned' \in [Subsystems -> {Never} \cup 0..WarnedMax]
    BY <2>1, <2>2, Zenon
  <2>4. up' \in 0..OverdueMax /\ lag' \in 0..MaxStall /\ fed' \in 0..TaskTimeout
    BY <2>1
  <2>5. QED
    BY <2>3, <2>4
<1>6. CASE EspRestart \/ Bite \/ PowerLoss
  BY <1>6 DEF EspRestart, Bite, PowerLoss, Boot
<1>7. CASE Handler
  BY <1>7 DEF Handler, OtaBegin, OtaSuspend, OtaProgress, OtaResume, OtaEnd,
     NvsSuspend, NvsResume, PulseSuspend, PulseResume, Enter, Leave, MarkBusy
<1>8. CASE UNCHANGED vars
  BY <1>8 DEF vars
<1>9. QED
  BY <1>1, <1>2, <1>3, <1>4, <1>5, <1>6, <1>7, <1>8 DEF Next, Main

(* A step changes an age to 0, or by the passing of time.                  *)
LEMMA AgeStep == ASSUME AgeOK, [Next]_vars PROVE AgeOK'
<1> USE TimesAssumption, TimeoutAssumption
    DEF AgeOK, AgeMax, TimesAssumption, TimeoutAssumption, timers
<1>1. CASE Advance
  BY <1>1 DEF Advance, Older, Never
<1>2. CASE \E what \in {"save", "saved", "pulsed"} : LoadDepth(what)
  BY <1>2 DEF LoadDepth
<1>3. CASE StoreDepth
  BY <1>3 DEF StoreDepth, Refresh
<1>4. CASE MarkLoop \/ BeginTick \/ MarkLinked
  BY <1>4 DEF MarkLoop, BeginTick, MarkLinked, MarkHealthy
<1>5. CASE Skip \/ FindOverdue \/ NoWarning \/ Escalate \/ EndTick
  BY <1>5 DEF Skip, FindOverdue, NoWarning, Escalate, EndTick
<1>6. CASE \E recovered \in BOOLEAN : Warn(recovered)
  BY <1>6 DEF Warn
<1>7. CASE EspRestart \/ Bite \/ PowerLoss
  BY <1>7 DEF EspRestart, Bite, PowerLoss, Boot
<1>8. CASE OtaBegin \/ OtaEnd \/ OtaProgress
  BY <1>8 DEF OtaBegin, OtaEnd, OtaProgress, MarkBusy, MarkHealthy
<1>9. CASE OtaSuspend \/ NvsSuspend \/ PulseSuspend \/ UNCHANGED vars
  BY <1>9 DEF OtaSuspend, NvsSuspend, PulseSuspend, Enter, vars
<1>10. CASE OtaResume \/ NvsResume \/ PulseResume
  BY <1>10 DEF OtaResume, NvsResume, PulseResume, Leave, Refresh
<1>11. QED
  BY <1>1, <1>2, <1>3, <1>4, <1>5, <1>6, <1>7, <1>8, <1>9, <1>10
  DEF Next, Main, Handler

LEMMA SinceStep == ASSUME SinceOK, ClockOK, TickOK, [Next]_vars PROVE SinceOK'
<1> USE TimesAssumption DEF SinceOK, OverdueMax, Never, TimesAssumption, timers
<1>1. CASE Advance
  BY <1>1 DEF Advance, Older
<1>2. CASE \/ StoreDepth
           \/ \E what \in {"save", "saved", "pulsed"} : LoadDepth(what)
  BY <1>2 DEF LoadDepth, StoreDepth
<1>3. CASE MarkLoop \/ BeginTick \/ MarkLinked
  BY <1>3 DEF MarkLoop, BeginTick, MarkLinked, MarkHealthy
<1>4. CASE Skip \/ NoWarning \/ Escalate \/ EndTick
  BY <1>4 DEF Skip, NoWarning, Escalate, EndTick
<1>5. CASE FindOverdue
  <2>1. First(i) \in {Never} \cup 0..OverdueMax
    BY <1>5, CountAssumption
    DEF FindOverdue, First, ClockOK, TickOK, Subsystems, CountAssumption
  <2>2. since' = [since EXCEPT ![i] = First(i)]
    BY <1>5 DEF FindOverdue
  <2>3. QED
    BY <2>1, <2>2
<1>6. CASE \E recovered \in BOOLEAN : Warn(recovered)
  BY <1>6 DEF Warn
<1>7. CASE EspRestart \/ Bite \/ PowerLoss
  BY <1>7 DEF EspRestart, Bite, PowerLoss, Boot
<1>8. CASE OtaBegin \/ OtaEnd \/ OtaProgress
  BY <1>8 DEF OtaBegin, OtaEnd, OtaProgress, MarkBusy, MarkHealthy
<1>9. CASE \/ OtaSuspend \/ NvsSuspend \/ PulseSuspend
           \/ OtaResume \/ NvsResume \/ PulseResume
  BY <1>9
  DEF OtaSuspend, NvsSuspend, PulseSuspend, Enter, OtaResume, NvsResume,
      PulseResume, Leave
<1>10. CASE UNCHANGED vars
  BY <1>10 DEF vars
<1>11. QED
  BY <1>1, <1>2, <1>3, <1>4, <1>5, <1>6, <1>7, <1>8, <1>9, <1>10
  DEF Next, Main, Handler

LEMMA HistoryStep == ASSUME HistoryOK, [Next]_vars PROVE HistoryOK'
<1>1. late' \in BOOLEAN /\ overlapped' \in BOOLEAN
  BY Zenon DEF HistoryOK, history, vars, Next, Main, Handler, Advance,
     LoadDepth, StoreDepth, MarkLoop, BeginTick, MarkLinked, Skip, FindOverdue, Warn,
     NoWarning, Escalate, EndTick, EspRestart, Bite, PowerLoss, Boot,
     OtaBegin, OtaSuspend, OtaProgress, OtaResume, OtaEnd,
     NvsSuspend, NvsResume, PulseSuspend, PulseResume, Enter, Leave, MarkBusy
<1>2. strays' \in 0..(MaxStray + 1)
  <2> USE TimesAssumption DEF HistoryOK, TimesAssumption
  <2>1. CASE FindOverdue
    BY <2>1 DEF FindOverdue
  <2>2. CASE EndTick
    BY <2>2 DEF EndTick
  <2>3. CASE EspRestart \/ Bite \/ PowerLoss
    BY <2>3 DEF EspRestart, Bite, PowerLoss, Boot
  <2>4. CASE Advance
    BY <2>4 DEF Advance
  <2>5. ASSUME ~(FindOverdue \/ EndTick \/ EspRestart \/ Bite \/ PowerLoss \/ Advance)
        PROVE  UNCHANGED strays
    BY <2>5, Zenon DEF history, vars, Next, Main, Handler,
       LoadDepth, StoreDepth, MarkLoop, BeginTick, MarkLinked, Skip, Warn,
       NoWarning, Escalate, OtaBegin, OtaSuspend, OtaProgress, OtaResume, OtaEnd,
       NvsSuspend, NvsResume, PulseSuspend, PulseResume, Enter, Leave, MarkBusy
  <2>6. QED
    BY <2>1, <2>2, <2>3, <2>4, <2>5
<1>3. QED
  BY <1>1, <1>2 DEF HistoryOK

LEMMA TypedStep == Typed /\ [Next]_vars => Typed'
BY TickStep, GuardStep, ClockStep, AgeStep, SinceStep, HistoryStep DEF Typed

LEMMA Types == Spec => []Typed
BY TypeInit, TypedStep, PTL DEF Spec

(* The timers saturate within their ranges and the suspend depth within    *)
(* its uint8_t, whatever the two tasks interleave.                         *)
THEOREM TypeCorrect == Spec => []TypeOK
<1>1. Typed => TypeOK
  BY DEF Typed, TypeOK, TickOK, GuardOK, ClockOK, AgeOK, SinceOK, HistoryOK
<1>2. QED
  BY Types, <1>1, PTL

----------------------------------------------------------------------------
(* The suspend depth counts the guards that are held.                      *)

LEMMA GuardsFinite ==
  ASSUME NEW S \in SUBSET Guards
  PROVE  IsFiniteSet(S) /\ Cardinality(S) \in 0..DepthMax
<1>1. IsFiniteSet(Guards)
  <2>1. IsFiniteSet({"ota"})
    BY FS_Singleton
  <2>2. IsFiniteSet({"ota"} \cup {"nvs"})
    BY <2>1, FS_AddElement
  <2>3. IsFiniteSet(({"ota"} \cup {"nvs"}) \cup {"pulse"})
    BY <2>2, FS_AddElement
  <2>4. IsFiniteSet((({"ota"} \cup {"nvs"}) \cup {"pulse"}) \cup {"save"})
    BY <2>3, FS_AddElement
  <2>5. Guards = (({"ota"} \cup {"nvs"}) \cup {"pulse"}) \cup {"save"}
    BY DEF Guards
  <2>6. QED
    BY <2>4, <2>5
<1>2. IsFiniteSet(S) /\ Cardinality(S) <= Cardinality(Guards)
  BY <1>1, FS_Subset
<1>3. Cardinality(S) \in Nat /\ Cardinality(Guards) \in Nat
  BY <1>1, <1>2, FS_CardinalityType
<1>4. DepthMax \in Nat /\ DepthMax >= Cardinality(Guards)
  BY DepthAssumption DEF DepthAssumption
<1>5. QED
  BY <1>2, <1>3, <1>4

LEMMA EnterCounts ==
  ASSUME NEW S \in SUBSET Guards, NEW g \in Guards, g \notin S
  PROVE  Cardinality(S \cup {g}) = Cardinality(S) + 1
BY GuardsFinite, FS_AddElement

LEMMA LeaveCounts ==
  ASSUME NEW S \in SUBSET Guards, NEW g \in S
  PROVE  Cardinality(S) = Cardinality(S \ {g}) + 1
<1>1. IsFiniteSet(S) /\ IsFiniteSet(S \ {g})
  BY GuardsFinite
<1>2. (S \ {g}) \cup {g} = S
  OBVIOUS
<1>3. QED
  BY <1>1, <1>2, FS_AddElement

(* What main has loaded is still the depth, and the section it enters is   *)
(* still one to enter.                                                     *)
LoadedExact ==
    pc = "store" =>
        /\ loaded = depth
        /\ section \in {"save", "saved", "pulsed"}
        /\ section = "save" => "save" \notin holders

(* GuardExact in two parts: nobody lacks a guard, and nobody left one.     *)
Enough == Due <= depth
NoneLeft == depth = Due \/ overlapped

Exact == Enough /\ NoneLeft /\ LoadedExact

LEMMA DueCounts ==
  ASSUME GuardOK
  PROVE  /\ Cardinality(holders) \in 0..DepthMax /\ Owed \in {0, 1} /\ Due \in Nat
         /\ depth \in Nat /\ DepthMax \in Nat
<1>1. Cardinality(holders) \in 0..DepthMax
  BY GuardsFinite DEF GuardOK
<1>2. DepthMax \in Nat
  BY DepthAssumption DEF DepthAssumption
<1>3. QED
  BY <1>1, <1>2 DEF Owed, Due, GuardOK

LEMMA SuspendedKeeps ==
  ASSUME NEW d \in 0..DepthMax, NEW n \in Nat, n <= d, n + 1 <= DepthMax
  PROVE  n + 1 <= Suspended(d) /\ (d = n => Suspended(d) = n + 1)
BY DepthAssumption DEF Suspended, DepthAssumption

LEMMA ResumedKeeps ==
  ASSUME NEW d \in Nat, NEW n \in Nat, n + 1 <= d
  PROVE  n <= Resumed(d) /\ (d = n + 1 => Resumed(d) = n)
BY DEF Resumed

LEMMA ExactLoad ==
  ASSUME Typed, Exact, NEW what \in {"save", "saved", "pulsed"}, LoadDepth(what)
  PROVE  Exact'
<1>1. /\ Cardinality(holders) \in Nat /\ Owed = 0
      /\ pc' = "store" /\ section' = what /\ loaded' = depth /\ depth' = depth
      /\ overlapped' = overlapped
  BY DueCounts DEF LoadDepth, Owed, Typed, history
<1>2. holders \in SUBSET Guards
  BY DEF Typed, GuardOK
<1>3. Due' = Due
  <2>1. CASE what = "save"
    BY <1>1, <2>1 DEF LoadDepth, Due, Owed
  <2>2. ASSUME NEW g \in holders, holders' = holders \ {g}, what # "save"
        PROVE  Due' = Due
    <3>1. Cardinality(holders) = Cardinality(holders') + 1
      BY <1>2, <2>2, LeaveCounts
    <3>2. holders' \in SUBSET Guards
      BY <1>2, <2>2
    <3>3. Cardinality(holders') \in Nat
      BY <3>2, GuardsFinite
    <3>4. Owed' = 1
      BY <1>1, <2>2 DEF Owed
    <3>5. QED
      BY <1>1, <3>1, <3>3, <3>4 DEF Due
  <2>3. QED
    BY <2>1, <2>2 DEF LoadDepth
<1>4. LoadedExact'
  BY <1>1 DEF LoadDepth, LoadedExact
<1>5. Enough' /\ NoneLeft'
  BY <1>1, <1>3 DEF Exact, Enough, NoneLeft
<1>6. QED
  BY <1>4, <1>5 DEF Exact

LEMMA ExactStore == ASSUME Typed, Exact, StoreDepth PROVE Exact'
<1>1. /\ pc = "store" /\ pc' = "loop" /\ loaded = depth /\ Owed' = 0
      /\ section \in {"save", "saved", "pulsed"}
      /\ overlapped' = overlapped
  BY DEF StoreDepth, Exact, LoadedExact, Owed, history
<1>2. /\ Cardinality(holders) \in 0..DepthMax /\ Owed \in {0, 1} /\ Due \in Nat
      /\ depth \in 0..DepthMax /\ DepthMax \in Nat
      /\ holders \in SUBSET Guards
  BY DueCounts DEF Typed, GuardOK
<1>3. CASE section = "save"
  <2>1. depth' = Suspended(depth) /\ holders' = holders \cup {"save"} /\ Owed = 0
    BY <1>1, <1>3 DEF StoreDepth, Owed
  <2>2. "save" \in Guards /\ "save" \notin holders /\ holders' \in SUBSET Guards
    BY <1>1, <1>2, <1>3, <2>1 DEF Exact, LoadedExact, Guards
  <2>3. /\ Cardinality(holders') = Cardinality(holders) + 1
        /\ Cardinality(holders') \in 0..DepthMax
    BY <1>2, <2>1, <2>2, EnterCounts, GuardsFinite
  <2>4. Due' = Due + 1 /\ Due' <= DepthMax
    BY <1>1, <1>2, <2>1, <2>3 DEF Due
  <2>5. Due' <= depth' /\ (depth = Due => depth' = Due')
    BY <1>2, <2>1, <2>4, SuspendedKeeps DEF Exact, Enough
  <2>6. QED
    BY <1>1, <2>5 DEF Exact, Enough, NoneLeft, LoadedExact
<1>4. CASE section # "save"
  <2>1. depth' = Resumed(depth) /\ holders' = holders /\ Owed = 1
    BY <1>1, <1>4 DEF StoreDepth, Owed
  <2>2. Due = Due' + 1 /\ Due' \in Nat /\ depth \in Nat
    BY <1>1, <1>2, <2>1 DEF Due
  <2>3. Due' <= depth' /\ (depth = Due => depth' = Due')
    BY <1>2, <2>1, <2>2, ResumedKeeps DEF Exact, Enough
  <2>4. QED
    BY <1>1, <2>3 DEF Exact, Enough, NoneLeft, LoadedExact
<1>5. QED
  BY <1>3, <1>4

(* A guard taken twice counts once: that is an unlock meeting a pulse.     *)
LEMMA ExactEnter ==
  ASSUME Typed, Exact, pc # "store", NEW g \in Guards, Enter(g)
  PROVE  Exact'
<1>1. /\ depth' = Suspended(depth) /\ holders' = holders \cup {g}
      /\ pc' # "store" /\ Owed = 0 /\ Owed' = 0
  BY DEF Enter, tick, Owed
<1>2. /\ Cardinality(holders) \in 0..DepthMax /\ Due \in Nat
      /\ depth \in 0..DepthMax /\ DepthMax \in Nat
      /\ holders \in SUBSET Guards
  BY DueCounts DEF Typed, GuardOK
<1>3. CASE g \in holders
  <2>1. Due' = Due
    BY <1>1, <1>3 DEF Due
  <2>2. depth' >= depth
    BY <1>1, <1>2 DEF Suspended
  <2>3. Enough'
    BY <1>1, <1>2, <2>1, <2>2 DEF Exact, Enough, Suspended
  <2>4. overlapped'
    BY <1>3, Zenon DEF Enter
  <2>5. QED
    BY <1>1, <2>3, <2>4 DEF Exact, NoneLeft, LoadedExact
<1>4. CASE g \notin holders
  <2>1. /\ Cardinality(holders') = Cardinality(holders) + 1
        /\ Cardinality(holders') \in 0..DepthMax
    BY <1>1, <1>2, <1>4, EnterCounts, GuardsFinite
  <2>2. Due' = Due + 1 /\ Due' <= DepthMax
    BY <1>1, <1>2, <2>1 DEF Due
  <2>3. Due' <= depth' /\ (depth = Due => depth' = Due')
    BY <1>1, <1>2, <2>2, SuspendedKeeps DEF Exact, Enough
  <2>4. overlapped => overlapped'
    BY Zenon DEF Enter
  <2>5. QED
    BY <1>1, <2>3, <2>4 DEF Exact, Enough, NoneLeft, LoadedExact
<1>5. QED
  BY <1>3, <1>4

LEMMA ExactLeave ==
  ASSUME Typed, Exact, pc # "store", NEW g \in holders, Leave(g)
  PROVE  Exact'
<1>1. /\ depth' = Resumed(depth) /\ holders' = holders \ {g}
      /\ pc' # "store" /\ Owed = 0 /\ Owed' = 0 /\ overlapped' = overlapped
  BY DEF Leave, tick, history, Owed
<1>2. /\ Due \in Nat /\ depth \in Nat
      /\ Cardinality(holders) \in Nat /\ holders \in SUBSET Guards
  BY DueCounts DEF Typed, GuardOK
<1>3. /\ Cardinality(holders) = Cardinality(holders') + 1
      /\ Cardinality(holders') \in Nat
  <2>1. holders' \in SUBSET Guards
    BY <1>1, <1>2
  <2>2. QED
    BY <1>1, <1>2, <2>1, LeaveCounts, GuardsFinite
<1>4. Due = Due' + 1 /\ Due' \in Nat
  BY <1>1, <1>3 DEF Due
<1>5. Due' <= depth' /\ (depth = Due => depth' = Due')
  BY <1>1, <1>2, <1>4, ResumedKeeps DEF Exact, Enough
<1>6. QED
  BY <1>1, <1>5 DEF Exact, Enough, NoneLeft, LoadedExact

LEMMA ExactStep ==
  ASSUME "store" \notin PreemptAt, Typed, Exact, [Next]_vars
  PROVE  Exact'
<1> USE DEF Exact, Enough, NoneLeft, LoadedExact, Due, Owed
<1>1. CASE Advance
  BY <1>1 DEF Advance, tick, rmw, guard, history
<1>2. CASE (\E what \in {"save", "saved", "pulsed"} : LoadDepth(what)) \/ StoreDepth
  BY <1>2, ExactLoad, ExactStore
<1>3. CASE \/ MarkLoop \/ BeginTick \/ MarkLinked \/ Skip \/ FindOverdue
           \/ NoWarning \/ Escalate \/ EndTick
  BY <1>3
  DEF MarkLoop, BeginTick, MarkLinked, Skip, FindOverdue, NoWarning, Escalate,
     EndTick, guard, history
<1>4. CASE \E recovered \in BOOLEAN : Warn(recovered)
  BY <1>4 DEF Warn, guard, history
<1>5. CASE EspRestart \/ Bite \/ PowerLoss
  BY <1>5, FS_EmptySet DEF EspRestart, Bite, PowerLoss, Boot
<1>6. CASE Handler
  <2> HIDE DEF Exact, Enough, NoneLeft, LoadedExact, Due, Owed
  <2>1. pc # "store"
    BY <1>6 DEF Handler, OtaBegin, OtaSuspend, OtaProgress, OtaResume, OtaEnd,
       NvsSuspend, NvsResume, PulseSuspend, PulseResume, MayRun, Free
  <2>2. CASE OtaBegin \/ OtaEnd \/ OtaProgress
    BY <2>1, <2>2
    DEF OtaBegin, OtaEnd, OtaProgress, MarkBusy, guard, tick, rmw, history,
       Exact, Enough, NoneLeft, LoadedExact, Due, Owed
  <2>3. CASE OtaSuspend \/ NvsSuspend \/ PulseSuspend
    BY <2>1, <2>3, ExactEnter DEF OtaSuspend, NvsSuspend, PulseSuspend, Guards
  <2>4. CASE OtaResume \/ NvsResume \/ PulseResume
    BY <2>1, <2>4, ExactLeave DEF OtaResume, NvsResume, PulseResume
  <2>5. QED
    BY <1>6, <2>2, <2>3, <2>4 DEF Handler
<1>7. CASE UNCHANGED vars
  BY <1>7 DEF vars, guard, tick, rmw, history
<1>8. QED
  BY <1>1, <1>2, <1>3, <1>4, <1>5, <1>6, <1>7 DEF Next, Main

LEMMA Exactly == "store" \notin PreemptAt => (Spec => []Exact)
<1> SUFFICES ASSUME "store" \notin PreemptAt PROVE Spec => []Exact
  OBVIOUS
<1>1. Init => Exact
  BY FS_EmptySet DEF Init, Exact, Enough, NoneLeft, LoadedExact, Due, Owed
<1>2. Typed /\ Exact /\ [Next]_vars => Exact'
  BY ExactStep
<1>3. QED
  BY <1>1, <1>2, Types, PTL DEF Spec

(* If the other task cannot come between the load and the store of         *)
(* s_suspend_depth++ and --, no critical section being executed lacks its  *)
(* guard, although the depth may saturate; and as long as no unlock has    *)
(* met a running pulse none has left a guard behind.                       *)
THEOREM GuardIsExact == "store" \notin PreemptAt => (Spec => []GuardExact)
<1>1. Typed /\ Exact => GuardExact
  BY DueCounts DEF Typed, Exact, Enough, NoneLeft, GuardExact
<1>2. QED
  BY <1>1, Exactly, Types, PTL

(* Main escalates only with depth 0, and nothing enters while it is doomed. *)
LEMMA UnguardedStep ==
  ASSUME "doomed" \notin PreemptAt, Typed, Exact, DoomedUnguarded, [Next]_vars
  PROVE  DoomedUnguarded'
<1> USE DEF DoomedUnguarded
<1>1. CASE Advance
  BY <1>1 DEF Advance, tick, guard
<1>2. CASE (\E what \in {"save", "saved", "pulsed"} : LoadDepth(what)) \/ StoreDepth
  BY <1>2 DEF LoadDepth, StoreDepth
<1>3. CASE \/ MarkLoop \/ BeginTick \/ MarkLinked \/ Skip \/ FindOverdue
           \/ NoWarning \/ EndTick
  BY <1>3 DEF MarkLoop, BeginTick, MarkLinked, Skip, FindOverdue, NoWarning, EndTick
<1>4. CASE \E recovered \in BOOLEAN : Warn(recovered)
  BY <1>4 DEF Warn
<1>5. CASE Escalate
  <2>1. CASE depth = 0
    <3>1. IsFiniteSet(holders) /\ Cardinality(holders) \in Nat /\ Owed \in {0, 1}
      BY GuardsFinite, DueCounts DEF Typed, GuardOK
    <3>2. holders = {}
      BY <2>1, <3>1, FS_EmptySet DEF Exact, Enough, Due
    <3>3. QED
      BY <1>5, <3>2 DEF Escalate, guard
  <2>2. CASE depth # 0
    BY <1>5, <2>2 DEF Escalate, LastResort
  <2>3. QED
    BY <2>1, <2>2
<1>6. CASE EspRestart \/ Bite \/ PowerLoss
  BY <1>6 DEF EspRestart, Bite, PowerLoss, Boot
<1>7. CASE Handler
  <2>1. MayRun /\ UNCHANGED tick
    BY <1>7 DEF Handler, OtaBegin, OtaSuspend, OtaProgress, OtaResume, OtaEnd, Free,
       NvsSuspend, NvsResume, PulseSuspend, PulseResume, Enter, Leave, MarkBusy
  <2>2. QED
    BY <2>1 DEF MayRun, tick
<1>8. CASE UNCHANGED vars
  BY <1>8 DEF vars, guard, tick
<1>9. QED
  BY <1>1, <1>2, <1>3, <1>4, <1>5, <1>6, <1>7, <1>8 DEF Next, Main

(* If neither those two statements nor the last test and the restart are   *)
(* separated, esp_restart is not called in a critical section.             *)
THEOREM DoomedIsUnguarded ==
    {"store", "doomed"} \cap PreemptAt = {} => (Spec => []DoomedUnguarded)
<1> SUFFICES ASSUME "store" \notin PreemptAt, "doomed" \notin PreemptAt
             PROVE  Spec => []DoomedUnguarded
  BY Zenon
<1>1. Init => DoomedUnguarded
  BY DEF Init, DoomedUnguarded
<1>2. Typed /\ Exact /\ DoomedUnguarded /\ [Next]_vars => DoomedUnguarded'
  BY UnguardedStep
<1>3. Spec => []Exact
  BY Exactly
<1>4. QED
  BY <1>1, <1>2, <1>3, Types, PTL DEF Spec

----------------------------------------------------------------------------
(* Whoever is warned about and escalated was found not to be busy.         *)
Blamed == pc \in {"warn", "escalate", "doomed"} => i \notin busy

LEMMA BlamedStep ==
  ASSUME {"warn", "escalate", "doomed"} \cap PreemptAt = {}, Blamed, [Next]_vars
  PROVE  Blamed'
<1> USE DEF Blamed
<1>1. CASE Advance
  BY <1>1 DEF Advance, tick
<1>2. CASE (\E what \in {"save", "saved", "pulsed"} : LoadDepth(what)) \/ StoreDepth
  BY <1>2 DEF LoadDepth, StoreDepth
<1>3. CASE MarkLoop \/ BeginTick \/ MarkLinked \/ Skip \/ EndTick
  BY <1>3 DEF MarkLoop, BeginTick, MarkLinked, Skip, EndTick
<1>4. CASE FindOverdue
  BY <1>4 DEF FindOverdue, Overdue
<1>5. CASE (\E recovered \in BOOLEAN : Warn(recovered)) \/ NoWarning \/ Escalate
  BY <1>5 DEF Warn, NoWarning, Escalate
<1>6. CASE EspRestart \/ Bite \/ PowerLoss
  BY <1>6 DEF EspRestart, Bite, PowerLoss, Boot
<1>7. CASE Handler
  <2>1. MayRun /\ UNCHANGED tick
    BY <1>7 DEF Handler, OtaBegin, OtaSuspend, OtaProgress, OtaResume, OtaEnd, Free,
       NvsSuspend, NvsResume, PulseSuspend, PulseResume, Enter, Leave, MarkBusy
  <2>2. QED
    BY <2>1 DEF MayRun, tick
<1>8. CASE UNCHANGED vars
  BY <1>8 DEF vars, tick
<1>9. QED
  BY <1>1, <1>2, <1>3, <1>4, <1>5, <1>6, <1>7, <1>8 DEF Next, Main

(* If the busy flag cannot be set between its test and the restart, the    *)
(* device is not restarted on account of a subsystem that is busy.         *)
THEOREM BusyIsSpared ==
    {"warn", "escalate", "doomed"} \cap PreemptAt = {} => (Spec => []BusySpared)
<1> SUFFICES ASSUME {"warn", "escalate", "doomed"} \cap PreemptAt = {}
             PROVE  Spec => []BusySpared
  OBVIOUS
<1>1. Init => Blamed
  BY DEF Init, Blamed
<1>2. Blamed /\ [Next]_vars => Blamed'
  BY BlamedStep
<1>3. Blamed => BusySpared
  BY DEF Blamed, BusySpared
<1>4. QED
  BY <1>1, <1>2, <1>3, PTL DEF Spec

----------------------------------------------------------------------------
(* While no subsystem has exceeded its timeout, a tick finds one overdue   *)
(* only by a mark newer than `now`: such ticks are counted, and every      *)
(* other one feeds.  So main goes unfed for the stalls between and within  *)
(* the ticks that strayed, and the present one.                            *)
OnTime == \A s \in Subsystems \ busy : age[s] <= Timeout[s]

Ticking == pc \in {"link", "check", "warn", "escalate", "doomed"}
Borne(n) == 2 * MaxStall * n

FedInTime ==
    /\ pc = "link" => ~unsafe
    /\ pc \in {"warn", "escalate", "doomed"} => unsafe
    /\ ~Ticking => fed <= Borne(strays) + lag
    /\ Ticking /\ ~unsafe => fed <= Borne(strays) + MaxStall + lag
    /\ Ticking /\ unsafe => strays > 0 /\ fed + MaxStall <= Borne(strays) + lag

Healthy ==
    /\ ~late => OnTime
    /\ ~late /\ strays <= MaxStray => FedInTime

LEMMA BorneGrows ==
  ASSUME NEW n \in Nat
  PROVE  /\ Borne(n) \in Nat /\ Borne(n + 1) = Borne(n) + 2 * MaxStall
         /\ Borne(0) = 0
         /\ n > 0 => Borne(n) >= 2 * MaxStall
         /\ n <= MaxStray => Borne(n) + 2 * MaxStall < TaskTimeout
<1>1. MaxStall \in Nat /\ MaxStray \in Nat /\ TaskTimeout > 2 * MaxStall * (MaxStray + 1)
  BY TimesAssumption DEF TimesAssumption
<1> DEFINE m == 2 * MaxStall
<1>2. m \in Nat /\ m = 2 * MaxStall
  BY <1>1
<1>3. \A k \in Nat : 2 * MaxStall * k = m * k /\ m * k \in Nat
  BY <1>2
<1>4. m * (n + 1) = m * n + m /\ m * 0 = 0
  BY <1>2
<1>5. n > 0 => m * n >= m
  BY <1>2
<1>6. n <= MaxStray => m * n + m <= 2 * MaxStall * (MaxStray + 1)
  <2>1. SUFFICES ASSUME n <= MaxStray PROVE m * (n + 1) <= m * (MaxStray + 1)
    BY <1>1, <1>3, <1>4
  <2>2. QED
    BY <1>1, <1>2, <2>1
<1>7. TaskTimeout \in Nat
  BY TimesAssumption DEF TimesAssumption
<1>8. Borne(n) = m * n /\ Borne(n + 1) = m * (n + 1) /\ Borne(0) = m * 0
  BY <1>3 DEF Borne
<1>9. m * n \in Nat /\ 2 * MaxStall * (MaxStray + 1) \in Nat
  BY <1>1, <1>2, <1>3
<1>10. QED
  <2> HIDE DEF m
  <2>1. Borne(n) + m <= 2 * MaxStall * (MaxStray + 1) \/ ~(n <= MaxStray)
    BY <1>6, <1>8
  <2>2. n <= MaxStray => Borne(n) + m < TaskTimeout
    BY <1>1, <1>2, <1>7, <1>8, <1>9, <2>1
  <2>3. QED
    BY <1>2, <1>4, <1>5, <1>8, <1>9, <2>2

LEMMA OnTimeAdvance == ASSUME Typed, Advance, ~late' PROVE ~late /\ OnTime'
<1>1. late' = (late \/ \E s \in Subsystems \ busy : age'[s] > Timeout[s])
  BY DEF Advance
<1>2. ~late /\ \A s \in Subsystems \ busy : ~(age'[s] > Timeout[s])
  BY <1>1, Zenon
<1>3. age' \in [Subsystems -> Nat] /\ busy' = busy
  BY TimesAssumption, TimeoutAssumption
  DEF Typed, AgeOK, AgeMax, Advance, Older, Never, TimesAssumption, TimeoutAssumption
<1>4. QED
  BY <1>2, <1>3, TimeoutAssumption DEF OnTime, TimeoutAssumption

(* A step other than Advance and a reset leaves the ages or sets them to 0, *)
(* and marks what ceases to be busy.                                       *)
LEMMA OnTimeRest ==
  ASSUME Typed, OnTime, [Next]_vars, ~Advance
  PROVE  OnTime'
<1> USE TimeoutAssumption DEF TimeoutAssumption
<1>1. CASE EspRestart \/ Bite \/ PowerLoss
  BY <1>1 DEF EspRestart, Bite, PowerLoss, Boot, OnTime
<1>2. CASE ~(EspRestart \/ Bite \/ PowerLoss)
  <2>1. /\ \A s \in Subsystems : age'[s] \in {0, age[s]}
        /\ busy' = busy \/ (busy' \subseteq {Ota} /\ age'[Ota] = 0)
    <3>1. CASE \/ BeginTick \/ Skip \/ FindOverdue
               \/ NoWarning \/ Escalate \/ EndTick
      BY <3>1
      DEF BeginTick, Skip, FindOverdue, NoWarning, Escalate, EndTick,
          timers
    <3>2. CASE MarkLoop \/ MarkLinked
      BY <3>2 DEF MarkLoop, MarkLinked, MarkHealthy
    <3>3. CASE StoreDepth
      BY <3>3 DEF StoreDepth, Refresh, Typed, AgeOK
    <3>4. CASE \E what \in {"save", "saved", "pulsed"} : LoadDepth(what)
      BY <3>4 DEF LoadDepth, timers
    <3>5. CASE \E recovered \in BOOLEAN : Warn(recovered)
      BY <3>5 DEF Warn
    <3>6. CASE OtaBegin \/ OtaEnd \/ OtaProgress
      BY <3>6, KindsAssumption
      DEF OtaBegin, OtaEnd, OtaProgress, MarkBusy, MarkHealthy, Typed, GuardOK,
          KindsAssumption
    <3>7. CASE OtaSuspend \/ NvsSuspend \/ PulseSuspend
      BY <3>7 DEF OtaSuspend, NvsSuspend, PulseSuspend, Enter, timers
    <3>8. CASE OtaResume \/ NvsResume \/ PulseResume
      BY <3>8 DEF OtaResume, NvsResume, PulseResume, Leave, Refresh, Typed, AgeOK
    <3>9. CASE UNCHANGED vars
      BY <3>9 DEF vars, timers
    <3>10. QED
      BY <1>2, <3>1, <3>2, <3>3, <3>4, <3>5, <3>6, <3>7, <3>8, <3>9
      DEF Next, Main, Handler
  <2>2. QED
    BY <2>1 DEF OnTime, Typed, GuardOK
<1>3. QED
  BY <1>1, <1>2

LEMMA FedAdvance == ASSUME Typed, FedInTime, Advance, ~late' PROVE FedInTime'
<1>1. lag' = lag + 1 /\ fed' \in {fed, fed + 1} /\ UNCHANGED <<pc, unsafe, strays>>
  BY DEF Advance, Older, tick
<1>2. Borne(strays) \in Nat /\ lag \in Nat /\ fed \in Nat /\ MaxStall \in Nat
  BY BorneGrows, TimesAssumption DEF Typed, ClockOK, HistoryOK, TimesAssumption
<1>3. (Ticking' <=> Ticking) /\ Borne(strays)' = Borne(strays)
  BY <1>1 DEF Ticking, Borne
<1>4. fed' <= Borne(strays)' + lag' \/ ~(fed <= Borne(strays) + lag)
  BY <1>1, <1>2, <1>3
<1>5. \/ fed' <= Borne(strays)' + MaxStall + lag'
      \/ ~(fed <= Borne(strays) + MaxStall + lag)
  BY <1>1, <1>2, <1>3
<1>6. \/ fed' + MaxStall <= Borne(strays)' + lag'
      \/ ~(fed + MaxStall <= Borne(strays) + lag)
  BY <1>1, <1>2, <1>3
<1>7. QED
  BY <1>1, <1>3, <1>4, <1>5, <1>6, Zenon DEF FedInTime

LEMMA FedBegin == ASSUME Typed, FedInTime, BeginTick PROVE FedInTime'
<1>1. ~unsafe'
  BY Zenon DEF BeginTick
<1>2. pc = "mark" /\ pc' = "link" /\ lag' = 0 /\ fed' = fed /\ strays' = strays
  BY DEF BeginTick, history
<1>3. fed <= Borne(strays) + lag
  BY <1>2 DEF FedInTime, Ticking
<1>4. /\ fed \in Nat /\ lag \in 0..MaxStall /\ MaxStall \in Nat
      /\ Borne(strays) \in Nat /\ Borne(strays)' = Borne(strays)
  BY <1>2, BorneGrows, TimesAssumption
  DEF Typed, ClockOK, HistoryOK, Borne, TimesAssumption
<1>5. fed' <= Borne(strays)' + MaxStall + lag'
  BY <1>2, <1>3, <1>4
<1>6. QED
  BY <1>1, <1>2, <1>5 DEF FedInTime, Ticking

(* Without a late subsystem the first to be found overdue is counted.      *)
LEMMA FedOverdue ==
  ASSUME Typed, ~late, OnTime, FedInTime, FindOverdue, strays <= MaxStray
  PROVE  FedInTime'
<1> USE TimesAssumption, TimeoutAssumption DEF TimesAssumption, TimeoutAssumption
<1>1. i \in Subsystems \ busy /\ pc = "check" /\ pc' = "warn" /\ UNCHANGED <<lag, fed>>
  BY CountAssumption
  DEF FindOverdue, Overdue, Subsystems, Typed, TickOK, CountAssumption
<1>2. age[i] \in Nat /\ lag \in Nat /\ age[i] <= Timeout[i] /\ Timeout[i] \in Nat
  BY <1>1 DEF Typed, AgeOK, ClockOK, OnTime
<1>3. age[i] < lag
  BY <1>2 DEF FindOverdue, Overdue, Expired
<1>4. unsafe'
  BY Zenon DEF FindOverdue
<1>5. strays \in Nat /\ fed \in Nat /\ MaxStall \in Nat /\ Borne(strays) \in Nat
  BY BorneGrows DEF Typed, ClockOK, HistoryOK
<1>6. CASE unsafe
  <2>1. strays' = strays /\ Borne(strays)' = Borne(strays)
    BY <1>6 DEF FindOverdue, Borne
  <2>2. strays > 0 /\ fed + MaxStall <= Borne(strays) + lag
    BY <1>1, <1>6 DEF FedInTime, Ticking
  <2>3. QED
    BY <1>1, <1>4, <2>1, <2>2 DEF FedInTime, Ticking
<1>7. CASE ~unsafe
  <2>1. strays' = strays + 1
    BY <1>3, <1>7 DEF FindOverdue
  <2>2. Borne(strays)' = Borne(strays) + 2 * MaxStall
    BY <1>5, <2>1, BorneGrows DEF Borne
  <2>3. fed <= Borne(strays) + MaxStall + lag
    BY <1>1, <1>7 DEF FedInTime, Ticking
  <2>4. strays' > 0 /\ fed' + MaxStall <= Borne(strays)' + lag'
    BY <1>1, <1>2, <1>5, <2>1, <2>2, <2>3
  <2>5. QED
    BY <1>1, <1>4, <2>4 DEF FedInTime, Ticking
<1>8. QED
  BY <1>6, <1>7

LEMMA FedEnd ==
  ASSUME Typed, EndTick, strays <= MaxStray => FedInTime, strays' <= MaxStray
  PROVE  FedInTime'
<1>1. pc = "check" /\ pc' = "loop" /\ lag' = 0
  BY DEF EndTick
<1>2. /\ strays \in Nat /\ fed \in Nat /\ lag \in 0..MaxStall /\ MaxStall \in Nat
      /\ Borne(strays) \in Nat
  BY BorneGrows, TimesAssumption DEF Typed, ClockOK, HistoryOK, TimesAssumption
<1>3. fed' <= Borne(strays)' + lag'
  <2>1. CASE Feeds
    <3>1. fed' = 0 /\ strays' = 0
      BY <2>1 DEF EndTick
    <3>2. Borne(strays)' = 0
      BY <3>1, BorneGrows DEF Borne
    <3>3. QED
      BY <1>1, <3>1, <3>2
  <2>2. CASE ~Feeds
    <3>1. fed' = fed /\ strays' = strays /\ Borne(strays)' = Borne(strays)
      BY <2>2 DEF EndTick, Borne
    <3>2. unsafe
      BY <2>2 DEF Feeds
    <3>3. fed + MaxStall <= Borne(strays) + lag
      BY <1>1, <3>1, <3>2 DEF FedInTime, Ticking
    <3>4. QED
      BY <1>1, <1>2, <3>1, <3>3
  <2>3. QED
    BY <2>1, <2>2
<1>4. QED
  BY <1>1, <1>3 DEF FedInTime, Ticking

(* The other steps feed, or leave main where it is in its tick or outside. *)
LEMMA FedRest ==
  ASSUME Typed, FedInTime, [Next]_vars,
         ~(\/ Advance \/ BeginTick \/ FindOverdue \/ EndTick
           \/ EspRestart \/ Bite \/ PowerLoss)
  PROVE  FedInTime'
<1>1. /\ strays' = strays /\ lag' = lag /\ fed' \in {0, fed}
      /\ Ticking' <=> Ticking
      /\ pc' # "link" \/ pc' = pc
      /\ pc' \in {"warn", "escalate", "doomed"} => pc \in {"warn", "escalate", "doomed"}
  BY DEF history, Ticking, tick, vars, Next, Main, Handler,
     LoadDepth, StoreDepth, MarkLoop, MarkLinked, Skip, Warn,
     NoWarning, Escalate, OtaBegin, OtaSuspend, OtaProgress, OtaResume, OtaEnd,
     NvsSuspend, NvsResume, PulseSuspend, PulseResume, Enter, Leave, MarkBusy
<1>2. unsafe' = unsafe
  BY Zenon DEF tick, vars, Next, Main, Handler,
     LoadDepth, StoreDepth, MarkLoop, MarkLinked, Skip, Warn,
     NoWarning, Escalate, OtaBegin, OtaSuspend, OtaProgress, OtaResume, OtaEnd,
     NvsSuspend, NvsResume, PulseSuspend, PulseResume, Enter, Leave, MarkBusy
<1>3. /\ strays \in Nat /\ fed \in Nat /\ lag \in Nat /\ MaxStall \in Nat
      /\ Borne(strays) \in Nat /\ Borne(strays)' = Borne(strays)
      /\ strays > 0 => Borne(strays) >= 2 * MaxStall
  BY <1>1, BorneGrows, TimesAssumption
  DEF Typed, ClockOK, HistoryOK, Borne, TimesAssumption
<1>4. ~Ticking' => fed' <= Borne(strays)' + lag'
  BY <1>1, <1>3 DEF FedInTime
<1>5. CASE ~unsafe
  <2>1. Ticking' => fed' <= Borne(strays)' + MaxStall + lag'
    BY <1>1, <1>3, <1>5 DEF FedInTime
  <2>2. pc' \notin {"warn", "escalate", "doomed"}
    BY <1>1, <1>5 DEF FedInTime
  <2>3. ~unsafe'
    BY <1>2, <1>5, Zenon
  <2>4. QED
    BY <1>4, <2>1, <2>2, <2>3 DEF FedInTime
<1>6. CASE unsafe
  <2>1. Ticking' => strays' > 0 /\ fed' + MaxStall <= Borne(strays)' + lag'
    BY <1>1, <1>3, <1>6 DEF FedInTime
  <2>2. pc' # "link"
    BY <1>1, <1>6 DEF FedInTime
  <2>3. unsafe'
    BY <1>2, <1>6, Zenon
  <2>4. QED
    BY <1>4, <2>1, <2>2, <2>3 DEF FedInTime
<1>7. QED
  BY <1>5, <1>6

LEMMA FedReset == ASSUME EspRestart \/ Bite \/ PowerLoss PROVE FedInTime' /\ OnTime'
<1>1. pc' = "loop" /\ fed' = 0 /\ lag' = 0 /\ strays' = 0
  BY DEF EspRestart, Bite, PowerLoss, Boot
<1>2. Borne(strays)' = 0
  BY <1>1, BorneGrows DEF Borne
<1>3. OnTime'
  BY TimeoutAssumption
  DEF EspRestart, Bite, PowerLoss, Boot, OnTime, TimeoutAssumption
<1>4. QED
  BY <1>1, <1>2, <1>3 DEF FedInTime, Ticking

LEMMA HealthyStep == ASSUME Typed, Healthy, [Next]_vars PROVE Healthy'
<1>1. CASE EspRestart \/ Bite \/ PowerLoss
  BY <1>1, FedReset DEF Healthy
<1>2. CASE Advance
  <2>1. ASSUME ~late' PROVE ~late /\ OnTime'
    BY <1>2, <2>1, OnTimeAdvance
  <2>2. late' \/ strays' = strays
    BY <1>2 DEF Advance
  <2>3. QED
    BY <1>2, <2>1, <2>2, FedAdvance, Zenon DEF Healthy
<1>3. CASE ~(EspRestart \/ Bite \/ PowerLoss \/ Advance)
  <2>1. late' = late
    BY <1>3, Zenon
    DEF Next, Main, Handler, MarkLoop, StoreDepth, LoadDepth,
       BeginTick, MarkLinked, Skip, FindOverdue, Warn, NoWarning, Escalate, EndTick,
       OtaBegin, OtaSuspend, OtaProgress, OtaResume, OtaEnd,
       NvsSuspend, NvsResume, PulseSuspend, PulseResume, Enter, Leave, MarkBusy,
       history, vars
  <2>2. OnTime => OnTime'
    BY <1>3, OnTimeRest
  <2>3. ASSUME ~late, OnTime, strays <= MaxStray => FedInTime, strays' <= MaxStray
        PROVE  FedInTime'
    <3>1. CASE EndTick
      BY <2>3, <3>1, FedEnd
    <3>2. CASE ~EndTick
      <4>1. strays <= MaxStray
        <5>1. CASE FindOverdue
          BY <2>3, <5>1, TimesAssumption
          DEF FindOverdue, Typed, HistoryOK, TimesAssumption
        <5>2. CASE ~FindOverdue
          <6>1. strays' = strays
            BY <1>3, <3>2, <5>2, Zenon
            DEF Next, Main, Handler, MarkLoop,
               StoreDepth, LoadDepth, BeginTick, MarkLinked, Skip, Warn, NoWarning, Escalate,
               OtaBegin, OtaSuspend, OtaProgress, OtaResume, OtaEnd,
               NvsSuspend, NvsResume, PulseSuspend, PulseResume, Enter, Leave, MarkBusy,
               history, vars
          <6>2. QED
            BY <2>3, <6>1
        <5>3. QED
          BY <5>1, <5>2
      <4>2. QED
        BY <1>3, <2>3, <3>2, <4>1, FedBegin, FedOverdue, FedRest
    <3>3. QED
      BY <3>1, <3>2
  <2>4. QED
    BY <2>1, <2>2, <2>3, Zenon DEF Healthy
<1>4. QED
  BY <1>1, <1>2, <1>3

(* Wherever the other task runs, a device none of whose subsystems has     *)
(* exceeded its timeout since boot is not bitten, for any stall, and any   *)
(* number of ticks in a row that err by a newer mark, for which the task   *)
(* watchdog allows.                                                        *)
THEOREM HealthyIsNotBitten == Spec => []HealthyNotBitten
<1>1. Init => Healthy
  <2> SUFFICES ASSUME Init PROVE OnTime /\ FedInTime
    BY DEF Healthy
  <2>1. OnTime
    BY TimeoutAssumption DEF Init, OnTime, TimeoutAssumption
  <2>2. pc = "loop" /\ fed = 0 /\ lag = 0 /\ strays = 0 /\ Borne(strays) = 0
    BY BorneGrows DEF Init
  <2>3. QED
    BY <2>1, <2>2 DEF FedInTime, Ticking
<1>2. Typed /\ Healthy /\ [Next]_vars => Healthy'
  BY HealthyStep
<1>3. Typed /\ Healthy => HealthyNotBitten
  <2> SUFFICES ASSUME Typed, FedInTime, strays <= MaxStray PROVE fed < TaskTimeout
    BY Zenon DEF Healthy, HealthyNotBitten
  <2>1. /\ fed \in Nat /\ lag \in 0..MaxStall /\ MaxStall \in Nat /\ TaskTimeout \in Nat
        /\ Borne(strays) \in Nat /\ Borne(strays) + 2 * MaxStall < TaskTimeout
    BY BorneGrows, TimesAssumption DEF Typed, ClockOK, HistoryOK, TimesAssumption
  <2>2. fed <= Borne(strays) + MaxStall + lag
    <3>1. CASE Ticking /\ unsafe
      BY <2>1, <3>1 DEF FedInTime
    <3>2. CASE ~(Ticking /\ unsafe)
      BY <2>1, <3>2 DEF FedInTime
    <3>3. QED
      BY <3>1, <3>2
  <2>3. QED
    BY <2>1, <2>2
<1>4. QED
  BY <1>1, <1>2, <1>3, Types, PTL DEF Spec
=============================================================================

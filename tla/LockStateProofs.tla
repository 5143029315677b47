-------------------------- MODULE LockStateProofs --------------------------
(***************************************************************************)
(* Proofs about LockState, for every pulse length, stall, counter width    *)
(* and set of preemption points.  Each invariant is proved by one step per *)
(* action; a premise on PreemptAt names the statements that must not be    *)
(* separated.                                                              *)
(***************************************************************************)
EXTENDS LockState, TLAPS

(* The flags of the two tasks stay flags.                                  *)
LEMMA FlagsStep == ASSUME TypeOK, [Next]_vars PROVE FlagsOK'
<1> USE DEF TypeOK, FlagsOK, solenoid, door, events
<1>1. CASE Advance
  BY <1>1 DEF Advance
<1>2. CASE BeginTick \/ CheckPulse \/ DropPin \/ DropFlag \/ ResumeAfterPulse
  BY <1>2, Zenon DEF BeginTick, CheckPulse, DropPin, DropFlag, ResumeAfterPulse, Low
<1>3. CASE DoorForced \/ LatchReleased \/ DoorSecured \/ MortiseTurned \/ AlarmCleared
  BY <1>3 DEF DoorForced, LatchReleased, DoorSecured, MortiseTurned, AlarmCleared, Choose
<1>4. CASE NoChange \/ StoreState \/ StoreTrigger
  BY <1>4 DEF NoChange, StoreState, StoreTrigger
<1>5. CASE SampleEvents
  BY <1>5, Zenon DEF SampleEvents
<1>6. CASE Unlock \/ EmergencyUnlock
  BY <1>6, Zenon DEF Unlock, EmergencyUnlock, StartPulse
<1>7. CASE SetLockout
  BY <1>7, Zenon DEF SetLockout, Disarmed, Low
<1>8. CASE ClearLockout \/ StartCommissioning \/ AckInitialization
  BY <1>8 DEF ClearLockout, StartCommissioning, AckInitialization
<1>9. CASE Restart
  BY <1>9, Zenon DEF Restart
<1>10. CASE UNCHANGED vars
  BY <1>10 DEF vars
<1>11. QED
  BY <1>1, <1>2, <1>3, <1>4, <1>5, <1>6, <1>7, <1>8, <1>9, <1>10
  DEF Next, MainStep, Command

LEMMA TypeStep == ASSUME TypeOK, [Next]_vars PROVE TypeOK'
<1> USE DEF solenoid, door, events
<1>0. FlagsOK'
  BY FlagsStep
<1> USE <1>0
<1>1. CASE Advance
  BY <1>1, PulseAssumption, MaxStallAssumption
  DEF TypeOK, Advance, Points, PulseAssumption, MaxStallAssumption
<1>2. CASE BeginTick \/ CheckPulse \/ DropPin \/ DropFlag
  BY <1>2, MaxStallAssumption
  DEF TypeOK, BeginTick, CheckPulse, DropPin, DropFlag, Points, MaxStallAssumption
<1>3. CASE ResumeAfterPulse
  BY <1>3, DepthMaxAssumption
  DEF TypeOK, ResumeAfterPulse, Resumed, Points, DepthMaxAssumption
<1>4. CASE DoorForced \/ LatchReleased \/ DoorSecured \/ MortiseTurned \/ AlarmCleared
  BY <1>4 DEF TypeOK, DoorForced, LatchReleased, DoorSecured, MortiseTurned,
              AlarmCleared, Choose, Points, States, Triggers
<1>5. CASE NoChange \/ StoreState \/ StoreTrigger
  BY <1>5 DEF TypeOK, NoChange, StoreState, StoreTrigger, Idle, Points, States, Triggers
<1>6. CASE SampleEvents
  BY <1>6 DEF TypeOK, SampleEvents, Sample
<1>7. CASE Unlock \/ EmergencyUnlock
  BY <1>7, DepthMaxAssumption, PulseAssumption, MaxStallAssumption
  DEF TypeOK, Unlock, EmergencyUnlock, StartPulse, Suspended, Enter, States, Triggers,
      DepthMaxAssumption, PulseAssumption, MaxStallAssumption
<1>8. CASE SetLockout
  BY <1>8, DepthMaxAssumption
  DEF TypeOK, SetLockout, Resumed, Enter, States, Triggers, DepthMaxAssumption
<1>9. CASE ClearLockout \/ StartCommissioning \/ AckInitialization
  BY <1>9 DEF TypeOK, ClearLockout, StartCommissioning, AckInitialization, Enter,
              States, Triggers
<1>10. CASE Restart
  BY <1>10, DepthMaxAssumption, PulseAssumption, MaxStallAssumption
  DEF TypeOK, Restart, Idle, States, Triggers,
      DepthMaxAssumption, PulseAssumption, MaxStallAssumption
<1>11. CASE UNCHANGED vars
  BY <1>11 DEF TypeOK, vars
<1>12. QED
  BY <1>1, <1>2, <1>3, <1>4, <1>5, <1>6, <1>7, <1>8, <1>9, <1>10, <1>11
  DEF Next, MainStep, Command

LEMMA TypeInit == Init => TypeOK
<1>1. Init => FlagsOK
  BY Zenon DEF Init, FlagsOK
<1>2. /\ 0 \in 0..DepthMax
      /\ 0 \in 0..(Pulse + MaxStall)
      /\ 0 \in 0..MaxStall
  BY DepthMaxAssumption, PulseAssumption, MaxStallAssumption
  DEF DepthMaxAssumption, PulseAssumption, MaxStallAssumption
<1>3. Idle \in [state : States, trigger : Triggers]
  BY DEF Idle, States, Triggers
<1>4. QED
  BY <1>1, <1>2, <1>3 DEF Init, TypeOK, States, Triggers

(* Every variable keeps its type: the suspend depth never wraps below 0 or *)
(* above DepthMax, whatever resumes the two tasks repeat.                  *)
THEOREM TypeCorrect == Spec => []TypeOK
<1>1. QED
  BY TypeInit, TypeStep, PTL DEF Spec

----------------------------------------------------------------------------
(* The actions that neither start nor stop a pulse.                        *)
Quiet ==
    \/ DoorForced \/ LatchReleased \/ DoorSecured \/ MortiseTurned
    \/ AlarmCleared \/ NoChange \/ StoreState \/ StoreTrigger \/ SampleEvents
    \/ ClearLockout \/ StartCommissioning \/ AckInitialization

LEMMA QuietKeepsPulse ==
  ASSUME Quiet PROVE UNCHANGED <<pin, active, depth, age, lag>>
BY DEF Quiet, DoorForced, LatchReleased, DoorSecured, MortiseTurned, AlarmCleared,
       Choose, NoChange, StoreState, StoreTrigger, SampleEvents, ClearLockout,
       StartCommissioning, AckInitialization, solenoid

(* A quiet step stays off the statements that end a pulse.                 *)
LEMMA QuietStaysAway ==
  ASSUME Quiet
  PROVE  \/ pc' = pc
         \/ /\ pc  \in {"switch", "storeState", "storeTrigger", "events"}
            /\ pc' \in {"storeState", "storeTrigger", "events", "delay"}
BY DEF Quiet, DoorForced, LatchReleased, DoorSecured, MortiseTurned, AlarmCleared,
       Choose, NoChange, StoreState, StoreTrigger, SampleEvents, ClearLockout,
       StartCommissioning, AckInitialization

(* The steps of Next, with the quiet ones together.                        *)
LEMMA NextCases ==
  ASSUME [Next]_vars
  PROVE  \/ Advance \/ BeginTick \/ CheckPulse \/ DropPin \/ DropFlag
         \/ ResumeAfterPulse \/ Quiet \/ Unlock \/ EmergencyUnlock
         \/ SetLockout \/ Restart \/ UNCHANGED vars
BY DEF Next, MainStep, Command, Quiet

(* Under lockout no pulse is armed, wherever the lockout preempted the     *)
(* tick.  The switch never chooses LOCKOUT, so the store after it cannot   *)
(* bring the lock back there with a pulse.                                 *)
NeverChosen == pending.state # "LOCKOUT"

THEOREM LockoutIsDisarmed == Spec => []LockoutDisarms
<1> DEFINE Inv == LockoutDisarms /\ NeverChosen
<1>1. Init => Inv
  BY DEF Init, LockoutDisarms, NeverChosen, Idle
<1>2. ASSUME Inv, [Next]_vars PROVE Inv'
  <2> USE <1>2 DEF LockoutDisarms, NeverChosen, solenoid
  <2>1. CASE Advance \/ BeginTick \/ CheckPulse \/ DropPin \/ ResumeAfterPulse
    BY <2>1 DEF Advance, BeginTick, CheckPulse, DropPin, ResumeAfterPulse
  <2>2. CASE DropFlag
    BY <2>2, Zenon DEF DropFlag
  <2>3. CASE DoorForced \/ LatchReleased \/ DoorSecured \/ MortiseTurned \/ AlarmCleared
    BY <2>3 DEF DoorForced, LatchReleased, DoorSecured, MortiseTurned, AlarmCleared, Choose
  <2>4. CASE NoChange \/ StoreState \/ StoreTrigger \/ SampleEvents
    BY <2>4 DEF NoChange, StoreState, StoreTrigger, SampleEvents, Idle
  <2>5. CASE Unlock \/ EmergencyUnlock
    BY <2>5 DEF Unlock, EmergencyUnlock, Enter
  <2>6. CASE SetLockout
    BY <2>6, Zenon DEF SetLockout, Disarmed
  <2>7. CASE ClearLockout \/ StartCommissioning \/ AckInitialization
    BY <2>7 DEF ClearLockout, StartCommissioning, AckInitialization, Enter
  <2>8. CASE Restart
    BY <2>8 DEF Restart, Idle
  <2>9. CASE UNCHANGED vars
    BY <2>9 DEF vars
  <2>10. QED
    BY <2>1, <2>2, <2>3, <2>4, <2>5, <2>6, <2>7, <2>8, <2>9 DEF Next, MainStep, Command
<1>3. Inv => LockoutDisarms
  OBVIOUS
<1>4. QED
  BY <1>1, <1>2, <1>3, PTL DEF Spec

(* The solenoid is switched on out of LOCKOUT by emergency_unlock only.    *)
THEOREM ReleaseIsAuthorised == Spec => ReleaseAuthorised
<1>1. ASSUME [Next]_vars, ~pin, pin'
      PROVE  state # "LOCKOUT" \/ trigger' = "EMERGENCY_UNLOCK"
  <2>1. CASE Unlock
    BY <2>1 DEF Unlock, Accepted
  <2>2. CASE EmergencyUnlock
    BY <2>2 DEF EmergencyUnlock, Enter
  <2>3. CASE Quiet
    BY <1>1, <2>3, QuietKeepsPulse
  <2>4. CASE SetLockout
    BY <1>1, <2>4, Zenon DEF SetLockout, Disarmed, Low
  <2>5. CASE Advance \/ BeginTick \/ CheckPulse \/ DropFlag \/ ResumeAfterPulse
    BY <1>1, <2>5 DEF Advance, BeginTick, CheckPulse, DropFlag, ResumeAfterPulse, solenoid
  <2>6. CASE DropPin \/ Restart \/ UNCHANGED vars
    BY <1>1, <2>6, Zenon DEF DropPin, Restart, Low, vars, solenoid
  <2>7. QED
    BY <1>1, <2>1, <2>2, <2>3, <2>4, <2>5, <2>6, NextCases
<1>2. QED
  BY <1>1, PTL DEF Spec, ReleaseAuthorised

----------------------------------------------------------------------------
(* A pulse that ends.                                                      *)

(* With the flag dropped in the same breath as the pin, the solenoid is on *)
(* only while a pulse is timed.                                            *)
PinIsLow == pc = "dropFlag" => ~pin

THEOREM PulseIsTimed ==
  ASSUME "dropFlag" \notin PreemptAt
  PROVE  Spec => []PinIsTimed
<1> DEFINE Inv == PinIsTimed /\ PinIsLow
<1>1. Init => Inv
  BY Zenon DEF Init, PinIsTimed, PinIsLow
<1>2. ASSUME Inv, [Next]_vars PROVE Inv'
  <2> USE <1>2 DEF PinIsTimed, PinIsLow
  <2>1. CASE Advance \/ BeginTick \/ CheckPulse \/ ResumeAfterPulse
    BY <2>1 DEF Advance, BeginTick, CheckPulse, ResumeAfterPulse, solenoid
  <2>2. CASE DropPin \/ Restart
    BY <2>2, Zenon DEF DropPin, Restart, Low
  <2>3. CASE DropFlag
    BY <2>3 DEF DropFlag
  <2>4. CASE Quiet
    BY <2>4, QuietKeepsPulse, QuietStaysAway
  <2>5. CASE Unlock \/ EmergencyUnlock
    <3>1. active'
      BY <2>5, Zenon DEF Unlock, EmergencyUnlock, StartPulse
    <3>2. pc' # "dropFlag"
      BY <2>5 DEF Unlock, EmergencyUnlock, MayRun
    <3>3. QED
      BY <3>1, <3>2
  <2>6. CASE SetLockout
    <3>1. ~pin'
      BY <2>6, Zenon DEF SetLockout, Disarmed, Low
    <3>2. QED
      BY <3>1
  <2>7. CASE UNCHANGED vars
    BY <2>7 DEF vars, solenoid
  <2>8. QED
    BY <2>1, <2>2, <2>3, <2>4, <2>5, <2>6, <2>7, NextCases
<1>3. Inv => PinIsTimed
  OBVIOUS
<1>4. QED
  BY <1>1, <1>2, <1>3, PTL DEF Spec

(* Under lockout the solenoid is off.                                      *)
THEOREM LockoutIsHeld ==
  ASSUME "dropFlag" \notin PreemptAt
  PROVE  Spec => []LockoutHoldsBolt
<1>1. LockoutDisarms /\ PinIsTimed => LockoutHoldsBolt
  BY DEF LockoutDisarms, PinIsTimed, LockoutHoldsBolt
<1>2. QED
  BY <1>1, LockoutIsDisarmed, PulseIsTimed, PTL

(* The suspensions that are due.  An armed pulse owes one resume, and the  *)
(* tick between dropping the flag and resuming owes another.               *)
ExpiryIsArmed == pc \in {"dropPin", "dropFlag"} => active
ArmedIsGuarded == active => depth >= 1
ExpiryIsGuarded == pc = "resume" => depth >= (IF active THEN 2 ELSE 1)
Owed == TypeOK /\ ExpiryIsArmed /\ ArmedIsGuarded /\ ExpiryIsGuarded

LEMMA OwedStep ==
  ASSUME "dropPin" \notin PreemptAt, "dropFlag" \notin PreemptAt,
         Owed, [Next]_vars
  PROVE  Owed'
<1> USE DEF Owed, ExpiryIsArmed, ArmedIsGuarded, ExpiryIsGuarded
<1>0. TypeOK'
  BY TypeStep
<1>d. depth \in Nat /\ DepthMax \in Nat \ {0, 1}
  BY DepthMaxAssumption DEF TypeOK, DepthMaxAssumption
<1>1. CASE Advance \/ BeginTick \/ CheckPulse \/ DropPin
  BY <1>0, <1>1 DEF Advance, BeginTick, CheckPulse, DropPin, PulseExpired, solenoid
<1>2. CASE DropFlag
  BY <1>0, <1>2 DEF DropFlag
<1>3. CASE ResumeAfterPulse
  BY <1>0, <1>d, <1>3 DEF ResumeAfterPulse, Resumed
<1>4. CASE Quiet
  BY <1>0, <1>4, QuietKeepsPulse, QuietStaysAway
<1>5. CASE Unlock \/ EmergencyUnlock
  <2>1. active' /\ depth' = Suspended(depth) /\ pc' = pc
    BY <1>5 DEF Unlock, EmergencyUnlock, StartPulse
  <2>2. depth' >= 1 /\ (pc = "resume" => depth' >= 2)
    BY <1>d, <2>1 DEF Suspended, TypeOK
  <2>3. QED
    BY <1>0, <2>1, <2>2
<1>6. CASE SetLockout
  <2>1. /\ ~active'
        /\ depth' = IF active THEN Resumed(depth) ELSE depth
        /\ pc' = pc /\ pc \notin {"dropPin", "dropFlag"}
    BY <1>6 DEF SetLockout, Disarmed, MayRun
  <2>2. pc = "resume" => depth' >= 1
    BY <1>d, <2>1 DEF Resumed
  <2>3. QED
    BY <1>0, <2>1, <2>2
<1>7. CASE Restart
  BY <1>0, <1>7 DEF Restart
<1>8. CASE UNCHANGED vars
  BY <1>0, <1>8 DEF vars, solenoid
<1>9. QED
  BY <1>1, <1>2, <1>3, <1>4, <1>5, <1>6, <1>7, <1>8, NextCases

(* While the solenoid is on the watchdog is suspended.                     *)
THEOREM GuardIsHeld ==
  ASSUME "dropPin" \notin PreemptAt, "dropFlag" \notin PreemptAt
  PROVE  Spec => []GuardHeld
<1>1. Init => Owed
  BY TypeInit DEF Init, Owed, ExpiryIsArmed, ArmedIsGuarded, ExpiryIsGuarded
<1>2. Owed /\ [Next]_vars => Owed'
  BY OwedStep
<1>3. Owed /\ PinIsTimed => GuardHeld
  BY DEF Owed, ArmedIsGuarded, PinIsTimed, GuardHeld, TypeOK
<1>4. QED
  BY <1>1, <1>2, <1>3, PulseIsTimed, PTL DEF Spec

(* The three together: the solenoid is never on unattended.                *)
THEOREM SolenoidIsInHand ==
  ASSUME "dropPin" \notin PreemptAt, "dropFlag" \notin PreemptAt
  PROVE  Spec => []SolenoidInHand
<1>1. SolenoidInHand <=> PinIsTimed /\ LockoutHoldsBolt /\ GuardHeld
  BY DEF SolenoidInHand
<1>2. QED
  BY <1>1, PulseIsTimed, LockoutIsHeld, GuardIsHeld, PTL

(* When the tick has decided that a pulse is over, it is: `now` was read   *)
(* after the pulse started, so the subtraction does not wrap.              *)
NowIsLater == lag <= age /\ (pc # "pulse" => lag = 0)
ExpiryIsDue == pc = "dropPin" => age >= Pulse
Timed == TypeOK /\ NowIsLater /\ ExpiryIsDue

LEMMA TimedStep ==
  ASSUME "pulse" \notin PreemptAt, "dropPin" \notin PreemptAt, Timed, [Next]_vars
  PROVE  Timed'
<1> USE DEF Timed, NowIsLater, ExpiryIsDue
<1>0. TypeOK'
  BY TypeStep
<1>n. /\ age \in Nat /\ lag \in Nat /\ lag <= MaxStall
      /\ Pulse \in Nat /\ MaxStall \in Nat
  BY PulseAssumption, MaxStallAssumption
  DEF TypeOK, PulseAssumption, MaxStallAssumption
<1>1. CASE Advance
  BY <1>0, <1>n, <1>1 DEF Advance
<1>2. CASE CheckPulse
  BY <1>0, <1>n, <1>2 DEF CheckPulse, PulseExpired, Elapsed, solenoid
<1>3. CASE BeginTick \/ DropPin \/ DropFlag \/ ResumeAfterPulse
  BY <1>0, <1>n, <1>3 DEF BeginTick, DropPin, DropFlag, ResumeAfterPulse, solenoid
<1>4. CASE Quiet
  BY <1>0, <1>4, QuietKeepsPulse, QuietStaysAway
<1>5. CASE Unlock \/ EmergencyUnlock
  <2>1. age' = 0 /\ lag' = lag /\ pc' = pc /\ pc \notin {"pulse", "dropPin"}
    BY <1>5 DEF Unlock, EmergencyUnlock, StartPulse, MayRun
  <2>2. QED
    BY <1>0, <1>n, <2>1
<1>6. CASE SetLockout
  BY <1>0, <1>6 DEF SetLockout
<1>7. CASE Restart
  BY <1>0, <1>7 DEF Restart
<1>8. CASE UNCHANGED vars
  BY <1>0, <1>8 DEF vars, solenoid
<1>9. QED
  BY <1>1, <1>2, <1>3, <1>4, <1>5, <1>6, <1>7, <1>8, NextCases

(* A pulse that is not cut short by a lockout or a restart lasts Pulse.    *)
THEOREM PulseLasts ==
  ASSUME "pulse" \notin PreemptAt, "dropPin" \notin PreemptAt
  PROVE  Spec => PulseRunsFull
<1>1. Init => Timed
  BY TypeInit DEF Init, Timed, NowIsLater, ExpiryIsDue
<1>2. Timed /\ [Next]_vars => Timed'
  BY TimedStep
<1>3. ASSUME Timed, [Next]_vars, pin, ~pin'
      PROVE  age >= Pulse \/ state' = "LOCKOUT" \/ state' = "INITIALIZING"
  <2>1. CASE DropPin
    BY <1>3, <2>1 DEF DropPin, Timed, ExpiryIsDue
  <2>2. CASE SetLockout \/ Restart
    BY <2>2 DEF SetLockout, Restart, Enter
  <2>3. CASE Quiet
    BY <1>3, <2>3, QuietKeepsPulse
  <2>4. CASE Unlock \/ EmergencyUnlock
    BY <1>3, <2>4, Zenon DEF Unlock, EmergencyUnlock, StartPulse
  <2>5. CASE Advance \/ BeginTick \/ CheckPulse \/ DropFlag \/ ResumeAfterPulse
    BY <1>3, <2>5 DEF Advance, BeginTick, CheckPulse, DropFlag, ResumeAfterPulse, solenoid
  <2>6. CASE UNCHANGED vars
    BY <1>3, <2>6 DEF vars, solenoid
  <2>7. QED
    BY <1>3, <2>1, <2>2, <2>3, <2>4, <2>5, <2>6, NextCases
<1>4. QED
  BY <1>1, <1>2, <1>3, PTL DEF Spec, PulseRunsFull

----------------------------------------------------------------------------
(* The tick's transitions.                                                 *)

(* What the switch has chosen is still a transition out of the present     *)
(* state when it is stored.                                                *)
ChoiceIsFresh ==
    pc = "storeState" =>
        \E rule \in Policy!TickRules :
            /\ state \in rule.from
            /\ rule.when
            /\ pending.state = rule.to
            /\ pending.trigger = rule.why

(* No rule of the table leaves LOCKOUT by the tick.                        *)
LEMMA TickRulesSpareLockout ==
  ASSUME NEW rule \in Policy!TickRules PROVE "LOCKOUT" \notin rule.from
BY DEF Policy!TickRules, Policy!Rule

LEMMA ChoiceStep ==
  ASSUME "storeState" \notin PreemptAt, ChoiceIsFresh, [Next]_vars
  PROVE  ChoiceIsFresh'
<1> USE DEF ChoiceIsFresh
<1>1. CASE DoorForced
  BY <1>1 DEF DoorForced, Choose, Policy!TickRules, Policy!Rule, Policy!Secure, door
<1>2. CASE LatchReleased
  BY <1>2 DEF LatchReleased, Choose, Policy!TickRules, Policy!Rule, Policy!Secure, door
<1>3. CASE DoorSecured
  BY <1>3 DEF DoorSecured, Choose, Secure, Released, Policy!TickRules, Policy!Rule,
              Policy!Secure, door
<1>4. CASE MortiseTurned
  BY <1>4 DEF MortiseTurned, Choose, Secure, Released, Policy!TickRules, Policy!Rule,
              Policy!Secure, door
<1>5. CASE AlarmCleared
  BY <1>5 DEF AlarmCleared, Choose, Secure, Policy!TickRules, Policy!Rule,
              Policy!Secure, door
<1>6. CASE Advance \/ UNCHANGED vars
  BY <1>6 DEF Advance, Policy!TickRules, Policy!Rule, Policy!Secure, door, vars
<1>7. CASE Command
  <2>1. pc' = pc /\ pc # "storeState"
    BY <1>7 DEF Command, Unlock, EmergencyUnlock, SetLockout, ClearLockout,
                StartCommissioning, AckInitialization, MayRun
  <2>2. QED
    BY <2>1
<1>8. CASE \/ BeginTick \/ CheckPulse \/ DropPin \/ DropFlag \/ ResumeAfterPulse
          \/ NoChange \/ StoreState \/ StoreTrigger \/ SampleEvents \/ Restart
  <2>1. pc' # "storeState"
    BY <1>8 DEF BeginTick, CheckPulse, DropPin, DropFlag, ResumeAfterPulse, NoChange,
                StoreState, StoreTrigger, SampleEvents, Restart
  <2>2. QED
    BY <2>1
<1>9. QED
  BY <1>1, <1>2, <1>3, <1>4, <1>5, <1>6, <1>7, <1>8 DEF Next, MainStep

(* Lockout is left by clear_lockout, emergency_unlock or a restart only.   *)
THEOREM LockoutIsSticky ==
  ASSUME "storeState" \notin PreemptAt
  PROVE  Spec => LockoutSticky
<1>1. Init => ChoiceIsFresh
  BY DEF Init, ChoiceIsFresh
<1>2. ChoiceIsFresh /\ [Next]_vars => ChoiceIsFresh'
  BY ChoiceStep
<1>3. ASSUME ChoiceIsFresh, [Next]_vars, state = "LOCKOUT", state' # "LOCKOUT"
      PROVE  \/ trigger' \in {"CLEAR_LOCKOUT", "EMERGENCY_UNLOCK"}
             \/ state' = "INITIALIZING"
  <2>1. CASE StoreState
    BY <1>3, <2>1, TickRulesSpareLockout DEF StoreState, ChoiceIsFresh
  <2>2. CASE Command
    BY <1>3, <2>2 DEF Command, Unlock, EmergencyUnlock, SetLockout, ClearLockout,
                      StartCommissioning, AckInitialization, Accepted, Enter
  <2>3. CASE Restart
    BY <2>3 DEF Restart
  <2>4. CASE Advance \/ BeginTick \/ CheckPulse \/ DropPin \/ DropFlag \/ ResumeAfterPulse
    BY <1>3, <2>4 DEF Advance, BeginTick, CheckPulse, DropPin, DropFlag, ResumeAfterPulse
  <2>5. CASE DoorForced \/ LatchReleased \/ DoorSecured \/ MortiseTurned \/ AlarmCleared
    BY <1>3, <2>5 DEF DoorForced, LatchReleased, DoorSecured, MortiseTurned,
                      AlarmCleared, Choose
  <2>6. CASE NoChange \/ StoreTrigger \/ SampleEvents \/ UNCHANGED vars
    BY <1>3, <2>6 DEF NoChange, StoreTrigger, SampleEvents, vars
  <2>7. QED
    BY <1>3, <2>1, <2>2, <2>3, <2>4, <2>5, <2>6 DEF Next, MainStep
<1>4. QED
  BY <1>1, <1>2, <1>3, PTL DEF Spec, LockoutSticky

(* The detailed tasks implement the table of LockPolicy: a sensor reading  *)
(* is a Sense step, a store of the state applies a tick rule, a command    *)
(* applies a command rule, and every other step is invisible.              *)
THEOREM ImplementsPolicy ==
  ASSUME "storeState" \notin PreemptAt, "storeTrigger" \notin PreemptAt
  PROVE  Spec => PolicySpec
<1> DEFINE shown == IF pc = "storeTrigger" THEN pending.trigger ELSE trigger
<1>1. Init => TypeOK /\ ChoiceIsFresh /\ Policy!Init
  BY TypeInit DEF Init, ChoiceIsFresh, Policy!Init
<1>2. TypeOK /\ ChoiceIsFresh /\ [Next]_vars => (TypeOK /\ ChoiceIsFresh)'
  BY TypeStep, ChoiceStep
<1>3. ASSUME TypeOK, ChoiceIsFresh, [Next]_vars PROVE [Policy!Next]_(Policy!vars)
  <2>1. CASE BeginTick
    <3>1. shown' = shown
      BY <2>1 DEF BeginTick
    <3>2. Policy!Sense
      BY <2>1, <3>1 DEF BeginTick, Policy!Sense
    <3>3. QED
      BY <3>2 DEF Policy!Next
  <2>2. CASE StoreState
    <3>1. PICK rule \in Policy!TickRules :
             /\ state \in rule.from
             /\ rule.when
             /\ pending.state = rule.to
             /\ pending.trigger = rule.why
      BY <1>3, <2>2 DEF ChoiceIsFresh, StoreState
    <3>2. /\ state' = rule.to /\ shown' = rule.why
          /\ UNCHANGED <<reed, latch, mortise>>
      BY <2>2, <3>1 DEF StoreState, door
    <3>3. Policy!Apply(rule)
      BY <3>1, <3>2 DEF Policy!Apply
    <3>4. QED
      BY <3>3 DEF Policy!Next
  <2>3. CASE Command
    <3>1. shown' = trigger'
      BY <2>3 DEF Command, Unlock, EmergencyUnlock, SetLockout, ClearLockout,
                  StartCommissioning, AckInitialization, MayRun
    <3>2. \E rule \in Policy!CommandRules : Policy!Apply(rule)
      <4> USE <1>3, <3>1 DEF TypeOK, States, Enter, Accepted, Secure, door,
              Policy!CommandRules, Policy!Rule, Policy!Apply, Policy!Settled, Policy!Secure
      <4>1. CASE Unlock
        BY <4>1 DEF Unlock
      <4>2. CASE EmergencyUnlock
        BY <4>2 DEF EmergencyUnlock
      <4>3. CASE SetLockout
        BY <4>3 DEF SetLockout
      <4>4. CASE ClearLockout
        BY <4>4 DEF ClearLockout
      <4>5. CASE StartCommissioning
        BY <4>5 DEF StartCommissioning
      <4>6. CASE AckInitialization
        BY <4>6 DEF AckInitialization
      <4>7. QED
        BY <2>3, <4>1, <4>2, <4>3, <4>4, <4>5, <4>6 DEF Command
    <3>3. QED
      BY <3>2 DEF Policy!Next
  <2>4. CASE Restart
    <3>1. Policy!Restart
      BY <2>4 DEF Restart, Policy!Restart
    <3>2. QED
      BY <3>1 DEF Policy!Next
  <2>5. CASE StoreTrigger
    <3>1. shown' = shown
      BY <2>5 DEF StoreTrigger
    <3>2. QED
      BY <2>5, <3>1 DEF StoreTrigger, Policy!vars, door
  <2>6. CASE UNCHANGED vars
    BY <2>6 DEF vars, Policy!vars, door
  <2>7. CASE \/ Advance \/ CheckPulse \/ DropPin \/ DropFlag \/ ResumeAfterPulse
            \/ DoorForced \/ LatchReleased \/ DoorSecured \/ MortiseTurned
            \/ AlarmCleared \/ NoChange \/ SampleEvents
    <3>1. shown' = shown /\ UNCHANGED <<state, door>>
      BY <2>7 DEF Advance, CheckPulse, DropPin, DropFlag, ResumeAfterPulse, DoorForced,
                  LatchReleased, DoorSecured, MortiseTurned, AlarmCleared, Choose,
                  NoChange, SampleEvents
    <3>2. QED
      BY <3>1 DEF Policy!vars, door
  <2>8. QED
    BY <1>3, <2>1, <2>2, <2>3, <2>4, <2>5, <2>6, <2>7 DEF Next, MainStep
<1>4. QED
  BY <1>1, <1>2, <1>3, PTL DEF Spec, PolicySpec, Policy!Spec
============================================================================

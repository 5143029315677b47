------------------------------ MODULE OtaProofs ------------------------------
(***************************************************************************)
(* What Ota promises of the flash, for every set of versions, every length *)
(* of a download and every number of faults and releases.                  *)
(***************************************************************************)
EXTENDS Ota, TLAPS

(* A download is never complete while it goes on.                          *)
Downloading == step = "writing" => got < Chunks

(* The slot to boot from is the one that runs, except between the switch   *)
(* and the restart; before the switch, what was verified is in the other.  *)
Switched ==
    boot # running =>
        step = "restart" \/ (step = "save" /\ build = "arduino")

Verified ==
    step = "finish" \/ (step = "save" /\ build = "c6") => slot[Target] = ver

FlashInv == BootsVerified /\ Switched /\ Verified

(* Between its store and the switch the previous version is the one that   *)
(* runs; between the switch and the store it is the one replaced.          *)
PrevInv ==
    /\ PrevVersionTrue
    /\ build = "c6" /\ step = "finish" /\ ~slip => prev = Current
    /\ build = "arduino" /\ step = "save" => replaced = Current

(* What was announced is confirmed, so that the bootloader keeps it.       *)
AppliedInv ==
    announced # None =>
        boot = running /\ st[running] = "valid" /\ Current = announced

(* On probation an image has a proven one beside it; once an update writes *)
(* the image that runs is proven; the image switched to is not yet tried.  *)
SurvivesInv ==
    rollback /\ ~hasty =>
        /\ \/ Proven(running)
           \/ /\ st[running] = "pending" /\ boot = running
              /\ Proven(Other(running))
        /\ step \notin {"idle", "begin"} => Proven(running)
        /\ boot # running => st[boot] = "new"

(* Only a switched slot is new, which its first start takes from it; none  *)
(* is ever on trial without rollback.                                      *)
TrialInv ==
    /\ ~rollback => \A s \in Slots : st[s] = "undefined"
    /\ boot # running => st[boot] = IF rollback THEN "new" ELSE "undefined"
    /\ st[running] # "new"

IInv == TypeOK /\ Downloading /\ FlashInv /\ PrevInv /\ AppliedInv /\ SurvivesInv
        /\ TrialInv

----------------------------------------------------------------------------
(* The bootloader starts a whole image and leaves a well-formed OTA data.  *)
LEMMA BootloadFacts ==
    ASSUME TypeOK, Bootload
    PROVE  /\ boot' \in Slots /\ running' = boot' /\ Whole(boot')
           /\ st' \in [Slots -> States]
<1> DEFINE seen == [st EXCEPT ![boot] = IF @ = "pending" THEN "aborted" ELSE @]
<1>1. PICK s \in Slots :
          /\ Whole(s) /\ boot' = s /\ running' = s
          /\ st' = [seen EXCEPT ![s] = IF @ = "new" THEN "pending" ELSE @]
  BY DEF Bootload
<1>2. seen \in [Slots -> States]
  BY DEF TypeOK, States
<1>3. st' \in [Slots -> States]
  <2> HIDE DEF seen
  <2> QED
    BY <1>1, <1>2 DEF States
<1> QED
  BY <1>1, <1>3

LEMMA TypeStep ==
    ASSUME TypeOK, Downloading, Whole(running), [Next]_vars
    PROVE  TypeOK' /\ Downloading'
<1> USE DownloadAssumption, BoundsAssumption
        DEF DownloadAssumption, BoundsAssumption, TypeOK, Downloading,
            device, flash, job, oms, notes
<1>1. CASE Release
  BY <1>1 DEF Release
<1>2. CASE Dispatch
  BY <1>2 DEF Dispatch
<1>3. CASE Begin
  <2>1. good' \in BOOLEAN
    BY <1>3, Zenon DEF Begin
  <2>2. hasty' \in BOOLEAN
    <3>1. (hasty \/ st[running] = "pending") \in BOOLEAN
      OBVIOUS
    <3>2. hasty' = (hasty \/ st[running] = "pending")
      BY <1>3, Zenon DEF Begin
    <3> QED
      BY <3>1, <3>2, Zenon
  <2> QED
    BY <1>3, <2>1, <2>2
    DEF Begin, Fault, Smooth, Target, Other, Slots, States, Builds
<1>4. CASE BeginRefused
  BY <1>4 DEF BeginRefused, Fail, Over, Smooth
<1>5. CASE BeginFails
  BY <1>5 DEF BeginFails, Fail, Over, Fault
<1>6. CASE ReadData
  BY <1>6 DEF ReadData, Target, Other, Body, Slots, States, Builds
<1>7. CASE ReadNothing
  BY <1>7 DEF ReadNothing
<1>8. CASE ReadTimesOut
  BY <1>8 DEF ReadTimesOut, Fail, Over, Smooth
<1>9. CASE WriteFails
  BY <1>9 DEF WriteFails, Fail, Over, Fault
<1>10. CASE ReadEnds
  BY <1>10 DEF ReadEnds, Fault
<1>11. CASE Verify
  BY <1>11 DEF Verify
<1>12. CASE VerifyFails
  BY <1>12 DEF VerifyFails, Fail, Over, Fault, Smooth
<1>13. CASE Save
  <2>1. slip' \in BOOLEAN
    BY <1>13, Zenon DEF Save
  <2> QED
    BY <1>13, <2>1 DEF Save, Fault, Smooth, Saved, Current, Whole
<1>14. CASE Finish
  <2>1. slip' \in BOOLEAN
    <3>1. (slip \/ build = "arduino") \in BOOLEAN
      OBVIOUS
    <3>2. slip' = (slip \/ build = "arduino")
      BY <1>14, Zenon DEF Finish
    <3> QED
      BY <3>1, <3>2, Zenon
  <2> QED
    BY <1>14, <2>1 DEF Finish, Target, Other, Current, Whole, Slots, States, Builds
<1>15. CASE FinishFails
  <2>1. slip' \in BOOLEAN
    BY <1>15, Zenon DEF FinishFails
  <2> QED
    BY <1>15, <2>1 DEF FinishFails, Fault
<1>16. CASE Restart
  <2>1. marked' \in BOOLEAN
    BY <1>16, Zenon DEF Restart, Restarting
  <2>2. boot' \in Slots /\ running' \in Slots /\ st' \in [Slots -> States]
    BY <1>16, BootloadFacts DEF Restart, Restarting
  <2> QED
    BY <1>16, <2>1, <2>2 DEF Restart, Restarting, Over
<1>17. CASE Reset
  <2>1. slip' \in BOOLEAN
    <3>1. (slip \/ (build = "c6" /\ step = "finish")) \in BOOLEAN
      OBVIOUS
    <3>2. slip' = (slip \/ (build = "c6" /\ step = "finish"))
      BY <1>17, Zenon DEF Reset
    <3> QED
      BY <3>1, <3>2, Zenon
  <2>2. marked' \in BOOLEAN
    BY <1>17, Zenon DEF Reset, Restarting, Over
  <2>3. boot' \in Slots /\ running' \in Slots /\ st' \in [Slots -> States]
    BY <1>17, BootloadFacts DEF Reset, Restarting, Over
  <2>4. faults' \in 0..MaxFaults
    BY <1>17 DEF Reset, Fault
  <2> QED
    BY <1>17, <2>1, <2>2, <2>3, <2>4 DEF Reset, Restarting, Over
<1>18. CASE MarkStable
  <2>1. marked' \in BOOLEAN
    <3>1. (build = "arduino") \in BOOLEAN
      OBVIOUS
    <3>2. marked' = (build = "arduino")
      BY <1>18, Zenon DEF MarkStable
    <3> QED
      BY <3>1, <3>2, Zenon
  <2> QED
    BY <1>18, <2>1
    DEF MarkStable, Fault, Smooth, Announced, Current, Whole, Slots, States, Builds
<1>19. CASE NothingToMark
  BY <1>19 DEF NothingToMark
<1>20. CASE UNCHANGED vars
  BY <1>20 DEF vars
<1> QED
  BY <1>1, <1>2, <1>3, <1>4, <1>5, <1>6, <1>7, <1>8, <1>9, <1>10, <1>11, <1>12,
     <1>13, <1>14, <1>15, <1>16, <1>17, <1>18, <1>19, <1>20
     DEF Next, Statement, Failure

(* The flash: only the slot that does not run is written, and it is        *)
(* selected only when what it holds has been verified.                     *)
LEMMA FlashStep ==
    ASSUME TypeOK, FlashInv, [Next]_vars
    PROVE  FlashInv'
<1> USE VersionsAssumption DEF device, flash, job, oms, notes, VersionsAssumption, TypeOK,
        FlashInv, BootsVerified, Switched, Verified, Whole, Target, Other, Slots
<1>1. CASE Release
  BY <1>1 DEF Release
<1>2. CASE Dispatch
  BY <1>2 DEF Dispatch
<1>3. CASE Begin
  BY <1>3 DEF Begin
<1>4. CASE BeginRefused
  BY <1>4 DEF BeginRefused, Fail, Over
<1>5. CASE BeginFails
  BY <1>5 DEF BeginFails, Fail, Over
<1>6. CASE ReadData
  BY <1>6 DEF ReadData, Body
<1>7. CASE ReadNothing
  BY <1>7 DEF ReadNothing
<1>8. CASE ReadTimesOut
  BY <1>8 DEF ReadTimesOut, Fail, Over
<1>9. CASE WriteFails
  BY <1>9 DEF WriteFails, Fail, Over
<1>10. CASE ReadEnds
  BY <1>10 DEF ReadEnds
<1>11. CASE Verify
  BY <1>11 DEF Verify, Checks
<1>12. CASE VerifyFails
  BY <1>12 DEF VerifyFails, Fail, Over
<1>13. CASE Save
  BY <1>13 DEF Save, Saved
<1>14. CASE Finish
  <2>1. /\ step = "finish" /\ boot' = Target
        /\ step' = IF build = "c6" THEN "restart" ELSE "save"
        /\ slot' = slot /\ running' = running /\ build' = build /\ ver' = ver
    BY <1>14, Zenon DEF Finish
  <2> QED
    BY <2>1 DEF Builds
<1>15. CASE FinishFails
  BY <1>15 DEF FinishFails
<1>16. CASE Restart
  BY <1>16, BootloadFacts DEF Restart, Restarting, Over
<1>17. CASE Reset
  BY <1>17, BootloadFacts DEF Reset, Restarting, Over
<1>18. CASE MarkStable
  BY <1>18 DEF MarkStable, Announced
<1>19. CASE NothingToMark
  BY <1>19 DEF NothingToMark
<1>20. CASE UNCHANGED vars
  BY <1>20 DEF vars
<1> QED
  BY <1>1, <1>2, <1>3, <1>4, <1>5, <1>6, <1>7, <1>8, <1>9, <1>10, <1>11, <1>12,
     <1>13, <1>14, <1>15, <1>16, <1>17, <1>18, <1>19,
     <1>20 DEF Next, Statement, Failure

(* The previous version: what is stored is what runs, until the switch.    *)
LEMMA PrevStep ==
    ASSUME TypeOK, FlashInv, PrevInv, [Next]_vars
    PROVE  PrevInv'
<1> USE DEF device, flash, job, oms, notes, TypeOK, FlashInv, Switched,
        PrevInv, PrevVersionTrue, Current, Target, Other, Slots
<1>1. CASE Release
  BY <1>1 DEF Release
<1>2. CASE Dispatch
  BY <1>2 DEF Dispatch
<1>3. CASE Begin
  BY <1>3 DEF Begin
<1>4. CASE BeginRefused
  BY <1>4 DEF BeginRefused, Fail, Over
<1>5. CASE BeginFails
  BY <1>5 DEF BeginFails, Fail, Over
<1>6. CASE ReadData
  BY <1>6 DEF ReadData, Body
<1>7. CASE ReadNothing
  BY <1>7 DEF ReadNothing
<1>8. CASE ReadTimesOut
  BY <1>8 DEF ReadTimesOut, Fail, Over
<1>9. CASE WriteFails
  BY <1>9 DEF WriteFails, Fail, Over
<1>10. CASE ReadEnds
  BY <1>10 DEF ReadEnds
<1>11. CASE Verify
  BY <1>11 DEF Verify, Checks
<1>12. CASE VerifyFails
  BY <1>12 DEF VerifyFails, Fail, Over
<1>13. CASE Save
  <2>1. /\ step = "save" /\ slot' = slot /\ running' = running
        /\ build' = build /\ replaced' = replaced
        /\ step' = IF build = "c6" THEN "finish" ELSE "restart"
    BY <1>13, Zenon DEF Save
  <2>2. slip' \/ prev' = Current
    BY <1>13, Zenon DEF Save, Saved
  <2> QED
    BY <2>1, <2>2 DEF Builds
<1>14. CASE Finish
  <2>1. /\ step = "finish" /\ replaced' = Current /\ slip' = (slip \/ build = "arduino")
        /\ step' = IF build = "c6" THEN "restart" ELSE "save"
        /\ slot' = slot /\ running' = running /\ build' = build /\ prev' = prev
    BY <1>14, Zenon DEF Finish, Current
  <2>2. CASE build = "c6"
    <3>1. slip' = slip
      BY <2>1, <2>2, Zenon
    <3> QED
      BY <2>1, <2>2, <3>1
  <2>3. CASE build = "arduino"
    <3>1. slip'
      BY <2>1, <2>3, Zenon
    <3> QED
      BY <2>1, <2>3, <3>1
  <2> QED
    BY <2>2, <2>3 DEF Builds
<1>15. CASE FinishFails
  BY <1>15 DEF FinishFails
<1>16. CASE Restart
  BY <1>16, BootloadFacts DEF Restart, Restarting, Over
<1>17. CASE Reset
  BY <1>17, BootloadFacts DEF Reset, Restarting, Over
<1>18. CASE MarkStable
  BY <1>18 DEF MarkStable, Announced
<1>19. CASE NothingToMark
  BY <1>19 DEF NothingToMark
<1>20. CASE UNCHANGED vars
  BY <1>20 DEF vars
<1> QED
  BY <1>1, <1>2, <1>3, <1>4, <1>5, <1>6, <1>7, <1>8, <1>9, <1>10, <1>11, <1>12,
     <1>13, <1>14, <1>15, <1>16, <1>17, <1>18, <1>19,
     <1>20 DEF Next, Statement, Failure

(* What is announced: an image that the OTA data selects for good.         *)
LEMMA AppliedStep ==
    ASSUME TypeOK, FlashInv, AppliedInv, [Next]_vars
    PROVE  AppliedInv'
<1> USE VersionsAssumption DEF device, flash, job, oms, notes, VersionsAssumption, TypeOK,
        FlashInv, BootsVerified, Switched, AppliedInv, Current, Whole, Target,
        Other, Slots, States
<1>1. CASE Release
  BY <1>1 DEF Release
<1>2. CASE Dispatch
  BY <1>2 DEF Dispatch
<1>3. CASE Begin
  BY <1>3 DEF Begin
<1>4. CASE BeginRefused
  BY <1>4 DEF BeginRefused, Fail, Over
<1>5. CASE BeginFails
  BY <1>5 DEF BeginFails, Fail, Over
<1>6. CASE ReadData
  BY <1>6 DEF ReadData, Body
<1>7. CASE ReadNothing
  BY <1>7 DEF ReadNothing
<1>8. CASE ReadTimesOut
  BY <1>8 DEF ReadTimesOut, Fail, Over
<1>9. CASE WriteFails
  BY <1>9 DEF WriteFails, Fail, Over
<1>10. CASE ReadEnds
  BY <1>10 DEF ReadEnds
<1>11. CASE Verify
  BY <1>11 DEF Verify, Checks
<1>12. CASE VerifyFails
  BY <1>12 DEF VerifyFails, Fail, Over
<1>13. CASE Save
  BY <1>13 DEF Save, Saved
<1>14. CASE Finish
  BY <1>14 DEF Finish
<1>15. CASE FinishFails
  BY <1>15 DEF FinishFails
<1>16. CASE Restart
  BY <1>16 DEF Restart, Restarting, Over, Bootload
<1>17. CASE Reset
  BY <1>17 DEF Reset, Restarting, Over, Bootload
<1>18. CASE MarkStable
  BY <1>18 DEF MarkStable, Announced, MayMark
<1>19. CASE NothingToMark
  BY <1>19 DEF NothingToMark
<1>20. CASE UNCHANGED vars
  BY <1>20 DEF vars
<1> QED
  BY <1>1, <1>2, <1>3, <1>4, <1>5, <1>6, <1>7, <1>8, <1>9, <1>10, <1>11, <1>12,
     <1>13, <1>14, <1>15, <1>16, <1>17, <1>18, <1>19,
     <1>20 DEF Next, Statement, Failure

(* What survives: the proven image, until its successor is proven.         *)
LEMMA SurvivesStep ==
    ASSUME TypeOK, FlashInv, SurvivesInv, [Next]_vars
    PROVE  SurvivesInv'
<1> USE DEF device, flash, job, oms, notes, TypeOK, FlashInv, BootsVerified,
        Switched, SurvivesInv, Proven, Whole, Target, Other, Slots, States
<1>1. CASE Release
  BY <1>1 DEF Release
<1>2. CASE Dispatch
  BY <1>2 DEF Dispatch
<1>3. CASE Begin
  <2>1. /\ step = "begin" /\ step' = "writing"
        /\ slot' = [slot EXCEPT ![Target] = Junk]
        /\ st' = st /\ boot' = boot /\ running' = running
        /\ rollback' = rollback /\ hasty' = (hasty \/ st[running] = "pending")
    BY <1>3, Zenon DEF Begin
  <2>2. CASE hasty \/ st[running] = "pending"
    <3>1. hasty'
      BY <2>1, <2>2, Zenon
    <3> QED
      BY <3>1
  <2>3. CASE ~(hasty \/ st[running] = "pending")
    <3>1. hasty' = hasty
      BY <2>1, <2>3, Zenon
    <3> QED
      BY <2>1, <2>3, <3>1
  <2> QED
    BY <2>2, <2>3
<1>4. CASE BeginRefused
  BY <1>4 DEF BeginRefused, Fail, Over
<1>5. CASE BeginFails
  BY <1>5 DEF BeginFails, Fail, Over
<1>6. CASE ReadData
  BY <1>6 DEF ReadData, Body
<1>7. CASE ReadNothing
  BY <1>7 DEF ReadNothing
<1>8. CASE ReadTimesOut
  BY <1>8 DEF ReadTimesOut, Fail, Over
<1>9. CASE WriteFails
  BY <1>9 DEF WriteFails, Fail, Over
<1>10. CASE ReadEnds
  BY <1>10 DEF ReadEnds
<1>11. CASE Verify
  BY <1>11 DEF Verify, Checks
<1>12. CASE VerifyFails
  BY <1>12 DEF VerifyFails, Fail, Over
<1>13. CASE Save
  BY <1>13 DEF Save, Saved
<1>14. CASE Finish
  BY <1>14 DEF Finish
<1>15. CASE FinishFails
  BY <1>15 DEF FinishFails
<1>16. CASE Restart
  BY <1>16 DEF Restart, Restarting, Over, Bootload
<1>17. CASE Reset
  BY <1>17 DEF Reset, Restarting, Over, Bootload
<1>18. CASE MarkStable
  BY <1>18 DEF MarkStable, Announced, MayMark
<1>19. CASE NothingToMark
  BY <1>19 DEF NothingToMark
<1>20. CASE UNCHANGED vars
  BY <1>20 DEF vars
<1> QED
  BY <1>1, <1>2, <1>3, <1>4, <1>5, <1>6, <1>7, <1>8, <1>9, <1>10, <1>11, <1>12,
     <1>13, <1>14, <1>15, <1>16, <1>17, <1>18, <1>19,
     <1>20 DEF Next, Statement, Failure

(* The trial: between the switch and the restart only a slot is new.       *)
LEMMA TrialStep ==
    ASSUME TypeOK, FlashInv, TrialInv, [Next]_vars
    PROVE  TrialInv'
<1> USE DEF device, flash, job, oms, notes, TypeOK, FlashInv, BootsVerified,
        Switched, TrialInv, Proven, Whole, Target, Other, Slots, States
<1>1. CASE Release
  BY <1>1 DEF Release
<1>2. CASE Dispatch
  BY <1>2 DEF Dispatch
<1>3. CASE Begin
  BY <1>3 DEF Begin
<1>4. CASE BeginRefused
  BY <1>4 DEF BeginRefused, Fail, Over
<1>5. CASE BeginFails
  BY <1>5 DEF BeginFails, Fail, Over
<1>6. CASE ReadData
  BY <1>6 DEF ReadData, Body
<1>7. CASE ReadNothing
  BY <1>7 DEF ReadNothing
<1>8. CASE ReadTimesOut
  BY <1>8 DEF ReadTimesOut, Fail, Over
<1>9. CASE WriteFails
  BY <1>9 DEF WriteFails, Fail, Over
<1>10. CASE ReadEnds
  BY <1>10 DEF ReadEnds
<1>11. CASE Verify
  BY <1>11 DEF Verify, Checks
<1>12. CASE VerifyFails
  BY <1>12 DEF VerifyFails, Fail, Over
<1>13. CASE Save
  BY <1>13 DEF Save, Saved
<1>14. CASE Finish
  BY <1>14 DEF Finish
<1>15. CASE FinishFails
  BY <1>15 DEF FinishFails
<1>16. CASE Restart
  BY <1>16 DEF Restart, Restarting, Over, Bootload
<1>17. CASE Reset
  BY <1>17 DEF Reset, Restarting, Over, Bootload
<1>18. CASE MarkStable
  BY <1>18 DEF MarkStable, Announced, MayMark
<1>19. CASE NothingToMark
  BY <1>19 DEF NothingToMark
<1>20. CASE UNCHANGED vars
  BY <1>20 DEF vars
<1> QED
  BY <1>1, <1>2, <1>3, <1>4, <1>5, <1>6, <1>7, <1>8, <1>9, <1>10, <1>11, <1>12,
     <1>13, <1>14, <1>15, <1>16, <1>17, <1>18, <1>19,
     <1>20 DEF Next, Statement, Failure

----------------------------------------------------------------------------
LEMMA InitIInv == Init => IInv
<1> SUFFICES ASSUME Init
             PROVE  IInv
  OBVIOUS
<1>1. PICK v \in Versions :
          /\ slot = [s \in Slots |-> IF s = 0 THEN v ELSE Junk]
          /\ want = v /\ ver = v
  BY DEF Init
<1>2. good \in BOOLEAN /\ marked \in BOOLEAN /\ slip \in BOOLEAN /\ hasty \in BOOLEAN
  BY Zenon DEF Init
<1>3. slot \in [Slots -> Versions \cup {Junk}] /\ slot[0] = v /\ v # Junk
  BY <1>1, VersionsAssumption DEF VersionsAssumption, Slots
<1>4. TypeOK
  BY <1>1, <1>2, <1>3, DownloadAssumption, BoundsAssumption
  DEF Init, TypeOK, DownloadAssumption, BoundsAssumption, Slots, States
<1>5. Downloading /\ FlashInv /\ PrevInv /\ AppliedInv /\ SurvivesInv /\ TrialInv
  BY <1>3
  DEF Init, TrialInv, Downloading, FlashInv, BootsVerified, Switched, Verified,
     Whole, PrevInv, PrevVersionTrue, AppliedInv, SurvivesInv, Proven, Slots
<1> QED
  BY <1>4, <1>5 DEF IInv

LEMMA StepIInv == IInv /\ [Next]_vars => IInv'
<1> SUFFICES ASSUME IInv, [Next]_vars
             PROVE  IInv'
  OBVIOUS
<1>1. /\ TypeOK /\ Downloading /\ FlashInv /\ PrevInv /\ AppliedInv
      /\ SurvivesInv /\ TrialInv
  BY DEF IInv
<1>2. TypeOK' /\ Downloading'
  BY <1>1, TypeStep DEF FlashInv, BootsVerified
<1>3. FlashInv' /\ PrevInv' /\ AppliedInv' /\ SurvivesInv' /\ TrialInv'
  BY <1>1, FlashStep, PrevStep, AppliedStep, SurvivesStep, TrialStep
<1> QED
  BY <1>2, <1>3 DEF IInv

THEOREM Inductive == Spec => []IInv
<1> QED
  BY InitIInv, StepIInv, PTL DEF Spec

(* The update's variables keep their types.                                *)
THEOREM TypeCorrect == Spec => []TypeOK
<1>1. IInv => TypeOK
  BY DEF IInv
<1> QED
  BY Inductive, <1>1, PTL

(* What the invariant was strengthened from: no step of an update, and no  *)
(* reset in one, leaves the device with a boot slot that does not hold a   *)
(* verified image; with rollback a proven image is there until its         *)
(* successor is proven; an announced version runs until the next switch;   *)
(* prev_ver is the version that ran at the last one.                       *)
LEMMA Promises == IInv => BootsVerified /\ ProvenSurvives /\ AppliedRuns /\ PrevVersionTrue
  BY DEF IInv, FlashInv, SurvivesInv, ProvenSurvives, AppliedInv, AppliedRuns,
         PrevInv

----------------------------------------------------------------------------
(* The update implements UpdatePolicy.                                     *)
LEMMA PolicyInit == Init => Policy!Init
<1> SUFFICES ASSUME Init
             PROVE  Policy!Init
  OBVIOUS
<1>1. PICK v \in Versions : slot = [s \in Slots |-> IF s = 0 THEN v ELSE Junk]
  BY DEF Init
<1> QED
  BY <1>1, VersionsAssumption
  DEF Init, Policy!Init, Current, Standing, Proven, Whole, Other, Slots

(* Where an update does not switch, it writes the spare image at most.     *)
LEMMA Writes ==
    ASSUME IInv, boot = running, boot' = boot, running' = running, st' = st,
           NEW image \in Versions \cup {Junk},
           slot' = [slot EXCEPT ![Target] = image]
    PROVE  Policy!Write
BY DEF IInv, TypeOK, FlashInv, BootsVerified, TrialInv, Policy!Write,
       Policy!Standings,
       Current, Standing, Proven, Whole, Target, Other, Slots

(* The bootloader starts what the policy says.                             *)
LEMMA Starts ==
    ASSUME IInv, Bootload, slot' = slot
    PROVE  Policy!Restart
<1> USE DEF IInv, TypeOK, FlashInv, BootsVerified, TrialInv,
        Current, Standing, Proven, Whole, Other, Slots
<1>1. CASE boot # running
  <2>1. boot' = boot /\ running' = boot
    BY <1>1 DEF Bootload
  <2>2. st' = [st EXCEPT ![boot] = IF @ = "new" THEN "pending" ELSE @]
    BY <1>1 DEF Bootload
  <2>3. Policy!StartArmed
    BY <1>1, <2>1, <2>2 DEF Policy!StartArmed, Policy!Exchanged
  <2> QED
    BY <2>1, <2>3 DEF Policy!Restart
<1>2. CASE boot = running /\ Proven(running)
  <2>1. boot' = boot /\ running' = running /\ st' = st
    BY <1>2 DEF Bootload
  <2>2. Policy!StartProven
    BY <1>2, <2>1 DEF Policy!StartProven, Policy!Kept
  <2> QED
    BY <1>2, <2>1, <2>2 DEF Policy!Restart
<1>3. CASE boot = running /\ st[running] = "pending" /\ Proven(Other(running))
  <2>1. /\ boot' = Other(running) /\ running' = Other(running)
        /\ st' = [st EXCEPT ![running] = "aborted"]
    BY <1>3 DEF Bootload
  <2>2. Policy!GiveWay
    BY <1>3, <2>1 DEF Policy!GiveWay, Policy!Exchanged
  <2> QED
    BY <2>1, <2>2 DEF Policy!Restart
<1>4. CASE /\ boot = running /\ ~Proven(running)
           /\ ~(st[running] = "pending" /\ Proven(Other(running)))
  <2>1. st[running] \in {"pending", "aborted"}
    BY <1>4 DEF States
  <2>2. PICK s \in Slots :
            /\ Whole(s) /\ boot' = s /\ running' = s
            /\ st' = [[st EXCEPT ![running] = "aborted"]
                         EXCEPT ![s] = IF @ = "new" THEN "pending" ELSE @]
    BY <1>4, <2>1 DEF Bootload
  <2>3. Standing' \in {"proven", "lost"}
    BY <1>4, <2>2
  <2>4. Policy!Kept \/ (slot[Other(running)] # Junk /\ Policy!Exchanged)
    BY <1>4, <2>2 DEF Policy!Kept, Policy!Exchanged
  <2>5. Policy!StartEither
    BY <1>4, <2>1, <2>3, <2>4 DEF Policy!StartEither
  <2> QED
    BY <2>2, <2>5 DEF Policy!Restart
<1> QED
  BY <1>1, <1>2, <1>3, <1>4

LEMMA PolicyStep == IInv /\ [Next]_vars => [Policy!Next]_(Policy!vars)
<1> SUFFICES ASSUME IInv, [Next]_vars
             PROVE  [Policy!Next]_(Policy!vars)
  OBVIOUS
<1> USE DEF device, flash, job, oms, notes
<1>1. CASE Begin
  <2>1. /\ boot = running /\ boot' = boot /\ running' = running /\ st' = st
        /\ slot' = [slot EXCEPT ![Target] = Junk]
    BY <1>1 DEF Begin, IInv, FlashInv, Switched
  <2> QED
    BY <2>1, Writes DEF Policy!Next
<1>2. CASE ReadData
  <2>1. boot = running /\ boot' = boot /\ running' = running /\ st' = st
    BY <1>2 DEF ReadData, IInv, FlashInv, Switched
  <2>2. CASE slot' = [slot EXCEPT ![Target] = Body]
    <3>1. Body \in Versions \cup {Junk}
      BY DEF Body, IInv, TypeOK
    <3> QED
      BY <2>1, <2>2, <3>1, Writes DEF Policy!Next
  <2>3. CASE slot' = slot
    BY <2>1, <2>3 DEF Policy!vars, Current, Standing, Proven, Whole
  <2> QED
    BY <1>2, <2>2, <2>3 DEF ReadData
<1>3. CASE Finish
  <2>1. /\ boot = running /\ boot' = Target /\ running' = running /\ slot' = slot
        /\ st' = [st EXCEPT ![Target] = IF rollback THEN "new" ELSE "undefined"]
        /\ slot[Target] \in Versions
    BY <1>3 DEF Finish, IInv, TypeOK, FlashInv, Switched, Verified
  <2>2. Policy!Arm
    BY <2>1, VersionsAssumption
    DEF Policy!Arm, Policy!Standings, IInv, TypeOK, FlashInv, BootsVerified, TrialInv,
        Current, Standing, Proven, Whole, Target, Other, Slots
  <2> QED
    BY <2>2 DEF Policy!Next
<1>4. CASE Restart \/ Reset
  <2>1. Bootload /\ slot' = slot
    BY <1>4 DEF Restart, Reset, Restarting
  <2> QED
    BY <2>1, Starts DEF Policy!Next
<1>5. CASE MarkStable
  <2>1. boot' = boot /\ running' = running /\ slot' = slot /\ st[running] = "pending"
    BY <1>5 DEF MarkStable
  <2>2. CASE st' = [st EXCEPT ![running] = "valid"]
    <3>1. Policy!Confirm
      BY <2>1, <2>2
      DEF Policy!Confirm, IInv, TypeOK, FlashInv, BootsVerified,
          Current, Standing, Proven, Whole, Other, Slots
    <3> QED
      BY <3>1 DEF Policy!Next
  <2>3. CASE st' = st
    BY <2>1, <2>3 DEF Policy!vars, Current, Standing, Proven, Whole
  <2> QED
    BY <1>5, <2>2, <2>3 DEF MarkStable
<1>6. CASE UNCHANGED <<flash, running>>
  BY <1>6 DEF Policy!vars, Current, Standing, Proven, Whole
<1> QED
  BY <1>1, <1>2, <1>3, <1>4, <1>5, <1>6
  DEF Next, vars, Statement, Failure, Release, Dispatch, BeginRefused, BeginFails,
      ReadNothing, ReadTimesOut, WriteFails, ReadEnds, Verify, VerifyFails, Save,
      FinishFails, NothingToMark, Fail

(* Every update is one exchange of images: whatever its steps, failures    *)
(* and resets, and for every length of a download.                         *)
THEOREM ImplementsPolicy == Spec => PolicySpec
BY InitIInv, StepIInv, PolicyInit, PolicyStep, PTL DEF Spec, PolicySpec, Policy!Spec

=============================================================================

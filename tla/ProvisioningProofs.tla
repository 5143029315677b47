-------------------------- MODULE ProvisioningProofs --------------------------
(***************************************************************************)
(* What Provisioning promises of the stored identity, for every number of  *)
(* enrolments and of faults.                                               *)
(***************************************************************************)
EXTENDS Provisioning, TLAPS

Passing == phase \in {"persist", "wipe"}
Before(i) == i < k

(* The bookkeeping of the faults.                                          *)
Books ==
    /\ slips <= faults /\ floor <= issued
    /\ slips > 0 => orphan
    /\ Passing /\ ~clean => slips > 0

(* What is stored or in use was enrolled after the last clean wipe; a pass *)
(* that was not disturbed has done its work on the keys before k.          *)
Fresh ==
    /\ \A key \in Keys : /\ nvs[key] # 0 => nvs[key] > floor
                         /\ ram[key] # 0 => ram[key] > floor
    /\ phase = "persist" => issued > floor

Swept ==
    phase = "wipe" /\ clean =>
        /\ \A i \in 1..7 : Before(i) => nvs[Order[i]] = 0
        /\ k = 9 /\ plan = "factory_reset" => ~token

Gone ==
    phase = "restart" /\ plan = "factory_reset" /\ clean => ~token /\ ~wifi

ErasureInv == Books /\ Fresh /\ Swept /\ Gone

(* Without a fault since the last clean pass, what rests is of one         *)
(* enrolment, and one that is asked for starts from nothing.               *)
Uniform == Agree(Keys \ {"asset"})
Stored(i) ==
    nvs[Order[i]] = IF Order[i] = "asset" /\ ~asset THEN nvs["asset"] ELSE issued

Steady ==
    slips = 0 =>
        /\ Resting => Uniform
        /\ phase = "enrol" => nvs["dev_id"] = 0
        /\ phase = "wipe" /\ k = 1 => Uniform
        /\ phase = "persist" =>
               \A i \in 1..6 : ~Before(i) => nvs[Order[i]] = 0

Written == phase = "persist" /\ clean => \A i \in 1..7 : Before(i) => Stored(i)

(* With one, the certificate and the key still go with the device id, or   *)
(* one of the three is missing.                                            *)
Shaken ==
    slips < 2 =>
        /\ Provisioned(nvs) /\ Resting => Agree({"cert", "key"})
        /\ phase = "persist" /\ (slips = 0 \/ ~clean) =>
               \A i \in 1..6 : nvs[Order[i]] \in {0, issued}
        /\ phase = "wipe" /\ ~clean =>
               \/ k > 3 => nvs["dev_id"] = 0 \/ nvs["cert"] = 0
               \/ k = 9 /\ Agree({"cert", "key"})

(* Without one since the last clean wipe, the asset is of the enrolment.   *)
AssetInv ==
    ~orphan =>
        /\ Resting => nvs["asset"] = 0 \/ Agree({"asset"})
        /\ phase = "persist" /\ k <= 7 => nvs["asset"] = 0
        /\ phase = "persist" => nvs["asset"] \in {0, issued}

WholeInv == Steady /\ Written /\ Shaken /\ AssetInv

IInv == TypeOK /\ ErasureInv /\ WholeInv

----------------------------------------------------------------------------
LEMMA OrderFacts ==
    /\ Len(Order) = 7
    /\ Order[1] = "dev_id" /\ Order[2] = "topics" /\ Order[3] = "cert"
    /\ Order[4] = "key" /\ Order[5] = "cmd_pub" /\ Order[6] = "broker"
    /\ Order[7] = "asset"
    /\ \A i \in 1..7 : Order[i] \in Keys
    /\ \A key \in Keys : \E i \in 1..7 : key = Order[i]
    /\ \A i, j \in 1..7 : Order[i] = Order[j] => i = j
  BY DEF Order, Keys

(* A fault is booked; what goes well leaves the books alone.               *)
LEMMA FaultFacts ==
    ASSUME TypeOK, Books, Fault
    PROVE  /\ faults' \in 0..MaxFaults /\ slips' \in 0..MaxFaults
           /\ slips' = slips + 1 /\ slips' <= faults'
           /\ clean' \in BOOLEAN /\ ~clean'
           /\ orphan' \in BOOLEAN /\ orphan'
           /\ floor' = floor
<1>1. clean' \in BOOLEAN /\ ~clean' /\ orphan' \in BOOLEAN /\ orphan' /\ floor' = floor
  BY Zenon DEF Fault
<1>2. faults < MaxFaults /\ faults' = faults + 1 /\ slips' = slips + 1
  BY Zenon DEF Fault
<1> QED
  BY <1>1, <1>2, BoundsAssumption DEF BoundsAssumption, TypeOK, Books

LEMMA Booked ==
    ASSUME TypeOK, Books, Fault \/ Smooth
    PROVE  /\ faults' \in 0..MaxFaults /\ slips' \in 0..MaxFaults
           /\ clean' \in BOOLEAN /\ orphan' \in BOOLEAN /\ floor' = floor
           /\ slips <= slips' /\ slips' <= faults'
           /\ slips' > 0 => orphan'
           /\ ~clean' => slips' > 0 \/ ~clean
<1>1. CASE Fault
  BY <1>1, FaultFacts DEF TypeOK, Books
<1>2. CASE Smooth
  BY <1>2 DEF Smooth, history, TypeOK, Books
<1> QED
  BY <1>1, <1>2

LEMMA BooksStep ==
    ASSUME TypeOK, Books, [Next]_vars
    PROVE  TypeOK' /\ Books'
<1> USE OrderFacts, BoundsAssumption
        DEF BoundsAssumption, TypeOK, Books, Passing, Enrolments, Absent, Plans,
            stored, pass, history
<1>1. CASE Begin
  <2>1. Fault \/ Smooth
    BY <1>1, Zenon DEF Begin
  <2> QED
    BY <1>1, <2>1, Booked DEF Begin
<1>2. CASE Enrol
  <2>1. clean' \in BOOLEAN /\ clean'
    BY <1>2, Zenon DEF Enrol
  <2>2. asset' \in BOOLEAN
    <3>1. BOOLEAN \subseteq BOOLEAN /\ {FALSE} \subseteq BOOLEAN
      OBVIOUS
    <3> QED
      BY <1>2, <3>1, Zenon DEF Enrol
  <2>3. issued' \in Enrolments /\ floor' <= issued'
    BY <1>2 DEF Enrol
  <2> QED
    BY <1>2, <2>1, <2>2, <2>3 DEF Enrol
<1>3. CASE EnrolFails
  BY <1>3 DEF EnrolFails
<1>4. CASE PersistKey
  <2>1. Fault \/ Smooth
    BY <1>4, Zenon DEF PersistKey
  <2> QED
    BY <1>4, <2>1, Booked DEF PersistKey
<1>5. CASE PersistDone
  <2>1. asset' \in BOOLEAN
    BY <1>5, Zenon DEF PersistDone
  <2> QED
    BY <1>5, <2>1 DEF PersistDone, Enrolled
<1>6. CASE TopicAccepted
  BY <1>6 DEF TopicAccepted
<1>7. CASE TopicRejected
  BY <1>7 DEF TopicRejected, StartWipe
<1>8. CASE WipeKey
  <2>1. Fault \/ Smooth
    BY <1>8, Zenon DEF WipeKey
  <2> QED
    BY <1>8, <2>1, Booked DEF WipeKey
<1>9. CASE WipeToken
  <2>1. Fault \/ Smooth
    BY <1>9, Zenon DEF WipeToken
  <2>2. (token /\ plan # "factory_reset") \in BOOLEAN
    OBVIOUS
  <2>3. token' = (token /\ plan # "factory_reset") \/ token' = token
    BY <1>9, Zenon DEF WipeToken
  <2>4. token' \in BOOLEAN
    BY <2>2, <2>3, Zenon DEF TypeOK
  <2> QED
    BY <1>9, <2>1, <2>4, Booked DEF WipeToken
<1>10. CASE NotOpened
  <2>1. Fault \/ Smooth
    BY <1>10, Zenon DEF NotOpened
  <2> QED
    BY <1>10, <2>1, Booked DEF NotOpened
<1>11. CASE WipeDone
  BY <1>11 DEF WipeDone
<1>12. CASE Restart
  <2>1. asset' \in BOOLEAN
    BY <1>12, Zenon DEF Restart, Booting
  <2> QED
    BY <1>12, <2>1, Booked DEF Restart, Booting
<1>13. CASE AuthExpired
  BY <1>13 DEF AuthExpired, StartWipe
<1>14. CASE Lifecycle
  BY <1>14 DEF Lifecycle, StartWipe
<1>15. CASE SetToken
  BY <1>15 DEF SetToken
<1>16. CASE Reboot
  <2>1. asset' \in BOOLEAN
    BY <1>16, Zenon DEF Reboot, Booting
  <2> QED
    BY <1>16, <2>1, Booked DEF Reboot, Booting
<1>17. CASE Reset
  <2>1. (Fault \/ Smooth) /\ asset' \in BOOLEAN
    BY <1>17, Zenon DEF Reset, Booting
  <2> QED
    BY <1>17, <2>1, Booked DEF Reset, Booting
<1>18. CASE UNCHANGED vars
  BY <1>18 DEF vars
<1> QED
  BY <1>1, <1>2, <1>3, <1>4, <1>5, <1>6, <1>7, <1>8, <1>9, <1>10, <1>11, <1>12, <1>13, <1>14, <1>15, <1>16, <1>17, <1>18
     DEF Next, Statement

(* What was erased before the last clean wipe does not come back.          *)
LEMMA ErasureStep ==
    ASSUME TypeOK, ErasureInv, [Next]_vars
    PROVE  Fresh' /\ Swept' /\ Gone'
<1> USE OrderFacts DEF TypeOK, ErasureInv, Books, Fresh, Swept, Gone,
        Passing, Before, Enrolments, Absent, Plans, stored, pass, history
<1>1. CASE Begin
  <2>1. CASE Fault
    BY <1>1, <2>1, FaultFacts DEF Begin
  <2>2. CASE Smooth
    BY <1>1, <2>2 DEF Begin, Smooth
  <2> QED
    BY <1>1, <2>1, <2>2, Zenon DEF Begin
<1>2. CASE Enrol
  BY <1>2 DEF Enrol
<1>3. CASE EnrolFails
  BY <1>3 DEF EnrolFails
<1>4. CASE PersistKey
  <2>1. CASE Fault
    BY <1>4, <2>1, FaultFacts DEF PersistKey, Persisted
  <2>2. CASE Smooth
    BY <1>4, <2>2 DEF PersistKey, Persisted, Smooth
  <2> QED
    BY <1>4, <2>1, <2>2, Zenon DEF PersistKey, Persisted
<1>5. CASE PersistDone
  BY <1>5 DEF PersistDone, Enrolled
<1>6. CASE TopicAccepted
  BY <1>6 DEF TopicAccepted
<1>7. CASE TopicRejected
  BY <1>7 DEF TopicRejected, StartWipe
<1>8. CASE WipeKey
  <2>1. CASE Fault
    BY <1>8, <2>1, FaultFacts DEF WipeKey
  <2>2. CASE Smooth /\ nvs' = [nvs EXCEPT ![Order[k]] = 0]
    <3>1. k \in 1..7 /\ phase = "wipe" /\ phase' = "wipe" /\ k' = k + 1
      BY <1>8 DEF WipeKey
    <3>2. clean' = clean /\ floor' = floor /\ ram' = ram /\ plan' = plan
          /\ token' = token
      BY <1>8, <2>2 DEF WipeKey, Smooth
    <3>3. \A key \in Keys : nvs'[key] = 0 \/ nvs'[key] = nvs[key]
      BY <2>2
    <3>4. nvs'[Order[k]] = 0
      BY <2>2, <3>1
    <3>5. Fresh' /\ Gone'
      BY <3>1, <3>2, <3>3
    <3>6. ASSUME clean
          PROVE  \A i \in 1..7 : i < k + 1 => nvs'[Order[i]] = 0
      BY <3>1, <3>3, <3>4, <3>6
    <3> QED
      BY <3>1, <3>2, <3>5, <3>6
  <2> QED
    BY <1>8, <2>1, <2>2, Zenon DEF WipeKey, Wiped
<1>9. CASE WipeToken
  <2>1. CASE Fault
    BY <1>9, <2>1, FaultFacts DEF WipeToken
  <2>2. CASE Smooth /\ token' = (token /\ plan # "factory_reset")
    <3>1. plan = "factory_reset" => ~token'
      BY <2>2, Zenon
    <3>2. phase = "wipe" /\ phase' = "wipe" /\ k = 8 /\ k' = 9 /\ nvs' = nvs
          /\ ram' = ram /\ plan' = plan
      BY <1>9 DEF WipeToken
    <3>3. clean' = clean /\ floor' = floor
      BY <2>2 DEF Smooth
    <3> QED
      BY <3>1, <3>2, <3>3
  <2> QED
    BY <1>9, <2>1, <2>2, Zenon DEF WipeToken
<1>10. CASE NotOpened
  <2>1. Fault
    BY <1>10 DEF NotOpened
  <2> QED
    BY <1>10, <2>1, FaultFacts DEF NotOpened
<1>11. CASE WipeDone
  BY <1>11 DEF WipeDone
<1>12. CASE Restart
  <2>1. CASE Fault
    BY <1>12, <2>1, FaultFacts DEF Restart, Booting
  <2>2. CASE Smooth
    BY <1>12, <2>2 DEF Restart, Booting, Smooth
  <2> QED
    BY <1>12, <2>1, <2>2, Zenon DEF Restart, Booting
<1>13. CASE AuthExpired
  BY <1>13 DEF AuthExpired, StartWipe
<1>14. CASE Lifecycle
  BY <1>14 DEF Lifecycle, StartWipe, Serving
<1>15. CASE SetToken
  BY <1>15 DEF SetToken, Serving
<1>16. CASE Reboot
  <2>1. CASE Fault
    BY <1>16, <2>1, FaultFacts DEF Reboot, Booting
  <2>2. CASE Smooth
    BY <1>16, <2>2 DEF Reboot, Booting, Smooth
  <2> QED
    BY <1>16, <2>1, <2>2, Zenon DEF Reboot, Booting
<1>17. CASE Reset
  <2>1. CASE Fault
    BY <1>17, <2>1, FaultFacts DEF Reset, Booting
  <2>2. CASE Smooth
    BY <1>17, <2>2 DEF Reset, Booting, Smooth
  <2> QED
    BY <1>17, <2>1, <2>2, Zenon DEF Reset, Booting
<1>18. CASE UNCHANGED vars
  BY <1>18 DEF vars
<1> QED
  BY <1>1, <1>2, <1>3, <1>4, <1>5, <1>6, <1>7, <1>8, <1>9, <1>10, <1>11, <1>12, <1>13, <1>14, <1>15, <1>16, <1>17,
     <1>18 DEF Next, Statement

(* What the storing of one key does.                                       *)
LEMMA PersistEffect ==
    ASSUME TypeOK, PersistKey, Smooth
    PROVE  /\ \A i \in 1..7 : i # k => nvs'[Order[i]] = nvs[Order[i]]
           /\ nvs'[Order[k]] =
                  IF Order[k] = "asset" /\ ~asset THEN nvs[Order[k]] ELSE issued
<1> DEFINE here  == Order[k]
           value == IF here \in Persisted THEN issued ELSE nvs[here]
<1>1. k \in 1..7 /\ here \in Keys
  BY OrderFacts DEF PersistKey, TypeOK
<1>2. ~Fault
  BY DEF Fault, Smooth, TypeOK, history
<1>3. nvs' = [nvs EXCEPT ![here] = value]
  BY <1>2, Zenon DEF PersistKey
<1>4. value = IF here = "asset" /\ ~asset THEN nvs[here] ELSE issued
  BY <1>1 DEF Persisted
<1>5. nvs'[here] = value /\ \A key \in Keys : key # here => nvs'[key] = nvs[key]
  <2> HIDE DEF here, value
  <2> QED
    BY <1>1, <1>3 DEF TypeOK
<1>6. \A i \in 1..7 : i # k => Order[i] \in Keys /\ Order[i] # here
  BY <1>1, OrderFacts
<1> QED
  BY <1>1, <1>4, <1>5, <1>6

(* Between the keys: what a clean pass has stored.                         *)
LEMMA WrittenStep ==
    ASSUME TypeOK, ErasureInv, WholeInv, [Next]_vars
    PROVE  Written'
<1> USE OrderFacts DEF TypeOK, ErasureInv, Books, Swept, Fresh, WholeInv, Steady,
        Written, Shaken, AssetInv, Uniform, Agree, Resting, Stored, Before,
        Passing, Provisioned, Keys, Enrolments, Absent, Plans, stored, pass, history
<1>1. CASE Begin
  <2>1. CASE Fault
    BY <1>1, <2>1, FaultFacts DEF Begin
  <2>2. CASE Smooth
    BY <1>1, <2>2 DEF Begin, Smooth
  <2> QED
    BY <1>1, <2>1, <2>2, Zenon DEF Begin
<1>2. CASE Enrol
  BY <1>2 DEF Enrol
<1>3. CASE EnrolFails
  BY <1>3 DEF EnrolFails
<1>4. CASE PersistKey
  <2>1. CASE Fault
    BY <1>4, <2>1, FaultFacts DEF PersistKey
  <2>2. CASE Smooth
    <3>1. /\ k \in 1..7 /\ phase = "persist" /\ phase' = "persist"
          /\ k' = k + 1 /\ issued' = issued /\ asset' = asset
      BY <1>4 DEF PersistKey
    <3>2. clean' = clean
      BY <2>2 DEF Smooth
    <3>3. ASSUME clean, NEW i \in 1..7, i < k + 1
          PROVE  nvs'[Order[i]] =
                     IF Order[i] = "asset" /\ ~asset THEN nvs'["asset"] ELSE issued
      <4>1. CASE i = k
        BY <1>4, <2>2, <4>1, PersistEffect
      <4>2. CASE i # k
        <5>1. i < k /\ Order[i] # "asset"
          BY <3>1, <3>3, <4>2
        <5>2. Stored(i)
          BY <3>1, <3>3, <5>1
        <5> QED
          BY <1>4, <2>2, PersistEffect, <4>2, <5>1, <5>2
      <4> QED
        BY <4>1, <4>2
    <3> QED
      BY <3>1, <3>2, <3>3
  <2> QED
    BY <1>4, <2>1, <2>2, Zenon DEF PersistKey
<1>5. CASE PersistDone
  BY <1>5 DEF PersistDone, Enrolled
<1>6. CASE TopicAccepted
  BY <1>6 DEF TopicAccepted
<1>7. CASE TopicRejected
  BY <1>7 DEF TopicRejected, StartWipe
<1>8. CASE WipeKey
  <2>1. CASE Fault
    BY <1>8, <2>1, FaultFacts DEF WipeKey, Wiped
  <2>2. CASE Smooth
    BY <1>8, <2>2 DEF WipeKey, Wiped, Smooth
  <2> QED
    BY <1>8, <2>1, <2>2, Zenon DEF WipeKey, Wiped
<1>9. CASE WipeToken
  <2>1. CASE Fault
    BY <1>9, <2>1, FaultFacts DEF WipeToken
  <2>2. CASE Smooth
    BY <1>9, <2>2 DEF WipeToken, Smooth
  <2> QED
    BY <1>9, <2>1, <2>2, Zenon DEF WipeToken
<1>10. CASE NotOpened
  <2>1. Fault
    BY <1>10 DEF NotOpened
  <2> QED
    BY <1>10, <2>1, FaultFacts DEF NotOpened
<1>11. CASE WipeDone
  BY <1>11 DEF WipeDone
<1>12. CASE Restart
  <2>1. CASE Fault
    BY <1>12, <2>1, FaultFacts DEF Restart, Booting
  <2>2. CASE Smooth
    BY <1>12, <2>2 DEF Restart, Booting, Smooth
  <2> QED
    BY <1>12, <2>1, <2>2, Zenon DEF Restart, Booting
<1>13. CASE AuthExpired
  BY <1>13 DEF AuthExpired, StartWipe
<1>14. CASE Lifecycle
  BY <1>14 DEF Lifecycle, StartWipe, Serving
<1>15. CASE SetToken
  BY <1>15 DEF SetToken, Serving
<1>16. CASE Reboot
  <2>1. CASE Fault
    BY <1>16, <2>1, FaultFacts DEF Reboot, Booting
  <2>2. CASE Smooth
    BY <1>16, <2>2 DEF Reboot, Booting, Smooth
  <2> QED
    BY <1>16, <2>1, <2>2, Zenon DEF Reboot, Booting
<1>17. CASE Reset
  <2>1. Fault
    BY <1>17 DEF Reset, Booting
  <2> QED
    BY <1>17, <2>1, FaultFacts DEF Reset, Booting
<1>18. CASE UNCHANGED vars
  BY <1>18 DEF vars
<1> QED
  BY <1>1, <1>2, <1>3, <1>4, <1>5, <1>6, <1>7, <1>8, <1>9, <1>10, <1>11, <1>12, <1>13, <1>14, <1>15, <1>16, <1>17,
     <1>18 DEF Next, Statement

(* Without faults: all keys, or none.                                      *)
LEMMA SteadyStep ==
    ASSUME TypeOK, ErasureInv, WholeInv, [Next]_vars
    PROVE  Steady'
<1> USE OrderFacts DEF TypeOK, ErasureInv, Books, Swept, Fresh, WholeInv, Steady,
        Written, Shaken, AssetInv, Uniform, Agree, Resting, Stored, Before,
        Passing, Provisioned, Keys, Enrolments, Absent, Plans, stored, pass, history
<1>1. CASE Begin
  <2>1. CASE Fault
    BY <1>1, <2>1, FaultFacts DEF Begin
  <2>2. CASE Smooth /\ ram' = nvs
    <3>1. /\ phase = "boot" /\ nvs' = nvs
          /\ phase' = IF Provisioned(nvs) THEN "check" ELSE "enrol"
      BY <1>1, <2>2 DEF Begin
    <3>2. slips' = slips
      BY <2>2 DEF Smooth
    <3> QED
      BY <3>1, <3>2
  <2> QED
    BY <1>1, <2>1, <2>2, Zenon DEF Begin
<1>2. CASE Enrol
  BY <1>2 DEF Enrol
<1>3. CASE EnrolFails
  BY <1>3 DEF EnrolFails
<1>4. CASE PersistKey
  <2>1. CASE Fault
    BY <1>4, <2>1, FaultFacts DEF PersistKey, Persisted
  <2>2. CASE Smooth
    BY <1>4, <2>2 DEF PersistKey, Persisted, Smooth
  <2> QED
    BY <1>4, <2>1, <2>2, Zenon DEF PersistKey, Persisted
<1>5. CASE PersistDone
  BY <1>5 DEF PersistDone, Enrolled
<1>6. CASE TopicAccepted
  BY <1>6 DEF TopicAccepted
<1>7. CASE TopicRejected
  BY <1>7 DEF TopicRejected, StartWipe
<1>8. CASE WipeKey
  <2>1. CASE Fault
    BY <1>8, <2>1, FaultFacts DEF WipeKey, Wiped
  <2>2. CASE Smooth
    BY <1>8, <2>2 DEF WipeKey, Wiped, Smooth
  <2> QED
    BY <1>8, <2>1, <2>2, Zenon DEF WipeKey, Wiped
<1>9. CASE WipeToken
  <2>1. CASE Fault
    BY <1>9, <2>1, FaultFacts DEF WipeToken
  <2>2. CASE Smooth
    BY <1>9, <2>2 DEF WipeToken, Smooth
  <2> QED
    BY <1>9, <2>1, <2>2, Zenon DEF WipeToken
<1>10. CASE NotOpened
  <2>1. Fault
    BY <1>10 DEF NotOpened
  <2> QED
    BY <1>10, <2>1, FaultFacts DEF NotOpened
<1>11. CASE WipeDone
  BY <1>11 DEF WipeDone
<1>12. CASE Restart
  <2>1. CASE Fault
    BY <1>12, <2>1, FaultFacts DEF Restart, Booting
  <2>2. CASE Smooth
    BY <1>12, <2>2 DEF Restart, Booting, Smooth
  <2> QED
    BY <1>12, <2>1, <2>2, Zenon DEF Restart, Booting
<1>13. CASE AuthExpired
  BY <1>13 DEF AuthExpired, StartWipe
<1>14. CASE Lifecycle
  BY <1>14 DEF Lifecycle, StartWipe, Serving
<1>15. CASE SetToken
  BY <1>15 DEF SetToken, Serving
<1>16. CASE Reboot
  <2>1. CASE Fault
    BY <1>16, <2>1, FaultFacts DEF Reboot, Booting
  <2>2. CASE Smooth
    BY <1>16, <2>2 DEF Reboot, Booting, Smooth
  <2> QED
    BY <1>16, <2>1, <2>2, Zenon DEF Reboot, Booting
<1>17. CASE Reset
  <2>1. Fault
    BY <1>17 DEF Reset, Booting
  <2> QED
    BY <1>17, <2>1, FaultFacts DEF Reset, Booting
<1>18. CASE UNCHANGED vars
  BY <1>18 DEF vars
<1> QED
  BY <1>1, <1>2, <1>3, <1>4, <1>5, <1>6, <1>7, <1>8, <1>9, <1>10, <1>11, <1>12, <1>13, <1>14, <1>15, <1>16, <1>17,
     <1>18 DEF Next, Statement

(* With one fault: the three keys that make an identity.                   *)
LEMMA ShakenStep ==
    ASSUME TypeOK, ErasureInv, WholeInv, [Next]_vars
    PROVE  Shaken'
<1> USE OrderFacts DEF TypeOK, ErasureInv, Books, Swept, Fresh, WholeInv, Steady,
        Written, Shaken, AssetInv, Uniform, Agree, Resting, Stored, Before,
        Passing, Provisioned, Keys, Enrolments, Absent, Plans, stored, pass, history
<1>1. CASE Begin
  <2>1. CASE Fault
    BY <1>1, <2>1, FaultFacts DEF Begin
  <2>2. CASE Smooth
    BY <1>1, <2>2 DEF Begin, Smooth
  <2> QED
    BY <1>1, <2>1, <2>2, Zenon DEF Begin
<1>2. CASE Enrol
  BY <1>2 DEF Enrol
<1>3. CASE EnrolFails
  BY <1>3 DEF EnrolFails
<1>4. CASE PersistKey
  <2>1. CASE Fault
    BY <1>4, <2>1, FaultFacts DEF PersistKey, Persisted
  <2>2. CASE Smooth
    BY <1>4, <2>2 DEF PersistKey, Persisted, Smooth
  <2> QED
    BY <1>4, <2>1, <2>2, Zenon DEF PersistKey, Persisted
<1>5. CASE PersistDone
  BY <1>5 DEF PersistDone, Enrolled
<1>6. CASE TopicAccepted
  BY <1>6 DEF TopicAccepted
<1>7. CASE TopicRejected
  BY <1>7 DEF TopicRejected, StartWipe
<1>8. CASE WipeKey
  <2>1. CASE Fault
    BY <1>8, <2>1, FaultFacts DEF WipeKey, Wiped
  <2>2. CASE Smooth /\ nvs' = [nvs EXCEPT ![Order[k]] = 0]
    <3>1. k \in 1..7 /\ phase = "wipe" /\ phase' = "wipe" /\ k' = k + 1
      BY <1>8 DEF WipeKey
    <3>2. clean' = clean /\ slips' = slips
      BY <2>2 DEF Smooth, history
    <3>3. /\ nvs["dev_id"] = 0 => nvs'["dev_id"] = 0
          /\ nvs["cert"] = 0 => nvs'["cert"] = 0
          /\ k = 3 => nvs'["cert"] = 0
      BY <2>2, <3>1
    <3> QED
      BY <3>1, <3>2, <3>3
  <2>3. Order[k] \in Wiped
    BY <1>8 DEF WipeKey, Wiped
  <2> QED
    BY <1>8, <2>1, <2>2, <2>3 DEF WipeKey
<1>9. CASE WipeToken
  <2>1. CASE Fault
    BY <1>9, <2>1, FaultFacts DEF WipeToken
  <2>2. CASE Smooth
    BY <1>9, <2>2 DEF WipeToken, Smooth
  <2> QED
    BY <1>9, <2>1, <2>2, Zenon DEF WipeToken
<1>10. CASE NotOpened
  <2>1. Fault
    BY <1>10 DEF NotOpened
  <2> QED
    BY <1>10, <2>1, FaultFacts DEF NotOpened
<1>11. CASE WipeDone
  BY <1>11 DEF WipeDone
<1>12. CASE Restart
  <2>1. CASE Fault
    BY <1>12, <2>1, FaultFacts DEF Restart, Booting
  <2>2. CASE Smooth
    BY <1>12, <2>2 DEF Restart, Booting, Smooth
  <2> QED
    BY <1>12, <2>1, <2>2, Zenon DEF Restart, Booting
<1>13. CASE AuthExpired
  BY <1>13 DEF AuthExpired, StartWipe
<1>14. CASE Lifecycle
  BY <1>14 DEF Lifecycle, StartWipe, Serving
<1>15. CASE SetToken
  BY <1>15 DEF SetToken, Serving
<1>16. CASE Reboot
  <2>1. CASE Fault
    BY <1>16, <2>1, FaultFacts DEF Reboot, Booting
  <2>2. CASE Smooth
    BY <1>16, <2>2 DEF Reboot, Booting, Smooth
  <2> QED
    BY <1>16, <2>1, <2>2, Zenon DEF Reboot, Booting
<1>17. CASE Reset
  <2>1. Fault
    BY <1>17 DEF Reset, Booting
  <2> QED
    BY <1>17, <2>1, FaultFacts DEF Reset, Booting
<1>18. CASE UNCHANGED vars
  BY <1>18 DEF vars
<1> QED
  BY <1>1, <1>2, <1>3, <1>4, <1>5, <1>6, <1>7, <1>8, <1>9, <1>10, <1>11, <1>12, <1>13, <1>14, <1>15, <1>16, <1>17,
     <1>18 DEF Next, Statement

(* The asset goes with the enrolment.                                      *)
LEMMA AssetStep ==
    ASSUME TypeOK, ErasureInv, WholeInv, [Next]_vars
    PROVE  AssetInv'
<1> USE OrderFacts DEF TypeOK, ErasureInv, Books, Swept, Fresh, WholeInv, Steady,
        Written, Shaken, AssetInv, Uniform, Agree, Resting, Stored, Before,
        Passing, Provisioned, Keys, Enrolments, Absent, Plans, stored, pass, history
<1>1. CASE Begin
  <2>1. CASE Fault
    BY <1>1, <2>1, FaultFacts DEF Begin
  <2>2. CASE Smooth
    BY <1>1, <2>2 DEF Begin, Smooth
  <2> QED
    BY <1>1, <2>1, <2>2, Zenon DEF Begin
<1>2. CASE Enrol
  BY <1>2 DEF Enrol
<1>3. CASE EnrolFails
  BY <1>3 DEF EnrolFails
<1>4. CASE PersistKey
  <2>1. CASE Fault
    BY <1>4, <2>1, FaultFacts DEF PersistKey, Persisted
  <2>2. CASE Smooth
    BY <1>4, <2>2 DEF PersistKey, Persisted, Smooth
  <2> QED
    BY <1>4, <2>1, <2>2, Zenon DEF PersistKey, Persisted
<1>5. CASE PersistDone
  BY <1>5 DEF PersistDone, Enrolled
<1>6. CASE TopicAccepted
  BY <1>6 DEF TopicAccepted
<1>7. CASE TopicRejected
  BY <1>7 DEF TopicRejected, StartWipe
<1>8. CASE WipeKey
  <2>1. CASE Fault
    BY <1>8, <2>1, FaultFacts DEF WipeKey, Wiped
  <2>2. CASE Smooth
    BY <1>8, <2>2 DEF WipeKey, Wiped, Smooth
  <2> QED
    BY <1>8, <2>1, <2>2, Zenon DEF WipeKey, Wiped
<1>9. CASE WipeToken
  <2>1. CASE Fault
    BY <1>9, <2>1, FaultFacts DEF WipeToken
  <2>2. CASE Smooth
    BY <1>9, <2>2 DEF WipeToken, Smooth
  <2> QED
    BY <1>9, <2>1, <2>2, Zenon DEF WipeToken
<1>10. CASE NotOpened
  <2>1. Fault
    BY <1>10 DEF NotOpened
  <2> QED
    BY <1>10, <2>1, FaultFacts DEF NotOpened
<1>11. CASE WipeDone
  BY <1>11 DEF WipeDone
<1>12. CASE Restart
  <2>1. CASE Fault
    BY <1>12, <2>1, FaultFacts DEF Restart, Booting
  <2>2. CASE Smooth
    BY <1>12, <2>2 DEF Restart, Booting, Smooth
  <2> QED
    BY <1>12, <2>1, <2>2, Zenon DEF Restart, Booting
<1>13. CASE AuthExpired
  BY <1>13 DEF AuthExpired, StartWipe
<1>14. CASE Lifecycle
  BY <1>14 DEF Lifecycle, StartWipe, Serving
<1>15. CASE SetToken
  BY <1>15 DEF SetToken, Serving
<1>16. CASE Reboot
  <2>1. CASE Fault
    BY <1>16, <2>1, FaultFacts DEF Reboot, Booting
  <2>2. CASE Smooth
    BY <1>16, <2>2 DEF Reboot, Booting, Smooth
  <2> QED
    BY <1>16, <2>1, <2>2, Zenon DEF Reboot, Booting
<1>17. CASE Reset
  <2>1. Fault
    BY <1>17 DEF Reset, Booting
  <2> QED
    BY <1>17, <2>1, FaultFacts DEF Reset, Booting
<1>18. CASE UNCHANGED vars
  BY <1>18 DEF vars
<1> QED
  BY <1>1, <1>2, <1>3, <1>4, <1>5, <1>6, <1>7, <1>8, <1>9, <1>10, <1>11, <1>12, <1>13, <1>14, <1>15, <1>16, <1>17,
     <1>18 DEF Next, Statement

----------------------------------------------------------------------------
LEMMA InitIInv == Init => IInv
<1> SUFFICES ASSUME Init
             PROVE  IInv
  OBVIOUS
<1>1. /\ token \in BOOLEAN /\ wifi \in BOOLEAN /\ asset \in BOOLEAN
      /\ clean \in BOOLEAN /\ orphan \in BOOLEAN /\ clean
  BY Zenon DEF Init
<1>2. TypeOK
  BY <1>1, OrderFacts, BoundsAssumption
  DEF Init, BoundsAssumption, TypeOK, Enrolments, Absent, Plans
<1>3. ErasureInv
  BY <1>1 DEF Init, ErasureInv, Books, Fresh, Swept, Gone, Passing, Absent
<1>4. WholeInv
  BY OrderFacts DEF Init, WholeInv, Steady, Written, Shaken, AssetInv, Uniform,
     Agree, Resting, Provisioned, Absent, Keys
<1> QED
  BY <1>2, <1>3, <1>4 DEF IInv

LEMMA StepIInv == IInv /\ [Next]_vars => IInv'
<1> SUFFICES ASSUME IInv, [Next]_vars
             PROVE  IInv'
  OBVIOUS
<1>1. TypeOK /\ ErasureInv /\ WholeInv
  BY DEF IInv
<1>2. TypeOK' /\ Books'
  BY <1>1, BooksStep DEF ErasureInv
<1>3. Fresh' /\ Swept' /\ Gone'
  BY <1>1, ErasureStep
<1>4. Steady' /\ Written' /\ Shaken' /\ AssetInv'
  BY <1>1, SteadyStep, WrittenStep, ShakenStep, AssetStep
<1> QED
  BY <1>2, <1>3, <1>4 DEF IInv, ErasureInv, WholeInv

THEOREM Inductive == Spec => []IInv
<1> QED
  BY InitIInv, StepIInv, PTL DEF Spec

(* The identity's variables keep their types.                              *)
THEOREM TypeCorrect == Spec => []TypeOK
<1>1. IInv => TypeOK
  BY DEF IInv
<1> QED
  BY Inductive, <1>1, PTL

(* What the invariant was strengthened from: an identity that was erased   *)
(* without disturbance never comes back; the one a device boots with is of *)
(* one enrolment, as far as one or no disturbed pass lets it be.           *)
LEMMA Promises == IInv => NothingResurfaces /\ IdentityWhole
<1>1. IInv => NothingResurfaces
  BY DEF IInv, ErasureInv, Fresh, Gone, NothingResurfaces
<1>2. IInv => IdentityWhole
  <2> SUFFICES ASSUME IInv, Provisioned(nvs), Resting
               PROVE  /\ slips < 2 => Agree({"cert", "key"})
                      /\ slips = 0 => Agree(Keys \ {"asset"})
                      /\ ~orphan => nvs["asset"] = 0 \/ Agree({"asset"})
    BY DEF IdentityWhole
  <2> QED
    BY DEF IInv, WholeInv, Steady, Shaken, AssetInv, Uniform
<1> QED
  BY <1>1, <1>2

=============================================================================

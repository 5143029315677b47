---------------------------- MODULE MCLockState ----------------------------
(* Instances of LockState: where the MQTT task may preempt the tick.       *)
EXTENDS LockState

Anywhere == Points
Nowhere  == {}

(* The pulse is ended, and a transition stored, without interruption.      *)
AtomicSections ==
    Points \ {"pulse", "dropPin", "dropFlag", "storeState", "storeTrigger"}
============================================================================

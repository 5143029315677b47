---------------------------- MODULE UpdatePolicy ----------------------------
(***************************************************************************)
(* What a firmware update promises, without its steps: the device runs one *)
(* image and has another beside it, which only a restart exchanges, and    *)
(* then in full: an image armed for the next restart is whole and the next *)
(* restart starts it; without one an image that has proven itself stays,   *)
(* and one on trial gives way to the one before.  Ota implements this.     *)
(***************************************************************************)
CONSTANTS Versions, Junk

VARIABLES
    runs,     \* the version the device executes
    spare,    \* the image in the other slot: a version, or Junk
    armed,    \* the next restart starts the spare image
    standing  \* of the image that runs: "proven"; "trial": the spare one is
              \* proven; "lost": neither is

vars == <<runs, spare, armed, standing>>

(* Flashed over USB.                                                       *)
Init ==
    /\ runs \in Versions /\ spare = Junk
    /\ armed = FALSE /\ standing = "proven"

(* The spare image is the only one that is written: a proven one that runs *)
(* does not depend on it, one on trial loses what it would give way to.    *)
Standings == IF standing = "proven" THEN {"proven"} ELSE {"trial", "lost"}

Write ==
    /\ ~armed
    /\ spare' \in Versions \cup {Junk}
    /\ standing' \in Standings
    /\ UNCHANGED <<runs, armed>>

(* A download that was complete and passed its checks.                     *)
Arm ==
    /\ ~armed /\ armed' = TRUE
    /\ spare # Junk
    /\ standing' \in Standings
    /\ UNCHANGED <<runs, spare>>

(* The image that runs has done its work.                                  *)
Confirm ==
    /\ standing # "proven" /\ standing' = "proven"
    /\ UNCHANGED <<runs, spare, armed>>

Exchanged == runs' = spare /\ spare' = runs
Kept      == UNCHANGED <<runs, spare>>

(* A restart, ordered or not.                                              *)
StartArmed ==
    /\ armed /\ Exchanged
    /\ standing' \in IF standing = "proven" THEN {"proven", "trial"} ELSE {"lost"}

StartProven == ~armed /\ standing = "proven" /\ Kept /\ UNCHANGED standing

GiveWay == ~armed /\ standing = "trial" /\ Exchanged /\ standing' = "proven"

StartEither ==
    /\ ~armed /\ standing = "lost"
    /\ Kept \/ (spare # Junk /\ Exchanged)
    /\ standing' \in {"proven", "lost"}

Restart ==
    /\ StartArmed \/ StartProven \/ GiveWay \/ StartEither
    /\ armed' = FALSE

Next == Write \/ Arm \/ Confirm \/ Restart

Spec == Init /\ [][Next]_vars
=============================================================================

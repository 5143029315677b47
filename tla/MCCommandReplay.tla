-------------------------- MODULE MCCommandReplay --------------------------
(* An instance of CommandReplay: four commands, one of which is a retry    *)
(* with a fresh nonce, over a ring of two.                                 *)
EXTENDS CommandReplay

Command(i, n) == [id |-> i, nonce |-> n]

MCCommands   == {Command(1, 11), Command(1, 12), Command(2, 13), Command(3, 14)}
MCChallenged == {Command(3, 14)}

(* The second command does not expire within MaxTime.                      *)
MCExpiresAt  == [c \in MCCommands |-> IF c.id = 2 THEN 1 ELSE 0]

(* Entries of 4 bytes fit twice in the string.  Of entries of 5 only the   *)
(* first fits, and the id of the second.                                   *)
MCSizes == {[id |-> 1, nonce |-> 1], [id |-> 1, nonce |-> 2]}
============================================================================

----------------------------- MODULE MCWatchdog -----------------------------
(* Instances of Watchdog: mqtt, whose link the tick looks at, beside ota.  *)
EXTENDS Watchdog

Served == 0
MCTimeout  == [s \in 0..1 |-> 1]
MqttLinked == {Served}
Nothing    == {}
MqttRecovers  == [s \in 0..1 |-> IF s = Served THEN BOOLEAN ELSE {FALSE}]

(* Where the MQTT task may run besides in the loop: anywhere in the tick    *)
(* until a subsystem is found overdue.                                     *)
BeforeBlame == {"mark", "link", "check"}
============================================================================

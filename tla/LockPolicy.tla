----------------------------- MODULE LockPolicy -----------------------------
(***************************************************************************)
(* The cabinet lock's state machine as one table: which event takes it     *)
(* from which state to which, each transition atomic.  LockState, where    *)
(* the same transitions are several statements of two tasks, implements it *)
(* when the statements of one transition are not interleaved.              *)
(***************************************************************************)
VARIABLES state, trigger, reed, latch, mortise

vars == <<state, trigger, reed, latch, mortise>>

Secure == reed /\ latch
Settled == IF Secure THEN "SECURE" ELSE "ALARM"

Init ==
    /\ state = "INITIALIZING" /\ trigger = "NONE"
    /\ reed = FALSE /\ latch = FALSE /\ mortise = FALSE

Rule(from, when, to, why) == [from |-> from, when |-> when, to |-> to, why |-> why]

(* What lock_state_tick does with the sensors.                             *)
TickRules ==
    LET released == {"UNLOCKED", "ACCESSING"}
    IN  { Rule({"SECURE"}, ~reed,              "ALARM",    "ALARM_TIMEOUT"),
          Rule({"SECURE"}, reed /\ ~latch,     "UNLOCKED", "SIGNED_COMMAND"),
          Rule(released,   Secure,             "SECURE",   "DOOR_CLOSE"),
          Rule(released,   ~Secure /\ mortise, "ALARM",    "MORTISE"),
          Rule({"ALARM"},  Secure,             "SECURE",   "ALARM_TIMEOUT") }

(* What the operator's commands do.                                        *)
CommandRules ==
    LET any == {"INITIALIZING", "SECURE", "UNLOCKED", "ACCESSING", "ALARM",
                "COMMISSIONING"}
        all == any \cup {"LOCKOUT"}
    IN  { Rule(any, TRUE, "UNLOCKED",      "SIGNED_COMMAND"),
          Rule(all, TRUE, "UNLOCKED",      "EMERGENCY_UNLOCK"),
          Rule(all, TRUE, "LOCKOUT",       "LOCKOUT"),
          Rule(all, TRUE, Settled,         "CLEAR_LOCKOUT"),
          Rule(any, TRUE, "COMMISSIONING", "COMMISSION"),
          Rule(any, TRUE, Settled,         "INIT_ACK") }

Apply(rule) ==
    /\ state \in rule.from
    /\ rule.when
    /\ state' = rule.to
    /\ trigger' = rule.why
    /\ UNCHANGED <<reed, latch, mortise>>

Sense ==
    /\ reed' \in BOOLEAN /\ latch' \in BOOLEAN /\ mortise' \in BOOLEAN
    /\ UNCHANGED <<state, trigger>>

Restart ==
    /\ state' = "INITIALIZING" /\ trigger' = "NONE"
    /\ reed' = FALSE /\ latch' = FALSE /\ mortise' = FALSE

Next ==
    \/ \E rule \in TickRules \cup CommandRules : Apply(rule)
    \/ Sense
    \/ Restart

Spec == Init /\ [][Next]_vars
============================================================================

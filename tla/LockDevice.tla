----------------------------- MODULE LockDevice -----------------------------
(***************************************************************************)
(* The sensors of both locks, between the pins and the debounced values    *)
(* that LockState takes for granted (lock_state.c, lock_gpio_read), and    *)
(* the whole lock of the Arduino build, which one loop runs                *)
(* (lock/lock_device.cpp).                                                 *)
(*                                                                         *)
(* Time is in units of the model's clock; ticks are 1..TickStall apart.    *)
(***************************************************************************)
EXTENDS DeviceParameters

VARIABLES
    build,  \* "arduino" or "c6"
    sense,  \* per sensor: what the debouncing knows
    lock,   \* g_state of the Arduino lock
    cause,  \* g_lastTrigger
    pulse,  \* age of the solenoid's pulse, Never if there is none
    beat    \* history: a tick is a step even if it changes nothing else

vars == <<build, sense, lock, cause, pulse, beat>>

Sensors == {"reed", "latch", "mortise"} \* the IR beam is only reported
Never   == -1

(* value: the debounced one; known: g_*_init, of the C6; since: the time   *)
(* since g_*DebounceStart (Never if it is 0) or g_*_debounce_time;         *)
(* differ: history, the ticks in a row at which the pin was another.       *)
TypeOK ==
    /\ build \in {"arduino", "c6"}
    /\ sense \in [Sensors -> [value : BOOLEAN, known : BOOLEAN,
                              since : {Never} \cup 0..Debounce, differ : 0..Debounce]]
    /\ lock \in {"INITIALIZING", "SECURE", "UNLOCKED", "ALARM"}
    /\ cause \in {"NONE", "SIGNED_COMMAND", "DOOR_CLOSE", "MORTISE", "ALARM_TIMEOUT"}
    /\ pulse \in {Never} \cup 0..SolenoidPulse
    /\ beat \in BOOLEAN

Unread == [value |-> FALSE, known |-> build = "arduino", since |-> Never, differ |-> 0]

Init ==
    /\ build \in {"arduino", "c6"}
    /\ sense = [s \in Sensors |-> Unread]
    /\ lock = "INITIALIZING" /\ cause = "NONE" /\ pulse = Never /\ beat = FALSE

----------------------------------------------------------------------------
(* Operators marked "fault" are plausible slips of the definition after    *)
(* them; only the mutation runs use them.                                  *)

Agreed(s, since) == [s EXCEPT !.since = since, !.differ = 0, !.known = TRUE]
Adopted(s, pin, since) == [Agreed(s, since) EXCEPT !.value = pin]
Doubted(s, since) == [s EXCEPT !.since = since, !.differ = @ + 1]

(* The Arduino build starts its clock at the first pin that differs.       *)
FromDifference(s, pin, d) ==
    IF pin = s.value THEN Agreed(s, Never)
    ELSE IF s.since = Never THEN Doubted(s, 0)
    ELSE IF s.since + d >= Debounce THEN Adopted(s, pin, Never)
    ELSE Doubted(s, s.since + d)

(* The C6 starts it at the last pin that agreed, and takes the first pin   *)
(* for granted.                                                            *)
AgreesLate(s, d) == \* fault: the clock is not restarted
    Agreed(s, IF s.since + d < Debounce THEN s.since + d ELSE Debounce)
Agrees(s, d) == Agreed(s, 0)

FromAgreement(s, pin, d) ==
    IF ~s.known THEN Adopted(s, pin, 0)
    ELSE IF pin = s.value THEN Agrees(s, d)
    ELSE IF s.since + d >= Debounce THEN Adopted(s, pin, 0)
    ELSE Doubted(s, s.since + d)

Read(s, pin, d) == IF build = "c6" THEN FromAgreement(s, pin, d) ELSE FromDifference(s, pin, d)

(* The state machine of tick, on the values just debounced.                *)
ClearedByLatch(latch, reed, mortise) == reed /\ ~latch \* fault: the latch inverted
Cleared(latch, reed, mortise) == ~mortise /\ latch /\ reed

Machine(latch, reed, mortise) ==
    \/ /\ lock = "SECURE" /\ ~(reed /\ latch)
       /\ IF pulse # Never \/ ~latch THEN lock' = "UNLOCKED" /\ cause' = "SIGNED_COMMAND"
                                     ELSE lock' = "ALARM" /\ cause' = "ALARM_TIMEOUT"
    \/ lock = "UNLOCKED" /\ latch /\ lock' = "SECURE" /\ cause' = "DOOR_CLOSE"
    \/ lock = "UNLOCKED" /\ ~latch /\ mortise /\ lock' = "ALARM" /\ cause' = "MORTISE"
    \/ lock = "ALARM" /\ Cleared(latch, reed, mortise) /\ lock' = "SECURE" /\ cause' = "DOOR_CLOSE"
    \/ /\ \/ lock = "INITIALIZING"
          \/ lock = "SECURE" /\ reed /\ latch
          \/ lock = "UNLOCKED" /\ ~latch /\ ~mortise
          \/ lock = "ALARM" /\ ~Cleared(latch, reed, mortise)
       /\ UNCHANGED <<lock, cause>>

(* One tick, d after the one before it, and the end of a pulse.            *)
Tick ==
    \E pins \in [Sensors -> BOOLEAN], d \in 1..TickStall :
        /\ sense' = [s \in Sensors |-> Read(sense[s], pins[s], d)]
        /\ IF build = "c6" THEN UNCHANGED <<lock, cause, pulse>>
           ELSE /\ Machine(sense'.latch.value, sense'.reed.value, sense'.mortise.value)
                /\ pulse' = IF pulse = Never \/ pulse + d >= SolenoidPulse
                            THEN Never ELSE pulse + d
        /\ beat' = ~beat
        /\ UNCHANGED build

(* handleUnlockCommand with a token that is valid.                         *)
Unlock ==
    /\ build = "arduino"
    /\ pulse' = 0 /\ lock' = "UNLOCKED" /\ cause' = "SIGNED_COMMAND"
    /\ UNCHANGED <<build, sense, beat>>

Restart ==
    /\ sense' = [s \in Sensors |-> Unread]
    /\ lock' = "INITIALIZING" /\ cause' = "NONE" /\ pulse' = Never
    /\ UNCHANGED <<build, beat>>

Next == Tick \/ Unlock \/ Restart

Spec == Init /\ [][Next]_vars /\ WF_vars(Tick)

----------------------------------------------------------------------------
(* How often a pin was another, in a row, when its value is adopted.       *)
Samples(s) == IF build = "c6" THEN sense[s].differ + 1 ELSE sense[s].differ
Adopts(s)  == sense[s].known /\ sense'[s].value # sense[s].value

(* lock_state.c:145, lock_device.cpp:258: a value is adopted only when the *)
(* pin was another at every tick for the debounce time, as far as ticks    *)
(* that are up to TickStall apart can tell: with long stalls one suffices. *)
Steady ==
    [][Restart \/ \A s \in Sensors : Adopts(s) => Samples(s) * TickStall >= Debounce]_vars

(* What a pin was at the last tick.                                        *)
Pin(s) == IF sense[s].differ > 0 THEN ~sense[s].value ELSE sense[s].value
Shut   == Pin("reed") /\ Pin("latch") /\ ~Pin("mortise")

(* lock_device.cpp:300: a cabinet that stays shut gets back to SECURE from *)
(* UNLOCKED and from ALARM, unlock commands or not; nothing but an unlock  *)
(* leaves INITIALIZING.                                                    *)
Relatches == <>[]Shut => []<>(lock \in {"SECURE", "INITIALIZING"})

=============================================================================

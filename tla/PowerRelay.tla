----------------------------- MODULE PowerRelay -----------------------------
(***************************************************************************)
(* The latching relays of the Arduino power build                          *)
(* (src/capabilities/power_relay/power_relay.cpp).  A contact stays where  *)
(* the last pulse left it, with the device off too, and cannot be read     *)
(* back: what the device reports is g_states, restored at boot from a mask *)
(* that each command stores for all channels at once.                      *)
(***************************************************************************)
EXTENDS DeviceParameters

VARIABLES
    contacts, \* where the contacts are
    states,   \* g_states
    mask,     \* the channels that are on in NVS
    coil,     \* the next statement of setChannel; "idle" is outside
    target,   \* its channel and position
    sureRam,  \* history: the channels of which g_states is right
    sureNvs   \* history: the channels of which the mask is right

vars == <<contacts, states, mask, coil, target, sureRam, sureNvs>>

TypeOK ==
    /\ contacts \in [Channels -> BOOLEAN]
    /\ states \in [Channels -> BOOLEAN]
    /\ mask \subseteq Channels
    /\ coil \in {"idle", "pulse", "flag", "store"}
    /\ target \in [channel : Channels, on : BOOLEAN]
    /\ sureRam \subseteq Channels /\ sureNvs \subseteq Channels

(* A new device: nobody knows where its contacts are.                      *)
Init ==
    /\ contacts \in [Channels -> BOOLEAN]
    /\ states = [c \in Channels |-> FALSE]
    /\ mask = {}
    /\ coil = "idle"
    /\ target = [channel |-> CHOOSE c \in Channels : TRUE, on |-> FALSE]
    /\ sureRam = {} /\ sureNvs = {}

----------------------------------------------------------------------------
(* Operators marked "fault" are plausible slips of the definition after    *)
(* them; only the mutation runs use them.                                  *)

(* setFromCommand: on, off or toggle, of a channel there is.               *)
Command ==
    /\ coil = "idle"
    /\ target' \in [channel : Channels, on : BOOLEAN]
    /\ coil' = "pulse"
    /\ sureRam' = sureRam \ {target'.channel}
    /\ sureNvs' = sureNvs \ {target'.channel}
    /\ UNCHANGED <<contacts, states, mask>>

(* pulse: the contacts move within the time the coil is driven.            *)
Pulse ==
    /\ coil = "pulse"
    /\ contacts' = [contacts EXCEPT ![target.channel] = target.on]
    /\ coil' = "flag"
    /\ UNCHANGED <<states, mask, target, sureRam, sureNvs>>

Flag ==
    /\ coil = "flag"
    /\ states' = [states EXCEPT ![target.channel] = target.on]
    /\ sureRam' = sureRam \cup {target.channel}
    /\ coil' = "store"
    /\ UNCHANGED <<contacts, mask, target, sureNvs>>

(* writeNvs: the mask is that of all channels.                             *)
MaskOfOne == {c \in {target.channel} : states[c]} \* fault: the other bits are lost
Mask == {c \in Channels : states[c]}

Store ==
    /\ coil = "store"
    /\ mask' = Mask
    /\ sureNvs' = sureRam
    /\ coil' = "idle"
    /\ UNCHANGED <<contacts, states, target, sureRam>>

(* NVS does not open: the command is acknowledged as done all the same.    *)
StoreFails ==
    /\ coil = "store"
    /\ coil' = "idle"
    /\ UNCHANGED <<contacts, states, mask, target, sureRam, sureNvs>>

(* A reset at any moment, then setupFn: no contact is moved; g_states is   *)
(* what NVS has, or off throughout when it cannot be read.                 *)
Boot ==
    /\ coil' = "idle"
    /\ \/ /\ states' = [c \in Channels |-> c \in mask]
          /\ sureRam' = sureNvs
       \/ /\ states' = [c \in Channels |-> FALSE]
          /\ sureRam' = {}
    /\ UNCHANGED <<contacts, mask, target, sureNvs>>

Next == Command \/ Pulse \/ Flag \/ Store \/ StoreFails \/ Boot
Spec == Init /\ [][Next]_vars

----------------------------------------------------------------------------
(* What the device reports, and what it will report after a reset, is where*)
(* the contacts are: of every channel commanded since the device was new,  *)
(* unless a reset came between its pulse and its store, the store failed,  *)
(* or a boot could not read the mask that a later command overwrote.       *)
RelayRemembered ==
    /\ \A c \in sureRam : states[c] = contacts[c]
    /\ \A c \in sureNvs : (c \in mask) = contacts[c]

=============================================================================

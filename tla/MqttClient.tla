----------------------------- MODULE MqttClient -----------------------------
(***************************************************************************)
(* The MQTT client: its session with the broker and its queue of what was  *)
(* not accepted.  All they share is the connection, which comes and goes   *)
(* as it likes in either: so each, with whatever the other does, is a      *)
(* behaviour in which it alone moves, and `focus` says which.              *)
(***************************************************************************)
EXTENDS Outbox

VARIABLES focus, build, assigned, at, topic, handler, client, callback, session,
          subs, state, inbox, heard, early

link    == <<build, assigned, at, topic, handler, client, callback, session, subs,
             state, inbox, heard, early>>
allVars == <<focus, vars, link>>

S == INSTANCE Session

ClientInit ==
    /\ focus \in {"outbox", "session"}
    /\ Init /\ S!Init
    /\ focus = "outbox" => build = "c6" /\ assigned = S!Topics

Queueing(step) == focus = "outbox" /\ step /\ UNCHANGED <<focus, link>>

Outbound == focus = "outbox" /\ Next /\ UNCHANGED <<focus, link>>
Inbound  == focus = "session" /\ S!Next /\ UNCHANGED <<focus, vars>>

ClientNext == Outbound \/ Inbound

(* Outbox's fairness, and one conjunct for the session: setup, the client, *)
(* its callbacks and the loop go on.                                       *)
ClientFairness ==
    /\ \A t \in Tasks :
        /\ WF_allVars(Queueing(Work(t)))
        /\ SF_allVars(Queueing(TryAccepted(t)))
    /\ SF_allVars(Queueing(Tick("main")))
    /\ \A i \in Slots : WF_allVars(Queueing(BackoffEnds(i)))
    /\ WF_allVars(focus = "session" /\ S!Statement /\ UNCHANGED <<focus, vars>>)

ClientSpec == ClientInit /\ [][ClientNext]_allVars /\ ClientFairness

----------------------------------------------------------------------------
(* Both components' type invariants.                                       *)
ClientTypeOK == TypeOK /\ S!TypeOK

(* The retained state is the truth, no subscription is missing after setup *)
(* and every session hears of the retained dispatch: each is stated and    *)
(* explained in Session.                                                   *)
SessionHonest == S!Present /\ S!Listening /\ S!Informed

(* When links stop breaking and nothing restarts, the device is connected  *)
(* for good, listens to all its topics and is known to be online, unless   *)
(* it was retired.                                                         *)
Online ==
    <>[][~S!Fault]_link => <>[](focus = "session" => S!Serving)
=============================================================================

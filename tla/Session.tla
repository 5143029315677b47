------------------------------ MODULE Session -------------------------------
(***************************************************************************)
(* The MQTT session of both builds: the connection, the retained state and *)
(* Last Will, the topics and their handlers, the subscriptions, and the    *)
(* retained firmware dispatch.                                             *)
(*                                                                         *)
(* The C6 (esp32c6-lock/main/mqtt_handler.c) has two tasks: setup() stores *)
(* topics and subscribes to them while the esp-mqtt task connects and, on  *)
(* MQTT_EVENT_CONNECTED, subscribes to whatever is stored.  A call of main *)
(* that needs the client waits for that handler.  The Arduino build        *)
(* (src/mqtt/mqtt_client.cpp) does the same in one loop.                   *)
(*                                                                         *)
(* The broker is external: clean sessions, the will published when a       *)
(* connection ends without DISCONNECT or another takes it over.  A broker  *)
(* that forgets its retained messages is not modelled.                     *)
(***************************************************************************)
EXTENDS Naturals, Sequences

Topics == {"command", "config", "firmware"}

VARIABLES
    build,      \* "c6" or "arduino"
    assigned,   \* the topics setup() listens to: firmware if OMS named one
    at,         \* the next statement of setup(); 0: not enrolled
    topic,      \* s_command_topic etc.: those set
    handler,    \* s_command_handler etc.: those set
    client,     \* "none"; "down"; "up": s_mqtt_connected, client->connected()
    callback,   \* what is left of the CONNECTED handler, of connect()
    session,    \* the broker's: "none", "open", "dangling": without its device
    subs,       \* the topics of that session
    state,      \* retained on forgekey/<mac>/state
    inbox,      \* the retained dispatch is on its way
    heard,      \* it reached its handler, in this session
    early       \* it came before its handler was set, in this session

setup  == <<build, assigned, at, topic, handler>>
broker == <<session, subs, state>>
vars   == <<setup, client, callback, broker, inbox, heard, early>>

Call(op, t) == [op |-> op, on |-> t]

(* setup() from mqtt begin to the last subscription.  Handling a topic     *)
(* subscribes to it in the Arduino build; in the C6 build storing it does, *)
(* in a statement of its own.                                              *)
Setup ==
    IF build = "arduino"
    THEN <<Call("begin", "command"), Call("connect", "command"),
           Call("store", "firmware"), Call("handle", "firmware"),
           Call("store", "config"), Call("handle", "config"),
           Call("store", "command"), Call("handle", "command")>>
    ELSE <<Call("begin", "command"),
           Call("handle", "command"), Call("handle", "config"),
           Call("store", "command"), Call("join", "command"),
           Call("store", "config"), Call("join", "config"),
           Call("store", "firmware"), Call("join", "firmware"),
           Call("handle", "firmware")>>

(* What follows a connection: MQTT_EVENT_CONNECTED; connect(), with        *)
(* resubscribeAll.                                                         *)
Connected ==
    IF build = "c6"
    THEN <<Call("join", "command"), Call("join", "config"), Call("join", "firmware"),
           Call("birth", "command")>>
    ELSE <<Call("birth", "command"),
           Call("join", "firmware"), Call("join", "config"), Call("join", "command")>>

InLoop  == at > Len(Setup)
Reaches == client = "up" /\ session = "open"
Idle    == callback = <<>>

(* Every variable has its type.                                            *)
TypeOK ==
    /\ build \in {"c6", "arduino"}
    /\ assigned \in {Topics, Topics \ {"firmware"}}
    /\ at \in 0..(Len(Setup) + 1)
    /\ topic \subseteq assigned /\ handler \subseteq assigned
    /\ client \in {"none", "down", "up"}
    /\ callback \in {SubSeq(Connected, i, 4) : i \in 1..5} \cup {<<Call("leave", "command")>>}
    /\ session \in {"none", "open", "dangling"}
    /\ subs \subseteq assigned
    /\ state \in {"none", "online", "offline", "lost", "final"}
    /\ inbox \in BOOLEAN /\ heard \in BOOLEAN /\ early \in BOOLEAN

Init ==
    /\ build \in {"c6", "arduino"}
    /\ assigned \in {Topics, Topics \ {"firmware"}}
    /\ at = 1
    /\ topic = {} /\ handler = {}
    /\ client = "none" /\ callback = <<>>
    /\ session = "none" /\ subs = {} /\ state = "none"
    /\ inbox = FALSE /\ heard = FALSE /\ early = FALSE

----------------------------------------------------------------------------
(* Operators marked "fault" are plausible slips of the definition after    *)
(* them; only the mutation runs use them.                                  *)

(* SUBSCRIBE, if the packet gets there: the broker answers with the        *)
(* retained dispatch.                                                      *)
Subscribe(t) ==
    /\ subs' = IF Reaches THEN subs \cup {t} ELSE subs
    /\ inbox' = (inbox \/ (Reaches /\ t = "firmware"))

Silent == UNCHANGED <<subs, inbox>>

(* CONNECT: a session that still dangles is taken over, which publishes    *)
(* its will, and the new one starts without subscriptions.                 *)
Open ==
    /\ session' = "open"
    /\ subs' = {}
    /\ state' = IF session = "dangling" THEN "lost" ELSE state
    /\ client' = "up"
    /\ callback' = Connected
    /\ inbox' = FALSE /\ heard' = FALSE /\ early' = FALSE

(* The device's end is gone; the broker learns of it in Expire.            *)
Abandoned == IF session = "open" THEN "dangling" ELSE session

----------------------------------------------------------------------------
(* setup(), in the main task.  In the Arduino build nothing else runs      *)
(* meanwhile.                                                              *)
Here == Setup[at].on

Advance ==
    /\ at \in 1..Len(Setup)
    /\ build = "arduino" => Idle
    /\ at' = at + 1
    /\ UNCHANGED <<build, assigned>>

At(op) == Advance /\ Setup[at].op = op /\ Here \in assigned

(* if (creds.mqtt_firmware_topic[0]): OMS named none.                      *)
Unnamed ==
    /\ Advance
    /\ Here \notin assigned
    /\ UNCHANGED <<topic, handler, client, callback, broker, inbox, heard, early>>

(* setTopicPrefix and begin: on the C6 the prefix sets the command topic.  *)
Begin ==
    /\ At("begin")
    /\ client' = "down"
    /\ topic' = IF build = "c6" THEN {"command"} ELSE {}
    /\ UNCHANGED <<handler, callback, broker, inbox, heard, early>>

(* The Arduino begin() ends with connect(), which may fail.                *)
FirstConnect ==
    /\ At("connect")
    /\ \/ Open
       \/ UNCHANGED <<client, callback, broker, inbox, heard, early>>
    /\ UNCHANGED <<topic, handler>>

(* set_X_topic, up to its test of the connection; the Arduino setXTopic,   *)
(* which subscribes, to config and command only if they have a handler.    *)
Store ==
    /\ At("store")
    /\ topic' = topic \cup {Here}
    /\ IF build = "arduino" /\ client = "up" /\ Here \in handler \cup {"firmware"}
       THEN Subscribe(Here)
       ELSE Silent
    /\ UNCHANGED <<handler, client, callback, session, state, heard, early>>

(* The rest of set_X_topic: s_mqtt_connected is tested, and the call waits *)
(* while the CONNECTED handler has the client.                             *)
JoinLeft == \* fault: left to the CONNECTED handler, which may have passed
    /\ At("join")
    /\ Silent
    /\ UNCHANGED <<topic, handler, client, callback, session, state, heard, early>>
Join ==
    /\ At("join")
    /\ client = "up" => Idle
    /\ IF client = "up" THEN Subscribe(Here) ELSE Silent
    /\ UNCHANGED <<topic, handler, client, callback, session, state, heard, early>>

(* set_X_handler; subscribeX.                                              *)
Handle ==
    /\ At("handle")
    /\ handler' = handler \cup {Here}
    /\ IF build = "arduino" /\ client = "up" THEN Subscribe(Here) ELSE Silent
    /\ UNCHANGED <<topic, client, callback, session, state, heard, early>>

Main == Unnamed \/ Begin \/ FirstConnect \/ Store \/ Join \/ Handle

----------------------------------------------------------------------------
(* The client: esp-mqtt reconnects by itself, MqttClient::loop with a      *)
(* backoff.  An attempt that fails changes nothing.                        *)
Connect ==
    /\ client = "down" /\ Idle
    /\ build = "arduino" => InLoop
    /\ Open
    /\ UNCHANGED setup

(* The client finds its connection dead: MQTT_EVENT_DISCONNECTED.          *)
Notice ==
    /\ client = "up" /\ session # "open" /\ Idle
    /\ client' = "down"
    /\ inbox' = FALSE
    /\ UNCHANGED <<setup, callback, broker, heard, early>>

(* The next statement of the CONNECTED handler, of connect().              *)
Step(op) ==
    /\ ~Idle /\ Head(callback).op = op
    /\ callback' = Tail(callback)

Birth ==
    /\ Step("birth")
    /\ state' = IF Reaches THEN "online" ELSE state
    /\ UNCHANGED <<setup, client, session, subs, inbox, heard, early>>

Rejoin ==
    /\ Step("join")
    /\ LET t == Head(callback).on
       IN  IF t \in topic /\ (build = "arduino" => t \in handler)
           THEN Subscribe(t) ELSE Silent
    /\ UNCHANGED <<setup, client, session, state, heard, early>>

(* MQTT_EVENT_DATA; staticCallback, which only the loop gets to: the       *)
(* message goes to its topic's handler, or nowhere.                        *)
Dispatch ==
    /\ inbox /\ client = "up" /\ Idle
    /\ build = "arduino" => InLoop
    /\ inbox' = FALSE
    /\ LET known == "firmware" \in topic \cap handler
       IN  heard' = (heard \/ known) /\ early' = (early \/ ~known)
    /\ UNCHANGED <<setup, client, callback, broker>>

(* refreshFirmwareSubscription, of a rapid check for updates.              *)
Refresh ==
    /\ build = "arduino" /\ InLoop /\ Idle
    /\ client = "up" /\ "firmware" \in topic
    /\ Subscribe("firmware")
    /\ heard' = FALSE
    /\ UNCHANGED <<setup, client, callback, session, state, early>>

----------------------------------------------------------------------------
(* restart(), the watchdog's recovery of MQTT: end() says goodbye if it    *)
(* can, begin() makes a client that connects as Connect does.              *)
RestartMute == \* fault: disconnects without the offline state
    /\ InLoop /\ Idle
    /\ client' = "down" /\ inbox' = FALSE
    /\ session' = IF Reaches THEN "none" ELSE session
    /\ subs' = IF Reaches THEN {} ELSE subs
    /\ UNCHANGED <<setup, callback, state, heard, early>>
Restart ==
    /\ InLoop /\ Idle
    /\ client' = "down" /\ inbox' = FALSE
    /\ IF Reaches
       THEN session' = "none" /\ subs' = {} /\ state' = "offline"
       ELSE UNCHANGED broker
    /\ UNCHANGED <<setup, callback, heard, early>>

(* A signed retire, factory_reset or reprovision: the final state is       *)
(* published, the identity erased and the device reset (Leave).            *)
Retire ==
    /\ client = "up" /\ Idle
    /\ "command" \in topic \cap handler
    /\ build = "arduino" => InLoop
    /\ state' = IF Reaches THEN "final" ELSE state
    /\ callback' = <<Call("leave", "command")>>
    /\ UNCHANGED <<setup, client, session, subs, inbox, heard, early>>

Reset ==
    /\ topic' = {} /\ handler' = {}
    /\ client' = "none" /\ callback' = <<>>
    /\ session' = Abandoned
    /\ inbox' = FALSE /\ heard' = FALSE /\ early' = FALSE
    /\ UNCHANGED <<build, assigned, subs, state>>

Leave  == Step("leave") /\ at' = 0 /\ Reset
Reboot == at # 0 /\ at' = 1 /\ Reset

Enrol ==
    /\ at = 0
    /\ at' = 1
    /\ UNCHANGED <<build, assigned, topic, handler, client, callback, broker,
                   inbox, heard, early>>

(* The link breaks.                                                        *)
Cut ==
    /\ session = "open"
    /\ session' = "dangling"
    /\ UNCHANGED <<setup, client, callback, subs, state, inbox, heard, early>>

(* The broker gives up a connection: nothing came for 1.5 times the keep-  *)
(* alive, or it ends a live one (an error, another client of this name).   *)
End(was) ==
    /\ session = was
    /\ session' = "none" /\ subs' = {} /\ state' = "lost"
    /\ UNCHANGED <<setup, client, callback, inbox, heard, early>>
Expire  == End("dangling")
Dropped == End("open")

Fault == Cut \/ Dropped \/ Reboot \/ Restart \/ Retire

Statement ==
    \/ Main \/ Connect \/ Notice \/ Birth \/ Rejoin \/ Dispatch \/ Leave

Next == Statement \/ Refresh \/ Fault \/ Expire \/ Enrol

----------------------------------------------------------------------------
(* The retained state is the truth (DEVICE_COMMANDS.md: subscribers see    *)
(* the latest online/offline state): "online" only while the broker has a  *)
(* connection whose will can correct it, whatever takes over, expires or   *)
(* restarts, and "online" whenever the device is connected and done with   *)
(* what follows a connection.                                              *)
Present ==
    /\ state = "online" => session # "none"
    /\ Reaches /\ Idle => state = "online"

(* After setup() no topic is missing, although it is stored and joined     *)
(* while the other task connects, loses the connection and joins what it   *)
(* finds stored.                                                           *)
Listening == InLoop /\ Reaches /\ Idle => assigned \subseteq subs

(* The retained dispatch is handled in every session; the C6 may get it    *)
(* between set_firmware_topic and set_firmware_handler, and drops it.      *)
Informed ==
    InLoop /\ Reaches /\ Idle /\ "firmware" \in assigned =>
        inbox \/ heard \/ (build = "c6" /\ early)

(* Where a device comes to rest: connected, subscribed to its topics and   *)
(* known to be online, or not enrolled.                                    *)
Serving == at = 0 \/ (InLoop /\ Reaches /\ state = "online" /\ assigned \subseteq subs)
=============================================================================

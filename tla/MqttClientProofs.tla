--------------------------- MODULE MqttClientProofs ---------------------------
(***************************************************************************)
(* What the MQTT client promises for any number of messages and any size   *)
(* of the queue: its session is what it seems, and its queue loses and     *)
(* repeats nothing but what it must.                                       *)
(***************************************************************************)
EXTENDS MqttClient, TLAPS, SequenceTheorems, FiniteSetTheorems, WellFoundedInduction

(* The session.                                                            *)
Calls == [op : {"begin", "connect", "store", "handle", "join", "birth", "leave"},
          on : S!Topics]

(* Statements of setup() that were executed, or skipped; those of the      *)
(* CONNECTED handler that are left; a device on its way out.               *)
Past(op, t) == \E n \in DOMAIN S!Setup : n < at /\ S!Setup[n] = S!Call(op, t)
Left(op, t) == \E n \in DOMAIN callback : callback[n] = S!Call(op, t)
Leaving     == Left("leave", "command")

(* The statement of setup() that subscribes to a topic if there is a       *)
(* connection.                                                             *)
Joining == IF build = "c6" THEN "join" ELSE "handle"

(* What setup() has got to is set.                                         *)
SetSoFar ==
    \A t \in assigned : /\ Past("store", t) => t \in topic
                        /\ Past("handle", t) => t \in handler

(* In a session every topic that setup() is done with is subscribed to, or *)
(* the CONNECTED handler will do it: it finds the topic set.               *)
Joined ==
    S!Reaches => \A t \in assigned :
        Past(Joining, t) => t \in subs \/ Left("join", t) \/ Leaving

(* The retained state is true of the session, or about to be.              *)
Born ==
    /\ state = "online" => session # "none"
    /\ S!Reaches => state = "online" \/ Left("birth", "command") \/ Leaving

(* Whoever subscribed to the firmware topic hears of the dispatch.         *)
Awaited ==
    S!Reaches /\ "firmware" \in subs =>
        inbox \/ heard \/ (build = "c6" /\ early)

SessionInv == S!TypeOK /\ SetSoFar /\ Joined /\ Born /\ Awaited

----------------------------------------------------------------------------
(* What the statements of setup() are, and their order.                    *)
LEMMA SetupFacts ==
    ASSUME build \in {"c6", "arduino"}
    PROVE  /\ Len(S!Setup) \in {8, 10} /\ DOMAIN S!Setup = 1..Len(S!Setup)
           /\ \A n \in DOMAIN S!Setup : S!Setup[n] \in Calls
           /\ \A n \in DOMAIN S!Setup : S!Setup[n].op = "begin" => n = 1
<1>1. CASE build = "c6"
  BY <1>1 DEF S!Setup, S!Call, Calls, S!Topics
<1>2. CASE build = "arduino"
  BY <1>2 DEF S!Setup, S!Call, Calls, S!Topics
<1> QED
  BY <1>1, <1>2

LEMMA SetupOrder ==
    ASSUME build \in {"c6", "arduino"}, at \in Nat, NEW t \in S!Topics
    PROVE  /\ Past(Joining, t) => Past("store", t)
           /\ build = "arduino" /\ Past(Joining, t) => Past("handle", t)
           /\ S!InLoop => Past("store", t) /\ Past("handle", t) /\ Past(Joining, t)
<1>1. CASE build = "c6"
  <2>1. Len(S!Setup) = 10 /\ DOMAIN S!Setup = 1..10
    BY <1>1 DEF S!Setup, S!Call
  <2>2. \E i, j, k \in 1..10 : /\ i < j
                               /\ S!Setup[i] = S!Call("store", t)
                               /\ S!Setup[j] = S!Call("join", t)
                               /\ S!Setup[k] = S!Call("handle", t)
                               /\ \A n \in 1..10 : S!Setup[n] = S!Call("join", t) => n = j
    <3>1. CASE t = "command"
      BY <1>1, <3>1 DEF S!Setup, S!Call
    <3>2. CASE t = "config"
      BY <1>1, <3>2 DEF S!Setup, S!Call
    <3>3. CASE t = "firmware"
      BY <1>1, <3>3 DEF S!Setup, S!Call
    <3> QED
      BY <3>1, <3>2, <3>3 DEF S!Topics
  <2> QED
    BY <1>1, <2>1, <2>2 DEF Past, Joining, S!InLoop
<1>2. CASE build = "arduino"
  <2>1. Len(S!Setup) = 8 /\ DOMAIN S!Setup = 1..8
    BY <1>2 DEF S!Setup, S!Call
  <2>2. \E i, j \in 1..8 : /\ i < j
                           /\ S!Setup[i] = S!Call("store", t)
                           /\ S!Setup[j] = S!Call("handle", t)
                           /\ \A n \in 1..8 : S!Setup[n] = S!Call("handle", t) => n = j
    <3>1. CASE t = "command"
      BY <1>2, <3>1 DEF S!Setup, S!Call
    <3>2. CASE t = "config"
      BY <1>2, <3>2 DEF S!Setup, S!Call
    <3>3. CASE t = "firmware"
      BY <1>2, <3>3 DEF S!Setup, S!Call
    <3> QED
      BY <3>1, <3>2, <3>3 DEF S!Topics
  <2> QED
    BY <1>2, <2>1, <2>2 DEF Past, Joining, S!InLoop
<1> QED
  BY <1>1, <1>2

(* What the callbacks are, statement by statement.                         *)
Callbacks == {SubSeq(S!Connected, i, 4) : i \in 1..5} \cup {<<S!Call("leave", "command")>>}

LEMMA ConnectedFacts ==
    ASSUME build \in {"c6", "arduino"}
    PROVE  /\ DOMAIN S!Connected = 1..4 /\ S!Connected \in Seq(Calls)
           /\ \A n \in 1..4 : S!Connected[n].op # "leave"
           /\ \A t \in S!Topics : \E n \in 1..4 : S!Connected[n] = S!Call("join", t)
           /\ \E n \in 1..4 : S!Connected[n] = S!Call("birth", "command")
<1>1. CASE build = "c6"
  BY <1>1 DEF S!Connected, S!Call, Calls, S!Topics
<1>2. CASE build = "arduino"
  BY <1>2 DEF S!Connected, S!Call, Calls, S!Topics
<1> QED
  BY <1>1, <1>2

LEMMA RestFacts ==
    ASSUME build \in {"c6", "arduino"}
    PROVE  /\ SubSeq(S!Connected, 5, 4) = <<>>
           /\ SubSeq(S!Connected, 1, 4) = S!Connected
           /\ \A i \in 1..4 : /\ SubSeq(S!Connected, i, 4) # <<>>
                              /\ SubSeq(S!Connected, i, 4) \in Seq(Calls)
                              /\ Head(SubSeq(S!Connected, i, 4)) = S!Connected[i]
                              /\ Tail(SubSeq(S!Connected, i, 4)) = SubSeq(S!Connected, i + 1, 4)
<1> DEFINE s == S!Connected
<1>1. s \in Seq(Calls) /\ Len(s) = 4
  BY ConnectedFacts
<1> HIDE DEF s
<1>2. SubSeq(s, 5, 4) = <<>>
  BY <1>1
<1>3. SubSeq(s, 1, 4) = s
  BY <1>1
<1>4. ASSUME NEW i \in 1..4
      PROVE  /\ SubSeq(s, i, 4) # <<>>
             /\ SubSeq(s, i, 4) \in Seq(Calls)
             /\ Head(SubSeq(s, i, 4)) = s[i]
             /\ Tail(SubSeq(s, i, 4)) = SubSeq(s, i + 1, 4)
  <2>1. i \in 1..Len(s) /\ 4 \in i..Len(s) /\ \A j \in i..4 : s[j] \in Calls
    BY <1>1, <1>4
  <2>2. SubSeq(s, i, 4) \in Seq(Calls) /\ Len(SubSeq(s, i, 4)) = 5 - i
    BY <1>4, <2>1, SubSeqProperties
  <2>3. SubSeq(s, i, 4) # <<>>
    <3>1. \A q : Len(q) # 0 => q # <<>>
      OBVIOUS
    <3>2. Len(SubSeq(s, i, 4)) # 0
      BY <1>4, <2>2
    <3> QED
      BY <3>1, <3>2, Zenon
  <2> QED
    BY <1>1, <2>1, <2>2, <2>3, HeadTailOfSubSeq
<1> QED
  BY <1>2, <1>3, <1>4 DEF s

LEMMA CallbackFacts ==
    ASSUME build \in {"c6", "arduino"}, NEW c \in Callbacks
    PROVE  /\ c \in Seq(Calls)
           /\ c # <<>> => Tail(c) \in Callbacks
           /\ c # <<>> /\ Head(c).op # "leave" => c # <<S!Call("leave", "command")>>
<1>1. c = <<S!Call("leave", "command")>> \/ \E i \in 1..5 : c = SubSeq(S!Connected, i, 4)
  BY DEF Callbacks
<1>2. CASE c = <<S!Call("leave", "command")>>
  <2>1. c \in Seq(Calls) /\ Tail(c) = <<>> /\ Head(c).op = "leave"
    BY <1>2 DEF Calls, S!Call, S!Topics
  <2> QED
    BY <2>1, ConnectedFacts, RestFacts DEF Callbacks
<1>3. ASSUME NEW i \in 1..5, c = SubSeq(S!Connected, i, 4)
      PROVE  /\ c \in Seq(Calls)
             /\ c # <<>> => Tail(c) \in Callbacks /\ Head(c).op # "leave"
  <2>1. CASE i = 5
    BY <1>3, <2>1, ConnectedFacts, RestFacts
  <2>2. CASE i \in 1..4
    <3>1. c # <<>> /\ Tail(c) = SubSeq(S!Connected, i + 1, 4) /\ i + 1 \in 1..5
      BY <1>3, <2>2, ConnectedFacts, RestFacts
    <3>2. Head(c).op # "leave"
      BY <1>3, <2>2, ConnectedFacts, RestFacts
    <3>3. c \in Seq(Calls)
      BY <1>3, <2>2, ConnectedFacts, RestFacts
    <3> QED
      BY <3>1, <3>2, <3>3 DEF Callbacks
  <2> QED
    BY <2>1, <2>2
<1> QED
  BY <1>1, <1>2, <1>3

(* A step of a callback takes its first statement.                         *)
LEMMA HeadOrTail ==
    ASSUME NEW E, NEW s \in Seq(E), s # <<>>, NEW n \in DOMAIN s
    PROVE  s[n] = Head(s) \/ \E m \in DOMAIN Tail(s) : Tail(s)[m] = s[n]
<1>1. CASE n = 1
  BY <1>1
<1>2. CASE n # 1
  <2>1. n - 1 \in DOMAIN Tail(s) /\ Tail(s)[n - 1] = s[n]
    BY <1>2
  <2> QED
    BY <2>1
<1> QED
  BY <1>1, <1>2

LEMMA PastFacts ==
    ASSUME build' = build, NEW op, NEW t
    PROVE  /\ at' = at => (Past(op, t)' <=> Past(op, t))
           /\ at' \in {0, 1} /\ build \in {"c6", "arduino"} => ~Past(op, t)'
           /\ at \in Nat /\ at' = at + 1 /\ Past(op, t)' /\ DOMAIN S!Setup \subseteq Nat =>
                  Past(op, t) \/ S!Setup[at] = S!Call(op, t)
<1>1. S!Setup' = S!Setup
  BY DEF S!Setup, S!Call
<1>2. build \in {"c6", "arduino"} => DOMAIN S!Setup = 1..Len(S!Setup) /\ Len(S!Setup) \in Nat
  BY SetupFacts
<1> QED
  BY <1>1, <1>2 DEF Past

LEMMA LeftFacts ==
    ASSUME NEW op, NEW t
    PROVE  /\ callback' = callback => (Left(op, t)' <=> Left(op, t))
           /\ callback = <<>> => ~Left(op, t)
           /\ callback \in Seq(Calls) /\ callback # <<>> /\ callback' = Tail(callback)
              /\ Left(op, t) /\ Head(callback) # S!Call(op, t) => Left(op, t)'
  BY HeadOrTail DEF Left

----------------------------------------------------------------------------
LEMMA SessionInit == S!Init => SessionInv
<1> SUFFICES ASSUME S!Init
             PROVE  SessionInv
  OBVIOUS
<1>1. /\ build \in {"c6", "arduino"} /\ at = 1 /\ callback = <<>>
      /\ assigned \in {S!Topics, S!Topics \ {"firmware"}}
  BY DEF S!Init
<1>2. callback \in {SubSeq(S!Connected, i, 4) : i \in 1..5}
  BY <1>1, RestFacts
<1>3. \A op, t : ~Past(op, t)
  BY <1>1, SetupFacts DEF Past
<1>4. at \in 0..(Len(S!Setup) + 1)
  BY <1>1, SetupFacts
<1>5. S!TypeOK
  BY <1>1, <1>2, <1>4 DEF S!Init, S!TypeOK
<1>6. SetSoFar
  BY <1>3 DEF SetSoFar
<1> QED
  BY <1>5, <1>6 DEF S!Init, SessionInv, Joined, Born, Awaited, S!Reaches

(* While the build stays, so do its statements.                            *)
LEMMA TypeFrame ==
    ASSUME build' = build
    PROVE  /\ S!Setup' = S!Setup /\ S!Connected' = S!Connected
           /\ \A i \in 1..5 : SubSeq(S!Connected, i, 4)' = SubSeq(S!Connected, i, 4)
  BY DEF S!Setup, S!Connected, S!Call

(* A new session owes the device its subscriptions and its state.          *)
LEMMA Opened ==
    ASSUME SessionInv, S!Open, UNCHANGED <<build, assigned, topic, handler>>,
           at' \in 0..(Len(S!Setup) + 1)
    PROVE  S!TypeOK' /\ Joined' /\ Born' /\ Awaited'
<1>1. build \in {"c6", "arduino"} /\ callback' = S!Connected /\ assigned \subseteq S!Topics
  BY DEF SessionInv, S!TypeOK, S!Open
<1>2. callback' \in {SubSeq(S!Connected, i, 4) : i \in 1..5}
  BY <1>1, RestFacts
<1>3. S!TypeOK'
  BY <1>2, TypeFrame DEF SessionInv, S!TypeOK, S!Open
<1>4. (\A t \in S!Topics : Left("join", t)') /\ Left("birth", "command")'
  BY <1>1, ConnectedFacts DEF Left, S!Call
<1> QED
  BY <1>1, <1>3, <1>4 DEF S!Open, Joined, Born, Awaited

(* The steps of setup().                                                   *)
LEMMA MainStep ==
    ASSUME SessionInv, S!Main
    PROVE  SessionInv'
<1> USE DEF SessionInv
<1>1. /\ at \in DOMAIN S!Setup /\ at' = at + 1 /\ at \in Nat /\ S!Here \in S!Topics
      /\ UNCHANGED <<build, assigned>> /\ build \in {"c6", "arduino"}
      /\ build = "arduino" => S!Idle
  BY SetupFacts
  DEF S!TypeOK, S!Main, S!Unnamed, S!Begin, S!FirstConnect, S!Store, S!Join, S!Handle, S!At,
      S!Advance, S!Here, Calls
<1>2. ASSUME NEW op, NEW t, Past(op, t)'
      PROVE  Past(op, t) \/ (S!Setup[at] = S!Call(op, t) /\ S!Here = t /\ S!Setup[at].op = op)
  <2>1. Past(op, t) \/ S!Setup[at] = S!Call(op, t)
    BY <1>1, <1>2, PastFacts, SetupFacts
  <2> QED
    BY <2>1 DEF S!Call, S!Here
<1>3. at' \in 0..(Len(S!Setup) + 1) /\ UNCHANGED <<build, assigned>>
  BY <1>1, SetupFacts
<1>4. CASE S!Unnamed
  <2>1. S!TypeOK'
    BY <1>3, <1>4, TypeFrame DEF S!broker, S!Unnamed, S!TypeOK
  <2>2. SetSoFar'
    BY <1>1, <1>2, <1>4 DEF S!broker, S!Unnamed, SetSoFar
  <2>3. Joined'
    BY <1>1, <1>2, <1>4, SetupOrder, LeftFacts
    DEF S!broker, S!Unnamed, Joined, Leaving, Joining, S!Reaches, S!Idle
  <2>4. Born'
    BY <1>1, <1>4, LeftFacts DEF S!broker, S!Unnamed, Born, Leaving, S!Reaches
  <2>5. Awaited'
    BY <1>1, <1>4 DEF S!broker, S!Unnamed, Awaited, S!Reaches
  <2> QED
    BY <2>1, <2>2, <2>3, <2>4, <2>5
<1>5. CASE S!Begin
  <2>1. S!TypeOK'
    BY <1>3, <1>5, TypeFrame DEF S!broker, S!Begin, S!At, S!TypeOK, S!Topics
  <2>2. SetSoFar'
    <3>1. at = 1 /\ S!Setup[at].op = "begin"
      BY <1>1, <1>5, SetupFacts DEF S!Begin, S!At
    <3>2. \A op, t : ~Past(op, t)
      BY <1>1, <3>1, SetupFacts DEF Past
    <3> QED
      BY <1>1, <1>2, <3>1, <3>2 DEF SetSoFar
  <2>3. Joined'
    BY <1>1, <1>2, <1>5, SetupOrder, LeftFacts
    DEF S!broker, S!Begin, S!At, Joined, Leaving, Joining, S!Reaches, S!Idle
  <2>4. Born'
    BY <1>1, <1>5, LeftFacts DEF S!broker, S!Begin, S!At, Born, Leaving, S!Reaches
  <2>5. Awaited'
    BY <1>1, <1>5 DEF S!broker, S!Begin, S!At, Awaited, S!Reaches
  <2> QED
    BY <2>1, <2>2, <2>3, <2>4, <2>5
<1>6. CASE S!FirstConnect
  <2>1. SetSoFar'
    BY <1>1, <1>2, <1>6 DEF S!FirstConnect, S!At, SetSoFar
  <2>2. CASE S!Open
    <3>1. UNCHANGED <<topic, handler>>
      BY <1>6 DEF S!FirstConnect
    <3> QED
      BY <1>3, <2>1, <2>2, <3>1, Opened
  <2>3. CASE UNCHANGED <<client, callback, S!broker, inbox, heard, early>>
    <3>1. S!TypeOK'
      BY <1>3, <1>6, <2>3, TypeFrame DEF S!broker, S!FirstConnect, S!TypeOK
    <3>2. Joined'
      BY <1>1, <1>2, <1>6, <2>3, LeftFacts
      DEF S!broker, S!FirstConnect, S!At, Joined, Joining, Leaving, S!Reaches
    <3>3. Born' /\ Awaited'
      BY <1>1, <2>3, LeftFacts DEF S!broker, Born, Awaited, Leaving, S!Reaches
    <3> QED
      BY <2>1, <3>1, <3>2, <3>3
  <2> QED
    BY <1>6, <2>2, <2>3 DEF S!FirstConnect
<1>7. CASE S!Store
  <2>1. S!TypeOK'
    <3>1. callback' = callback /\ callback \in Callbacks /\ Callbacks' = Callbacks
      BY <1>3, <1>7, TypeFrame DEF S!Store, S!TypeOK, Callbacks, S!Call
    <3>2. S!Here \in assigned /\ topic' \subseteq assigned
      BY <1>7 DEF S!Store, S!At, S!TypeOK
    <3>3. subs' \subseteq assigned /\ inbox' \in BOOLEAN
      BY <1>7, <3>2 DEF S!Store, S!Subscribe, S!Silent, S!TypeOK, S!Reaches
    <3>4. /\ UNCHANGED <<build, assigned, handler, client, session, state, heard, early>>
          /\ S!Setup' = S!Setup
      BY <1>3, <1>7, TypeFrame DEF S!Store
    <3> QED
      BY <1>3, <3>1, <3>2, <3>3, <3>4 DEF S!TypeOK, Callbacks, S!Topics
  <2>2. SetSoFar'
    BY <1>1, <1>2, <1>7 DEF S!Store, S!At, S!Subscribe, S!Silent, S!Here, SetSoFar
  <2>3. Joined'
    BY <1>1, <1>2, <1>7, SetupOrder, LeftFacts
    DEF S!Store, S!At, S!Subscribe, S!Silent, S!Here, Joined, Leaving, Joining,
        S!Reaches, S!Idle
  <2>4. Born'
    BY <1>1, <1>7, LeftFacts
    DEF S!Store, S!At, S!Subscribe, S!Silent, S!Here, Born, Leaving, S!Reaches
  <2>5. Awaited'
    BY <1>1, <1>7
    DEF S!Store, S!At, S!Subscribe, S!Silent, S!Here, Awaited, S!Reaches
  <2> QED
    BY <2>1, <2>2, <2>3, <2>4, <2>5
<1>8. CASE S!Join
  <2>1. S!TypeOK'
    <3>1. callback' = callback /\ callback \in Callbacks /\ Callbacks' = Callbacks
      BY <1>3, <1>8, TypeFrame DEF S!Join, S!TypeOK, Callbacks, S!Call
    <3>2. S!Here \in assigned
      BY <1>8 DEF S!Join, S!At, S!TypeOK
    <3>3. subs' \subseteq assigned /\ inbox' \in BOOLEAN
      BY <1>8, <3>2 DEF S!Join, S!Subscribe, S!Silent, S!TypeOK, S!Reaches
    <3>4. /\ UNCHANGED <<build, assigned, topic, handler>>
          /\ UNCHANGED <<client, session, state, heard, early>> /\ S!Setup' = S!Setup
      BY <1>3, <1>8, TypeFrame DEF S!Join
    <3> QED
      BY <1>3, <3>1, <3>2, <3>3, <3>4 DEF S!TypeOK, Callbacks, S!Topics
  <2>2. SetSoFar'
    BY <1>1, <1>2, <1>8 DEF S!Join, S!At, S!Subscribe, S!Silent, SetSoFar
  <2>3. Joined'
    BY <1>1, <1>2, <1>8, SetupOrder, LeftFacts
    DEF S!Join, S!At, S!Subscribe, S!Silent, Joined, Leaving, Joining, S!Reaches,
        S!Idle
  <2>4. Born'
    BY <1>1, <1>8, LeftFacts
    DEF S!Join, S!At, S!Subscribe, S!Silent, Born, Leaving, S!Reaches
  <2>5. Awaited'
    BY <1>1, <1>8 DEF S!Join, S!At, S!Subscribe, S!Silent, Awaited, S!Reaches
  <2> QED
    BY <2>1, <2>2, <2>3, <2>4, <2>5
<1>9. CASE S!Handle
  <2>1. S!TypeOK'
    <3>1. callback' = callback /\ callback \in Callbacks /\ Callbacks' = Callbacks
      BY <1>3, <1>9, TypeFrame DEF S!Handle, S!TypeOK, Callbacks, S!Call
    <3>2. S!Here \in assigned /\ handler' \subseteq assigned
      BY <1>9 DEF S!Handle, S!At, S!TypeOK
    <3>3. subs' \subseteq assigned /\ inbox' \in BOOLEAN
      BY <1>9, <3>2 DEF S!Handle, S!Subscribe, S!Silent, S!TypeOK, S!Reaches
    <3>4. /\ UNCHANGED <<build, assigned, topic>>
          /\ UNCHANGED <<client, session, state, heard, early>> /\ S!Setup' = S!Setup
      BY <1>3, <1>9, TypeFrame DEF S!Handle
    <3> QED
      BY <1>3, <3>1, <3>2, <3>3, <3>4 DEF S!TypeOK, Callbacks, S!Topics
  <2>2. SetSoFar'
    BY <1>1, <1>2, <1>9 DEF S!Handle, S!At, S!Subscribe, S!Silent, SetSoFar
  <2>3. Joined'
    BY <1>1, <1>2, <1>9, SetupOrder, LeftFacts
    DEF S!Handle, S!At, S!Subscribe, S!Silent, Joined, Leaving, Joining, S!Reaches,
        S!Idle
  <2>4. Born'
    BY <1>1, <1>9, LeftFacts
    DEF S!Handle, S!At, S!Subscribe, S!Silent, Born, Leaving, S!Reaches
  <2>5. Awaited'
    BY <1>1, <1>9 DEF S!Handle, S!At, S!Subscribe, S!Silent, Awaited, S!Reaches
  <2> QED
    BY <2>1, <2>2, <2>3, <2>4, <2>5
<1> QED
  BY <1>4, <1>5, <1>6, <1>7, <1>8, <1>9 DEF S!Main

(* Steps that leave what setup() has set as it is.                         *)
LEMMA SetupKept ==
    ASSUME SessionInv, UNCHANGED S!setup
    PROVE  /\ UNCHANGED <<build, assigned, at, topic, handler>> /\ SetSoFar'
           /\ at \in Nat /\ at' \in 0..(Len(S!Setup) + 1)
           /\ build \in {"c6", "arduino"} /\ assigned \subseteq S!Topics
           /\ \A op, t : Past(op, t)' <=> Past(op, t)
<1>1. UNCHANGED <<build, assigned, at, topic, handler>> /\ build \in {"c6", "arduino"}
  BY DEF S!setup, SessionInv, S!TypeOK
<1>2. \A op, t : Past(op, t)' <=> Past(op, t)
  BY <1>1, PastFacts
<1>3. SetSoFar'
  BY <1>1, <1>2 DEF SessionInv, SetSoFar
<1>4. at \in Nat /\ at' \in 0..(Len(S!Setup) + 1)
  BY <1>1, SetupFacts DEF SessionInv, S!TypeOK
<1> QED
  BY <1>1, <1>2, <1>3, <1>4 DEF SessionInv, S!TypeOK

(* A statement of a callback is no longer left, and the others are.        *)
LEMMA Stepped ==
    ASSUME SessionInv, NEW op, S!Step(op), UNCHANGED <<build, assigned>>
    PROVE  /\ Head(callback) \in Calls /\ Head(callback).op = op
           /\ callback' \in Callbacks'
           /\ \A o, t : Left(o, t) => Left(o, t)' \/ Head(callback) = S!Call(o, t)
<1>1. /\ build \in {"c6", "arduino"} /\ callback \in Callbacks
      /\ callback # <<>> /\ callback' = Tail(callback) /\ Head(callback).op = op
  BY DEF SessionInv, S!TypeOK, S!Step, S!Idle, Callbacks
<1>2. callback \in Seq(Calls) /\ Tail(callback) \in Callbacks
  BY <1>1, CallbackFacts
<1>3. Callbacks' = Callbacks
  BY TypeFrame DEF Callbacks, S!Call
<1>4. Head(callback) \in Calls
  BY <1>1, <1>2
<1> QED
  BY <1>1, <1>2, <1>3, <1>4, LeftFacts

(* The steps of the callbacks.                                             *)
LEMMA CallbackStep ==
    ASSUME SessionInv, S!Birth \/ S!Rejoin
    PROVE  SessionInv'
<1>1. UNCHANGED S!setup /\ client' = client /\ session' = session
      /\ UNCHANGED <<build, assigned>>
  BY DEF S!Birth, S!Rejoin, S!setup
<1>2. \E op \in {"birth", "join"} : S!Step(op)
  BY DEF S!Birth, S!Rejoin
<1>3. /\ Head(callback) \in Calls /\ Head(callback).op \in {"birth", "join"}
      /\ callback' \in Callbacks'
      /\ \A o, t : Left(o, t) => Left(o, t)' \/ Head(callback) = S!Call(o, t)
      /\ Leaving => Leaving'
  BY <1>1, <1>2, Stepped DEF Leaving, S!Call
<1>4. CASE S!Birth
  <2>1. /\ Head(callback).op = "birth" /\ UNCHANGED <<subs, inbox, heard, early>>
        /\ state' = IF S!Reaches THEN "online" ELSE state
    BY <1>4 DEF S!Birth, S!Step
  <2>2. S!TypeOK'
    BY <1>1, <1>3, <2>1, SetupKept, TypeFrame DEF SessionInv, S!TypeOK, Callbacks
  <2>3. Joined'
    BY <1>1, <1>3, <2>1, SetupKept
    DEF SessionInv, Joined, Joining, S!Reaches, S!Call
  <2>4. Born' /\ Awaited'
    BY <1>1, <1>3, <2>1 DEF SessionInv, Born, Awaited, S!Reaches
  <2> QED
    BY <1>1, <2>2, <2>3, <2>4, SetupKept DEF SessionInv
<1>5. CASE S!Rejoin
  <2> DEFINE t == Head(callback).on
  <2>1. /\ Head(callback).op = "join" /\ UNCHANGED <<state, heard, early>>
        /\ t \in S!Topics /\ Head(callback) = S!Call("join", t)
        /\ IF t \in topic /\ (build = "arduino" => t \in handler)
           THEN S!Subscribe(t) ELSE S!Silent
    BY <1>3, <1>5 DEF S!Rejoin, S!Step, Calls, S!Call
  <2> HIDE DEF t
  <2>2. S!TypeOK'
    <3>1. t \in topic => subs' \subseteq assigned /\ inbox' \in BOOLEAN
      BY <2>1 DEF SessionInv, S!TypeOK, S!Subscribe, S!Silent, S!Reaches
    <3>2. t \notin topic => subs' \subseteq assigned /\ inbox' \in BOOLEAN
      BY <2>1 DEF SessionInv, S!TypeOK, S!Silent
    <3>3. /\ UNCHANGED <<topic, handler, client, session, state, heard, early>>
          /\ at' \in 0..(Len(S!Setup) + 1) /\ S!Setup' = S!Setup
      BY <1>1, <2>1, SetupKept, TypeFrame
    <3> QED
      BY <1>1, <1>3, <3>1, <3>2, <3>3 DEF SessionInv, S!TypeOK, Callbacks, S!Topics
  <2>3. Joined'
    <3> SUFFICES ASSUME S!Reaches, NEW u \in assigned, Past(Joining, u),
                        u \notin subs, ~Leaving, Left("join", u), ~Left("join", u)'
                 PROVE  u \in subs'
      BY <1>1, <1>3, <2>1, SetupKept
      DEF SessionInv, Joined, Joining, S!Reaches, S!Subscribe, S!Silent
    <3>1. u = t
      BY <1>3, <2>1 DEF S!Call
    <3>2. Past("store", u) /\ (build = "arduino" => Past("handle", u)) /\ u \in S!Topics
      BY <1>1, SetupKept, SetupOrder
    <3> QED
      BY <2>1, <3>1, <3>2 DEF SessionInv, SetSoFar, S!Subscribe
  <2>4. Born'
    BY <1>1, <1>3, <2>1 DEF SessionInv, Born, S!Reaches, S!Call
  <2>5. Awaited'
    BY <1>1, <2>1 DEF SessionInv, Awaited, S!Reaches, S!Subscribe, S!Silent
  <2> QED
    BY <1>1, <2>2, <2>3, <2>4, <2>5, SetupKept DEF SessionInv
<1> QED
  BY <1>4, <1>5

(* The steps after which the device has no connection.                     *)
LEMMA SilentStep ==
    ASSUME SessionInv, S!Notice \/ S!Restart \/ S!Cut \/ S!Dropped \/ S!Expire
    PROVE  SessionInv'
<1>1. UNCHANGED S!setup /\ callback' = callback
  BY DEF S!Notice, S!Restart, S!Cut, S!Dropped, S!Expire, S!End, S!setup
<1>2. ~S!Reaches'
  BY DEF S!Notice, S!Restart, S!Cut, S!Dropped, S!Expire, S!End, S!Reaches, S!broker
<1>3. S!TypeOK'
  <2>1. client' \in {"down", client} /\ UNCHANGED <<heard, early>>
    BY DEF S!Notice, S!Restart, S!Cut, S!Dropped, S!Expire, S!End
  <2>2. inbox' = FALSE \/ inbox' = inbox
    BY DEF S!Notice, S!Restart, S!Cut, S!Dropped, S!Expire, S!End
  <2>3. inbox' \in BOOLEAN
    BY <2>2 DEF SessionInv, S!TypeOK
  <2>4. /\ session' \in {"none", "dangling", session} /\ subs' \in {{}, subs}
        /\ state' \in {"offline", "lost", state}
    BY DEF S!Notice, S!Restart, S!Cut, S!Dropped, S!Expire, S!End, S!broker
  <2> QED
    BY <1>1, <2>1, <2>3, <2>4, SetupKept, TypeFrame DEF SessionInv, S!TypeOK
<1>4. state' = "online" => session' # "none"
  BY DEF SessionInv, Born, S!Notice, S!Restart, S!Cut, S!Dropped, S!Expire, S!End,
         S!Reaches, S!broker
<1> QED
  BY <1>1, <1>2, <1>3, <1>4, SetupKept DEF SessionInv, Joined, Born, Awaited

(* A reset, wherever it comes from, and an enrolment.                      *)
LEMMA ResetStep ==
    ASSUME SessionInv, S!Leave \/ S!Reboot \/ S!Enrol
    PROVE  SessionInv'
<1>1. UNCHANGED <<build, assigned>> /\ at' \in {0, 1} /\ build \in {"c6", "arduino"}
  BY DEF S!Leave, S!Reboot, S!Enrol, S!Reset, SessionInv, S!TypeOK
<1>2. \A op, t : ~Past(op, t)'
  BY <1>1, PastFacts
<1>3. at' \in 0..(Len(S!Setup) + 1)
  BY <1>1, SetupFacts
<1>4. SetSoFar' /\ Joined'
  BY <1>2 DEF SetSoFar, Joined
<1>5. CASE S!Reset
  <2>1. callback' \in {SubSeq(S!Connected, i, 4) : i \in 1..5}
    BY <1>1, <1>5, RestFacts DEF S!Reset
  <2>2. S!TypeOK'
    BY <1>1, <1>3, <1>5, <2>1, TypeFrame
    DEF SessionInv, S!TypeOK, S!Reset, S!Abandoned
  <2>3. Born' /\ Awaited'
    BY <1>5 DEF SessionInv, Born, Awaited, S!Reset, S!Abandoned, S!Reaches, S!TypeOK
  <2> QED
    BY <1>4, <2>2, <2>3 DEF SessionInv
<1>6. CASE S!Enrol
  <2>1. S!TypeOK'
    BY <1>1, <1>3, <1>6, TypeFrame DEF SessionInv, S!TypeOK, S!Enrol, S!broker
  <2>2. Born' /\ Awaited'
    BY <1>1, <1>6, LeftFacts
    DEF SessionInv, Born, Awaited, Leaving, S!Enrol, S!Reaches, S!broker
  <2> QED
    BY <1>4, <2>1, <2>2 DEF SessionInv
<1> QED
  BY <1>5, <1>6 DEF S!Leave, S!Reboot

(* The steps of a device that is connected and idle.                       *)
LEMMA OnlineStep ==
    ASSUME SessionInv, S!Dispatch \/ S!Refresh \/ S!Retire
    PROVE  SessionInv'
<1>1. UNCHANGED S!setup /\ UNCHANGED <<client, session>> /\ callback = <<>>
  BY DEF S!Dispatch, S!Refresh, S!Retire, S!setup, S!broker, S!Idle
<1>2. /\ UNCHANGED <<build, assigned, topic, handler>> /\ SetSoFar'
      /\ at \in Nat /\ at' \in 0..(Len(S!Setup) + 1)
      /\ build \in {"c6", "arduino"} /\ assigned \subseteq S!Topics
      /\ \A op, t : Past(op, t)' <=> Past(op, t)
  BY <1>1, SetupKept
<1>3. \A op, t : ~Left(op, t)
  BY <1>1, LeftFacts
<1>4. CASE S!Dispatch
  <2>1. S!TypeOK'
    BY <1>2, <1>4, TypeFrame DEF SessionInv, S!TypeOK, S!Dispatch, S!broker
  <2>2. Joined' /\ Born'
    BY <1>1, <1>2, <1>3, <1>4
    DEF SessionInv, Joined, Born, Joining, Leaving, S!Dispatch, S!broker, S!Reaches
  <2>3. "firmware" \in assigned /\ build = "arduino" => "firmware" \in topic \cap handler
    BY <1>2, <1>4, SetupOrder DEF S!Dispatch, SessionInv, SetSoFar
  <2>4. Awaited'
    BY <1>1, <1>2, <1>4, <2>3
    DEF SessionInv, S!TypeOK, Awaited, S!Dispatch, S!broker, S!Reaches
  <2> QED
    BY <1>2, <2>1, <2>2, <2>4 DEF SessionInv
<1>5. CASE S!Refresh
  <2>1. S!TypeOK'
    BY <1>2, <1>5, TypeFrame DEF SessionInv, S!TypeOK, S!Refresh, S!Subscribe
  <2>2. Joined' /\ Born'
    BY <1>1, <1>2, <1>3, <1>5
    DEF SessionInv, Joined, Born, Joining, Leaving, S!Refresh, S!Subscribe, S!Reaches
  <2>3. Awaited'
    BY <1>1, <1>2, <1>5 DEF SessionInv, Awaited, S!Refresh, S!Subscribe, S!Reaches
  <2> QED
    BY <1>2, <2>1, <2>2, <2>3 DEF SessionInv
<1>6. CASE S!Retire
  <2>1. S!TypeOK'
    BY <1>2, <1>6, TypeFrame DEF SessionInv, S!TypeOK, S!Retire, S!Call
  <2>2. Leaving'
    BY <1>6 DEF Leaving, Left, S!Retire
  <2>3. Joined' /\ Born' /\ Awaited'
    BY <1>1, <1>2, <1>6, <2>2
    DEF SessionInv, Joined, Born, Awaited, S!Retire, S!Reaches
  <2> QED
    BY <1>2, <2>1, <2>3 DEF SessionInv
<1> QED
  BY <1>4, <1>5, <1>6

LEMMA SessionStep == SessionInv /\ [S!Next]_link => SessionInv'
<1> SUFFICES ASSUME SessionInv, [S!Next]_link
             PROVE  SessionInv'
  OBVIOUS
<1>1. CASE S!Connect
  <2>1. UNCHANGED S!setup /\ S!Open
    BY <1>1 DEF S!Connect
  <2> QED
    BY <2>1, SetupKept, Opened DEF SessionInv
<1>2. CASE UNCHANGED link
  <2>1. UNCHANGED S!setup
    BY <1>2 DEF link, S!setup
  <2>2. S!TypeOK'
    BY <1>2, <2>1, SetupKept, TypeFrame DEF link, SessionInv, S!TypeOK
  <2>3. Joined' /\ Born' /\ Awaited'
    BY <1>2, <2>1, SetupKept, LeftFacts
    DEF link, SessionInv, Joined, Joining, Born, Awaited, Leaving, S!Reaches
  <2> QED
    BY <2>1, <2>2, <2>3, SetupKept DEF SessionInv
<1> QED
  BY <1>1, <1>2, MainStep, CallbackStep, SilentStep, ResetStep, OnlineStep
  DEF S!Next, S!Statement, S!Fault

LEMMA SessionPromises == SessionInv => SessionHonest
<1> SUFFICES ASSUME SessionInv
             PROVE  S!Present /\ S!Listening /\ S!Informed
  BY DEF SessionHonest
<1>1. /\ build \in {"c6", "arduino"} /\ assigned \subseteq S!Topics
      /\ at \in 0..(Len(S!Setup) + 1)
  BY DEF SessionInv, S!TypeOK
<1>2. S!Idle => \A op, t : ~Left(op, t)
  BY LeftFacts DEF S!Idle
<1>3. S!Present
  BY <1>2 DEF SessionInv, Born, Leaving, S!Present
<1>4. at \in Nat
  BY <1>1, SetupFacts
<1>5. S!Listening
  BY <1>1, <1>2, <1>4, SetupOrder DEF SessionInv, Joined, Leaving, S!Listening
<1>6. S!Informed
  BY <1>5 DEF SessionInv, Awaited, S!Informed, S!Listening
<1> QED
  BY <1>3, <1>5, <1>6

----------------------------------------------------------------------------
(* A set of numbers that is not empty has a least member.                  *)
LEMMA Least ==
  ASSUME NEW numbers, numbers \subseteq Nat, numbers # {}
  PROVE  \E n \in numbers : \A m \in numbers : n <= m
<1> DEFINE less == {p \in Nat \X Nat : p[1] < p[2]}
<1>1. IsWellFoundedOn(less, Nat)
  BY NatLessThanWellFounded DEF OpToRel
<1>2. \A m, n \in Nat : m < n => <<m, n>> \in less
  OBVIOUS
<1> HIDE DEF less
<1>3. PICK n \in numbers : \A m \in numbers : ~ (<<m, n>> \in less)
  BY <1>1, WFMin
<1>4. \A m \in numbers : m \in Nat /\ n \in Nat /\ ~ (m < n)
  BY <1>2, <1>3
<1> QED
  BY <1>4

(* The places of a part of the queue can be counted up in their order: by  *)
(* the least n below which they could not.                                 *)
Order(places, s) == /\ ToSet(s) = places
                    /\ \A j, k \in DOMAIN s : j < k => s[j] < s[k]

LEMMA Ordered ==
  ASSUME NEW places, places \subseteq Slots
  PROVE  \E s \in BoundedSeq(places, Size) : Order(places, s)
<1> DEFINE Below(n) == {i \in places : i < n}
           Fine(n) == \E m \in 0..n : \E s \in [1..m -> Below(n)] : Order(Below(n), s)
           wrong == {n \in 0..Size : ~Fine(n)}
<1>1. Size \in Nat /\ \A i \in places : i \in Nat /\ i < Size
  BY SizeAssumption DEF Slots
<1>2. Fine(0)
  <2>1. Below(0) = {}
    BY <1>1
  <2> DEFINE none == [k \in 1..0 |-> k]
  <2>2. none \in [1..0 -> Below(0)] /\ Order(Below(0), none)
    BY <2>1 DEF Order, ToSet
  <2>3. 0 \in 0..0
    OBVIOUS
  <2> HIDE DEF none
  <2> QED
    BY <2>2, <2>3
<1>3. ASSUME NEW n \in 0..(Size - 1), Fine(n)
      PROVE  Fine(n + 1)
  <2>1. PICK m \in 0..n : \E s \in [1..m -> Below(n)] : Order(Below(n), s)
    BY <1>3
  <2>2. PICK s \in [1..m -> Below(n)] : Order(Below(n), s)
    BY <2>1
  <2>3. CASE n \notin places
    <3>1. Below(n + 1) = Below(n)
      <4>1. \A i \in places : i < n + 1 <=> i < n
        BY <1>1, <2>3
      <4> QED
        BY <4>1
    <3>2. m \in 0..(n + 1)
      BY <1>1
    <3> QED
      BY <2>2, <3>1, <3>2
  <2>4. CASE n \in places
    <3> DEFINE longer == [k \in 1..(m + 1) |-> IF k = m + 1 THEN n ELSE s[k]]
    <3>1. Below(n + 1) = Below(n) \cup {n}
      <4>1. \A i \in places : i < n + 1 <=> i < n \/ i = n
        BY <1>1
      <4> QED
        BY <2>4, <4>1
    <3>2. m + 1 \in 0..(n + 1)
      BY <1>1
    <3>3. longer \in [1..(m + 1) -> Below(n + 1)]
      BY <1>1, <3>1
    <3>4. ToSet(longer) = Below(n + 1)
      <4>1. ASSUME NEW i \in Below(n + 1)
            PROVE  \E k \in 1..(m + 1) : longer[k] = i
        <5>1. CASE i = n
          BY <5>1, <1>1
        <5>2. CASE i \in Below(n)
          <6>1. PICK k \in 1..m : s[k] = i
            BY <5>2, <2>2 DEF Order, ToSet
          <6> QED
            BY <6>1, <1>1
        <5> QED
          BY <3>1, <5>1, <5>2
      <4> QED
        BY <3>3, <4>1 DEF ToSet
    <3>5. ASSUME NEW j \in 1..(m + 1), NEW k \in 1..(m + 1), j < k
          PROVE  longer[j] < longer[k]
      <4>1. j \in 1..m /\ s[j] \in Below(n) /\ longer[j] = s[j]
        BY <3>5, <1>1
      <4>2. CASE k = m + 1
        BY <4>1, <4>2, <1>1
      <4>3. CASE k \in 1..m
        BY <4>1, <4>3, <3>5, <2>2, <1>1 DEF Order
      <4> QED
        BY <4>2, <4>3, <1>1
    <3>6. Order(Below(n + 1), longer)
      BY <3>4, <3>5 DEF Order
    <3> HIDE DEF longer
    <3> QED
      BY <3>2, <3>3, <3>6
  <2> QED
    BY <2>3, <2>4
<1>4. Fine(Size)
  <2>1. SUFFICES ASSUME ~Fine(Size)
                 PROVE  FALSE
    OBVIOUS
  <2> HIDE DEF Fine
  <2>2. wrong \subseteq Nat /\ Size \in wrong
    BY <1>1, <2>1
  <2>3. PICK n \in wrong : \A m \in wrong : n <= m
    BY <2>2, Least
  <2>4. n # 0 /\ n - 1 \in 0..(Size - 1) /\ n - 1 \notin wrong /\ n - 1 + 1 = n
    BY <1>1, <1>2, <2>3
  <2>5. Fine(n - 1)
    BY <1>1, <2>4
  <2> QED
    BY <1>3, <2>3, <2>4, <2>5
<1>5. Below(Size) = places
  BY <1>1
<1> QED
  BY <1>4, <1>5 DEF BoundedSeq, SeqOf

LEMMA BoundedFacts ==
  ASSUME NEW members, NEW s
  PROVE  s \in BoundedSeq(members, Size) <=> s \in Seq(members) /\ Len(s) <= Size
<1>1. Size \in Nat
  BY SizeAssumption
<1>2. ASSUME NEW m \in 0..Size, s \in [1..m -> members]
      PROVE  s \in Seq(members) /\ Len(s) <= Size
  BY <1>1, <1>2
<1>3. ASSUME s \in Seq(members), Len(s) <= Size
      PROVE  Len(s) \in 0..Size /\ s \in [1..Len(s) -> members]
  BY <1>1, <1>3
<1> QED
  BY <1>2, <1>3 DEF BoundedSeq, SeqOf

(* What is saved is what of the queue is critical.                         *)
LEMMA SavedFacts ==
  ASSUME slot \in [Slots -> Messages \cup {NoMessage}]
  PROVE  /\ Saved \in BoundedSeq(Critical, Size)
         /\ \A k \in DOMAIN Saved : \E i \in Slots : i < count /\ slot[i] = Saved[k]
         /\ \A i \in Slots : i < count /\ slot[i] \in Critical =>
               \E k \in DOMAIN Saved : slot[i] = Saved[k]
<1> DEFINE places == {i \in Slots : i < count /\ slot[i] \in Critical}
           order == CHOOSE s \in BoundedSeq(places, Size) :
                      /\ ToSet(s) = places
                      /\ \A j, k \in DOMAIN s : j < k => s[j] < s[k]
<1>1. order \in BoundedSeq(places, Size) /\ ToSet(order) = places
  BY Ordered DEF Order
<1>2. Saved = [k \in DOMAIN order |-> slot[order[k]]]
  BY DEF Saved
<1> HIDE DEF order
<1>3. PICK m \in 0..Size : order \in [1..m -> places]
  BY <1>1 DEF BoundedSeq, SeqOf
<1>4. DOMAIN Saved = 1..m /\ \A k \in 1..m : Saved[k] = slot[order[k]]
  BY <1>2, <1>3
<1>5. Saved \in BoundedSeq(Critical, Size)
  <2>1. Saved \in [1..m -> Critical]
    BY <1>2, <1>3
  <2> QED
    BY <2>1 DEF BoundedSeq, SeqOf
<1>6. \A i \in places : \E k \in 1..m : order[k] = i
  BY <1>1, <1>3 DEF ToSet
<1> QED
  BY <1>3, <1>4, <1>5, <1>6

(* The dropped entry is one.                                               *)
LEMMA DroppedFacts == Dropped \in Slots
<1> DEFINE others == {i \in Slots : slot[i] \notin Critical}
<1>1. 0 \in Slots /\ Slots \subseteq Nat
  BY SizeAssumption DEF Slots
<1>2. CASE others = {}
  BY <1>1, <1>2 DEF Dropped
<1>3. CASE others # {}
  <2>1. \E i \in others : \A j \in others : i <= j
    BY <1>1, <1>3, Least
  <2>2. Dropped = CHOOSE i \in others : \A j \in others : i <= j
    BY <1>3 DEF Dropped
  <2> QED
    BY <2>1, <2>2
<1> QED
  BY <1>2, <1>3

(* Where the entry at j was before the one at i was taken out.             *)
Was(i, j) == IF j < i THEN j ELSE j + 1

LEMMA TakenOut ==
  ASSUME TypeOK, NEW i \in Slots, i < count, TakeOut(i)
  PROVE  /\ slot' \in [Slots -> Messages \cup {NoMessage}]
         /\ due' \in [Slots -> BOOLEAN]
         /\ count' \in 0..Size /\ count' = count - 1
         /\ \A j \in Slots : j < count' =>
               /\ slot'[j] = slot[Was(i, j)]
               /\ Was(i, j) \in Slots /\ Was(i, j) < count /\ Was(i, j) # i
         /\ \A j \in Slots : j < count /\ j # i =>
               \E l \in Slots : l < count' /\ slot'[l] = slot[j]
         /\ \A j, l \in Slots : Was(i, j) = Was(i, l) => j = l
<1> USE DEF Slots
<1>1. /\ Size \in Nat /\ count \in 0..Size /\ i \in Nat
      /\ count' = count - 1 /\ slot' = Shifted(slot, i) /\ due' = Shifted(due, i)
  BY SizeAssumption DEF TypeOK, TakeOut
<1>2. \A j \in Slots : j + 1 < count => j + 1 \in Slots
  BY <1>1
<1>3. slot' \in [Slots -> Messages \cup {NoMessage}] /\ due' \in [Slots -> BOOLEAN]
  BY <1>1, <1>2 DEF TypeOK, Shifted
<1>4. \A j \in Slots : slot'[j] = IF i <= j /\ j + 1 < count THEN slot[j + 1] ELSE slot[j]
  BY <1>1 DEF Shifted
<1>5. ASSUME NEW j \in Slots, j < count'
      PROVE  /\ slot'[j] = slot[Was(i, j)]
             /\ Was(i, j) \in Slots /\ Was(i, j) < count /\ Was(i, j) # i
  BY <1>1, <1>4, <1>5 DEF Was
<1>6. ASSUME NEW j \in Slots, j < count, j # i
      PROVE  \E l \in Slots : l < count' /\ slot'[l] = slot[j]
  <2>1. CASE j < i
    BY <1>1, <1>4, <1>6, <2>1
  <2>2. CASE i < j
    <3>1. j - 1 \in Slots /\ j - 1 < count' /\ slot'[j - 1] = slot[j]
      BY <1>1, <1>4, <1>6, <2>2
    <3> QED
      BY <3>1
  <2> QED
    BY <1>1, <1>6, <2>1, <2>2
<1>7. \A j, l \in Slots : Was(i, j) = Was(i, l) => j = l
  BY <1>1 DEF Was
<1> QED
  BY <1>1, <1>3, <1>5, <1>6, <1>7

----------------------------------------------------------------------------
(* The queue, of which one task executes the code at a time: k is what it  *)
(* is doing.  The entries up to Top hold messages; one that is claimed     *)
(* holds what was there before.                                            *)
Top(k) == IF k.pc = "fill" THEN count - 1 ELSE count

InSave(k)   == k.pc \in {"erase", "write"}
InLoop(k)   == k.pc \in {"tick", "scan", "try", "sent", "failed"}
Adds(k)     == k.pc \in {"offer", "room", "claim", "fill"}
MadeRoom(k) == InSave(k) /\ k.after = "claim"
Added(k)    == InSave(k) /\ k.after = "idle" /\ k.item # NoMessage

(* Its locals, at each place.                                              *)
Locals(k) ==
    /\ k.pc = "idle" => k = Outside
    /\ InLoop(k) => k.item = NoMessage /\ k.after = "idle"
    /\ Adds(k) \/ MadeRoom(k) => k.item # NoMessage
    /\ Adds(k) \/ MadeRoom(k) \/ Added(k) \/ k.pc = "tick" => ~k.changed
    /\ k.pc = "claim" \/ MadeRoom(k) => count < Size
    /\ k.pc = "fill" => count > 0 /\ k.at = count - 1
    /\ k.pc \in {"try", "sent", "failed"} => k.at < count
    /\ k.pc = "sent" => sent[slot[k.at]] > 0

(* A message that is being added was never seen before; one that has been  *)
(* added and not yet accepted is critical.                                 *)
Novel(k) ==
    Adds(k) \/ MadeRoom(k) \/ Added(k) =>
        /\ k.item \notin accepted \cup reloaded
        /\ Added(k) => /\ k.item \in Critical
                       /\ \E i \in Slots : i < Top(k) /\ slot[i] = k.item

(* Where every message that is queued, saved or sent comes from.           *)
Known(k) ==
    /\ \A i \in Slots : i < Top(k) =>
          /\ slot[i] \in Messages
          /\ \/ slot[i] \in accepted \cup reloaded
             \/ Added(k) /\ k.item = slot[i]
    /\ \A n \in DOMAIN nvs : nvs[n] \in accepted \cup reloaded
    /\ \A m \in Messages : sent[m] > 0 => m \in accepted \cup reloaded

(* A message that was not reloaded is queued once, and not after it was    *)
(* sent.                                                                   *)
Single(k) ==
    /\ \A i, j \in Slots :
          i < Top(k) /\ j < Top(k) /\ slot[i] = slot[j] /\ slot[i] \notin reloaded => i = j
    /\ \A i \in Slots :
          i < Top(k) /\ sent[slot[i]] > 0 /\ slot[i] \notin reloaded =>
              k.pc = "sent" /\ k.at = i
    /\ TwiceIsReloaded

(* An accepted critical message is in the queue; if the last save went     *)
(* well, in NVS too.                                                       *)
Kept(k) ==
    /\ \A m \in accepted \cap Critical :
          \/ sent[m] > 0 \/ m \in evicted \cup lost
          \/ \E i \in Slots : i < Top(k) /\ slot[i] = m
    /\ ~unsaved =>
          \A i \in Slots : i < Top(k) /\ slot[i] \in Critical \cap accepted =>
              \E n \in DOMAIN nvs : slot[i] = nvs[n]

(* Unless the queue is about to be saved, NVS is as it is.                 *)
Clean(k) == ~unsaved /\ ~InSave(k) /\ ~k.changed
Exact(k) ==
    Clean(k) =>
        /\ \A n \in DOMAIN nvs : \E i \in Slots : i < Top(k) /\ slot[i] = nvs[n]
        /\ \A i \in Slots : i < Top(k) /\ slot[i] \in Critical =>
              \E n \in DOMAIN nvs : slot[i] = nvs[n]

Turn(t) ==
    /\ TypeOK /\ task[Other(t)] = Outside
    /\ Locals(task[t]) /\ Novel(task[t]) /\ Known(task[t]) /\ Single(task[t])
    /\ Kept(task[t]) /\ Exact(task[t])

QueueInv == \E t \in Tasks : Turn(t)

LEMMA TaskTypes ==
  ASSUME TypeOK, NEW t \in Tasks
  PROVE  /\ task[t] \in Task /\ Other(t) \in Tasks /\ Other(t) # t /\ Outside \in Task
         /\ Other(Other(t)) = t
<1>1. Outside \in Task
  BY SizeAssumption DEF Outside, Task
<1> QED
  BY <1>1 DEF TypeOK, Other, Tasks

(* The task whose turn it is moves on.                                     *)
LEMMA Moved ==
  ASSUME NEW t \in Tasks, Turn(t), NEW k \in Task, task' = [task EXCEPT ![t] = k]
  PROVE  task' \in [Tasks -> Task] /\ task'[t] = k /\ task'[Other(t)] = Outside
BY TaskTypes DEF Turn, TypeOK

(* Where a step leaves the queue, NVS and the history alone, and neither   *)
(* begins nor ends to claim, to send or to save what it added.             *)
LEMMA Moves ==
  ASSUME NEW t \in Tasks, Turn(t), NEW k \in Task, task' = [task EXCEPT ![t] = k],
         due' \in [Slots -> BOOLEAN], connected' \in BOOLEAN,
         UNCHANGED <<slot, count, nvs, history>>,
         task[t].pc \notin {"fill", "sent", "erase", "write"}, k.pc \notin {"fill", "sent"},
         Locals(k), ~MadeRoom(k), ~Added(k),
         Adds(k) => k.item \notin accepted \cup reloaded,
         Clean(k) => Clean(task[t])
  PROVE  Turn(t)'
<1>1. /\ task'[t] = k /\ task'[Other(t)] = Outside /\ task' \in [Tasks -> Task]
  BY Moved
<1>2. /\ slot' = slot /\ count' = count /\ nvs' = nvs /\ accepted' = accepted
      /\ sent' = sent /\ evicted' = evicted /\ reloaded' = reloaded
      /\ lost' = lost /\ unsaved' = unsaved
  BY DEF history
<1>3. TypeOK'
  BY <1>1, <1>2 DEF Turn, TypeOK
<1>4. Top(k)' = count /\ Top(task[t]) = count
  BY <1>2 DEF Top
<1>5. Locals(k)'
  BY <1>2 DEF Locals, InLoop, Adds, MadeRoom, InSave, Added
<1>6. Novel(k)'
  BY <1>2 DEF Novel, Adds, MadeRoom, InSave, Added
<1>7. Known(k)'
  BY <1>2, <1>4 DEF Turn, Known, Added, InSave
<1>8. Single(k)'
  BY <1>2, <1>4 DEF Turn, Single, TwiceIsReloaded
<1>9. Kept(k)'
  BY <1>2, <1>4 DEF Turn, Kept
<1>10. Exact(k)'
  BY <1>2, <1>4 DEF Turn, Exact, Clean, InSave
<1> QED
  BY <1>1, <1>3, <1>5, <1>6, <1>7, <1>8, <1>9, <1>10 DEF Turn

(* Publishing and the loop, as far as they only look.                      *)
LEMMA OfferStep ==
  ASSUME NEW t \in Tasks, Turn(t), NEW m \in Messages, Offer(t, m)
  PROVE  Turn(t)'
<1> DEFINE k == [Outside EXCEPT !.pc = "offer", !.item = m]
<1>1. Outside \in Task /\ ~Outside.changed
  BY TaskTypes DEF Turn, Outside
<1>2. k \in Task /\ k.pc = "offer" /\ k.item = m /\ ~k.changed
  BY <1>1 DEF Task
<1> HIDE DEF k
<1>3. /\ task' = [task EXCEPT ![t] = k] /\ task[t].pc = "idle"
      /\ m \notin accepted \cup reloaded
      /\ UNCHANGED <<queue, nvs, connected, history>>
  BY DEF Offer, At, k
<1>4. m # NoMessage
  BY MessagesAssumption
<1>5. Locals(k) /\ ~MadeRoom(k) /\ ~Added(k)
  BY <1>2, <1>4 DEF Locals, InLoop, Adds, MadeRoom, InSave, Added
<1>6. Clean(task[t])  <=> ~unsaved
  BY <1>3 DEF Clean, InSave, Turn, Locals, Outside
<1>7. Clean(k) => Clean(task[t])
  BY <1>6 DEF Clean
<1>8. due' \in [Slots -> BOOLEAN] /\ connected' \in BOOLEAN /\ UNCHANGED <<slot, count, nvs, history>>
  BY <1>3 DEF Turn, TypeOK, queue
<1> QED
  BY <1>2, <1>3, <1>5, <1>7, <1>8, Moves

(* Nothing but the place in the code changes.                              *)
LEMMA Places ==
  ASSUME NEW t \in Tasks, Turn(t), NEW label, Go(t, label),
         label \in {"room", "claim", "failed", "scan", "try", "erase"}
  PROVE  LET k == [task[t] EXCEPT !.pc = label] IN
         /\ k \in Task /\ task' = [task EXCEPT ![t] = k]
         /\ k.pc = label /\ k.item = task[t].item /\ k.at = task[t].at
         /\ k.changed = task[t].changed /\ k.after = task[t].after
<1>1. task[t] \in Task
  BY TaskTypes DEF Turn
<1>2. task' = [task EXCEPT ![t] = [task[t] EXCEPT !.pc = label]]
  BY DEF Go
<1> QED
  BY <1>1, <1>2 DEF Task

LEMMA LookSteps ==
  ASSUME NEW t \in Tasks, Turn(t), PublishRefused(t) \/ HasRoom(t) \/ TryRefused(t)
  PROVE  Turn(t)'
<1> DEFINE label == IF PublishRefused(t) THEN "room" ELSE IF HasRoom(t) THEN "claim" ELSE "failed"
           k == [task[t] EXCEPT !.pc = label]
<1>1. /\ Go(t, label) /\ UNCHANGED <<queue, nvs, connected, history>>
      /\ \/ label = "room" /\ task[t].pc = "offer"
         \/ label = "claim" /\ task[t].pc = "room" /\ count < Size
         \/ label = "failed" /\ task[t].pc = "try"
  BY DEF PublishRefused, HasRoom, TryRefused, At
<1> HIDE DEF label
<1>2. /\ k \in Task /\ task' = [task EXCEPT ![t] = k]
      /\ k.pc = label /\ k.item = task[t].item /\ k.at = task[t].at
      /\ k.changed = task[t].changed /\ k.after = task[t].after
  BY <1>1, Places
<1> HIDE DEF k
<1>3. Locals(k) /\ ~MadeRoom(k) /\ ~Added(k)
  BY <1>1, <1>2 DEF Turn, Locals, InLoop, Adds, MadeRoom, InSave, Added
<1>4. Adds(k) => k.item \notin accepted \cup reloaded
  BY <1>1, <1>2 DEF Turn, Novel, Adds
<1>5. Clean(k) => Clean(task[t])
  BY <1>1, <1>2 DEF Clean, InSave
<1>6. due' \in [Slots -> BOOLEAN] /\ connected' \in BOOLEAN /\ UNCHANGED <<slot, count, nvs, history>>
  BY <1>1 DEF Turn, TypeOK, queue
<1>7. task[t].pc \notin {"fill", "sent", "erase", "write"} /\ k.pc \notin {"fill", "sent"}
  BY <1>1, <1>2
<1> QED
  BY <1>2, <1>3, <1>4, <1>5, <1>6, <1>7, Moves

LEMMA OutsideFacts ==
  ASSUME TypeOK
  PROVE  /\ Outside \in Task /\ Outside.pc = "idle" /\ Outside.item = NoMessage
         /\ Outside.at = 0 /\ ~Outside.changed /\ Outside.after = "idle"
         /\ Locals(Outside) /\ ~MadeRoom(Outside) /\ ~Added(Outside) /\ ~Adds(Outside)
<1>1. "main" \in Tasks
  BY DEF Tasks
<1>2. /\ Outside \in Task /\ Outside.pc = "idle" /\ Outside.item = NoMessage
      /\ Outside.at = 0 /\ ~Outside.changed /\ Outside.after = "idle"
  BY <1>1, TaskTypes DEF Outside
<1> QED
  BY <1>2 DEF Locals, MadeRoom, Added, Adds, InLoop, InSave

(* A task leaves the code without having changed anything.                 *)
LEMMA LeaveSteps ==
  ASSUME NEW t \in Tasks, Turn(t), Leave(t), ~task[t].changed,
         UNCHANGED <<queue, nvs, connected, history>>,
         task[t].pc \in {"idle", "tick", "room", "scan"}
  PROVE  Turn(t)'
<1>1. task' = [task EXCEPT ![t] = Outside]
  BY DEF Leave
<1>2. due' \in [Slots -> BOOLEAN] /\ connected' \in BOOLEAN /\ UNCHANGED <<slot, count, nvs, history>>
  BY DEF Turn, TypeOK, queue
<1>3. Clean(task[t]) <=> ~unsaved
  BY DEF Clean, InSave
<1>4. Clean(Outside) => Clean(task[t])
  BY <1>3 DEF Clean
<1>5. TypeOK
  BY DEF Turn
<1> QED
  BY <1>1, <1>2, <1>4, <1>5, OutsideFacts, Moves

LEMMA NoRoomStep ==
  ASSUME NEW t \in Tasks, Turn(t), NoRoom(t)
  PROVE  Turn(t)'
<1>1. Leave(t) /\ task[t].pc = "room" /\ UNCHANGED <<queue, nvs, connected, history>>
  BY DEF NoRoom, At
<1>2. ~task[t].changed
  BY <1>1 DEF Turn, Locals, Adds
<1> QED
  BY <1>1, <1>2, LeaveSteps

(* Into the loop, and from one turn of it to the next.                     *)
LEMMA LoopSteps ==
  ASSUME NEW t \in Tasks, Turn(t), NEW k \in Task, task' = [task EXCEPT ![t] = k],
         due' \in [Slots -> BOOLEAN], connected' \in BOOLEAN,
         UNCHANGED <<slot, count, nvs, history>>,
         \/ task[t].pc \in {"idle", "tick"} /\ k.pc \in {"tick", "scan"} /\ ~k.changed
         \/ task[t].pc \in {"scan", "failed"} /\ k.pc \in {"scan", "try", "erase"},
         k.changed = task[t].changed, k.item = task[t].item, k.after = task[t].after,
         k.pc = "try" => k.at < count
  PROVE  Turn(t)'
<1>1. k.item = NoMessage /\ k.after = "idle"
  BY DEF Turn, Locals, InLoop, Outside
<1>2. Locals(k) /\ ~MadeRoom(k) /\ ~Added(k) /\ ~Adds(k)
  BY <1>1 DEF Locals, InLoop, Adds, MadeRoom, InSave, Added
<1>3. Clean(k) => Clean(task[t])
  BY DEF Clean, InSave
<1>4. task[t].pc \notin {"fill", "sent", "erase", "write"} /\ k.pc \notin {"fill", "sent"}
  OBVIOUS
<1> QED
  BY <1>2, <1>3, <1>4, Moves

LEMMA TickStep ==
  ASSUME NEW t \in Tasks, Turn(t), Tick(t)
  PROVE  Turn(t)'
<1>1. task[t].pc \in {"idle", "tick"} /\ UNCHANGED <<queue, nvs, connected, history>>
  BY DEF Tick, At
<1>2. ~task[t].changed
  BY <1>1 DEF Turn, Locals, Outside
<1>3. CASE Leave(t)
  BY <1>1, <1>2, <1>3, LeaveSteps
<1>4. CASE Go(t, "scan")
  <2> DEFINE k == [task[t] EXCEPT !.pc = "scan"]
  <2>1. /\ k \in Task /\ task' = [task EXCEPT ![t] = k] /\ k.pc = "scan"
        /\ k.item = task[t].item /\ k.changed = task[t].changed /\ k.after = task[t].after
    BY <1>4, Places
  <2> HIDE DEF k
  <2>2. due' \in [Slots -> BOOLEAN] /\ connected' \in BOOLEAN
        /\ UNCHANGED <<slot, count, nvs, history>>
    BY <1>1 DEF Turn, TypeOK, queue
  <2> QED
    BY <1>1, <1>2, <2>1, <2>2, LoopSteps
<1> QED
  BY <1>3, <1>4 DEF Tick

LEMMA ConnectStep ==
  ASSUME Turn("mqtt"), Connect
  PROVE  Turn("mqtt")'
<1> DEFINE k == [task["mqtt"] EXCEPT !.pc = "tick"]
<1>1. /\ task["mqtt"].pc = "idle" /\ connected' = TRUE
      /\ task' = [task EXCEPT !["mqtt"] = k] /\ UNCHANGED <<queue, nvs, history>>
  BY DEF Connect, At, Go
<1>2. "mqtt" \in Tasks
  BY DEF Tasks
<1>3. task["mqtt"] \in Task
  BY <1>2, TaskTypes DEF Turn
<1>4. /\ k \in Task /\ k.pc = "tick" /\ k.item = task["mqtt"].item
      /\ k.changed = task["mqtt"].changed /\ k.after = task["mqtt"].after
  BY <1>3 DEF Task
<1> HIDE DEF k
<1>5. ~task["mqtt"].changed
  BY <1>1 DEF Turn, Locals, Outside
<1>6. due' \in [Slots -> BOOLEAN] /\ connected' \in BOOLEAN
      /\ UNCHANGED <<slot, count, nvs, history>>
  BY <1>1 DEF Turn, TypeOK, queue
<1> QED
  BY <1>1, <1>2, <1>4, <1>5, <1>6, LoopSteps

LEMMA ScanStep ==
  ASSUME NEW t \in Tasks, Turn(t), Scan(t)
  PROVE  Turn(t)'
<1>1. task[t].pc = "scan" /\ UNCHANGED <<queue, nvs, connected, history>>
  BY DEF Scan, At
<1>2. /\ due' \in [Slots -> BOOLEAN] /\ connected' \in BOOLEAN
      /\ UNCHANGED <<slot, count, nvs, history>>
  BY <1>1 DEF Turn, TypeOK, queue
<1>3. /\ task[t] \in Task /\ Size \in Nat /\ count \in 0..Size
  BY TaskTypes, SizeAssumption DEF Turn, TypeOK
<1>4. CASE Leave(t) /\ ~task[t].changed
  BY <1>1, <1>4, LeaveSteps
<1>5. ASSUME NEW label \in {"try", "erase"}, Go(t, label), label = "try" => task[t].at < count
      PROVE  Turn(t)'
  <2> DEFINE k == [task[t] EXCEPT !.pc = label]
  <2>1. /\ k \in Task /\ task' = [task EXCEPT ![t] = k] /\ k.pc = label
        /\ k.item = task[t].item /\ k.changed = task[t].changed /\ k.after = task[t].after
        /\ k.at = task[t].at
    BY <1>5, Places
  <2> HIDE DEF k
  <2> QED
    BY <1>1, <1>2, <1>5, <2>1, LoopSteps
<1>6. CASE task[t].at < count /\ task' = [task EXCEPT ![t].at = task[t].at + 1]
  <2> DEFINE k == [task[t] EXCEPT !.at = task[t].at + 1]
  <2>1. /\ k \in Task /\ k.pc = "scan"
        /\ k.item = task[t].item /\ k.changed = task[t].changed /\ k.after = task[t].after
    BY <1>1, <1>3, <1>6 DEF Task
  <2>2. task' = [task EXCEPT ![t] = k]
    BY <1>6
  <2> HIDE DEF k
  <2> QED
    BY <1>1, <1>2, <2>1, <2>2, LoopSteps
<1>7. ~Ended(t) => task[t].at < count
  BY <1>3 DEF Ended, Task
<1> QED
  BY <1>4, <1>5, <1>6, <1>7 DEF Scan

LEMMA FailedStep ==
  ASSUME NEW t \in Tasks, Turn(t), Failed(t)
  PROVE  Turn(t)'
<1> DEFINE k == [[task[t] EXCEPT !.pc = "scan"] EXCEPT !.at = task[t].at + 1]
<1>1. /\ task[t].pc = "failed" /\ UNCHANGED <<slot, count, nvs, connected, history>>
      /\ due' = [due EXCEPT ![task[t].at] = FALSE]
      /\ task' = [task EXCEPT ![t].pc = "scan", ![t].at = task[t].at + 1]
  BY DEF Failed, At
<1>2. /\ task[t] \in Task /\ Size \in Nat /\ count \in 0..Size /\ task[t].at < count
  BY <1>1, TaskTypes, SizeAssumption DEF Turn, TypeOK, Locals
<1>3. /\ k \in Task /\ k.pc = "scan"
      /\ k.item = task[t].item /\ k.changed = task[t].changed /\ k.after = task[t].after
  <2>1. task[t].at \in 0..Size
    BY <1>2 DEF Task
  <2>2. task[t].at + 1 \in 0..Size
    BY <1>2, <2>1
  <2> QED
    BY <1>2, <2>2 DEF Task
<1>4. task' = [task EXCEPT ![t] = k]
  BY <1>1
<1> HIDE DEF k
<1>5. due' \in [Slots -> BOOLEAN] /\ connected' \in BOOLEAN
  BY <1>1 DEF Turn, TypeOK
<1>6. UNCHANGED <<slot, count, nvs, history>>
  BY <1>1
<1>7. k.pc # "try"
  BY <1>3
<1> QED
  BY <1>1, <1>3, <1>4, <1>5, <1>6, <1>7, LoopSteps

(* An entry is taken out, and if it was critical the queue is to be saved. *)
LEMMA Removes ==
  ASSUME NEW t \in Tasks, Turn(t), NEW i \in Slots, i < count, TakeOut(i),
         NEW k \in Task, task' = [task EXCEPT ![t] = k],
         evicted' \in SUBSET Critical, evicted \subseteq evicted',
         UNCHANGED <<nvs, connected, accepted, sent, reloaded, lost, unsaved>>,
         task[t].pc = "room" \/ (task[t].pc = "sent" /\ task[t].at = i),
         k.pc \in {"erase", "claim", "scan"}, Locals(k)',
         Adds(k) \/ MadeRoom(k) => k.item = task[t].item /\ task[t].pc = "room",
         ~Added(k), Clean(k) => Clean(task[t]) /\ slot[i] \notin Critical,
         slot[i] \in Critical => sent[slot[i]] > 0 \/ slot[i] \in evicted'
  PROVE  Turn(t)'
<1>1. /\ task'[t] = k /\ task'[Other(t)] = Outside /\ task' \in [Tasks -> Task]
  BY Moved
<1>2. /\ nvs' = nvs /\ accepted' = accepted /\ sent' = sent /\ reloaded' = reloaded
      /\ lost' = lost /\ unsaved' = unsaved
  OBVIOUS
<1>3. TypeOK
  BY DEF Turn
<1>4. /\ slot' \in [Slots -> Messages \cup {NoMessage}] /\ due' \in [Slots -> BOOLEAN]
      /\ count' \in 0..Size /\ count' = count - 1
      /\ \A j \in Slots : j < count' =>
            /\ slot'[j] = slot[Was(i, j)]
            /\ Was(i, j) \in Slots /\ Was(i, j) < count /\ Was(i, j) # i
      /\ \A j \in Slots : j < count /\ j # i =>
            \E l \in Slots : l < count' /\ slot'[l] = slot[j]
      /\ \A j, l \in Slots : Was(i, j) = Was(i, l) => j = l
  BY <1>3, TakenOut
<1>5. Top(k)' = count' /\ Top(task[t]) = count
  BY DEF Top
<1>6. TypeOK'
  <2>1. nvs' \in BoundedSeq(Critical, Size) /\ connected' \in BOOLEAN
    BY <1>3 DEF TypeOK
  <2>2. /\ sent' \in [Messages -> 0..2] /\ accepted' \subseteq Messages
        /\ evicted' \subseteq Critical
        /\ reloaded' \subseteq Critical /\ lost' \subseteq Critical /\ unsaved' \in BOOLEAN
    BY <1>3 DEF TypeOK
  <2> QED
    BY <1>1, <1>4, <2>1, <2>2 DEF TypeOK
<1>7. Novel(k)'
  BY <1>2 DEF Turn, Novel, Adds, MadeRoom, Added, InSave
<1>8. Known(k)'
  <2>1. ~Added(task[t])
    BY DEF Added, InSave
  <2>2. ASSUME NEW j \in Slots, j < count'
        PROVE  slot'[j] \in Messages /\ slot'[j] \in accepted \cup reloaded
    BY <1>4, <1>5, <2>1, <2>2 DEF Turn, Known
  <2> QED
    BY <1>2, <1>5, <2>2 DEF Turn, Known
<1>9. Single(k)'
  <2>1. ASSUME NEW j \in Slots, NEW l \in Slots, j < count', l < count', slot'[j] = slot'[l],
               slot'[j] \notin reloaded
        PROVE  j = l
    <3>1. slot[Was(i, j)] = slot[Was(i, l)] /\ slot[Was(i, j)] \notin reloaded
      BY <1>4, <2>1
    <3>2. Was(i, j) = Was(i, l)
      BY <1>4, <1>5, <2>1, <3>1 DEF Turn, Single
    <3> QED
      BY <1>4, <3>2
  <2>2. ASSUME NEW j \in Slots, j < count', sent[slot'[j]] > 0, slot'[j] \notin reloaded
        PROVE  FALSE
    <3>1. task[t].at = Was(i, j) /\ task[t].pc = "sent"
      BY <1>4, <1>5, <2>2 DEF Turn, Single
    <3> QED
      BY <1>4, <2>2, <3>1
  <2>3. TwiceIsReloaded'
    BY <1>2 DEF Turn, Single, TwiceIsReloaded
  <2> QED
    BY <1>2, <1>5, <2>1, <2>2, <2>3 DEF Single
<1>10. Kept(k)'
  <2>1. ASSUME NEW m \in accepted \cap Critical
        PROVE  \/ sent[m] > 0 \/ m \in evicted' \cup lost
               \/ \E j \in Slots : j < count' /\ slot'[j] = m
    BY <1>4, <1>5 DEF Turn, Kept
  <2>2. ASSUME ~unsaved, NEW j \in Slots, j < count', slot'[j] \in Critical \cap accepted
        PROVE  \E n \in DOMAIN nvs : slot'[j] = nvs[n]
    BY <1>4, <1>5, <2>2 DEF Turn, Kept
  <2> QED
    BY <1>2, <1>5, <2>1, <2>2 DEF Kept
<1>11. Exact(k)'
  <2>1. SUFFICES ASSUME Clean(k)
                 PROVE  /\ \A n \in DOMAIN nvs : \E j \in Slots : j < count' /\ slot'[j] = nvs[n]
                        /\ \A j \in Slots : j < count' /\ slot'[j] \in Critical =>
                              \E n \in DOMAIN nvs : slot'[j] = nvs[n]
    BY <1>2, <1>5 DEF Exact, Clean, InSave
  <2>2. Clean(task[t]) /\ slot[i] \notin Critical
    BY <2>1
  <2>3. \A n \in DOMAIN nvs : nvs[n] \in Critical
    BY <1>3, BoundedFacts DEF TypeOK
  <2>4. ASSUME NEW n \in DOMAIN nvs
        PROVE  \E j \in Slots : j < count' /\ slot'[j] = nvs[n]
    <3>1. PICK j \in Slots : j < count /\ slot[j] = nvs[n]
      BY <1>5, <2>2 DEF Turn, Exact
    <3>2. j # i
      BY <2>2, <2>3, <3>1
    <3> QED
      BY <1>4, <3>1, <3>2
  <2>5. ASSUME NEW j \in Slots, j < count', slot'[j] \in Critical
        PROVE  \E n \in DOMAIN nvs : slot'[j] = nvs[n]
    BY <1>4, <1>5, <2>2, <2>5 DEF Turn, Exact
  <2> QED
    BY <2>4, <2>5
<1> QED
  BY <1>1, <1>6, <1>7, <1>8, <1>9, <1>10, <1>11 DEF Turn

LEMMA MakeRoomStep ==
  ASSUME NEW t \in Tasks, Turn(t), MakeRoom(t)
  PROVE  Turn(t)'
<1> DEFINE i == Dropped
           label == IF slot[i] \in Critical THEN "erase" ELSE "claim"
           next == [[task[t] EXCEPT !.pc = label] EXCEPT !.after = "claim"]
<1>1. /\ task[t].pc = "room" /\ count = Size /\ TakeOut(i)
      /\ evicted' = evicted \cup (Critical \cap {slot[i]})
      /\ UNCHANGED <<nvs, connected, accepted, sent, reloaded, lost, unsaved>>
      /\ task' = [task EXCEPT ![t].pc = label, ![t].after = "claim"]
  BY DEF MakeRoom, At
<1>2. TypeOK /\ task[t] \in Task /\ i \in Slots /\ Size \in Nat \ {0}
  BY TaskTypes, DroppedFacts, SizeAssumption DEF Turn
<1> HIDE DEF i
<1>3. i < count
  BY <1>1, <1>2 DEF Slots
<1>4. label \in {"erase", "claim"}
  OBVIOUS
<1>5. /\ next \in Task /\ next.pc = label /\ next.after = "claim"
      /\ next.item = task[t].item /\ next.changed = task[t].changed
  BY <1>2, <1>4 DEF Task
<1>6. PICK k \in Task : /\ task' = [task EXCEPT ![t] = k] /\ k.pc = label /\ k.after = "claim"
                       /\ k.item = task[t].item /\ k.changed = task[t].changed
  BY <1>1, <1>5
<1> HIDE DEF next
<1>7. evicted' \in SUBSET Critical /\ evicted \subseteq evicted'
  BY <1>1, <1>2 DEF TypeOK
<1>8. ~task[t].changed /\ task[t].item # NoMessage
  BY <1>1 DEF Turn, Locals, Adds
<1>9. count' < Size
  BY <1>1, <1>2 DEF TakeOut
<1>10. Locals(k)'
  BY <1>4, <1>6, <1>8, <1>9 DEF Locals, InLoop, Adds, MadeRoom, Added, InSave
<1>11. ~Added(k) /\ (Clean(k) => Clean(task[t]) /\ slot[i] \notin Critical)
  BY <1>1, <1>6 DEF Added, Clean, InSave
<1>12. slot[i] \in Critical => slot[i] \in evicted'
  BY <1>1
<1>13. UNCHANGED <<nvs, connected, accepted, sent, reloaded, lost, unsaved>>
  BY <1>1
<1>14. TakeOut(i) /\ k.pc \in {"erase", "claim", "scan"} /\ k.item = task[t].item /\ task[t].pc = "room"
  BY <1>1, <1>6
<1> HIDE DEF label
<1>15. i \in Slots /\ task' = [task EXCEPT ![t] = k]
  BY <1>2, <1>6
<1>16. k.item = task[t].item /\ task[t].pc = "room" /\ TakeOut(i) /\ k.pc \in {"erase", "claim", "scan"}
  BY <1>14
<1> QED
  BY <1>3, <1>7, <1>10, <1>11, <1>12, <1>13, <1>15, <1>16, Removes

LEMMA SentStep ==
  ASSUME NEW t \in Tasks, Turn(t), Sent(t)
  PROVE  Turn(t)'
<1> DEFINE i == task[t].at
           next == [[task[t] EXCEPT !.pc = "scan"] EXCEPT !.changed = Noted(t)]
<1>1. /\ task[t].pc = "sent" /\ TakeOut(i)
      /\ UNCHANGED <<nvs, connected, history>>
      /\ task' = [task EXCEPT ![t].pc = "scan", ![t].changed = Noted(t)]
  BY DEF Sent, At
<1>2. TypeOK /\ task[t] \in Task /\ Size \in Nat \ {0} /\ count \in 0..Size
  BY TaskTypes, SizeAssumption DEF Turn, TypeOK
<1>3. i < count /\ task[t].item = NoMessage /\ task[t].after = "idle" /\ sent[slot[i]] > 0
  BY <1>1 DEF Turn, Locals, InLoop
<1>4. i \in Slots
  BY <1>2, <1>3 DEF Slots, Task
<1>5. Noted(t) \in BOOLEAN
  BY <1>2 DEF Noted, Task
<1>6. /\ next \in Task /\ next.pc = "scan" /\ next.after = task[t].after
      /\ next.item = task[t].item /\ (next.changed <=> Noted(t))
  BY <1>2, <1>5 DEF Task
<1>7. PICK k \in Task : /\ task' = [task EXCEPT ![t] = k] /\ k.pc = "scan"
                       /\ k.after = task[t].after /\ k.item = task[t].item
                       /\ (k.changed <=> Noted(t))
  BY <1>1, <1>6
<1> HIDE DEF next
<1>8. ~Adds(k) /\ ~MadeRoom(k) /\ ~Added(k) /\ Locals(k)'
  BY <1>3, <1>7 DEF Locals, InLoop, Adds, MadeRoom, Added, InSave
<1>9. Clean(k) => Clean(task[t]) /\ slot[i] \notin Critical
  BY <1>1, <1>7 DEF Clean, InSave, Noted
<1>10. UNCHANGED <<nvs, connected, accepted, sent, reloaded, lost, unsaved>>
  BY <1>1 DEF history
<1>11. evicted' \in SUBSET Critical /\ evicted \subseteq evicted'
  BY <1>1, <1>2 DEF history, TypeOK
<1>12. TakeOut(i) /\ task[t].pc = "sent" /\ task[t].at = i /\ k.pc \in {"erase", "claim", "scan"}
  BY <1>1, <1>7
<1> HIDE DEF i
<1> QED
  BY <1>3, <1>4, <1>7, <1>8, <1>9, <1>10, <1>11, <1>12, Removes

(* The client accepts a message for the first time that was not reloaded.  *)
LEMMA EmitFacts ==
  ASSUME TypeOK, NEW m \in Messages, Emit(m)
  PROVE  /\ sent' \in [Messages -> 0..2] /\ sent'[m] > 0
         /\ \A l \in Messages : l # m => sent'[l] = sent[l]
         /\ \A l \in Messages : sent[l] > 0 => sent'[l] > 0
         /\ sent'[m] = 2 => sent[m] > 0
BY DEF TypeOK, Emit

LEMMA PublishAtOnceStep ==
  ASSUME NEW t \in Tasks, Turn(t), PublishAtOnce(t)
  PROVE  Turn(t)'
<1> DEFINE m == task[t].item
<1>1. /\ task[t].pc = "offer" /\ Emit(m) /\ accepted' = accepted \cup {m}
      /\ task' = [task EXCEPT ![t] = Outside]
      /\ UNCHANGED <<queue, nvs, connected, evicted, reloaded, lost, unsaved>>
  BY DEF PublishAtOnce, At, Leave
<1>2. /\ slot' = slot /\ due' = due /\ count' = count /\ nvs' = nvs /\ connected' = connected
      /\ evicted' = evicted /\ reloaded' = reloaded /\ lost' = lost /\ unsaved' = unsaved
  BY <1>1 DEF queue
<1>3. TypeOK /\ task[t] \in Task
  BY TaskTypes DEF Turn
<1>4. m \in Messages /\ m \notin accepted \cup reloaded /\ ~Added(task[t])
      /\ Top(task[t]) = count /\ ~task[t].changed
  BY <1>1, <1>3 DEF Turn, Locals, Novel, Adds, Added, InSave, Top, Task
<1>5. ~(sent[m] > 0) /\ \A i \in Slots : i < count => slot[i] # m /\ slot[i] \in Messages
  BY <1>4 DEF Turn, Known
<1>6. /\ sent' \in [Messages -> 0..2] /\ sent'[m] > 0 /\ sent'[m] # 2
      /\ \A l \in Messages : l # m => sent'[l] = sent[l]
      /\ \A l \in Messages : sent[l] > 0 => sent'[l] > 0
  BY <1>1, <1>3, <1>4, <1>5, EmitFacts
<1>7. /\ Outside \in Task /\ ~Outside.changed /\ ~InSave(Outside)
      /\ Locals(Outside) /\ ~MadeRoom(Outside) /\ ~Added(Outside) /\ ~Adds(Outside)
      /\ Outside.pc = "idle"
  BY <1>3, OutsideFacts DEF InSave
<1>8. /\ task'[t] = Outside /\ task'[Other(t)] = Outside /\ task' \in [Tasks -> Task]
  BY <1>1, <1>7, Moved
<1> HIDE DEF m
<1>9. TypeOK'
  <2>1. accepted' \subseteq Messages
    BY <1>1, <1>3, <1>4 DEF TypeOK
  <2> QED
    BY <1>2, <1>3, <1>6, <1>8, <2>1 DEF TypeOK
<1>10. Locals(Outside)' /\ Novel(Outside)'
  BY <1>7 DEF Locals, Novel, Adds, MadeRoom, Added, InSave, InLoop
<1>11. Top(Outside)' = count
  BY <1>2, <1>7 DEF Top
<1>12. Known(Outside)'
  BY <1>1, <1>2, <1>4, <1>6, <1>11 DEF Turn, Known
<1>13. Single(Outside)'
  <2>1. TwiceIsReloaded'
    BY <1>2, <1>6 DEF Turn, Single, TwiceIsReloaded
  <2>2. ASSUME NEW i \in Slots, i < count, sent'[slot[i]] > 0, slot[i] \notin reloaded
        PROVE  FALSE
    <3>1. sent[slot[i]] > 0
      BY <1>5, <1>6, <2>2
    <3> QED
      BY <1>1, <1>4, <2>2, <3>1 DEF Turn, Single
  <2>3. \A i, j \in Slots : i < count /\ j < count /\ slot[i] = slot[j] /\ slot[i] \notin reloaded => i = j
    BY <1>4 DEF Turn, Single
  <2> QED
    BY <1>2, <1>11, <2>1, <2>2, <2>3 DEF Single
<1>14. Kept(Outside)'
  BY <1>1, <1>2, <1>3, <1>4, <1>5, <1>6, <1>11 DEF Turn, Kept, TypeOK
<1>15. Clean(task[t]) <=> ~unsaved
  BY <1>1, <1>4 DEF Clean, InSave
<1>16. Exact(Outside)'
  BY <1>2, <1>4, <1>11, <1>15 DEF Turn, Exact, Clean
<1> QED
  BY <1>8, <1>9, <1>10, <1>12, <1>13, <1>14, <1>16 DEF Turn

LEMMA TryAcceptedStep ==
  ASSUME NEW t \in Tasks, Turn(t), TryAccepted(t)
  PROVE  Turn(t)'
<1> DEFINE m == slot[task[t].at]
           next == [task[t] EXCEPT !.pc = "sent"]
<1>1. /\ task[t].pc = "try" /\ Emit(m) /\ m \in Messages
      /\ task' = [task EXCEPT ![t] = next]
      /\ UNCHANGED <<queue, nvs, connected, accepted, evicted, reloaded, lost, unsaved>>
  BY DEF TryAccepted, At, Go
<1>2. /\ slot' = slot /\ due' = due /\ count' = count /\ nvs' = nvs /\ connected' = connected
      /\ accepted' = accepted /\ evicted' = evicted /\ reloaded' = reloaded
      /\ lost' = lost /\ unsaved' = unsaved
  BY <1>1 DEF queue
<1>3. TypeOK /\ task[t] \in Task
  BY TaskTypes DEF Turn
<1>4. /\ next \in Task /\ next.pc = "sent" /\ next.at = task[t].at /\ next.item = task[t].item
      /\ next.after = task[t].after /\ next.changed = task[t].changed
  BY <1>3 DEF Task
<1>5. PICK k \in Task :
        /\ task' = [task EXCEPT ![t] = k] /\ k.pc = "sent" /\ k.at = task[t].at
        /\ k.item = task[t].item /\ k.after = task[t].after /\ k.changed = task[t].changed
  BY <1>1, <1>4
<1> HIDE DEF next
<1>6. /\ task[t].at \in Slots /\ task[t].at < count /\ k.item = NoMessage /\ k.after = "idle"
      /\ ~Added(task[t]) /\ Top(task[t]) = count
  <2>1. task[t].at < count /\ task[t].item = NoMessage /\ task[t].after = "idle"
    BY <1>1 DEF Turn, Locals, InLoop
  <2>2. task[t].at \in 0..Size /\ count \in 0..Size /\ Size \in Nat
    BY <1>3, SizeAssumption DEF Task, TypeOK
  <2> QED
    BY <1>1, <1>5, <2>1, <2>2 DEF Slots, Added, InSave, Top
<1>7. m \in accepted \cup reloaded
  BY <1>6 DEF Turn, Known
<1>8. /\ sent' \in [Messages -> 0..2] /\ sent'[m] > 0
      /\ \A l \in Messages : l # m => sent'[l] = sent[l]
      /\ \A l \in Messages : sent[l] > 0 => sent'[l] > 0
      /\ sent'[m] = 2 => sent[m] > 0
  BY <1>1, <1>3, EmitFacts
<1>9. /\ task'[t] = k /\ task'[Other(t)] = Outside /\ task' \in [Tasks -> Task]
  BY <1>5, Moved
<1>10. TypeOK'
  BY <1>2, <1>3, <1>8, <1>9 DEF TypeOK
<1>11. Locals(k)' /\ Novel(k)'
  BY <1>2, <1>5, <1>6, <1>8 DEF Locals, Novel, Adds, MadeRoom, Added, InSave, InLoop
<1>12. Top(k)' = count
  BY <1>2, <1>5 DEF Top
<1>13. Known(k)'
  BY <1>1, <1>2, <1>6, <1>7, <1>8, <1>12 DEF Turn, Known
<1>14. Single(k)'
  <2>1. m \notin reloaded => ~(sent[m] > 0)
    BY <1>1, <1>6 DEF Turn, Single
  <2>2. TwiceIsReloaded'
    BY <1>1, <1>2, <1>8, <2>1 DEF Turn, Single, TwiceIsReloaded
  <2>3. ASSUME NEW i \in Slots, i < count, sent'[slot[i]] > 0, slot[i] \notin reloaded
        PROVE  k.pc = "sent" /\ k.at = i
    <3>1. slot[i] \in Messages
      BY <1>6, <2>3 DEF Turn, Known
    <3>2. ~(sent[slot[i]] > 0)
      BY <1>1, <1>6, <2>3 DEF Turn, Single
    <3>3. slot[i] = m
      BY <1>8, <2>3, <3>1, <3>2
    <3> QED
      BY <1>5, <1>6, <2>3, <3>3 DEF Turn, Single
  <2>4. \A i, j \in Slots : i < count /\ j < count /\ slot[i] = slot[j] /\ slot[i] \notin reloaded => i = j
    BY <1>6 DEF Turn, Single
  <2> QED
    BY <1>2, <1>12, <2>2, <2>3, <2>4 DEF Single
<1>15. Kept(k)'
  BY <1>2, <1>3, <1>6, <1>8, <1>12 DEF Turn, Kept, TypeOK
<1>16. Clean(k)' => Clean(task[t])
  BY <1>1, <1>2, <1>5 DEF Clean, InSave
<1>17. Exact(k)'
  BY <1>2, <1>6, <1>12, <1>16 DEF Turn, Exact
<1> QED
  BY <1>9, <1>10, <1>11, <1>13, <1>14, <1>15, <1>17 DEF Turn

LEMMA ClaimStep ==
  ASSUME NEW t \in Tasks, Turn(t), Claim(t)
  PROVE  Turn(t)'
<1> DEFINE next == [[task[t] EXCEPT !.pc = "fill"] EXCEPT !.at = count]
<1>1. /\ task[t].pc = "claim" /\ count < Size /\ count' = count + 1
      /\ task' = [task EXCEPT ![t].pc = "fill", ![t].at = count]
      /\ UNCHANGED <<slot, due, nvs, connected, history>>
  BY DEF Claim, At
<1>2. /\ slot' = slot /\ due' = due /\ nvs' = nvs /\ connected' = connected
      /\ accepted' = accepted /\ sent' = sent /\ evicted' = evicted /\ reloaded' = reloaded
      /\ lost' = lost /\ unsaved' = unsaved
  BY <1>1 DEF history
<1>3. TypeOK /\ task[t] \in Task /\ count \in 0..Size /\ Size \in Nat
  BY TaskTypes, SizeAssumption DEF Turn, TypeOK
<1>4. /\ next \in Task /\ next.pc = "fill" /\ next.at = count /\ next.item = task[t].item
      /\ next.changed = task[t].changed
  BY <1>3 DEF Task
<1>5. PICK k \in Task :
        /\ task' = [task EXCEPT ![t] = k] /\ k.pc = "fill" /\ k.at = count
        /\ k.item = task[t].item /\ k.changed = task[t].changed
  BY <1>1, <1>4
<1> HIDE DEF next
<1>6. /\ task'[t] = k /\ task'[Other(t)] = Outside /\ task' \in [Tasks -> Task]
  BY <1>5, Moved
<1>7. TypeOK'
  <2>1. count' \in 0..Size
    BY <1>1, <1>3
  <2> QED
    BY <1>2, <1>3, <1>6, <2>1 DEF TypeOK
<1>8. Top(k)' = count /\ Top(task[t]) = count /\ count' > 0 /\ k.at = count' - 1
  BY <1>1, <1>3, <1>5 DEF Top
<1>9. ~task[t].changed /\ task[t].item # NoMessage /\ task[t].item \notin accepted \cup reloaded
      /\ ~Added(task[t]) /\ ~Added(k)
  BY <1>1, <1>5 DEF Turn, Locals, Novel, Adds, Added, InSave
<1>10. Locals(k)' /\ Novel(k)'
  BY <1>2, <1>5, <1>8, <1>9 DEF Locals, Novel, Adds, MadeRoom, Added, InSave, InLoop
<1>11. Known(k)'
  BY <1>2, <1>8, <1>9 DEF Turn, Known
<1>12. Single(k)'
  BY <1>1, <1>2, <1>8 DEF Turn, Single, TwiceIsReloaded
<1>13. Kept(k)'
  BY <1>2, <1>8 DEF Turn, Kept
<1>14. Clean(k)' => Clean(task[t])
  BY <1>1, <1>2, <1>9 DEF Clean, InSave
<1>15. Exact(k)'
  BY <1>2, <1>8, <1>14 DEF Turn, Exact
<1> QED
  BY <1>6, <1>7, <1>10, <1>11, <1>12, <1>13, <1>15 DEF Turn

(* The claimed entry gets the message.                                     *)
LEMMA FillStep ==
  ASSUME NEW t \in Tasks, Turn(t), Fill(t)
  PROVE  Turn(t)'
<1> DEFINE m == task[t].item
           c == task[t].at
           next == [[task[t] EXCEPT !.pc = "erase"] EXCEPT !.after = "idle"]
<1>1. /\ task[t].pc = "fill"
      /\ slot' = [slot EXCEPT ![c] = m] /\ due' = [due EXCEPT ![c] = TRUE]
      /\ UNCHANGED <<count, nvs, connected, sent, evicted, reloaded, lost, unsaved>>
      /\ \/ /\ m \in Critical /\ accepted' = accepted
            /\ task' = [task EXCEPT ![t].pc = "erase", ![t].after = "idle"]
         \/ /\ m \notin Critical /\ accepted' = accepted \cup {m}
            /\ task' = [task EXCEPT ![t] = Outside]
  BY DEF Fill, At, Leave
<1>2. TypeOK /\ task[t] \in Task /\ count \in 0..Size /\ Size \in Nat
  BY TaskTypes, SizeAssumption DEF Turn, TypeOK
<1>3. /\ count > 0 /\ c = count - 1 /\ m # NoMessage /\ ~task[t].changed
      /\ m \notin accepted \cup reloaded /\ ~Added(task[t]) /\ Top(task[t]) = c
  BY <1>1 DEF Turn, Locals, Novel, Adds, Added, InSave, Top
<1>4. c \in Slots /\ m \in Messages /\ \A i \in Slots : i < count => i < c \/ i = c
  BY <1>2, <1>3 DEF Slots, Task
<1>5. \A i \in Slots : slot'[i] = IF i = c THEN m ELSE slot[i]
  BY <1>1, <1>2, <1>4 DEF TypeOK
<1>6. PICK k \in Task :
        /\ task' = [task EXCEPT ![t] = k] /\ k.pc # "fill"
        /\ \/ /\ m \in Critical /\ accepted' = accepted
              /\ k.pc = "erase" /\ k.after = "idle" /\ k.item = m /\ ~k.changed
           \/ m \notin Critical /\ accepted' = accepted \cup {m} /\ k = Outside
  <2>1. CASE m \in Critical
    <3>1. /\ next \in Task /\ next.pc = "erase" /\ next.after = "idle" /\ next.item = m
          /\ next.changed = task[t].changed
      BY <1>2 DEF Task
    <3>2. task' = [task EXCEPT ![t] = next] /\ accepted' = accepted
      BY <1>1, <2>1
    <3> QED
      BY <1>3, <2>1, <3>1, <3>2
  <2>2. CASE m \notin Critical
    BY <1>1, <1>2, <2>2, OutsideFacts
  <2> QED
    BY <2>1, <2>2
<1> HIDE DEF next, m, c
<1>7. /\ task'[t] = k /\ task'[Other(t)] = Outside /\ task' \in [Tasks -> Task]
  BY <1>6, Moved
<1>8. TypeOK'
  <2>1. slot' \in [Slots -> Messages \cup {NoMessage}] /\ due' \in [Slots -> BOOLEAN]
    BY <1>1, <1>2, <1>4 DEF TypeOK
  <2>2. accepted' \subseteq Messages
    BY <1>2, <1>4, <1>6 DEF TypeOK
  <2> QED
    BY <1>1, <1>2, <1>7, <2>1, <2>2 DEF TypeOK
<1>9. Top(k)' = count
  BY <1>1, <1>6 DEF Top
<1>10. m \in Critical => Added(k) /\ ~MadeRoom(k) /\ ~Adds(k) /\ ~InLoop(k) /\ k.item = m
  BY <1>3, <1>6 DEF Added, MadeRoom, Adds, InLoop, InSave
<1>11. /\ Outside.pc = "idle" /\ Locals(Outside) /\ ~Adds(Outside) /\ ~MadeRoom(Outside)
       /\ ~Added(Outside)
  BY <1>2, OutsideFacts
<1>12. Locals(k)'
  <2>1. CASE m \in Critical
    BY <1>6, <1>10, <2>1 DEF Locals, Added, MadeRoom, Adds, InLoop, InSave
  <2>2. CASE m \notin Critical
    BY <1>1, <1>6, <1>11, <2>2 DEF Locals, Added, MadeRoom, Adds, InLoop, InSave
  <2> QED
    BY <2>1, <2>2
<1>13. Novel(k)'
  <2>1. CASE m \in Critical
    <3>1. c < count /\ slot'[c] = m
      BY <1>2, <1>3, <1>4, <1>5
    <3>2. m \notin accepted' \cup reloaded'
      BY <1>1, <1>3, <1>6, <2>1
    <3> QED
      BY <1>4, <1>9, <1>10, <2>1, <3>1, <3>2 DEF Novel
  <2>2. CASE m \notin Critical
    BY <1>6, <1>11, <2>2 DEF Novel, Added, MadeRoom, Adds, InSave
  <2> QED
    BY <2>1, <2>2
<1>14. m \in Critical \/ m \in accepted'
  BY <1>6
<1>15. accepted \subseteq accepted' /\ reloaded' = reloaded /\ sent' = sent /\ nvs' = nvs
       /\ unsaved' = unsaved /\ evicted' = evicted /\ lost' = lost /\ accepted' \subseteq accepted \cup {m}
  BY <1>1, <1>6
<1>16. Added(k)' <=> Added(k)
  BY DEF Added, InSave
<1>17. Known(k)'
  <2>1. ASSUME NEW i \in Slots, i < count
        PROVE  slot'[i] \in Messages /\ (slot'[i] \in accepted' \cup reloaded \/ (Added(k) /\ k.item = slot'[i]))
    <3>1. CASE i = c
      BY <1>4, <1>5, <1>10, <1>14, <3>1
    <3>2. CASE i # c
      BY <1>3, <1>4, <1>5, <1>15, <2>1, <3>2 DEF Turn, Known
    <3> QED
      BY <3>1, <3>2
  <2> QED
    BY <1>3, <1>9, <1>15, <1>16, <2>1 DEF Turn, Known
<1>18. Single(k)'
  <2>1. ASSUME NEW i \in Slots, i < c
        PROVE  slot[i] # m /\ slot[i] \in Messages
    BY <1>3, <2>1 DEF Turn, Known
  <2>2. ~(sent[m] > 0)
    BY <1>3, <1>4 DEF Turn, Known
  <2>3. \A i, j \in Slots :
          i < count /\ j < count /\ slot'[i] = slot'[j] /\ slot'[i] \notin reloaded => i = j
    BY <1>3, <1>4, <1>5, <2>1 DEF Turn, Single
  <2>4. ASSUME NEW i \in Slots, i < count, sent[slot'[i]] > 0, slot'[i] \notin reloaded
        PROVE  FALSE
    BY <1>1, <1>3, <1>4, <1>5, <2>2, <2>4 DEF Turn, Single
  <2>5. TwiceIsReloaded'
    BY <1>15 DEF Turn, Single, TwiceIsReloaded
  <2> QED
    BY <1>9, <1>15, <2>3, <2>4, <2>5 DEF Single
<1>19. Kept(k)'
  <2>1. ASSUME NEW i \in Slots, i < c
        PROVE  i < count /\ slot'[i] = slot[i]
    BY <1>2, <1>3, <1>4, <1>5, <2>1 DEF Slots
  <2>2. accepted' \cap Critical = accepted \cap Critical
    BY <1>6
  <2>3. \A l \in accepted \cap Critical :
           \/ sent[l] > 0 \/ l \in evicted \cup lost
           \/ \E i \in Slots : i < count /\ slot'[i] = l
    BY <1>3, <2>1 DEF Turn, Kept
  <2>4. ASSUME ~unsaved, NEW i \in Slots, i < count, slot'[i] \in Critical \cap accepted
        PROVE  \E n \in DOMAIN nvs : slot'[i] = nvs[n]
    BY <1>3, <1>4, <1>5, <2>4 DEF Turn, Kept
  <2> QED
    BY <1>9, <1>15, <2>2, <2>3, <2>4 DEF Kept
<1>20. Exact(k)'
  <2>1. SUFFICES ASSUME Clean(k)'
                 PROVE  /\ \A n \in DOMAIN nvs : \E i \in Slots : i < count /\ slot'[i] = nvs[n]
                        /\ \A i \in Slots : i < count /\ slot'[i] \in Critical =>
                              \E n \in DOMAIN nvs : slot'[i] = nvs[n]
    BY <1>9, <1>15 DEF Exact
  <2>2. m \notin Critical /\ Clean(task[t])
    BY <1>1, <1>3, <1>6, <1>15, <2>1 DEF Clean, InSave
  <2>3. ASSUME NEW n \in DOMAIN nvs
        PROVE  \E i \in Slots : i < count /\ slot'[i] = nvs[n]
    <3>1. PICK i \in Slots : i < c /\ slot[i] = nvs[n]
      BY <1>3, <2>2 DEF Turn, Exact
    <3>2. i < count /\ slot'[i] = slot[i]
      BY <1>2, <1>3, <1>4, <1>5, <3>1 DEF Slots
    <3> QED
      BY <3>1, <3>2
  <2>4. ASSUME NEW i \in Slots, i < count, slot'[i] \in Critical
        PROVE  \E n \in DOMAIN nvs : slot'[i] = nvs[n]
    BY <1>3, <1>4, <1>5, <2>2, <2>4 DEF Turn, Exact
  <2> QED
    BY <2>3, <2>4
<1> QED
  BY <1>7, <1>8, <1>12, <1>13, <1>17, <1>18, <1>19, <1>20 DEF Turn

LEMMA EraseStep ==
  ASSUME NEW t \in Tasks, Turn(t), Erase(t)
  PROVE  Turn(t)'
<1> DEFINE next == [task[t] EXCEPT !.pc = "write"]
<1>1. /\ task[t].pc = "erase" /\ nvs' = <<>> /\ unsaved' = TRUE
      /\ task' = [task EXCEPT ![t] = next]
      /\ UNCHANGED <<queue, connected, accepted, sent, evicted, reloaded, lost>>
  BY DEF Erase, At, Go
<1>2. /\ slot' = slot /\ due' = due /\ count' = count /\ connected' = connected
      /\ accepted' = accepted /\ sent' = sent /\ evicted' = evicted /\ reloaded' = reloaded
      /\ lost' = lost
  BY <1>1 DEF queue
<1>3. TypeOK /\ task[t] \in Task
  BY TaskTypes DEF Turn
<1>4. /\ next \in Task /\ next.pc = "write" /\ next.item = task[t].item
      /\ next.changed = task[t].changed /\ next.after = task[t].after
  BY <1>3 DEF Task
<1>5. PICK k \in Task :
        /\ task' = [task EXCEPT ![t] = k] /\ k.pc = "write" /\ k.item = task[t].item
        /\ k.changed = task[t].changed /\ k.after = task[t].after
  BY <1>1, <1>4
<1> HIDE DEF next
<1>6. /\ task'[t] = k /\ task'[Other(t)] = Outside /\ task' \in [Tasks -> Task]
  BY <1>5, Moved
<1>7. TypeOK'
  <2>1. nvs' \in BoundedSeq(Critical, Size)
    <3>1. <<>> \in Seq(Critical) /\ Len(<<>>) <= Size
      BY SizeAssumption
    <3> QED
      BY <1>1, <3>1, BoundedFacts
  <2> QED
    BY <1>1, <1>2, <1>3, <1>6, <2>1 DEF TypeOK
<1>8. /\ Top(k)' = count /\ Top(task[t]) = count /\ ~Adds(k) /\ ~InLoop(k)
      /\ Added(k) = Added(task[t]) /\ MadeRoom(k) = MadeRoom(task[t])
  BY <1>1, <1>2, <1>5 DEF Top, Adds, InLoop, Added, MadeRoom, InSave
<1>9. Locals(k)'
  BY <1>2, <1>5, <1>8 DEF Turn, Locals, Adds, InLoop, Added, MadeRoom, InSave
<1>10. Added(k)' = Added(k) /\ MadeRoom(k)' = MadeRoom(k) /\ Adds(k)' = Adds(k)
  BY DEF Adds, Added, MadeRoom, InSave
<1>11. Novel(k)'
  BY <1>2, <1>5, <1>8, <1>10 DEF Turn, Novel
<1>12. \A n : n \notin DOMAIN nvs'
  BY <1>1
<1>13. Known(k)'
  BY <1>2, <1>5, <1>8, <1>10, <1>12 DEF Turn, Known
<1>14. Single(k)'
  BY <1>1, <1>2, <1>8 DEF Turn, Single, TwiceIsReloaded
<1>15. Kept(k)' /\ Exact(k)'
  BY <1>1, <1>2, <1>8 DEF Turn, Kept, Exact, Clean
<1> QED
  BY <1>6, <1>7, <1>9, <1>11, <1>13, <1>14, <1>15 DEF Turn

(* The end of a save, that failed or went well.                            *)
LEMMA SaveStep ==
  ASSUME NEW t \in Tasks, Turn(t), OpenFails(t) \/ Write(t)
  PROVE  Turn(t)'
<1> DEFINE m == task[t].item
           next == [task[t] EXCEPT !.pc = "claim"]
<1>1. /\ InSave(task[t]) /\ AfterSave(t)
      /\ UNCHANGED <<queue, connected, sent, evicted, reloaded, lost>>
      /\ (nvs' = nvs /\ unsaved' = TRUE) \/ (nvs' = Saved /\ unsaved' = FALSE)
  BY DEF OpenFails, Write, At, InSave
<1>2. /\ slot' = slot /\ due' = due /\ count' = count /\ connected' = connected
      /\ sent' = sent /\ evicted' = evicted /\ reloaded' = reloaded /\ lost' = lost
  BY <1>1 DEF queue
<1>3. TypeOK /\ task[t] \in Task
  BY TaskTypes DEF Turn
<1>4. /\ Top(task[t]) = count /\ task[t].after \in {"claim", "idle"}
      /\ m \in Messages \cup {NoMessage}
  BY <1>1, <1>3 DEF Top, InSave, Task
<1>5. PICK k \in Task :
        /\ task' = [task EXCEPT ![t] = k]
        /\ \/ /\ MadeRoom(task[t]) /\ ~Added(task[t]) /\ accepted' = accepted
              /\ k.pc = "claim" /\ k.item = m /\ k.changed = task[t].changed
           \/ /\ Added(task[t]) /\ accepted' = accepted \cup {m} /\ k = Outside
           \/ /\ ~Added(task[t]) /\ ~MadeRoom(task[t]) /\ accepted' = accepted /\ k = Outside
  <2>1. CASE task[t].after = "claim"
    <3>1. /\ next \in Task /\ next.pc = "claim" /\ next.item = task[t].item
          /\ next.changed = task[t].changed
      BY <1>3 DEF Task
    <3>2. task' = [task EXCEPT ![t] = next] /\ accepted' = accepted
      BY <1>1, <2>1 DEF AfterSave, Go
    <3>3. MadeRoom(task[t]) /\ ~Added(task[t])
      BY <1>1, <2>1 DEF MadeRoom, Added
    <3> QED
      BY <3>1, <3>2, <3>3
  <2>2. CASE task[t].after # "claim"
    <3>1. task' = [task EXCEPT ![t] = Outside] /\ accepted' = accepted \cup ({m} \ {NoMessage})
      BY <1>1, <2>2 DEF AfterSave, Leave
    <3>2. Outside \in Task /\ ~MadeRoom(task[t]) /\ (Added(task[t]) <=> m # NoMessage)
      BY <1>1, <1>3, <1>4, <2>2, OutsideFacts DEF MadeRoom, Added
    <3> QED
      BY <3>1, <3>2
  <2> QED
    BY <2>1, <2>2
<1> HIDE DEF next
<1>6. /\ task'[t] = k /\ task'[Other(t)] = Outside /\ task' \in [Tasks -> Task]
  BY <1>5, Moved
<1>7. Added(task[t]) => /\ m \in Critical /\ m \in Messages /\ m # NoMessage
                        /\ m \notin accepted \cup reloaded
                        /\ \E i \in Slots : i < count /\ slot[i] = m
  BY <1>4 DEF Turn, Novel, Added
<1>8. /\ Outside.pc = "idle" /\ Locals(Outside) /\ ~Adds(Outside) /\ ~MadeRoom(Outside)
      /\ ~Added(Outside) /\ ~Outside.changed
  BY <1>3, OutsideFacts
<1> HIDE DEF m
<1>9. /\ nvs' \in BoundedSeq(Critical, Size) /\ unsaved' \in BOOLEAN
      /\ \A n \in DOMAIN nvs' :
            nvs'[n] \in accepted \cup reloaded \/ (Added(task[t]) /\ nvs'[n] = m)
      /\ ~unsaved' =>
            /\ \A n \in DOMAIN nvs' : \E i \in Slots : i < count /\ slot[i] = nvs'[n]
            /\ \A i \in Slots : i < count /\ slot[i] \in Critical =>
                  \E n \in DOMAIN nvs' : slot[i] = nvs'[n]
  <2>1. CASE nvs' = nvs /\ unsaved' = TRUE
    BY <1>3, <2>1 DEF Turn, Known, TypeOK
  <2>2. CASE nvs' = Saved /\ unsaved' = FALSE
    <3>1. slot \in [Slots -> Messages \cup {NoMessage}]
      BY <1>3 DEF TypeOK
    <3>2. /\ Saved \in BoundedSeq(Critical, Size)
          /\ \A n \in DOMAIN Saved : \E i \in Slots : i < count /\ slot[i] = Saved[n]
          /\ \A i \in Slots : i < count /\ slot[i] \in Critical =>
                \E n \in DOMAIN Saved : slot[i] = Saved[n]
      BY <3>1, SavedFacts
    <3>3. \A i \in Slots : i < count =>
            slot[i] \in accepted \cup reloaded \/ (Added(task[t]) /\ slot[i] = m)
      BY <1>4 DEF Turn, Known, m
    <3> QED
      BY <2>2, <3>2, <3>3
  <2> QED
    BY <1>1, <2>1, <2>2
<1>10. accepted \subseteq accepted' /\ (Added(task[t]) => m \in accepted')
       /\ accepted' \subseteq accepted \cup {m} /\ (~Added(task[t]) => accepted' = accepted)
  BY <1>5
<1>11. TypeOK'
  <2>1. accepted' \subseteq Messages
    BY <1>3, <1>5, <1>7 DEF TypeOK
  <2> QED
    BY <1>2, <1>3, <1>6, <1>9, <2>1 DEF TypeOK
<1>12. Top(k)' = count
  BY <1>2, <1>5, <1>8 DEF Top
<1>13. Locals(k)' /\ Novel(k)'
  <2>1. CASE k = Outside
    BY <1>8, <2>1 DEF Locals, Novel, Adds, Added, MadeRoom, InSave, InLoop
  <2>2. CASE k # Outside
    <3>1. /\ MadeRoom(task[t]) /\ accepted' = accepted
          /\ k.pc = "claim" /\ k.item = m /\ k.changed = task[t].changed
      BY <1>5, <2>2
    <3>2. /\ count < Size /\ m # NoMessage /\ ~task[t].changed
          /\ m \notin accepted \cup reloaded
      BY <3>1 DEF Turn, Locals, Novel, m
    <3> QED
      BY <1>2, <3>1, <3>2 DEF Locals, Novel, Adds, Added, MadeRoom, InSave, InLoop
  <2> QED
    BY <2>1, <2>2
<1>14. Known(k)'
  BY <1>2, <1>4, <1>9, <1>10, <1>12 DEF Turn, Known, m
<1>15. Single(k)'
  <2>1. task[t].pc # "sent"
    BY <1>1 DEF InSave
  <2> QED
    BY <1>2, <1>4, <1>12, <2>1 DEF Turn, Single, TwiceIsReloaded
<1>16. Kept(k)'
  <2>1. ASSUME NEW l \in accepted' \cap Critical
        PROVE  \/ sent[l] > 0 \/ l \in evicted \cup lost
               \/ \E i \in Slots : i < count /\ slot[i] = l
    BY <1>4, <1>5, <1>7 DEF Turn, Kept
  <2> QED
    BY <1>2, <1>9, <1>12, <2>1 DEF Kept
<1>17. Exact(k)'
  BY <1>2, <1>9, <1>12 DEF Exact, Clean
<1> QED
  BY <1>6, <1>11, <1>13, <1>14, <1>15, <1>16, <1>17 DEF Turn

(* The connection and the clock, which change nothing of the queue.        *)
LEMMA QuietSteps ==
  ASSUME NEW t \in Tasks, Turn(t), Disconnect \/ UNCHANGED vars \/ \E i \in Slots : BackoffEnds(i)
  PROVE  Turn(t)'
<1>1. /\ slot' = slot /\ count' = count /\ nvs' = nvs /\ task' = task /\ accepted' = accepted
      /\ sent' = sent /\ evicted' = evicted /\ reloaded' = reloaded
      /\ lost' = lost /\ unsaved' = unsaved
  BY DEF Disconnect, BackoffEnds, vars, queue, history
<1>2. connected' \in BOOLEAN /\ due' \in [Slots -> BOOLEAN]
  BY DEF Turn, TypeOK, Disconnect, BackoffEnds, vars, queue
<1>3. TypeOK'
  BY <1>1, <1>2 DEF Turn, TypeOK
<1>4. Locals(task[t])'
  BY <1>1 DEF Turn, Locals, InLoop, InSave, Adds, MadeRoom, Added
<1>5. Novel(task[t])' /\ Known(task[t])'
  BY <1>1 DEF Turn, Novel, Known, Top, Adds, MadeRoom, Added, InSave
<1>6. Single(task[t])' /\ Kept(task[t])'
  BY <1>1 DEF Turn, Single, Kept, Top, TwiceIsReloaded
<1>7. Exact(task[t])'
  BY <1>1 DEF Turn, Exact, Clean, Top, InSave
<1> QED
  BY <1>1, <1>3, <1>4, <1>5, <1>6, <1>7 DEF Turn

(* What NVS holds is loaded behind what is queued.                         *)
LEMMA RestartStep ==
  ASSUME NEW t \in Tasks, Turn(t), ClientRestart
  PROVE  Turn(t)'
<1> DEFINE n == Loaded(count)
<1>1. TypeOK
  BY DEF Turn
<1>2. /\ nvs \in Seq(Critical) /\ Len(nvs) \in Nat /\ count \in 0..Size /\ Size \in Nat
  BY <1>1, BoundedFacts, SizeAssumption DEF TypeOK
<1>3. n \in 0..Len(nvs) /\ count + n \in 0..Size
  BY <1>2 DEF Loaded
<1>4. /\ connected' = FALSE /\ count' = count + n
      /\ slot' = [i \in Slots |-> IF i \in count..(count + n - 1) THEN nvs[i - count + 1] ELSE slot[i]]
      /\ due' = [i \in Slots |-> i \in count..(count + n - 1) \/ due[i]]
      /\ reloaded' = reloaded \cup {nvs[k] : k \in 1..n}
      /\ nvs' = nvs /\ task' = task /\ accepted' = accepted /\ sent' = sent
      /\ evicted' = evicted /\ lost' = lost /\ unsaved' = unsaved
  BY DEF ClientRestart, Load
<1> HIDE DEF n
<1>5. ASSUME NEW i \in Slots
      PROVE  /\ i < count => slot'[i] = slot[i] /\ i < count'
             /\ i < count' /\ ~(i < count) =>
                   /\ slot'[i] \in Critical /\ slot'[i] \in reloaded'
                   /\ \E k \in DOMAIN nvs : slot'[i] = nvs[k]
  <2>1. i \in Nat
    BY <1>2 DEF Slots
  <2>2. i < count => slot'[i] = slot[i] /\ i < count'
    BY <1>2, <1>3, <1>4, <2>1
  <2>3. CASE i < count' /\ ~(i < count)
    <3>1. i - count + 1 \in 1..n /\ slot'[i] = nvs[i - count + 1]
      BY <1>2, <1>3, <1>4, <2>1, <2>3
    <3>2. PICK k \in 1..n : slot'[i] = nvs[k]
      BY <3>1
    <3>3. k \in DOMAIN nvs /\ nvs[k] \in Critical
      BY <1>2, <1>3
    <3>4. nvs[k] \in reloaded'
      BY <1>4
    <3> QED
      BY <2>3, <3>2, <3>3, <3>4, <2>2
  <2> QED
    BY <2>2, <2>3
<1>6. task[t] = Outside
  BY DEF ClientRestart, Turn, Locals
<1>7. /\ Outside.pc = "idle" /\ Locals(Outside) /\ ~Adds(Outside) /\ ~MadeRoom(Outside)
      /\ ~Added(Outside) /\ Top(Outside) = count /\ Top(Outside)' = count'
  BY <1>1, OutsideFacts DEF Top
<1>8. TypeOK'
  <2>1. reloaded' \subseteq Critical
    BY <1>1, <1>2, <1>3, <1>4 DEF TypeOK
  <2>2. slot' \in [Slots -> Messages \cup {NoMessage}]
    <3>1. \A i \in Slots : slot'[i] \in Messages \cup {NoMessage}
      <4>1. ASSUME NEW i \in Slots
            PROVE  slot'[i] \in Messages \cup {NoMessage}
        <5>1. i \in Nat
          BY <1>2 DEF Slots
        <5>2. CASE i \in count..(count + n - 1)
          <6>1. i < count' /\ ~(i < count)
            BY <1>2, <1>3, <1>4, <5>1, <5>2
          <6> QED
            BY <1>5, <6>1, MessagesAssumption
        <5>3. CASE i \notin count..(count + n - 1)
          BY <1>1, <1>4, <5>3 DEF TypeOK
        <5> QED
          BY <5>2, <5>3
      <4> QED
        BY <4>1
    <3> QED
      BY <1>4, <3>1
  <2>3. due' \in [Slots -> BOOLEAN]
    BY <1>1, <1>4 DEF TypeOK
  <2>4. count' \in 0..Size /\ connected' \in BOOLEAN
    BY <1>3, <1>4
  <2> QED
    BY <1>1, <1>4, <2>1, <2>2, <2>3, <2>4 DEF TypeOK
<1>9. Locals(Outside)' /\ Novel(Outside)'
  BY <1>7 DEF Locals, Novel, Adds, Added, MadeRoom, InSave, InLoop
<1>10. reloaded \subseteq reloaded'
  BY <1>4
<1>11. Known(Outside)'
  <2>1. ASSUME NEW i \in Slots, i < count'
        PROVE  slot'[i] \in Messages /\ slot'[i] \in accepted \cup reloaded'
    <3>1. CASE i < count
      BY <1>5, <1>6, <1>7, <1>10, <3>1 DEF Turn, Known
    <3>2. CASE ~(i < count)
      BY <1>5, <2>1, <3>2, MessagesAssumption
    <3> QED
      BY <3>1, <3>2
  <2> QED
    BY <1>4, <1>6, <1>7, <1>10, <2>1 DEF Turn, Known
<1>12. Single(Outside)'
  <2>1. ASSUME NEW i \in Slots, NEW j \in Slots, i < count', j < count',
               slot'[i] = slot'[j], slot'[i] \notin reloaded'
        PROVE  i = j
    <3>1. i < count /\ j < count
      BY <1>5, <2>1
    <3>2. slot[i] = slot[j] /\ slot[i] \notin reloaded
      BY <1>5, <1>10, <2>1, <3>1
    <3> QED
      BY <1>6, <1>7, <3>1, <3>2 DEF Turn, Single
  <2>2. ASSUME NEW i \in Slots, i < count', sent[slot'[i]] > 0, slot'[i] \notin reloaded'
        PROVE  FALSE
    <3>1. i < count
      BY <1>5, <2>2
    <3>2. sent[slot[i]] > 0 /\ slot[i] \notin reloaded
      BY <1>5, <1>10, <2>2, <3>1
    <3> QED
      BY <1>6, <1>7, <3>1, <3>2 DEF Turn, Single
  <2>3. TwiceIsReloaded'
    BY <1>4, <1>10 DEF Turn, Single, TwiceIsReloaded
  <2> QED
    BY <1>4, <1>7, <2>1, <2>2, <2>3 DEF Single
<1>13. Kept(Outside)'
  <2>1. \A l \in accepted \cap Critical :
           \/ sent[l] > 0 \/ l \in evicted \cup lost
           \/ \E i \in Slots : i < count' /\ slot'[i] = l
    BY <1>5, <1>6, <1>7 DEF Turn, Kept
  <2>2. ASSUME ~unsaved, NEW i \in Slots, i < count', slot'[i] \in Critical \cap accepted
        PROVE  \E k \in DOMAIN nvs : slot'[i] = nvs[k]
    BY <1>5, <1>6, <1>7, <2>2 DEF Turn, Kept
  <2> QED
    BY <1>4, <1>7, <2>1, <2>2 DEF Kept
<1>14. Exact(Outside)'
  <2>1. Clean(Outside)' => Clean(Outside)
    BY <1>4 DEF Clean, InSave
  <2>2. ASSUME Clean(Outside), NEW k \in DOMAIN nvs
        PROVE  \E i \in Slots : i < count' /\ slot'[i] = nvs[k]
    <3>1. PICK i \in Slots : i < count /\ slot[i] = nvs[k]
      BY <1>6, <1>7, <2>2 DEF Turn, Exact
    <3> QED
      BY <1>5, <3>1
  <2>3. ASSUME Clean(Outside), NEW i \in Slots, i < count', slot'[i] \in Critical
        PROVE  \E k \in DOMAIN nvs : slot'[i] = nvs[k]
    BY <1>5, <1>6, <1>7, <2>3 DEF Turn, Exact
  <2> QED
    BY <1>4, <1>7, <2>1, <2>2, <2>3 DEF Exact
<1> QED
  BY <1>4, <1>6, <1>8, <1>9, <1>11, <1>12, <1>13, <1>14 DEF Turn

(* What NVS holds is all that is queued after a reboot.                    *)
LEMMA RebootStep ==
  ASSUME NEW t \in Tasks, Turn(t), Reboot
  PROVE  Turn(t)'
<1> DEFINE forgot == {m \in Queued \cap accepted \cap Critical :
                        unsaved /\ sent[m] = 0 /\ m \notin ToSet(nvs)}
<1>1. TypeOK
  BY DEF Turn
<1>2. /\ nvs \in Seq(Critical) /\ Len(nvs) \in Nat /\ count \in 0..Size /\ Size \in Nat
      /\ Len(nvs) \in 0..Size /\ nvs \in BoundedSeq(Critical, Size)
  BY <1>1, BoundedFacts, SizeAssumption DEF TypeOK
<1>3. /\ connected' = FALSE /\ count' = Len(nvs)
      /\ task' = [u \in Tasks |-> Outside]
      /\ slot' = [i \in Slots |-> IF i < Len(nvs) THEN nvs[i + 1] ELSE NoMessage]
      /\ due' = [i \in Slots |-> i < Len(nvs)]
      /\ reloaded' = reloaded \cup ToSet(nvs) /\ lost' = lost \cup forgot
      /\ nvs' = nvs /\ accepted' = accepted /\ sent' = sent
      /\ evicted' = evicted /\ unsaved' = unsaved
  BY DEF Reboot
<1>4. \A k \in DOMAIN nvs : nvs[k] \in Critical /\ nvs[k] \in ToSet(nvs)
  BY <1>2 DEF ToSet
<1>5. ASSUME NEW i \in Slots, i < count'
      PROVE  \E k \in DOMAIN nvs : slot'[i] = nvs[k]
  <2>1. i + 1 \in DOMAIN nvs /\ slot'[i] = nvs[i + 1]
    BY <1>2, <1>3, <1>5 DEF Slots
  <2> QED
    BY <2>1
<1>6. ASSUME NEW k \in DOMAIN nvs
      PROVE  \E i \in Slots : i < count' /\ slot'[i] = nvs[k]
  <2>1. k - 1 \in Slots /\ k - 1 < count' /\ slot'[k - 1] = nvs[k - 1 + 1] /\ k - 1 + 1 = k
    BY <1>2, <1>3 DEF Slots
  <2> QED
    BY <2>1
<1>7. /\ Outside \in Task /\ Outside.pc = "idle" /\ Locals(Outside) /\ ~Adds(Outside)
      /\ ~MadeRoom(Outside) /\ ~Added(Outside) /\ Top(Outside)' = count'
  BY <1>1, OutsideFacts DEF Top
<1>8. Other(t) \in Tasks
  BY <1>1, TaskTypes
<1>9. task'[t] = Outside /\ task'[Other(t)] = Outside
  BY <1>3, <1>8
<1> HIDE DEF forgot
<1>10. TypeOK'
  <2>1. reloaded' \subseteq Critical
    BY <1>1, <1>3, <1>4 DEF TypeOK, ToSet
  <2>2. lost' \subseteq Critical
    BY <1>1, <1>3 DEF TypeOK, forgot
  <2>3. slot' \in [Slots -> Messages \cup {NoMessage}]
    <3>1. ASSUME NEW i \in Slots
          PROVE  slot'[i] \in Messages \cup {NoMessage}
      <4>1. CASE i < Len(nvs)
        BY <1>3, <1>4, <1>5, <4>1, MessagesAssumption
      <4>2. CASE ~(i < Len(nvs))
        BY <1>3, <4>2
      <4> QED
        BY <4>1, <4>2
    <3>2. slot' = [i \in Slots |-> slot'[i]]
      BY <1>3
    <3> QED
      BY <3>1, <3>2, Zenon
  <2>4. count' \in 0..Size /\ connected' \in BOOLEAN
    BY <1>2, <1>3
  <2>5. due' \in [Slots -> BOOLEAN]
    <3>1. \A i \in Slots : (i < Len(nvs)) \in BOOLEAN
      OBVIOUS
    <3>2. due' = [i \in Slots |-> i < Len(nvs)]
      BY <1>3
    <3> QED
      BY <3>1, <3>2, Zenon
  <2>6. task' \in [Tasks -> Task]
    BY <1>3, <1>7
  <2>7. /\ sent' \in [Messages -> 0..2] /\ accepted' \subseteq Messages /\ evicted' \subseteq Critical
        /\ unsaved' \in BOOLEAN
    BY <1>1, <1>3 DEF TypeOK
  <2> QED
    BY <1>2, <1>3, <2>1, <2>2, <2>3, <2>4, <2>6, <2>7, <2>5 DEF TypeOK
<1>11. Locals(Outside)' /\ Novel(Outside)'
  BY <1>7 DEF Locals, Novel, Adds, Added, MadeRoom, InSave, InLoop
<1>12. Known(Outside)'
  <2>1. \A i \in Slots : i < count' => slot'[i] \in Critical /\ slot'[i] \in reloaded'
    BY <1>3, <1>4, <1>5
  <2>2. \A k \in DOMAIN nvs : nvs[k] \in reloaded'
    BY <1>3, <1>4
  <2> QED
    BY <1>3, <1>7, <2>1, <2>2, MessagesAssumption DEF Turn, Known
<1>13. Single(Outside)'
  <2>1. \A i \in Slots : i < count' => slot'[i] \in reloaded'
    BY <1>3, <1>4, <1>5
  <2>2. TwiceIsReloaded'
    BY <1>3 DEF Turn, Single, TwiceIsReloaded
  <2> QED
    BY <1>7, <2>1, <2>2 DEF Single
<1>14. Kept(Outside)'
  <2>1. ASSUME NEW m \in accepted \cap Critical
        PROVE  \/ sent[m] > 0 \/ m \in evicted \cup lost'
               \/ \E i \in Slots : i < count' /\ slot'[i] = m
    <3>1. SUFFICES ASSUME ~(sent[m] > 0), m \notin evicted \cup lost
                   PROVE  \/ m \in lost'
                          \/ \E i \in Slots : i < count' /\ slot'[i] = m
      BY <1>3
    <3>2. PICK i \in Slots : i < Top(task[t]) /\ slot[i] = m
      BY <3>1 DEF Turn, Kept
    <3>3. i < count
      BY <1>2, <3>2 DEF Top, Slots
    <3>4. m \in Queued
      BY <3>2, <3>3 DEF Queued
    <3>5. sent[m] = 0
      BY <1>1, <2>1, <3>1 DEF TypeOK
    <3>6. CASE \E k \in DOMAIN nvs : nvs[k] = m
      BY <1>6, <3>6
    <3>7. CASE unsaved /\ ~ \E k \in DOMAIN nvs : nvs[k] = m
      <4>1. m \in forgot
        BY <3>4, <3>5, <3>7 DEF forgot, ToSet
      <4> QED
        BY <1>3, <4>1
    <3>8. ~unsaved => \E k \in DOMAIN nvs : nvs[k] = m
      BY <3>2 DEF Turn, Kept
    <3> QED
      BY <3>6, <3>7, <3>8
  <2> QED
    BY <1>3, <1>5, <1>7, <2>1 DEF Kept
<1>15. Exact(Outside)'
  BY <1>3, <1>5, <1>6, <1>7 DEF Exact
<1> QED
  BY <1>9, <1>10, <1>11, <1>12, <1>13, <1>14, <1>15 DEF Turn

(* The task that acts is the one whose turn it is.                         *)
LEMMA TakesTurn ==
  ASSUME Exclusive, NEW t \in Tasks, Turn(t), NEW u \in Tasks, MayRun(u)
  PROVE  Turn(u)
<1>1. CASE u = t
  BY <1>1
<1>2. CASE u # t
  <2>1. u = Other(t) /\ t = Other(u)
    BY <1>2 DEF Other, Tasks
  <2>2. task[t] = Outside /\ task[u] = Outside
    BY <2>1 DEF MayRun, Turn, Locals
  <2> QED
    BY <2>1, <2>2 DEF Turn
<1> QED
  BY <1>1, <1>2

LEMMA QueueInit == Init => QueueInv
<1> SUFFICES ASSUME Init
             PROVE  Turn("main")
  BY DEF QueueInv, Tasks
<1>1. TypeOK
  <2>1. nvs \in BoundedSeq(Critical, Size)
    <3>1. <<>> \in Seq(Critical) /\ Len(<<>>) <= Size
      BY SizeAssumption
    <3> QED
      BY <3>1, BoundedFacts DEF Init
  <2>2. Outside \in Task
    BY SizeAssumption DEF Outside, Task
  <2>3. slot \in [Slots -> Messages \cup {NoMessage}]
    <3>1. NoMessage \in Messages \cup {NoMessage}
      OBVIOUS
    <3> QED
      BY <3>1, Zenon DEF Init
  <2>4. count = 0 /\ count \in 0..Size
    BY SizeAssumption DEF Init
  <2>5. connected \in BOOLEAN
    BY Zenon DEF Init
  <2>6. due \in [Slots -> BOOLEAN]
    BY Zenon DEF Init
  <2>7. task \in [Tasks -> Task] /\ sent \in [Messages -> 0..2]
    BY <2>2 DEF Init
  <2>8. /\ accepted \subseteq Messages /\ evicted \subseteq Critical
        /\ reloaded \subseteq Critical /\ lost \subseteq Critical
        /\ unsaved \in BOOLEAN
    BY DEF Init
  <2> QED
    BY <2>1, <2>3, <2>7, <2>8, <2>4, <2>6, <2>5 DEF TypeOK
<1>2. task["main"] = Outside /\ task[Other("main")] = Outside
  BY DEF Init, Other, Tasks
<1>3. /\ Outside.pc = "idle" /\ Locals(Outside) /\ ~Adds(Outside) /\ ~MadeRoom(Outside)
      /\ ~Added(Outside) /\ Top(Outside) = 0
  BY <1>1, OutsideFacts DEF Top, Init
<1>4. /\ nvs = <<>> /\ accepted = {} /\ unsaved = FALSE /\ \A m \in Messages : sent[m] = 0
      /\ \A i \in Slots : ~(i < 0)
  BY SizeAssumption DEF Init, Slots
<1>5. \A n : n \notin DOMAIN nvs
  BY <1>4
<1>6. Novel(Outside) /\ Known(Outside)
  BY <1>3, <1>4, <1>5 DEF Novel, Known
<1>7. Single(Outside) /\ Kept(Outside) /\ Exact(Outside)
  BY <1>3, <1>4, <1>5 DEF Single, Kept, Exact, TwiceIsReloaded
<1> QED
  BY <1>1, <1>2, <1>3, <1>6, <1>7 DEF Turn

LEMMA QueueStep == Exclusive /\ QueueInv /\ [Next]_vars => QueueInv'
<1> SUFFICES ASSUME Exclusive, NEW t \in Tasks, Turn(t), [Next]_vars
             PROVE  \E u \in Tasks : Turn(u)'
  BY DEF QueueInv
<1>1. ASSUME NEW u \in Tasks, Work(u)
      PROVE  Turn(u)'
  <2>1. MayRun(u)
    BY <1>1
    DEF Work, PublishAtOnce, PublishRefused, HasRoom, MakeRoom, NoRoom, Claim, Fill,
                OpenFails, Erase, Write, Tick, Scan, TryAccepted, TryRefused, Sent, Failed, At
  <2>2. Turn(u)
    BY <2>1, TakesTurn
  <2> QED
    BY <1>1, <2>2, PublishAtOnceStep, LookSteps, MakeRoomStep, NoRoomStep,
       ClaimStep, FillStep,
       EraseStep, SaveStep, TickStep, ScanStep, TryAcceptedStep, SentStep, FailedStep
    DEF Work
<1>2. ASSUME NEW u \in Tasks, NEW m \in Messages, Offer(u, m)
      PROVE  Turn(u)'
  <2>1. MayRun(u)
    BY <1>2 DEF Offer, At
  <2>2. Turn(u)
    BY <2>1, TakesTurn
  <2> QED
    BY <1>2, <2>2, OfferStep
<1>3. ASSUME Connect
      PROVE  Turn("mqtt")'
  <2>1. "mqtt" \in Tasks /\ MayRun("mqtt")
    BY <1>3 DEF Connect, At, Tasks
  <2>2. Turn("mqtt")
    BY <2>1, TakesTurn
  <2> QED
    BY <1>3, <2>2, ConnectStep
<1>4. "mqtt" \in Tasks
  BY DEF Tasks
<1> QED
  BY <1>1, <1>2, <1>3, <1>4, QuietSteps, RestartStep, RebootStep DEF Next

LEMMA QueuePromises == QueueInv => TypeOK /\ CriticalKept /\ SavedOnce
<1> SUFFICES ASSUME NEW t \in Tasks, Turn(t)
             PROVE  TypeOK /\ CriticalKept /\ SavedOnce
  BY DEF QueueInv
<1>1. TypeOK
  BY DEF Turn
<1>2. Top(task[t]) = count \/ Top(task[t]) = count - 1
  BY DEF Top
<1>3. \A i \in Slots : i < Top(task[t]) => i < count
  BY <1>1, <1>2, SizeAssumption DEF TypeOK, Slots
<1>4. CriticalKept
  BY <1>3 DEF Turn, Kept, CriticalKept, Queued
<1>5. SavedIsQueued
  <2>1. SUFFICES ASSUME ~unsaved, \A u \in Tasks : task[u].pc = "idle"
                 PROVE  ToSet(nvs) = Queued \cap Critical
    BY DEF SavedIsQueued
  <2>2. Clean(task[t]) /\ Top(task[t]) = count
    BY <1>1, <2>1, OutsideFacts DEF Clean, InSave, Top, Turn, Locals
  <2>3. \A n \in DOMAIN nvs : nvs[n] \in Critical
    BY <1>1, BoundedFacts DEF TypeOK
  <2>4. \A n \in DOMAIN nvs : \E i \in Slots : i < count /\ slot[i] = nvs[n]
    BY <2>2 DEF Turn, Exact
  <2>5. \A i \in Slots : i < count /\ slot[i] \in Critical => \E n \in DOMAIN nvs : slot[i] = nvs[n]
    BY <2>2 DEF Turn, Exact
  <2>6. ToSet(nvs) \subseteq Queued \cap Critical
    BY <2>3, <2>4 DEF ToSet, Queued
  <2>7. Queued \cap Critical \subseteq ToSet(nvs)
    BY <2>5 DEF ToSet, Queued
  <2> QED
    BY <2>6, <2>7
<1> QED
  BY <1>1, <1>4, <1>5 DEF SavedOnce, Turn, Single

----------------------------------------------------------------------------
(* The client: each of the two keeps its invariant whatever the other does *)
(* and whichever of them moves.                                            *)
ClientInv == SessionInv /\ (Exclusive => QueueInv)

LEMMA ClientStarts == ClientInit => ClientInv
BY SessionInit, QueueInit DEF ClientInit, ClientInv

LEMMA ClientStep == ClientInv /\ [ClientNext]_allVars => ClientInv'
<1> SUFFICES ASSUME ClientInv, [ClientNext]_allVars
             PROVE  ClientInv'
  OBVIOUS
<1>1. [S!Next]_link /\ [Next]_vars
  BY DEF ClientNext, Outbound, Inbound, allVars
<1>2. SessionInv'
  BY <1>1, SessionStep DEF ClientInv
<1>3. Exclusive => QueueInv'
  BY <1>1, QueueStep DEF ClientInv
<1> QED
  BY <1>2, <1>3 DEF ClientInv

THEOREM ClientInductive == ClientSpec => []ClientInv
BY ClientStarts, ClientStep, PTL DEF ClientSpec

(* Whatever the links, the broker and the resets do, and in whichever step *)
(* of setup() or of the CONNECTED handler: the retained "online" is only   *)
(* there in a session or until the broker has its will, every topic that   *)
(* setup() is done with is subscribed to, and every session that           *)
(* subscribed to the firmware topic was sent the retained dispatch.        *)
THEOREM Honest == ClientSpec => []SessionHonest
<1>1. ClientInv => SessionHonest
  BY SessionPromises DEF ClientInv
<1> QED
  BY ClientInductive, <1>1, PTL

(* Where the queue's code runs in one task at a time, as on the Arduino:   *)
(* an accepted critical message is sent, queued, dropped from a queue full *)
(* of critical messages, or forgotten by a reboot before it was saved; for *)
(* any number of messages, any size of the queue and any sequence of       *)
(* refusals, failed saves, restarts and reboots.                           *)
THEOREM CriticalStays == Exclusive => (ClientSpec => []CriticalKept)
<1> SUFFICES ASSUME Exclusive
             PROVE  ClientSpec => []CriticalKept
  OBVIOUS
<1>1. ClientInv => CriticalKept
  BY QueuePromises DEF ClientInv
<1> QED
  BY ClientInductive, <1>1, PTL

(* There NVS holds what is still to be sent, and only a message reloaded   *)
(* from it is sent twice.                                                  *)
THEOREM SentOnce == Exclusive => (ClientSpec => []SavedOnce)
<1> SUFFICES ASSUME Exclusive
             PROVE  ClientSpec => []SavedOnce
  OBVIOUS
<1>1. ClientInv => SavedOnce
  BY QueuePromises DEF ClientInv
<1> QED
  BY ClientInductive, <1>1, PTL

(* And there no task's index leaves the queue, nor the count its array.    *)
THEOREM ClientTyped == Exclusive => (ClientSpec => []ClientTypeOK)
<1> SUFFICES ASSUME Exclusive
             PROVE  ClientSpec => []ClientTypeOK
  OBVIOUS
<1>1. ClientInv => ClientTypeOK
  BY QueuePromises DEF ClientInv, SessionInv, ClientTypeOK
<1> QED
  BY ClientInductive, <1>1, PTL

=============================================================================

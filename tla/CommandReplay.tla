--------------------------- MODULE CommandReplay ---------------------------
(***************************************************************************)
(* The replay cache behind signed commands: a ring of the last accepted    *)
(* command_id and nonce pairs, in RAM and in one NVS string.  Both builds  *)
(* have it: esp32c6-lock/main/command_validation.c (target "idf") and      *)
(* src/security/command_validation.cpp (target "arduino"); they differ in  *)
(* how the NVS string behaves when the ring does not fit in it.            *)
(*                                                                         *)
(* The broker or the server may deliver a command any number of times, in  *)
(* any order, and the device may restart between any two steps of handling *)
(* one.  Signatures, claims and the fields of the envelope are not looked  *)
(* into: a Command here is one that passes those checks.                   *)
(***************************************************************************)
EXTENDS Integers

CONSTANTS
    Commands,   \* records with an id and a nonce; two may share either
    Challenged, \* the commands of the server-challenge flow
    ExpiresAt,  \* when each expires
    MaxTime,    \* bound on the server's time
    Blank,      \* the empty string
    CacheSize,  \* 16 in the code
    Blob,       \* bytes of the NVS string, its terminator included: 1024
    Sizes       \* the lengths of ids and nonces to consider

Targets == {"idf", "arduino"}
Slots == 0..(CacheSize - 1)
Ids == {c.id : c \in Commands}
Nonces == {c.nonce : c \in Commands}
Entries == [id : Ids \cup {Blank}, nonce : Nonces \cup {Blank}]
NoEntry == [id |-> Blank, nonce |-> Blank]

ASSUME CacheSizeAssumption == CacheSize \in Nat \ {0}
ASSUME BlobAssumption      == Blob \in Nat
ASSUME SizesAssumption     == Sizes \subseteq [id : Nat \ {0}, nonce : Nat \ {0}]
ASSUME CommandsAssumption  ==
    /\ \A c \in Commands : c = [id |-> c.id, nonce |-> c.nonce]
    /\ Blank \notin Ids \cup Nonces
    /\ Challenged \subseteq Commands
    /\ ExpiresAt \in [Commands -> Nat] /\ MaxTime \in Nat

VARIABLES
    target,     \* which build this is
    size,       \* how long this server's ids and nonces are
    slot,       \* s_cache
    count,      \* s_count
    next,       \* s_next
    nvs,        \* what the NVS string decodes to: entries and their number
    clockValid, \* the clock was synchronised since boot, not too long ago
    now,        \* the time, which the device knows when clockValid
    stage,      \* of the message being handled
    cmd,        \* the command being handled
    recent,     \* history: the commands executed since boot, latest first
    earlier,    \* history: recent, as it was when the device last went down
    dirty,      \* history: the last write to NVS failed
    forgot,     \* history: dirty, as it was when the device last went down
    lost        \* history: the command the last restart kept from being executed

rigid   == <<target, size>>
cache   == <<slot, count, next>>
clock   == <<clockValid, now>>
handler == <<stage, cmd>>
history == <<recent, earlier, dirty, forgot, lost>>
vars    == <<rigid, cache, nvs, clock, handler, history>>

None == [j \in 1..CacheSize |-> NoEntry]
Empty == [i \in Slots |-> NoEntry]

TypeOK ==
    /\ target \in Targets /\ size \in Sizes
    /\ slot \in [Slots -> Entries]
    /\ count \in 0..CacheSize
    /\ next \in Slots
    /\ nvs \in [entry : [Slots -> Entries], n : 0..CacheSize]
    /\ clockValid \in BOOLEAN /\ now \in 0..MaxTime
    /\ stage \in {"idle", "persist", "execute"}
    /\ cmd \in Entries
    /\ recent \in [1..CacheSize -> Entries]
    /\ earlier \in [1..CacheSize -> Entries]
    /\ dirty \in BOOLEAN /\ forgot \in BOOLEAN
    /\ lost \in Entries

Init ==
    /\ target \in Targets /\ size \in Sizes
    /\ slot = Empty /\ count = 0 /\ next = 0
    /\ nvs = [entry |-> Empty, n |-> 0]
    /\ clockValid = FALSE /\ now = 0
    /\ stage = "idle" /\ cmd = NoEntry
    /\ recent = None /\ earlier = None
    /\ dirty = FALSE /\ forgot = FALSE
    /\ lost = NoEntry

----------------------------------------------------------------------------
(* Operators marked "fault" are plausible slips of the definition after    *)
(* them; only the mutation runs use them.                                  *)

Matches(c, e) == c.id = e.id \/ c.nonce = e.nonce

(* replay_seen.                                                            *)
SeenWithout(c) == \E i \in Slots : i < count - 1 /\ Matches(c, slot[i]) \* fault
Seen(c) == \E i \in Slots : i < count /\ Matches(c, slot[i])

(* The clock checks: without a valid clock only the challenge flow passes, *)
(* and then without any expiry.                                            *)
TimelyAnyway(c) == clockValid \/ c \in Challenged \* fault: no expiry test
Timely(c) == IF clockValid THEN now <= ExpiresAt[c] ELSE c \in Challenged

Successor == IF next + 1 = CacheSize THEN 0 ELSE next + 1

(* Bytes of one entry with its separator: "id,nonce;".                     *)
Stride == size.id + size.nonce + 2
Fits(n) == n * Stride <= Blob
IdFits(n) == n * Stride + size.id + 2 <= Blob

(* persist_cache: snprintf stops at the first entry that does not fit, and *)
(* what it wrote of that one stays: with its comma there it is found again,*)
(* its nonce cut short.  The Arduino string has no limit.                  *)
SurvivesLess(n) == n + 1 = count \* fault: the newest entry is left out
Survives(n) ==
    IF target = "arduino" THEN n = count
    ELSE (n = count \/ ~IdFits(n)) /\ (n = 0 \/ IdFits(n - 1))

Encoded(n) ==
    [n |-> n,
     entry |-> [i \in Slots |->
        IF i >= n THEN NoEntry
        ELSE IF target = "arduino" \/ Fits(i + 1) THEN slot[i]
        ELSE [slot[i] EXCEPT !.nonce = Blank]]]

(* load_cache: the Arduino build reads nothing of a string that is longer  *)
(* than its limit.                                                         *)
Readable == target = "idf" \/ Fits(nvs.n)

----------------------------------------------------------------------------
(* command_validation_validate and, as no other task interferes, the RAM   *)
(* half of command_validation_remember_accepted.  A refusal changes nothing.*)
Accept(c) ==
    /\ stage = "idle"
    /\ Timely(c)
    /\ ~Seen(c)
    /\ slot' = [slot EXCEPT ![next] = c]
    /\ count' = IF count < CacheSize THEN count + 1 ELSE count
    /\ next' = Successor
    /\ cmd' = c
    /\ stage' = "persist"
    /\ UNCHANGED <<rigid, nvs, clock, history>>

(* persist_cache; nvs_open may fail, and nobody is told.                   *)
Persist ==
    /\ stage = "persist"
    /\ stage' = "execute"
    /\ \/ /\ \E n \in 0..count : Survives(n) /\ nvs' = Encoded(n)
          /\ dirty' = FALSE
       \/ nvs' = nvs /\ dirty' = TRUE
    /\ UNCHANGED <<rigid, cache, clock, cmd, recent, earlier, forgot, lost>>

(* The dispatch on cmd and the ack.                                        *)
Execute ==
    /\ stage = "execute"
    /\ stage' = "idle"
    /\ cmd' = NoEntry
    /\ recent' = [j \in 1..CacheSize |-> IF j = 1 THEN cmd ELSE recent[j - 1]]
    /\ lost' = IF cmd = lost THEN NoEntry ELSE lost
    /\ UNCHANGED <<rigid, cache, nvs, clock, earlier, dirty, forgot>>

(* A restart, for any reason, at any point; load_cache when it is up.      *)
Load(e, n) ==
    /\ slot' = e
    /\ count' = n
    /\ next' = IF n = CacheSize THEN 0 ELSE n

Restart ==
    /\ IF Readable THEN Load(nvs.entry, nvs.n) ELSE Load(Empty, 0)
    /\ clockValid' = FALSE
    /\ stage' = "idle" /\ cmd' = NoEntry
    /\ recent' = None /\ earlier' = recent
    /\ dirty' = FALSE /\ forgot' = dirty
    /\ lost' = cmd
    /\ UNCHANGED <<rigid, nvs, now>>

(* The time is synchronised, or the last synchronisation is too long ago.  *)
SyncClock ==
    /\ clockValid' = TRUE
    /\ UNCHANGED <<rigid, cache, nvs, now, handler, history>>

LapseClock ==
    /\ clockValid' = FALSE
    /\ UNCHANGED <<rigid, cache, nvs, now, handler, history>>

Advance ==
    /\ now < MaxTime
    /\ now' = now + 1
    /\ UNCHANGED <<rigid, cache, nvs, clockValid, handler, history>>

Next ==
    \/ \E c \in Commands : Accept(c)
    \/ Persist
    \/ Execute
    \/ Restart
    \/ SyncClock
    \/ LapseClock
    \/ Advance

Spec == Init /\ [][Next]_vars /\ WF_vars(Persist) /\ WF_vars(Execute)

----------------------------------------------------------------------------
(* No command is executed whose id or nonce is that of one of the last     *)
(* CacheSize commands executed since boot, however often it is delivered.  *)
NeverTwice ==
    [][stage = "execute" /\ recent'[1] = cmd =>
          \A j \in 1..CacheSize : ~Matches(cmd, recent[j])]_vars

(* After a restart, wherever it struck, the commands executed before it    *)
(* are refused, if the ring fits in its NVS string and its last write      *)
(* succeeded: the last CacheSize of them, less the one whose place a       *)
(* command has taken that the restart kept from being executed.            *)
RingFits == IF target = "arduino" THEN Fits(CacheSize) ELSE IdFits(CacheSize - 1)

RebootRemembers ==
    recent = None /\ stage = "idle" /\ ~forgot /\ RingFits =>
        \A j \in 1..(CacheSize - 1) : earlier[j] # NoEntry => Seen(earlier[j])

(* A command that has expired under a valid clock is not executed again    *)
(* and again, although the ring forgets it.                                *)
ReplayEnds ==
    \A c \in Commands :
        <>[](clockValid /\ now > ExpiresAt[c]) => <>[](cmd # c)

(* docs/contracts/error-codes.md: a replay error tells the server to treat *)
(* its retry as complete, so a command that a restart kept from being      *)
(* executed is not refused as a replay.                                    *)
ReplayMeansDone == stage = "idle" /\ lost # NoEntry => ~Seen(lost)
============================================================================

------------------------ MODULE CommandReplayProofs ------------------------
(***************************************************************************)
(* Proofs about CommandReplay, for every set of commands, ring size and    *)
(* NVS string length.                                                      *)
(***************************************************************************)
EXTENDS CommandReplay, TLAPS

LEMMA EntriesFacts ==
  /\ NoEntry \in Entries
  /\ \A c \in Commands : c \in Entries /\ c.id # Blank /\ c.nonce # Blank
  /\ CacheSize \in Nat \ {0}
  /\ 0 \in Slots
<1>1. \A c \in Commands : c.id \in Ids /\ c.nonce \in Nonces
  BY DEF Ids, Nonces
<1>2. \A c \in Commands : c \in Entries
  <2>1. \A a \in Ids, b \in Nonces : [id |-> a, nonce |-> b] \in Entries
    BY DEF Entries
  <2>2. \A c \in Commands : c = [id |-> c.id, nonce |-> c.nonce]
    BY CommandsAssumption DEF CommandsAssumption
  <2>3. QED
    BY <1>1, <2>1, <2>2, Zenon
<1>3. QED
  BY <1>1, <1>2, CommandsAssumption, CacheSizeAssumption
  DEF CommandsAssumption, CacheSizeAssumption, Entries, NoEntry, Slots

LEMMA TypeInit == Init => TypeOK
<1> SUFFICES ASSUME Init PROVE TypeOK
  OBVIOUS
<1>1. /\ None \in [1..CacheSize -> Entries]
      /\ Empty \in [Slots -> Entries]
  BY EntriesFacts DEF None, Empty
<1>2. clockValid \in BOOLEAN /\ dirty \in BOOLEAN /\ forgot \in BOOLEAN
  BY Zenon DEF Init
<1>3. nvs \in [entry : [Slots -> Entries], n : 0..CacheSize]
  BY <1>1, EntriesFacts DEF Init
<1>4. now \in 0..MaxTime
  BY CommandsAssumption DEF Init, CommandsAssumption
<1>5. QED
  BY <1>1, <1>2, <1>3, <1>4, EntriesFacts DEF Init, TypeOK

LEMMA TypeStep == ASSUME TypeOK, [Next]_vars PROVE TypeOK'
<1> USE DEF rigid, cache, clock, handler, history
<1>1. ASSUME NEW c \in Commands, Accept(c) PROVE TypeOK'
  <2>1. slot' \in [Slots -> Entries] /\ cmd' \in Entries
    BY <1>1, EntriesFacts DEF Accept, TypeOK
  <2>2. count' \in 0..CacheSize /\ next' \in Slots
    BY <1>1, EntriesFacts DEF Accept, TypeOK, Successor, Slots
  <2>3. QED
    BY <1>1, <2>1, <2>2 DEF Accept, TypeOK
<1>2. CASE Persist
  <2>1. dirty' \in BOOLEAN
    BY <1>2, Zenon DEF Persist
  <2>2. nvs' \in [entry : [Slots -> Entries], n : 0..CacheSize]
    <3>1. CASE nvs' = nvs
      BY <3>1 DEF TypeOK
    <3>2. ASSUME NEW n \in 0..count, nvs' = Encoded(n)
          PROVE  nvs' \in [entry : [Slots -> Entries], n : 0..CacheSize]
      <4>1. \A i \in Slots : [slot[i] EXCEPT !.nonce = Blank] \in Entries
        BY DEF TypeOK, Entries
      <4>2. \A i \in Slots : slot[i] \in Entries /\ NoEntry \in Entries
        BY EntriesFacts DEF TypeOK
      <4>3. n \in 0..CacheSize
        BY EntriesFacts DEF TypeOK
      <4>4. QED
        BY <3>2, <4>1, <4>2, <4>3 DEF Encoded
    <3>3. QED
      BY <1>2, <3>1, <3>2 DEF Persist
  <2>3. QED
    BY <1>2, <2>1, <2>2 DEF Persist, TypeOK
<1>3. CASE Execute
  <2>1. recent' \in [1..CacheSize -> Entries]
    BY <1>3, EntriesFacts DEF Execute, TypeOK
  <2>2. QED
    BY <1>3, <2>1, EntriesFacts DEF Execute, TypeOK
<1>4. CASE Restart
  <2>1. clockValid' \in BOOLEAN /\ dirty' \in BOOLEAN /\ forgot' \in BOOLEAN
    BY <1>4, Zenon DEF Restart, TypeOK
  <2>2. ASSUME NEW e \in [Slots -> Entries], NEW n \in 0..CacheSize, Load(e, n)
        PROVE  slot' \in [Slots -> Entries] /\ count' \in 0..CacheSize /\ next' \in Slots
    BY <2>2, EntriesFacts DEF Load, Slots
  <2>3. /\ nvs.entry \in [Slots -> Entries] /\ nvs.n \in 0..CacheSize
        /\ Empty \in [Slots -> Entries] /\ 0 \in 0..CacheSize
    BY EntriesFacts DEF TypeOK, Empty
  <2>4. slot' \in [Slots -> Entries] /\ count' \in 0..CacheSize /\ next' \in Slots
    BY <1>4, <2>2, <2>3 DEF Restart
  <2>5. recent' \in [1..CacheSize -> Entries]
    BY <1>4, EntriesFacts DEF Restart, None
  <2>6. QED
    BY <1>4, <2>1, <2>4, <2>5, EntriesFacts DEF Restart, TypeOK
<1>5. CASE SyncClock \/ LapseClock
  <2>1. clockValid' \in BOOLEAN
    BY <1>5, Zenon DEF SyncClock, LapseClock
  <2>2. QED
    BY <1>5, <2>1 DEF SyncClock, LapseClock, TypeOK
<1>6. CASE Advance
  BY <1>6, CommandsAssumption DEF Advance, TypeOK, CommandsAssumption
<1>7. CASE UNCHANGED vars
  BY <1>7 DEF vars, TypeOK
<1>8. QED
  BY <1>1, <1>2, <1>3, <1>4, <1>5, <1>6, <1>7 DEF Next

(* The ring and its NVS copy keep their shape: the write index stays in    *)
(* the ring and no more than CacheSize entries are counted.                *)
THEOREM TypeCorrect == Spec => []TypeOK
BY TypeInit, TypeStep, PTL DEF Spec

----------------------------------------------------------------------------
(* The slot of the j-th latest entry.                                      *)
Back(j) == IF next >= j THEN next - j ELSE next - j + CacheSize

Holds(i, e) == e # NoEntry => i < count /\ slot[i] = e

(* The ring holds what was executed since boot, latest first; while a      *)
(* command is handled, it is ahead of these.                               *)
Ordered ==
    IF stage = "idle" THEN \A j \in 1..CacheSize : Holds(Back(j), recent[j])
    ELSE /\ Holds(Back(1), cmd)
         /\ \A j \in 1..(CacheSize - 1) : Holds(Back(j + 1), recent[j])

Filling == count < CacheSize => next = count

(* The command being handled is none of the recent ones.                   *)
Fresh ==
    stage # "idle" =>
        cmd \in Commands /\ \A j \in 1..CacheSize : ~Matches(cmd, recent[j])

Window == TypeOK /\ Ordered /\ Filling /\ Fresh

LEMMA AcceptWindow ==
  ASSUME Window, TypeOK', NEW c \in Commands, Accept(c)
  PROVE  Window'
<1> USE EntriesFacts DEF cache, handler, history
<1>1. stage = "idle" /\ stage' = "persist" /\ cmd' = c /\ recent' = recent
  BY DEF Accept
<1>2. /\ slot' = [slot EXCEPT ![next] = c]
      /\ count' = IF count < CacheSize THEN count + 1 ELSE count
      /\ next' = Successor
      /\ next \in Slots /\ count \in 0..CacheSize
  BY DEF Accept, Window, TypeOK
<1>3. Filling'
  BY <1>2 DEF Window, Filling, Successor, Slots
<1>4. Back(1)' = next /\ next < count' /\ slot'[next] = c
  BY <1>2 DEF Window, TypeOK, Filling, Back, Successor, Slots
<1>5. ASSUME NEW j \in 1..(CacheSize - 1)
      PROVE  Holds(Back(j + 1), recent[j])'
  <2>1. Back(j + 1)' = Back(j) /\ Back(j) \in Slots /\ Back(j) # next
    BY <1>2 DEF Back, Successor, Slots
  <2>2. Holds(Back(j), recent[j])
    BY <1>1 DEF Window, Ordered
  <2>3. slot'[Back(j)] = slot[Back(j)] /\ (Back(j) < count => Back(j) < count')
    BY <1>2, <2>1 DEF Window, TypeOK, Slots
  <2>4. QED
    BY <1>1, <2>1, <2>2, <2>3 DEF Holds
<1>6. ASSUME NEW j \in 1..CacheSize PROVE ~Matches(c, recent[j])
  <2>1. CASE recent[j] = NoEntry
    BY <2>1 DEF Matches, NoEntry
  <2>2. CASE recent[j] # NoEntry
    <3>1. Back(j) \in Slots
      BY <1>2 DEF Back, Slots
    <3>2. Back(j) < count /\ slot[Back(j)] = recent[j]
      BY <1>1, <2>2 DEF Window, Ordered, Holds
    <3>3. ~Seen(c)
      BY DEF Accept
    <3>4. QED
      BY <3>1, <3>2, <3>3 DEF Seen
  <2>3. QED
    BY <2>1, <2>2
<1>7. Holds(Back(1), cmd)'
  BY <1>1, <1>4 DEF Holds
<1>8. Ordered'
  BY <1>1, <1>5, <1>7 DEF Ordered
<1>9. Fresh'
  BY <1>1, <1>6 DEF Fresh, Matches
<1>10. QED
  BY <1>3, <1>8, <1>9 DEF Window

LEMMA ExecuteWindow ==
  ASSUME Window, TypeOK', Execute
  PROVE  Window'
<1> USE EntriesFacts DEF cache, handler, history
<1>1. /\ stage = "execute" /\ stage' = "idle"
      /\ recent' = [j \in 1..CacheSize |-> IF j = 1 THEN cmd ELSE recent[j - 1]]
      /\ UNCHANGED <<slot, count, next>>
  BY DEF Execute
<1>2. ASSUME NEW j \in 1..CacheSize PROVE Holds(Back(j), recent[j])'
  <2>1. CASE j = 1
    BY <1>1, <2>1 DEF Window, Ordered, Holds, Back
  <2>2. CASE j # 1
    <3>1. j - 1 \in 1..(CacheSize - 1) /\ recent'[j] = recent[j - 1] /\ (j - 1) + 1 = j
      BY <1>1, <2>2
    <3>2. Holds(Back((j - 1) + 1), recent[j - 1])
      BY <1>1, <3>1 DEF Window, Ordered
    <3>3. QED
      BY <1>1, <3>1, <3>2 DEF Holds, Back
  <2>3. QED
    BY <2>1, <2>2
<1>3. QED
  BY <1>1, <1>2 DEF Window, Ordered, Filling, Fresh

LEMMA WindowStep == ASSUME Window, [Next]_vars PROVE Window'
<1> USE EntriesFacts DEF rigid, cache, clock, handler, history
<1>0. TypeOK'
  BY TypeStep DEF Window
<1>1. ASSUME NEW c \in Commands, Accept(c) PROVE Window'
  BY <1>0, <1>1, AcceptWindow
<1>2. CASE Persist
  <2>1. stage = "persist" /\ stage' = "execute" /\ UNCHANGED <<slot, count, next, cmd, recent>>
    BY <1>2 DEF Persist
  <2>2. QED
    BY <1>0, <2>1 DEF Window, Ordered, Holds, Back, Filling, Fresh, Matches
<1>3. CASE Execute
  BY <1>0, <1>3, ExecuteWindow
<1>4. CASE Restart
  <2>1. stage' = "idle" /\ recent' = None
    BY <1>4 DEF Restart
  <2>2. \E e, n : Load(e, n)
    BY <1>4 DEF Restart
  <2>3. Filling'
    BY <2>2 DEF Load, Filling
  <2>4. Ordered'
    BY <2>1 DEF Ordered, Holds, None
  <2>5. QED
    BY <1>0, <2>1, <2>3, <2>4 DEF Window, Fresh
<1>5. CASE SyncClock \/ LapseClock \/ Advance \/ UNCHANGED vars
  <2>1. UNCHANGED <<slot, count, next, stage, cmd, recent>>
    BY <1>5 DEF SyncClock, LapseClock, Advance, vars
  <2>2. QED
    BY <1>0, <2>1 DEF Window, Ordered, Holds, Back, Filling, Fresh, Matches
<1>6. QED
  BY <1>1, <1>2, <1>3, <1>4, <1>5 DEF Next

(* No command is executed twice within CacheSize commands of one boot, for *)
(* every ring size.                                                        *)
THEOREM ExecutesOnce == Spec => NeverTwice
<1>1. Init => Window
  <2>1. Init => Ordered
    BY DEF Init, Ordered, Holds, None
  <2>2. QED
    BY <2>1, TypeInit DEF Init, Window, Filling, Fresh
<1>2. Window /\ [Next]_vars => Window'
  BY WindowStep
<1>3. ASSUME Window, stage = "execute"
      PROVE  \A j \in 1..CacheSize : ~Matches(cmd, recent[j])
  BY <1>3 DEF Window, Fresh
<1>4. QED
  BY <1>1, <1>2, <1>3, PTL DEF Spec, NeverTwice

----------------------------------------------------------------------------
(* What NVS has of the ring: its ids, all of them.  While a command is     *)
(* accepted and not yet stored, all but its own.                           *)
Same(i) == nvs.entry[i].id = slot[i].id

InStep ==
    ~dirty /\ RingFits =>
        /\ stage # "persist" => /\ nvs.n = count
                                /\ \A i \in Slots : i < count => Same(i)
        /\ stage = "persist" =>
               \A i \in Slots : i < count /\ i # Back(1) => i < nvs.n /\ Same(i)

Memory == Window /\ InStep /\ RebootRemembers

LEMMA ProductMonotone ==
  ASSUME NEW a \in Nat, NEW b \in Nat, NEW s \in Nat, a <= b
  PROVE  a * s <= b * s
<1>1. PICK d \in Nat : b = a + d
  <2>1. b - a \in Nat /\ b = a + (b - a)
    OBVIOUS
  <2>2. QED
    BY <2>1
<1>2. b * s = a * s + d * s /\ d * s \in Nat /\ a * s \in Nat
  BY <1>1
<1>3. QED
  BY <1>2

LEMMA SizeFacts ==
  ASSUME TypeOK
  PROVE  Stride \in Nat /\ size.id \in Nat /\ Blob \in Nat
  BY SizesAssumption, BlobAssumption DEF SizesAssumption, BlobAssumption, TypeOK, Stride

(* If the ring fits, the whole of it is stored, up to the last nonce, and  *)
(* it is read back.                                                        *)
LEMMA AllSurvive ==
  ASSUME TypeOK, RingFits, NEW n \in 0..count, Survives(n)
  PROVE  n = count
<1>1. CASE target = "arduino"
  BY <1>1 DEF Survives
<1>2. CASE target # "arduino"
  <2>1. SUFFICES ASSUME n # count
                 PROVE  FALSE
    OBVIOUS
  <2>2. n \in Nat /\ CacheSize - 1 \in Nat /\ n <= CacheSize - 1
    BY <2>1, EntriesFacts DEF TypeOK
  <2>3. n * Stride <= (CacheSize - 1) * Stride
    BY <2>2, SizeFacts, ProductMonotone
  <2>4. n * Stride \in Int /\ (CacheSize - 1) * Stride \in Int
    BY <2>2, SizeFacts
  <2>5. IdFits(n)
    BY <1>2, <2>3, <2>4, SizeFacts DEF RingFits, IdFits
  <2>6. QED
    BY <1>2, <2>1, <2>5 DEF Survives
<1>3. QED
  BY <1>1, <1>2

LEMMA ReadBack ==
  ASSUME TypeOK, RingFits
  PROVE  Readable
<1>1. CASE target = "idf"
  BY <1>1 DEF Readable
<1>2. CASE target = "arduino"
  <2>1. nvs.n \in Nat /\ CacheSize \in Nat /\ nvs.n <= CacheSize
    BY EntriesFacts DEF TypeOK
  <2>2. nvs.n * Stride <= CacheSize * Stride
    BY <2>1, SizeFacts, ProductMonotone
  <2>3. nvs.n * Stride \in Int /\ CacheSize * Stride \in Int
    BY <2>1, SizeFacts
  <2>4. QED
    BY <1>2, <2>2, <2>3, SizeFacts DEF RingFits, Fits, Readable
<1>3. QED
  BY <1>1, <1>2 DEF TypeOK, Targets

LEMMA PersistInStep ==
  ASSUME Memory, TypeOK', Persist
  PROVE  InStep'
<1>1. SUFFICES ASSUME ~dirty', RingFits'
               PROVE  nvs'.n = count' /\ \A i \in Slots : i < count' => Same(i)'
  BY DEF Persist, InStep
<1>2. /\ UNCHANGED <<target, size, slot, count, next>>
      /\ stage' = "execute"
  BY DEF Persist, rigid, cache
<1>3. RingFits
  BY <1>1, <1>2 DEF RingFits, Fits, IdFits, Stride
<1>4. PICK n \in 0..count : Survives(n) /\ nvs' = Encoded(n)
  BY <1>1, Zenon DEF Persist
<1>5. n = count
  BY <1>3, <1>4, AllSurvive DEF Memory, Window
<1>6. nvs'.n = count
  BY <1>4, <1>5 DEF Encoded
<1>7. ASSUME NEW i \in Slots, i < count
      PROVE  nvs'.entry[i].id = slot[i].id
  <2>1. slot[i] \in Entries
    BY DEF Memory, Window, TypeOK
  <2>2. \/ nvs'.entry[i] = slot[i]
        \/ nvs'.entry[i] = [slot[i] EXCEPT !.nonce = Blank]
    BY <1>4, <1>5, <1>7 DEF Encoded, Memory, Window, TypeOK, Slots
  <2>3. QED
    BY <2>1, <2>2 DEF Entries
<1>8. QED
  BY <1>2, <1>6, <1>7 DEF Same

LEMMA AcceptInStep ==
  ASSUME Memory, TypeOK', NEW c \in Commands, Accept(c)
  PROVE  InStep'
<1> USE EntriesFacts DEF Memory, Window, TypeOK
<1>1. /\ stage = "idle" /\ stage' = "persist"
      /\ slot' = [slot EXCEPT ![next] = c]
      /\ count' = IF count < CacheSize THEN count + 1 ELSE count
      /\ next' = Successor
      /\ UNCHANGED <<target, size, nvs, dirty>>
  BY DEF Accept, rigid, history
<1>2. RingFits' => RingFits
  BY <1>1 DEF RingFits, Fits, IdFits, Stride
<1>3. Back(1)' = next
  BY <1>1 DEF Back, Successor, Slots
<1>4. \A i \in Slots : i < count' /\ i # next => i < count /\ slot'[i] = slot[i]
  BY <1>1 DEF Filling, Slots
<1>5. QED
  BY <1>1, <1>2, <1>3, <1>4 DEF InStep, Same

LEMMA RestartMemory ==
  ASSUME Memory, TypeOK', Restart
  PROVE  InStep' /\ RebootRemembers'
<1> USE EntriesFacts DEF Memory, Window, TypeOK
<1>1. /\ stage' = "idle" /\ earlier' = recent /\ dirty' = FALSE /\ forgot' = dirty
      /\ UNCHANGED <<target, size, nvs>>
  BY DEF Restart, rigid
<1>2. RingFits' => RingFits
  BY <1>1 DEF RingFits, Fits, IdFits, Stride
<1>3. RingFits => slot' = nvs.entry /\ count' = nvs.n
  BY ReadBack DEF Restart, Load
<1>4. InStep'
  BY <1>1, <1>2, <1>3 DEF InStep, Same
<1>5. ASSUME RingFits, ~dirty, NEW j \in 1..(CacheSize - 1), recent[j] # NoEntry
      PROVE  \E i \in Slots : i < nvs.n /\ nvs.entry[i].id = recent[j].id
  <2> DEFINE place == IF stage = "idle" THEN Back(j) ELSE Back(j + 1)
  <2>1. place \in Slots /\ (stage = "persist" => place # Back(1))
    BY DEF Back, Slots
  <2>2. place < count /\ slot[place] = recent[j]
    BY <1>5 DEF Ordered, Holds
  <2>3. place < nvs.n /\ Same(place)
    <3> HIDE DEF place
    <3> QED
      BY <1>5, <2>1, <2>2 DEF InStep
  <2>4. QED
    BY <2>1, <2>2, <2>3 DEF Same
<1>6. RebootRemembers'
  BY <1>1, <1>2, <1>3, <1>5 DEF RebootRemembers, Seen, Matches
<1>7. QED
  BY <1>4, <1>6

LEMMA MemoryStep == ASSUME Memory, [Next]_vars PROVE Memory'
<1>0. TypeOK' /\ Window'
  BY TypeStep, WindowStep DEF Memory, Window
<1>1. ASSUME NEW c \in Commands, Accept(c) PROVE Memory'
  <2>1. stage' = "persist"
    BY <1>1 DEF Accept
  <2>2. QED
    BY <1>0, <1>1, <2>1, AcceptInStep DEF Memory, RebootRemembers
<1>2. CASE Persist
  <2>1. stage' = "execute"
    BY <1>2 DEF Persist
  <2>2. QED
    BY <1>0, <1>2, <2>1, PersistInStep DEF Memory, RebootRemembers
<1>3. CASE Execute
  <2>1. /\ stage = "execute" /\ stage' = "idle"
        /\ recent' = [j \in 1..CacheSize |-> IF j = 1 THEN cmd ELSE recent[j - 1]]
        /\ UNCHANGED <<target, size, slot, count, nvs, dirty>>
    BY <1>3 DEF Execute, rigid, cache, history
  <2>2. recent'[1] = cmd /\ cmd # NoEntry
    BY <2>1, EntriesFacts DEF Memory, Window, Fresh, NoEntry
  <2>3. recent' # None
    BY <2>2, EntriesFacts DEF None
  <2>4. InStep'
    BY <2>1 DEF Memory, InStep, Same, RingFits, Fits, IdFits, Stride
  <2>5. QED
    BY <1>0, <2>3, <2>4 DEF Memory, RebootRemembers
<1>4. CASE Restart
  BY <1>0, <1>4, RestartMemory DEF Memory
<1>5. CASE SyncClock \/ LapseClock \/ Advance \/ UNCHANGED vars
  <2>1. UNCHANGED <<target, size, slot, count, next, nvs, stage, dirty, recent,
                    earlier, forgot>>
    BY <1>5 DEF SyncClock, LapseClock, Advance, vars, rigid, cache, clock, handler,
                history
  <2>2. QED
    BY <1>0, <2>1 DEF Memory, InStep, Same, Back, RebootRemembers, Seen, RingFits,
                      Fits, IdFits, Stride
<1>6. QED
  BY <1>1, <1>2, <1>3, <1>4, <1>5 DEF Next

(* A restart forgets no command it would have to refuse, for every ring    *)
(* that fits in its NVS string, wherever the restart strikes.              *)
THEOREM RestartRemembers == Spec => []RebootRemembers
<1>1. Init => Memory
  <2>1. Init => Window
    <3>1. Init => Ordered
      BY DEF Init, Ordered, Holds, None
    <3>2. QED
      BY <3>1, TypeInit DEF Init, Window, Filling, Fresh
  <2>2. Init => InStep /\ RebootRemembers
    BY EntriesFacts DEF Init, InStep, RebootRemembers, None, Slots
  <2>3. QED
    BY <2>1, <2>2 DEF Memory
<1>2. Memory /\ [Next]_vars => Memory'
  BY MemoryStep
<1>3. Memory => RebootRemembers
  BY DEF Memory
<1>4. QED
  BY <1>1, <1>2, <1>3, PTL DEF Spec
============================================================================

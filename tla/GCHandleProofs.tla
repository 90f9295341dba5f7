--------------------------- MODULE GCHandleProofs ---------------------------
(***************************************************************************)
(* Proofs about GCHandle, for every size of a bitmap word and every range  *)
(* of the hint: the search for a free slot stays inside the bitmap, a      *)
(* table grows only when it is full, no handle gives out a collected       *)
(* object, and the table implements HandleMap.                             *)
(***************************************************************************)
EXTENDS GCHandle, WellFoundedInduction, TLAPS

IInv == TypeOK /\ SearchStaysInside

-----------------------------------------------------------------------------
LEMMA FirstOfIsIn == \A S \in SUBSET Nat : S # {} => FirstOf(S) \in S
<1>. SUFFICES ASSUME NEW S \in SUBSET Nat, S # {} PROVE FirstOf(S) \in S
  OBVIOUS
<1>1. PICK w \in S : \A v \in S : <<v, w>> \notin OpToRel(<, Nat)
  BY WFMin, NatLessThanWellFounded
<1>2. ASSUME NEW v \in S PROVE w <= v
  <2>1. v \in Nat /\ w \in Nat
    OBVIOUS
  <2>2. <<v, w>> \in OpToRel(<, Nat) <=> v < w
    BY <2>1 DEF OpToRel
  <2>3. ~(v < w)
    BY <1>1, <2>2, Zenon
  <2>. QED  BY <2>1, <2>3
<1>. QED  BY <1>2 DEF FirstOf

\* The words before the n-th lie within n words.
LEMMA WordsLieInside ==
  ASSUME NEW w \in Nat, NEW n \in Nat, w < n
  PROVE  w * WordBits + WordBits <= n * WordBits
<1>1. PICK d \in Nat : n = w + 1 + d
  <2>1. n - w - 1 \in Nat /\ n = w + 1 + (n - w - 1)
    OBVIOUS
  <2>. QED  BY <2>1
<1>2. n * WordBits = w * WordBits + WordBits + d * WordBits
  BY <1>1, WordBitsAssumption
<1>3. d * WordBits \in Nat /\ w * WordBits \in Nat
  BY WordBitsAssumption
<1>. QED  BY <1>2, <1>3, WordBitsAssumption

LEMMA SlotsOfTheTable ==
  ASSUME NEW n \in 0..MaxWords
  PROVE  0..(n * WordBits - 1) \subseteq Slots
<1>1. n * WordBits <= MaxWords * WordBits /\ n * WordBits \in Nat /\ MaxWords * WordBits \in Nat
  <2>1. CASE n = MaxWords
    BY <2>1, WordBitsAssumption, MaxWordsAssumption
  <2>2. CASE n < MaxWords
    <3>1. n * WordBits + WordBits <= MaxWords * WordBits
      BY <2>2, WordsLieInside, MaxWordsAssumption
    <3>. QED  BY <3>1, WordBitsAssumption, MaxWordsAssumption
  <2>. QED  BY <2>1, <2>2, MaxWordsAssumption
<1>. QED  BY <1>1 DEF Slots

\* What the two searches find is a word of the table, and it has a free slot.
LEMMA FoundWord ==
  ASSUME NEW n \in Nat, WordsWithRoom(n) # {}, slot_hint \in Nat
  PROVE  LET w == FirstOf(WordsWithRoom(n)) IN w \in 0..(n - 1) /\ ~Full(w)
<1>1. WordsWithRoom(n) \in SUBSET Nat
  BY DEF WordsWithRoom
<1>2. \A w \in WordsWithRoom(n) : w \in 0..(n - 1) /\ ~Full(w)
  BY DEF WordsWithRoom
<1>. QED  BY <1>1, <1>2, FirstOfIsIn

LEMMA FoundSlot ==
  ASSUME NEW w \in Nat, ~Full(w)
  PROVE  FreeSlot(w) \in Word(w) \ bits
<1>1. w * WordBits \in Nat /\ Word(w) \ bits \in SUBSET Nat
  BY WordBitsAssumption DEF Word
<1>2. Word(w) \ bits # {}
  BY DEF Full
<1>. QED  BY <1>1, <1>2, FirstOfIsIn DEF FreeSlot

-----------------------------------------------------------------------------
LEMMA InitOK == Init => IInv
<1>. SUFFICES ASSUME Init PROVE IInv
  OBVIOUS
<1>1. TypeOK
  BY KindsAssumption, HintRangeAssumption, MaxWordsAssumption DEF Init, TypeOK
<1>2. SearchStaysInside
  BY DEF Init, SearchStaysInside
<1>. QED  BY <1>1, <1>2 DEF IInv

LEMMA TakeSlotStep ==
  ASSUME IInv, NEW o \in Objects \union {NULL}, TakeSlot(o), UNCHANGED <<kind, collected>>
  PROVE  IInv'
<1>. DEFINE n == IF words = 0 THEN 1 ELSE words
            w == FirstOf(WordsWithRoom(n))
            s == FreeSlot(w)
<1>1. TypeOK
  BY DEF IInv
<1>2. n \in 1..MaxWords /\ n \in Nat /\ words <= n /\ words \in Nat
  BY <1>1, MaxWordsAssumption DEF TypeOK
<1>3. /\ WordsWithRoom(n) # {} /\ words' = n /\ slot_hint' = w % HintRange
      /\ bits' = bits \union {s} /\ entries' = [entries EXCEPT ![s] = o]
      /\ links' = LinksWith(n, s, o) /\ result' = Handle(s)
  BY DEF TakeSlot, NewSize, HintOf
<1>4. w \in 0..(n - 1) /\ ~Full(w)
  BY <1>1, <1>2, <1>3, FoundWord, HintRangeAssumption DEF TypeOK
<1>. HIDE DEF n, w
<1>5. s \in Word(w) /\ w \in Nat /\ w < n
  BY <1>2, <1>4, FoundSlot
<1>. HIDE DEF s
<1>6. w * WordBits \in Nat /\ n * WordBits \in Nat /\ w * WordBits + WordBits <= n * WordBits
  BY <1>2, <1>5, WordsLieInside, WordBitsAssumption
<1>7. s \in 0..(n * WordBits - 1)
  BY <1>5, <1>6, WordBitsAssumption DEF Word
<1>8. s \in Slots
  BY <1>2, <1>7, SlotsOfTheTable
<1>9. slot_hint' \in 0..(HintRange - 1) /\ slot_hint' <= w
  BY <1>3, <1>5, HintRangeAssumption
<1>10. bits' \subseteq 0..(words' * WordBits - 1)
  <2>1. words * WordBits <= n * WordBits /\ words * WordBits \in Nat
    <3>1. CASE words = n
      BY <3>1, <1>6
    <3>2. CASE words < n
      BY <3>2, <1>2, WordsLieInside, WordBitsAssumption
    <3>. QED  BY <3>1, <3>2, <1>2
  <2>2. \A b \in bits : b \in 0..(words * WordBits - 1)
    BY <1>1 DEF TypeOK
  <2>3. \A b \in bits : b \in 0..(n * WordBits - 1)
    BY <1>6, <2>1, <2>2
  <2>. QED  BY <1>3, <1>7, <2>3
<1>11. TypeOK'
  <2>1. links' \subseteq (1..MaxWords) \X Slots
    BY <1>1, <1>2, <1>3, <1>8 DEF TypeOK, LinksWith
  <2>2. result' \in Nat
    BY <1>1, <1>3, <1>7, <1>6, KindsAssumption DEF Handle, TypeOK
  <2>3. entries' \in [Slots -> Objects \union {NULL}] /\ words' \in 0..MaxWords
    <3>1. entries \in [Slots -> Objects \union {NULL}]
      BY <1>1 DEF TypeOK
    <3>2. entries' = [entries EXCEPT ![s] = o]
      BY <1>3
    <3>3. words' = n
      BY <1>3
    <3>4. entries' \in [Slots -> Objects \union {NULL}]
      BY <3>1, <3>2
    <3>. QED  BY <3>3, <3>4, <1>2
  <2>. QED  BY <1>1, <1>9, <1>10, <2>1, <2>2, <2>3 DEF TypeOK
<1>12. SearchStaysInside'
  BY <1>2, <1>3, <1>5, <1>9 DEF SearchStaysInside
<1>. QED  BY <1>11, <1>12 DEF IInv

LEMMA GrowStep ==
  ASSUME IInv, NEW o \in Objects \union {NULL}, Grow(o), UNCHANGED <<kind, collected>>
  PROVE  IInv'
<1>. DEFINE s == words * WordBits
<1>1. TypeOK
  BY DEF IInv
<1>2. /\ words \in Nat \ {0} /\ words' = 2 * words /\ 2 * words \in 0..MaxWords
      /\ slot_hint' = (words * WordBits + 1) % HintRange
      /\ bits' = bits \union {s} /\ entries' = [entries EXCEPT ![s] = o]
      /\ result' = Handle(s)
  BY <1>1, MaxWordsAssumption DEF Grow, TypeOK, HintAfterGrowth
<1>3. s \in Nat /\ s + WordBits <= (2 * words) * WordBits /\ (2 * words) * WordBits \in Nat
  BY <1>2, WordsLieInside, WordBitsAssumption
<1>4. s \in 0..((2 * words) * WordBits - 1)
  BY <1>3, WordBitsAssumption
<1>5. s \in Slots
  BY <1>2, <1>4, SlotsOfTheTable
<1>6. slot_hint' \in 0..(HintRange - 1)
  BY <1>2, <1>3, HintRangeAssumption
<1>7. bits' \subseteq 0..(words' * WordBits - 1)
  <2>1. \A b \in bits : b \in 0..(words * WordBits - 1)
    BY <1>1 DEF TypeOK
  <2>2. \A b \in bits : b \in 0..((2 * words) * WordBits - 1)
    BY <1>3, <2>1, WordBitsAssumption
  <2>. QED  BY <1>2, <1>4, <2>2
<1>8. links' \subseteq (1..MaxWords) \X Slots
  BY <1>1, <1>2, <1>5 DEF Grow, TypeOK, LinksMoved
<1>9. TypeOK'
  <2>1. result' \in Nat
    BY <1>1, <1>2, <1>3, KindsAssumption DEF Handle, TypeOK
  <2>2. entries' \in [Slots -> Objects \union {NULL}] /\ words' \in 0..MaxWords
    BY <1>1, <1>2 DEF TypeOK
  <2>. QED  BY <1>1, <1>6, <1>7, <1>8, <2>1, <2>2 DEF TypeOK
<1>10. s + 1 \in Word(words)
  BY <1>3, WordBitsAssumption DEF Word
<1>11. s + 1 \notin bits'
  BY <1>1, <1>2, <1>3 DEF TypeOK
<1>12. words \in 0..(words' - 1) /\ ~(Word(words) \subseteq bits')
  BY <1>2, <1>10, <1>11
<1>13. SearchStaysInside'
  BY <1>12 DEF SearchStaysInside, Full, Word
<1>. QED  BY <1>9, <1>13 DEF IInv

\* The steps that leave the size and the hint alone and set no bit.
LEMMA NoNewBits ==
  ASSUME SearchStaysInside, bits' \subseteq bits, UNCHANGED <<words, slot_hint>>
  PROVE  SearchStaysInside'
BY DEF SearchStaysInside, Full, Word

LEMMA SlotOfNumber ==
  ASSUME TypeOK, NEW h \in Numbers, Valid(h)
  PROVE  Slot(h) \in bits /\ Slot(h) \in Slots
<1>1. Slot(h) \in bits
  BY DEF Valid
<1>2. bits \subseteq Slots
  BY SlotsOfTheTable DEF TypeOK
<1>. QED  BY <1>1, <1>2

LEMMA SetTargetStep ==
  ASSUME IInv, NEW h \in Numbers, NEW o \in Objects \union {NULL}, SetTarget(h, o)
  PROVE  IInv'
<1>1. TypeOK /\ SearchStaysInside /\ Valid(h)
  BY DEF IInv, SetTarget
<1>2. Slot(h) \in bits /\ Slot(h) \in Slots /\ words \in 1..MaxWords
  <2>1. Slot(h) \in bits /\ Slot(h) \in Slots
    BY <1>1, SlotOfNumber
  <2>2. words # 0
    <3>. SUFFICES ASSUME words = 0 PROVE FALSE
      OBVIOUS
    <3>1. Slot(h) \in 0..(0 * WordBits - 1)
      BY <1>1, <2>1 DEF TypeOK
    <3>2. 0 * WordBits = 0
      BY WordBitsAssumption
    <3>. HIDE DEF Slot
    <3>. QED  BY <3>1, <3>2
  <2>. QED  BY <1>1, <2>1, <2>2, MaxWordsAssumption DEF TypeOK
<1>3. TypeOK'
  <2>1. links' \subseteq (1..MaxWords) \X Slots
    BY <1>1, <1>2 DEF TypeOK, SetTarget, LinksWith
  <2>2. /\ entries' \in [Slots -> Objects \union {NULL}] /\ result' \in Nat
        /\ UNCHANGED <<kind, words, bits, slot_hint, collected>>
    BY <1>1 DEF TypeOK, SetTarget
  <2>. QED  BY <1>1, <2>1, <2>2 DEF TypeOK
<1>. QED  BY <1>1, <1>3, NoNewBits DEF IInv, SetTarget

LEMMA FreeStep ==
  ASSUME IInv, NEW h \in Numbers, Free(h)
  PROVE  IInv'
<1>1. TypeOK /\ SearchStaysInside
  BY DEF IInv
<1>2. TypeOK'
  BY <1>1 DEF TypeOK, Free, EntryCleared
<1>. QED  BY <1>1, <1>2, NoNewBits DEF IInv, Free

LEMMA CollectStep ==
  ASSUME IInv, NEW o \in Objects, Collect(o)
  PROVE  IInv'
<1>1. TypeOK /\ SearchStaysInside
  BY DEF IInv
<1>2. TypeOK'
  BY <1>1 DEF TypeOK, Collect
<1>. QED  BY <1>1, <1>2, NoNewBits DEF IInv, Collect

LEMMA IInvNext == IInv /\ [Next]_vars => IInv'
<1>. SUFFICES ASSUME IInv, [Next]_vars PROVE IInv'
  OBVIOUS
<1>1. CASE UNCHANGED vars
  BY <1>1, NoNewBits DEF IInv, TypeOK, vars
<1>2. ASSUME NEW o \in Objects \union {NULL}, New(o) PROVE IInv'
  BY <1>2, TakeSlotStep, GrowStep DEF New
<1>3. ASSUME NEW o \in Objects \union {NULL}, NEW h \in Numbers, SetTarget(h, o) PROVE IInv'
  BY <1>3, SetTargetStep
<1>4. ASSUME NEW h \in Numbers, Free(h) PROVE IInv'
  BY <1>4, FreeStep
<1>5. ASSUME NEW o \in Objects, Collect(o) PROVE IInv'
  BY <1>5, CollectStep
<1>. QED  BY <1>1, <1>2, <1>3, <1>4, <1>5 DEF Next

LEMMA IInvAlways == Spec => []IInv
BY InitOK, IInvNext, PTL DEF Spec

-----------------------------------------------------------------------------
(* The state of a table has its types: no bit is set behind its size.       *)
THEOREM TypeCorrect == Spec => []TypeOK
<1>1. IInv => TypeOK
  BY DEF IInv
<1>. QED  BY <1>1, IInvAlways, PTL

(* alloc_handle never reads behind the end of the bitmap (83, 151).         *)
THEOREM SearchAlwaysInside == Spec => []SearchStaysInside
<1>1. IInv => SearchStaysInside
  BY DEF IInv
<1>. QED  BY <1>1, IInvAlways, PTL

(* When the two searches find nothing, nothing is free (74-95).             *)
LEMMA NothingFound ==
  ASSUME IInv, words # 0, WordsWithRoom(words) = {}
  PROVE  \A w \in 0..(words - 1) : Full(w)
<1>. SUFFICES ASSUME NEW w \in 0..(words - 1), ~Full(w) PROVE FALSE
  OBVIOUS
<1>1. TypeOK /\ SearchStaysInside /\ words \in Nat /\ slot_hint \in Nat
  BY MaxWordsAssumption, HintRangeAssumption DEF IInv, TypeOK
<1>2. CASE slot_hint <= w
  BY <1>1, <1>2 DEF WordsWithRoom
<1>3. CASE w < slot_hint
  BY <1>1, <1>3 DEF WordsWithRoom
<1>. QED  BY <1>1, <1>2, <1>3

(* A table grows only when every slot of it is in use (95).                 *)
THEOREM GrowsWhenFull == Spec => GrowsOnlyWhenFull
<1>. DEFINE A == words # 0 /\ words' # words => \A w \in 0..(words - 1) : Full(w)
<1>1. IInv /\ [Next]_vars => [A]_vars
  <2>. SUFFICES ASSUME IInv, Next, words # 0, words' # words
                PROVE  \A w \in 0..(words - 1) : Full(w)
    OBVIOUS
  <2>1. PICK o \in Objects \union {NULL} : Grow(o)
    BY DEF Next, New, TakeSlot, NewSize, SetTarget, Free, Collect
  <2>. QED  BY <2>1, NothingFound DEF Grow
<1>2. Spec => [][A]_vars
  BY <1>1, IInvAlways, PTL DEF Spec
<1>. QED  BY <1>2 DEF GrowsOnlyWhenFull
-----------------------------------------------------------------------------
(* What the entries, the links and the bitmap say of each other.  A slot    *)
(* that is not in use has no object, so that the collector, which does not  *)
(* look at the bitmap, meets only the handles' objects (324); the links     *)
(* that the collector knows are the slots with an object, in the array the  *)
(* table has now (119-146); and the last handle given out is in use.        *)
FreeSlotsAreEmpty == \A s \in Slots : s \notin bits => entries[s] = NULL
LinksAgree == \A w \in Nat, s \in Slots :
    <<w, s>> \in links <=> Weak /\ w = words /\ entries[s] # NULL
EntriesLive == \A s \in Slots : entries[s] \notin collected
ResultInUse == result # 0 => \E s \in bits : result = Handle(s)
EInv == FreeSlotsAreEmpty /\ LinksAgree /\ EntriesLive /\ ResultInUse

\* New puts its object into a slot that is free.
LEMMA NewSlot ==
  ASSUME IInv, NEW o \in Objects \union {NULL}, New(o)
  PROVE  \E s \in Slots \ bits :
            /\ bits' = bits \union {s} /\ entries' = [entries EXCEPT ![s] = o]
            /\ result' = Handle(s) /\ UNCHANGED <<kind, collected>> /\ o \notin collected
            /\ words' \in 1..MaxWords
            /\ \/ links' = LinksWith(words', s, o) /\ (words = 0 \/ words' = words)
               \/ /\ words # 0
                  /\ links' = IF ~Weak THEN links
                              ELSE LinksMoved(words') \union {<<words', s>> : x \in {o} \ {NULL}}
<1>1. TypeOK
  BY DEF IInv
<1>2. UNCHANGED <<kind, collected>> /\ o \notin collected
  BY DEF New
<1>3. ASSUME TakeSlot(o)
      PROVE  \E s \in Slots \ bits :
                /\ bits' = bits \union {s} /\ entries' = [entries EXCEPT ![s] = o]
                /\ result' = Handle(s) /\ words' \in 1..MaxWords
                /\ links' = LinksWith(words', s, o)
                /\ (words = 0 \/ words' = words)
  <2>. DEFINE n == IF words = 0 THEN 1 ELSE words
              w == FirstOf(WordsWithRoom(n))
              s == FreeSlot(w)
  <2>1. n \in 1..MaxWords /\ n \in Nat /\ words \in Nat
    BY <1>1, MaxWordsAssumption DEF TypeOK
  <2>2. /\ WordsWithRoom(n) # {} /\ words' = n
        /\ bits' = bits \union {s} /\ entries' = [entries EXCEPT ![s] = o]
        /\ links' = LinksWith(n, s, o) /\ result' = Handle(s)
    BY <1>3 DEF TakeSlot, NewSize
  <2>3. w \in 0..(n - 1) /\ ~Full(w)
    BY <1>1, <2>1, <2>2, FoundWord, HintRangeAssumption DEF TypeOK
  <2>4. words = 0 \/ n = words
    OBVIOUS
  <2>. HIDE DEF n, w
  <2>6. s \in Word(w) \ bits /\ w \in Nat /\ w < n
    BY <2>1, <2>3, FoundSlot
  <2>. HIDE DEF s
  <2>7. w * WordBits \in Nat /\ n * WordBits \in Nat /\ w * WordBits + WordBits <= n * WordBits
    BY <2>1, <2>6, WordsLieInside, WordBitsAssumption
  <2>8. s \in 0..(n * WordBits - 1)
    BY <2>6, <2>7, WordBitsAssumption DEF Word
  <2>9. s \in Slots \ bits
    BY <2>1, <2>6, <2>8, SlotsOfTheTable
  <2>. QED  BY <2>1, <2>2, <2>4, <2>9
<1>4. ASSUME Grow(o)
      PROVE  \E s \in Slots \ bits :
                /\ bits' = bits \union {s} /\ entries' = [entries EXCEPT ![s] = o]
                /\ result' = Handle(s) /\ words' \in 1..MaxWords /\ words # 0
                /\ links' = IF ~Weak THEN links
                            ELSE LinksMoved(words') \union {<<words', s>> : x \in {o} \ {NULL}}
  <2>. DEFINE s == words * WordBits
  <2>1. /\ words \in Nat \ {0} /\ words' = 2 * words /\ 2 * words \in 1..MaxWords
        /\ bits' = bits \union {s} /\ entries' = [entries EXCEPT ![s] = o]
        /\ result' = Handle(s)
        /\ links' = IF ~Weak THEN links
                    ELSE LinksMoved(2 * words) \union {<<2 * words, s>> : x \in {o} \ {NULL}}
    BY <1>1, <1>4, MaxWordsAssumption DEF Grow, TypeOK
  <2>2. s \in Nat /\ s + WordBits <= (2 * words) * WordBits /\ (2 * words) * WordBits \in Nat
    BY <2>1, WordsLieInside, WordBitsAssumption
  <2>3. s \in 0..((2 * words) * WordBits - 1)
    BY <2>2, WordBitsAssumption
  <2>4. s \in Slots
    BY <2>1, <2>3, SlotsOfTheTable
  <2>5. s \notin bits
    BY <1>1, <2>2 DEF TypeOK
  <2>. HIDE DEF s
  <2>. QED  BY <2>1, <2>4, <2>5
<1>. QED  BY <1>2, <1>3, <1>4 DEF New

LEMMA NewEntries ==
  ASSUME IInv, EInv, NEW o \in Objects \union {NULL}, New(o)
  PROVE  EInv'
<1>1. TypeOK /\ FreeSlotsAreEmpty /\ LinksAgree /\ EntriesLive
  BY DEF IInv, EInv
<1>2. PICK s \in Slots \ bits :
            /\ bits' = bits \union {s} /\ entries' = [entries EXCEPT ![s] = o]
            /\ result' = Handle(s) /\ UNCHANGED <<kind, collected>> /\ o \notin collected
            /\ words' \in 1..MaxWords
            /\ \/ links' = LinksWith(words', s, o) /\ (words = 0 \/ words' = words)
               \/ /\ words # 0
                  /\ links' = IF ~Weak THEN links
                              ELSE LinksMoved(words') \union {<<words', s>> : x \in {o} \ {NULL}}
  BY NewSlot
<1>3. /\ entries'[s] = o /\ entries[s] = NULL
      /\ \A r \in Slots \ {s} : entries'[r] = entries[r]
  BY <1>1, <1>2 DEF TypeOK, FreeSlotsAreEmpty
<1>4. FreeSlotsAreEmpty'
  BY <1>1, <1>2, <1>3 DEF FreeSlotsAreEmpty
<1>5. EntriesLive'
  BY <1>1, <1>2, <1>3 DEF EntriesLive
<1>6. ResultInUse'
  BY <1>2 DEF ResultInUse, Handle
<1>7. LinksAgree'
  <2>. SUFFICES ASSUME NEW v \in Nat, NEW r \in Slots
                PROVE  <<v, r>> \in links' <=> Weak /\ v = words' /\ entries'[r] # NULL
    BY <1>2 DEF LinksAgree, Weak
  <2>0. words' \in Nat /\ words \in Nat
    BY <1>1, <1>2, MaxWordsAssumption DEF TypeOK
  <2>1. CASE links' = LinksWith(words', s, o) /\ (words = 0 \/ words' = words)
    <3>1. words = 0 => \A q \in Slots : entries[q] = NULL
      <4>. SUFFICES ASSUME words = 0, NEW q \in Slots PROVE q \notin bits
        BY <1>1 DEF FreeSlotsAreEmpty
      <4>1. bits \subseteq 0..(0 * WordBits - 1) /\ 0 * WordBits = 0
        BY <1>1, WordBitsAssumption DEF TypeOK
      <4>2. 0..(0 * WordBits - 1) = {}
        BY <4>1
      <4>. QED  BY <4>1, <4>2
    <3>2. <<v, r>> \in links <=> Weak /\ v = words /\ entries[r] # NULL
      BY <1>1 DEF LinksAgree
    <3>3. <<v, r>> \in links' <=> (<<v, r>> \in links \/ (Weak /\ o # NULL /\ v = words' /\ r = s))
      BY <2>1 DEF LinksWith
    <3>. QED  BY <1>2, <1>3, <2>1, <3>1, <3>2, <3>3
  <2>2. CASE /\ words # 0
             /\ links' = IF ~Weak THEN links
                         ELSE LinksMoved(words') \union {<<words', s>> : x \in {o} \ {NULL}}
    <3>1. CASE ~Weak
      BY <1>1, <2>2, <3>1 DEF LinksAgree
    <3>2. CASE Weak
      <4>1. \A q \in Slots : entries[q] # NULL => q < words * WordBits
        <5>1. words * WordBits \in Nat
          BY <2>0, WordBitsAssumption
        <5>2. \A q \in bits : q \in 0..(words * WordBits - 1)
          BY <1>1 DEF TypeOK
        <5>3. \A q \in bits : q < words * WordBits
          BY <5>1, <5>2
        <5>. QED  BY <1>1, <5>3 DEF FreeSlotsAreEmpty
      <4>2. <<v, r>> \in links <=> v = words /\ entries[r] # NULL
        BY <1>1, <3>2 DEF LinksAgree
      <4>3. <<v, r>> \in LinksMoved(words') <=>
              \/ <<v, r>> \in links /\ ~(v = words /\ r < words * WordBits /\ entries[r] # NULL)
              \/ v = words' /\ r < words * WordBits /\ entries[r] # NULL
        BY DEF LinksMoved
      <4>4. <<v, r>> \in LinksMoved(words') <=> v = words' /\ entries[r] # NULL
        BY <4>1, <4>2, <4>3
      <4>5. <<v, r>> \in links' <=>
              (<<v, r>> \in LinksMoved(words') \/ (o # NULL /\ v = words' /\ r = s))
        BY <2>2, <3>2
      <4>. QED  BY <1>2, <1>3, <3>2, <4>4, <4>5
    <3>. QED  BY <3>1, <3>2
  <2>. QED  BY <1>2, <2>1, <2>2
<1>. QED  BY <1>4, <1>5, <1>6, <1>7 DEF EInv

LEMMA SetTargetEntries ==
  ASSUME IInv, EInv, NEW h \in Numbers, NEW o \in Objects \union {NULL}, SetTarget(h, o)
  PROVE  EInv'
<1>1. TypeOK /\ FreeSlotsAreEmpty /\ LinksAgree /\ EntriesLive /\ Valid(h)
  BY DEF IInv, EInv, SetTarget
<1>2. Slot(h) \in bits /\ Slot(h) \in Slots
  BY <1>1, SlotOfNumber
<1>3. /\ entries'[Slot(h)] = o /\ o \notin collected
      /\ \A r \in Slots \ {Slot(h)} : entries'[r] = entries[r]
      /\ result' = 0 /\ UNCHANGED <<kind, words, bits, slot_hint, collected>>
      /\ links' = (IF Weak /\ o = NULL THEN links \ {<<words, Slot(h)>>}
                                       ELSE LinksWith(words, Slot(h), o))
  BY <1>1, <1>2 DEF SetTarget, TypeOK
<1>. HIDE DEF Slot
<1>4. FreeSlotsAreEmpty' /\ EntriesLive' /\ ResultInUse'
  BY <1>1, <1>2, <1>3 DEF FreeSlotsAreEmpty, EntriesLive, ResultInUse
<1>5. LinksAgree'
  BY <1>1, <1>2, <1>3 DEF LinksAgree, LinksWith, Weak
<1>. QED  BY <1>4, <1>5 DEF EInv

LEMMA FreeEntries ==
  ASSUME IInv, EInv, NEW h \in Numbers, Free(h)
  PROVE  EInv'
<1>1. TypeOK /\ FreeSlotsAreEmpty /\ LinksAgree /\ EntriesLive /\ Valid(h)
  BY DEF IInv, EInv, Free
<1>2. Slot(h) \in bits /\ Slot(h) \in Slots
  BY <1>1, SlotOfNumber
<1>3. /\ entries'[Slot(h)] = NULL
      /\ \A r \in Slots \ {Slot(h)} : entries'[r] = entries[r]
      /\ result' = 0 /\ UNCHANGED <<kind, words, slot_hint, collected>>
      /\ links' = links \ {<<words, Slot(h)>>} /\ bits' = bits \ {Slot(h)}
  BY <1>1, <1>2 DEF Free, EntryCleared, TypeOK
<1>. HIDE DEF Slot
<1>4. FreeSlotsAreEmpty' /\ ResultInUse'
  BY <1>1, <1>2, <1>3 DEF FreeSlotsAreEmpty, ResultInUse
<1>5. EntriesLive'
  BY <1>1, <1>3, NullAssumption DEF EntriesLive, TypeOK
<1>6. LinksAgree'
  BY <1>1, <1>2, <1>3 DEF LinksAgree, Weak
<1>. QED  BY <1>4, <1>5, <1>6 DEF EInv

LEMMA CollectEntries ==
  ASSUME IInv, EInv, NEW o \in Objects, Collect(o)
  PROVE  EInv'
<1>1. TypeOK /\ FreeSlotsAreEmpty /\ LinksAgree /\ EntriesLive
  BY DEF IInv, EInv
<1>. DEFINE cleared == {s \in Slots : entries[s] = o /\ <<words, s>> \in links}
<1>2. /\ collected' = collected \union {o}
      /\ entries' = [s \in Slots |-> IF s \in cleared THEN NULL ELSE entries[s]]
      /\ links' = links \ {<<words, s>> : s \in cleared}
      /\ result' = 0 /\ UNCHANGED <<kind, words, bits, slot_hint>>
      /\ ~Weak => \A s \in Slots : entries[s] # o
  BY DEF Collect
<1>3. cleared = {s \in Slots : entries[s] = o}
  BY <1>1, <1>2, NullAssumption, MaxWordsAssumption DEF LinksAgree, TypeOK
<1>. HIDE DEF cleared
<1>4. \A s \in Slots : entries'[s] = IF entries[s] = o THEN NULL ELSE entries[s]
  BY <1>2, <1>3
<1>5. FreeSlotsAreEmpty' /\ ResultInUse'
  BY <1>1, <1>2, <1>4 DEF FreeSlotsAreEmpty, ResultInUse
<1>6. EntriesLive'
  BY <1>1, <1>2, <1>4, NullAssumption DEF EntriesLive, TypeOK
<1>7. LinksAgree'
  BY <1>1, <1>2, <1>3, <1>4 DEF LinksAgree, Weak
<1>. QED  BY <1>5, <1>6, <1>7 DEF EInv

LEMMA EInvInit == Init => EInv
BY NullAssumption DEF Init, EInv, FreeSlotsAreEmpty, LinksAgree, EntriesLive, ResultInUse

LEMMA EInvNext == IInv /\ EInv /\ [Next]_vars => EInv'
<1>. SUFFICES ASSUME IInv, EInv, [Next]_vars PROVE EInv'
  OBVIOUS
<1>1. CASE UNCHANGED vars
  BY <1>1 DEF vars, EInv, FreeSlotsAreEmpty, LinksAgree, EntriesLive, ResultInUse, Weak, Handle
<1>2. ASSUME NEW o \in Objects \union {NULL}, New(o) PROVE EInv'
  BY <1>2, NewEntries
<1>3. ASSUME NEW o \in Objects \union {NULL}, NEW h \in Numbers, SetTarget(h, o) PROVE EInv'
  BY <1>3, SetTargetEntries
<1>4. ASSUME NEW h \in Numbers, Free(h) PROVE EInv'
  BY <1>4, FreeEntries
<1>5. ASSUME NEW o \in Objects, Collect(o) PROVE EInv'
  BY <1>5, CollectEntries
<1>. QED  BY <1>1, <1>2, <1>3, <1>4, <1>5 DEF Next

LEMMA EInvAlways == Spec => [](IInv /\ EInv)
BY InitOK, IInvNext, EInvInit, EInvNext, PTL DEF Spec

(* No handle, of whatever type, gives out an object that the collector has  *)
(* taken: every weak entry is among the links it clears (198-225).          *)
THEOREM NoTargetCollected == Spec => []NoTargetIsCollected
<1>1. IInv /\ EInv => NoTargetIsCollected
  <2>. SUFFICES ASSUME IInv, EInv, NEW h \in Numbers PROVE GetTarget(h) \notin collected
    BY DEF NoTargetIsCollected
  <2>1. TypeOK /\ EntriesLive /\ NULL \notin collected
    BY NullAssumption DEF IInv, EInv, TypeOK
  <2>2. CASE Valid(h)
    BY <2>1, <2>2, SlotOfNumber DEF GetTarget, EntriesLive
  <2>. QED  BY <2>1, <2>2 DEF GetTarget
<1>. QED  BY <1>1, EInvAlways, PTL
-----------------------------------------------------------------------------
(* The refinement: a table is a map from handles to objects.                *)

\* A handle tells its slot and its table.
LEMMA SlotOfHandle ==
  ASSUME TypeOK, NEW s \in Slots
  PROVE  Slot(Handle(s)) = s /\ OfThisTable(Handle(s)) /\ Handle(s) \in Nat \ {0}
<1>1. kind \in 0..3
  BY KindsAssumption DEF TypeOK
<1>2. s \in Nat
  BY DEF Slots
<1>. QED  BY <1>1, <1>2 DEF Slot, Handle, OfThisTable

LEMMA HandleOfSlot ==
  ASSUME TypeOK, NEW h \in Numbers, Valid(h)
  PROVE  h = Handle(Slot(h))
<1>1. kind \in 0..3 /\ h \in Nat /\ h % 8 = kind + 1
  BY KindsAssumption DEF TypeOK, Numbers, Valid, OfThisTable
<1>. QED  BY <1>1 DEF Handle, Slot

\* The abstract map, slot by slot.
LEMMA TargetOfSlot ==
  ASSUME TypeOK
  PROVE  /\ bits \subseteq Slots
         /\ DOMAIN Target = {Handle(s) : s \in bits}
         /\ \A s \in bits : Target[Handle(s)] = entries[s]
         /\ \A s \in Slots : Handle(s) \in DOMAIN Target <=> s \in bits
         /\ \A s, r \in Slots : Handle(s) = Handle(r) => s = r
         /\ \A s \in Slots : Handle(s) \in Given
<1>1. bits \subseteq Slots
  BY SlotsOfTheTable DEF TypeOK
<1>2. DOMAIN Target = {Handle(s) : s \in bits}
  BY DEF Target
<1>3. \A s, r \in Slots : Handle(s) = Handle(r) => s = r
  BY SlotOfHandle
<1>4. ASSUME NEW s \in bits PROVE Target[Handle(s)] = entries[s]
  <2>1. Slot(Handle(s)) = s /\ OfThisTable(Handle(s))
    BY <1>1, SlotOfHandle
  <2>2. s < words * WordBits
    <3>1. words * WordBits \in Nat
      BY WordBitsAssumption, MaxWordsAssumption DEF TypeOK
    <3>. QED  BY <3>1 DEF TypeOK
  <2>3. Target[Handle(s)] = GetTarget(Handle(s))
    BY DEF Target
  <2>4. Valid(Handle(s))
    BY <2>1, <2>2 DEF Valid
  <2>. QED  BY <2>1, <2>3, <2>4 DEF GetTarget
<1>5. \A s \in Slots : Handle(s) \in DOMAIN Target <=> s \in bits
  BY <1>1, <1>2, <1>3
<1>6. \A s \in Slots : Handle(s) \in Given
  BY DEF Given, Handle, TypeOK
<1>. QED  BY <1>1, <1>2, <1>3, <1>4, <1>5, <1>6

TargetShape == /\ DOMAIN Target = {Handle(r) : r \in bits}
               /\ \A r \in bits : Target[Handle(r)] = entries[r]
LEMMA TargetHasShape == TypeOK => TargetShape
BY TargetOfSlot DEF TargetShape

LEMMA MapStart == Init => Map!MapInit
<1>. SUFFICES ASSUME Init PROVE Map!MapInit
  OBVIOUS
<1>1. Target = [h \in {} |-> NULL]
  BY DEF Init, Target
<1>2. Weak \in BOOLEAN
  BY DEF Weak
<1>. QED  BY <1>1, <1>2 DEF Init, Map!MapInit

LEMMA NewIsNew ==
  ASSUME IInv, IInv', EInv, NEW o \in Objects \union {NULL}, New(o)
  PROVE  Map!MapNext
<1>1. TypeOK /\ TypeOK'
  BY DEF IInv
<1>2. PICK s \in Slots \ bits :
         /\ bits' = bits \union {s} /\ entries' = [entries EXCEPT ![s] = o]
         /\ result' = Handle(s) /\ kind' = kind
  BY NewSlot
<1>3. /\ bits \subseteq Slots /\ bits' \subseteq Slots
      /\ DOMAIN Target = {Handle(r) : r \in bits}
      /\ \A r \in bits : Target[Handle(r)] = entries[r]
      /\ Handle(s) \notin DOMAIN Target /\ Handle(s) \in Given
      /\ \A r \in bits : Handle(r) # Handle(s)
  BY <1>1, <1>2, TargetOfSlot
<1>4. \A r \in Slots : Handle(r)' = Handle(r)
  BY <1>2 DEF Handle
<1>5. DOMAIN Target' = {Handle(r)' : r \in bits'} /\ \A r \in bits' : Target'[Handle(r)'] = entries'[r]
  <2>1. TargetShape'
    BY <1>1, TargetHasShape, PTL
  <2>. QED  BY <2>1 DEF TargetShape
<1>6. DOMAIN Target' = DOMAIN Target \union {Handle(s)}
  BY <1>2, <1>3, <1>4, <1>5
<1>7. entries'[s] = o /\ \A r \in bits : entries'[r] = entries[r]
  BY <1>1, <1>2, <1>3 DEF TypeOK
<1>8. Target'[Handle(s)] = o /\ \A r \in bits : Target'[Handle(r)] = Target[Handle(r)]
  BY <1>2, <1>3, <1>4, <1>5, <1>7
<1>9. Target' = [g \in DOMAIN Target \union {Handle(s)} |-> IF g = Handle(s) THEN o ELSE Target[g]]
  <2>1. \A g \in DOMAIN Target \union {Handle(s)} :
            Target'[g] = IF g = Handle(s) THEN o ELSE Target[g]
    BY <1>3, <1>8
  <2>2. Target' = [g \in DOMAIN Target' |-> Target'[g]]
    BY DEF Target
  <2>. QED  BY <1>6, <2>1, <2>2
<1>10. Map!New(Handle(s), o)
  BY <1>2, <1>3, <1>9 DEF Map!New, Map!Used
<1>11. Weak' = Weak
  BY <1>2 DEF Weak
<1>. QED  BY <1>3, <1>10, <1>11 DEF Map!MapNext
\* The steps of the map, from the slot that they change.
LEMMA SetTargetIsSetTarget ==
  ASSUME IInv, IInv', NEW h \in Numbers, NEW o \in Objects \union {NULL}, SetTarget(h, o)
  PROVE  Map!MapNext
<1>1. TypeOK /\ TypeOK' /\ Valid(h)
  BY DEF IInv, SetTarget
<1>2. Slot(h) \in bits /\ Slot(h) \in Slots /\ h = Handle(Slot(h))
  BY <1>1, SlotOfNumber, HandleOfSlot
<1>3. /\ bits' = bits /\ kind' = kind /\ result' = 0
      /\ entries'[Slot(h)] = o /\ \A r \in Slots \ {Slot(h)} : entries'[r] = entries[r]
  BY <1>1, <1>2 DEF SetTarget, TypeOK
<1>. HIDE DEF Slot
<1>4. bits \subseteq Slots /\ TargetShape /\ h \in DOMAIN Target /\ h \in Given
      /\ \A r \in bits : r # Slot(h) => Handle(r) # h
  BY <1>1, <1>2, TargetOfSlot DEF TargetShape
<1>5. TargetShape'
  BY <1>1, TargetHasShape, PTL
<1>6. \A r \in Slots : Handle(r)' = Handle(r)
  BY <1>3 DEF Handle
<1>7. DOMAIN Target' = DOMAIN Target
  BY <1>3, <1>4, <1>5, <1>6 DEF TargetShape
<1>8. \A g \in DOMAIN Target : Target'[g] = IF g = h THEN o ELSE Target[g]
  BY <1>2, <1>3, <1>4, <1>5, <1>6 DEF TargetShape
<1>9. Target' = [Target EXCEPT ![h] = o]
  <2>1. Target' = [g \in DOMAIN Target' |-> Target'[g]]
    BY DEF Target
  <2>2. [Target EXCEPT ![h] = o] = [g \in DOMAIN Target |-> IF g = h THEN o ELSE Target[g]]
    BY DEF Target
  <2>. QED  BY <1>7, <1>8, <2>1, <2>2
<1>10. Map!SetTarget(h, o)
  BY <1>3, <1>4, <1>9 DEF Map!SetTarget, Map!Used
<1>11. Weak' = Weak
  BY <1>3 DEF Weak
<1>. QED  BY <1>4, <1>10, <1>11 DEF Map!MapNext

LEMMA FreeIsFree ==
  ASSUME IInv, IInv', NEW h \in Numbers, Free(h)
  PROVE  Map!MapNext
<1>1. TypeOK /\ TypeOK' /\ Valid(h)
  BY DEF IInv, Free
<1>2. Slot(h) \in bits /\ Slot(h) \in Slots /\ h = Handle(Slot(h))
  BY <1>1, SlotOfNumber, HandleOfSlot
<1>3. /\ bits' = bits \ {Slot(h)} /\ kind' = kind /\ result' = 0
      /\ \A r \in Slots \ {Slot(h)} : entries'[r] = entries[r]
  BY <1>1, <1>2 DEF Free, EntryCleared, TypeOK
<1>. HIDE DEF Slot
<1>4. bits \subseteq Slots /\ TargetShape /\ h \in DOMAIN Target /\ h \in Given
      /\ \A r \in bits : r # Slot(h) => Handle(r) # h
  BY <1>1, <1>2, TargetOfSlot DEF TargetShape
<1>5. TargetShape'
  BY <1>1, TargetHasShape, PTL
<1>6. \A r \in Slots : Handle(r)' = Handle(r)
  BY <1>3 DEF Handle
<1>7. DOMAIN Target' = DOMAIN Target \ {h}
  BY <1>2, <1>3, <1>4, <1>5, <1>6 DEF TargetShape
<1>8. \A g \in DOMAIN Target \ {h} : Target'[g] = Target[g]
  BY <1>2, <1>3, <1>4, <1>5, <1>6 DEF TargetShape
<1>9. Target' = [g \in DOMAIN Target \ {h} |-> Target[g]]
  <2>1. Target' = [g \in DOMAIN Target' |-> Target'[g]]
    BY DEF Target
  <2>. QED  BY <1>7, <1>8, <2>1
<1>10. Map!Free(h)
  BY <1>3, <1>4, <1>9 DEF Map!Free, Map!Used
<1>11. Weak' = Weak
  BY <1>3 DEF Weak
<1>. QED  BY <1>4, <1>10, <1>11 DEF Map!MapNext

\* A weak table forgets the object.  A strong one had no handle of it, and the
\* step only answers nothing, as setting the last handle's target again would.
LEMMA CollectIsCollect ==
  ASSUME IInv, IInv', EInv, NEW o \in Objects, Collect(o)
  PROVE  [Map!MapNext]_<<Weak, Target, result>>
<1>1. TypeOK /\ TypeOK' /\ LinksAgree /\ ResultInUse
  BY DEF IInv, EInv
<1>2. /\ bits' = bits /\ kind' = kind /\ result' = 0
      /\ ~Weak => \A s \in Slots : entries[s] # o
      /\ \A s \in Slots : entries'[s] = IF entries[s] = o /\ <<words, s>> \in links
                                        THEN NULL ELSE entries[s]
  BY DEF Collect
<1>3. \A s \in Slots : entries'[s] = IF entries[s] = o THEN NULL ELSE entries[s]
  <2>1. words \in Nat /\ o # NULL
    BY <1>1, NullAssumption, MaxWordsAssumption DEF TypeOK
  <2>2. \A s \in Slots : entries[s] = o => <<words, s>> \in links
    BY <1>1, <1>2, <2>1 DEF LinksAgree
  <2>. QED  BY <1>2, <2>2
<1>4. bits \subseteq Slots /\ TargetShape
  BY <1>1, TargetOfSlot DEF TargetShape
<1>5. TargetShape'
  BY <1>1, TargetHasShape, PTL
<1>6. \A r \in Slots : Handle(r)' = Handle(r)
  BY <1>2 DEF Handle
<1>7. DOMAIN Target' = DOMAIN Target
  BY <1>2, <1>4, <1>5, <1>6 DEF TargetShape
<1>8. \A g \in DOMAIN Target : Target'[g] = IF Target[g] = o THEN NULL ELSE Target[g]
  BY <1>2, <1>3, <1>4, <1>5, <1>6 DEF TargetShape
<1>9. Target' = [g \in DOMAIN Target |-> Target'[g]]
  BY <1>7 DEF Target
<1>10. Weak' = Weak
  BY <1>2 DEF Weak
<1>11. CASE Weak
  <2>1. Map!Collect(o)
    BY <1>2, <1>8, <1>9, <1>11 DEF Map!Collect, Map!Used
  <2>. QED  BY <1>10, <2>1 DEF Map!MapNext
<1>12. CASE ~Weak
  <2>1. \A g \in DOMAIN Target : Target'[g] = Target[g]
    BY <1>2, <1>4, <1>8, <1>12 DEF TargetShape
  <2>2. Target' = Target
    <3>1. Target = [g \in DOMAIN Target |-> Target[g]]
      BY DEF Target
    <3>. QED  BY <1>9, <2>1, <3>1
  <2>3. CASE result = 0
    BY <1>2, <1>10, <2>2, <2>3
  <2>4. CASE result # 0
    <3>1. PICK s \in bits : result = Handle(s)
      BY <1>1, <2>4 DEF ResultInUse
    <3>2. Handle(s) \in DOMAIN Target /\ Handle(s) \in Given
      BY <1>1, <1>4, TargetOfSlot
    <3>3. Target[Handle(s)] \in Objects \union {NULL}
      BY <1>1, <1>4 DEF TargetShape, TypeOK
    <3>4. Target' = [Target EXCEPT ![Handle(s)] = Target[Handle(s)]]
      BY <2>2 DEF Target
    <3>5. Map!SetTarget(Handle(s), Target[Handle(s)])
      BY <1>2, <3>2, <3>4 DEF Map!SetTarget, Map!Used
    <3>. QED  BY <1>10, <3>2, <3>3, <3>5 DEF Map!MapNext
  <2>. QED  BY <2>3, <2>4
<1>. QED  BY <1>11, <1>12

LEMMA MapStep == IInv /\ IInv' /\ EInv /\ [Next]_vars => [Map!MapNext]_<<Weak, Target, result>>
<1>. SUFFICES ASSUME IInv, IInv', EInv, [Next]_vars
              PROVE  [Map!MapNext]_<<Weak, Target, result>>
  OBVIOUS
<1>1. CASE UNCHANGED vars
  BY <1>1 DEF vars, Weak, Target, Handle, GetTarget, Valid, OfThisTable
<1>2. ASSUME NEW o \in Objects \union {NULL}, New(o) PROVE Map!MapNext
  BY <1>2, NewIsNew
<1>3. ASSUME NEW o \in Objects \union {NULL}, NEW h \in Numbers, SetTarget(h, o)
      PROVE  Map!MapNext
  BY <1>3, SetTargetIsSetTarget
<1>4. ASSUME NEW h \in Numbers, Free(h) PROVE Map!MapNext
  BY <1>4, FreeIsFree
<1>5. ASSUME NEW o \in Objects, Collect(o) PROVE [Map!MapNext]_<<Weak, Target, result>>
  BY <1>5, CollectIsCollect
<1>. QED  BY <1>1, <1>2, <1>3, <1>4, <1>5 DEF Next

(* The table implements HandleMap, with hints, growth and links inside: a   *)
(* handle denotes what it was given until it is set, freed or collected.    *)
THEOREM TableIsMap == Spec => ImplementsMap
<1>1. Init => Map!MapInit
  BY MapStart
<1>2. IInv /\ EInv /\ IInv' /\ [Next]_vars => [Map!MapNext]_<<Weak, Target, result>>
  BY MapStep
<1>. QED  BY <1>1, <1>2, EInvAlways, PTL DEF Spec, ImplementsMap, Map!MapSpec
=============================================================================

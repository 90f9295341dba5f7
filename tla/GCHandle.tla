------------------------------ MODULE GCHandle ------------------------------
(***************************************************************************)
(* One of the four tables of GC handles (gc/GCHandle.cpp:26): a bitmap of  *)
(* the slots in use, the entries, and the hint where the search for a free *)
(* slot starts.  g_HandlesMutex makes every operation one step; only the   *)
(* garbage collector, which clears the weak links it was told of, comes    *)
(* between.                                                                *)
(*                                                                         *)
(* The number of bits of a bitmap word, 32 in the code, and the range of   *)
(* slot_hint, a field of 24 bits, are parameters.  The size of a table is  *)
(* counted in bitmap words.                                                *)
(***************************************************************************)
EXTENDS Naturals

CONSTANTS
    Objects,
    NULL,
    Kinds,          \* the GCHandleTypes of the table that are considered
    WordBits,       \* 32
    HintRange,      \* 2^24: slot_hint is a field of 24 bits
    MaxWords        \* bound: a table does not grow beyond that many words

HANDLE_WEAK == 0
HANDLE_WEAK_TRACK == 1
HANDLE_NORMAL == 2
HANDLE_PINNED == 3

ASSUME NullAssumption == NULL \notin Objects
ASSUME KindsAssumption == Kinds \subseteq 0..3
ASSUME WordBitsAssumption == WordBits \in Nat /\ WordBits >= 2
ASSUME HintRangeAssumption == HintRange \in Nat \ {0}
ASSUME MaxWordsAssumption == MaxWords \in Nat \ {0}

VARIABLES
    kind,           \* type of the table
    words,          \* size / 32; 0 before the first handle
    bits,           \* the slots whose bit in bitmap is set
    entries,        \* entries[s]
    slot_hint,
    links,          \* the addresses the collector knows as weak links: a table
                    \* of w words, and a slot in it
    collected,      \* the objects that the collector took
    result          \* the handle the last operation gave out; 0: none

vars == <<kind, words, bits, entries, slot_hint, links, collected, result>>

Slots == 0..(MaxWords * WordBits - 1)
Word(w) == (w * WordBits)..(w * WordBits + WordBits - 1)
Full(w) == Word(w) \subseteq bits
Weak == kind <= HANDLE_WEAK_TRACK

TypeOK ==
    /\ kind \in Kinds
    /\ words \in 0..MaxWords
    /\ bits \subseteq 0..(words * WordBits - 1)
    /\ entries \in [Slots -> Objects \union {NULL}]
    /\ slot_hint \in 0..(HintRange - 1)
    /\ links \subseteq (1..MaxWords) \X Slots
    /\ collected \subseteq Objects
    /\ result \in Nat

Init ==
    /\ kind \in Kinds
    /\ words = 0 /\ bits = {} /\ slot_hint = 0
    /\ entries = [s \in Slots |-> NULL]
    /\ links = {} /\ collected = {} /\ result = 0

-----------------------------------------------------------------------------
(* The number of a handle, and what GetHandleSlot and GetHandleType make of *)
(* any number (169, 188, 193).                                              *)
Handle(s) == s * 8 + kind + 1
Slot(h) == h \div 8
OfThisTable(h) == h % 8 = kind + 1
Valid(h) == OfThisTable(h) /\ Slot(h) < words * WordBits /\ Slot(h) \in bits
Numbers == 0..(MaxWords * WordBits * 8 + 7)

\* GetTarget (198): NULL for a number that is no handle in use.
GetTarget(h) == IF Valid(h) THEN entries[Slot(h)] ELSE NULL

\* Mutant: a link that is not told to the collector.
UntoldLinks(w, s, o) == links
LinksWith(w, s, o) ==
    IF Weak /\ o # NULL THEN links \union {<<w, s>>} ELSE links

(* The two searches of alloc_handle, from the hint to the end (74) and from *)
(* the start to the hint (83).  The second is bounded by the hint alone.    *)
FirstOf(S) == CHOOSE w \in S : \A v \in S : w <= v
\* Mutant: the second search is missing.
SearchOnce(n) == {w \in slot_hint..(n - 1) : ~Full(w)}
WordsWithRoom(n) ==
    LET fromHint == {w \in slot_hint..(n - 1) : ~Full(w)}
    IN  IF fromHint # {} \/ slot_hint = 0
        THEN fromHint
        ELSE {w \in 0..(slot_hint - 1) : w < n /\ ~Full(w)}

\* Mutant: the hint of the last growth stays.
HintStays(w) == slot_hint
HintOf(w) == w % HintRange
\* Mutant: the first slot of the word, in use or not.
AnySlot(w) == FirstOf(Word(w))
FreeSlot(w) == FirstOf(Word(w) \ bits)

\* Mutant: the first use does not set the size.
OldSize(n) == words
NewSize(n) == n

\* A free slot of the first word with room is taken; the first use of a table
\* gives it one word (57-72).
TakeSlot(o) ==
    LET n == IF words = 0 THEN 1 ELSE words
        w == FirstOf(WordsWithRoom(n))
        s == FreeSlot(w)
    IN  /\ WordsWithRoom(n) # {}
        /\ words' = NewSize(n)
        /\ slot_hint' = HintOf(w)
        /\ bits' = bits \union {s}
        /\ entries' = [entries EXCEPT ![s] = o]
        /\ links' = LinksWith(n, s, o)
        /\ result' = Handle(s)

LinksMoved(n) ==
    LET linked == {s \in Slots : s < words * WordBits /\ entries[s] # NULL}
    IN  (links \ {<<words, s>> : s \in linked}) \union {<<n, s>> : s \in linked}

\* "set i and slot to the next free position": slot_hint = size + 1, which is a
\* number of slots, although the searches count words (148-152).
HintAfterGrowth(n) == (n * WordBits + 1) % HintRange

\* Without room the table doubles, and a weak table tells the collector that
\* its links have moved (96-152).
Grow(o) ==
    LET s == words * WordBits       \* bit 0 of the word (size + 1) / 32
        n == 2 * words
    IN  /\ words # 0 /\ WordsWithRoom(words) = {}
        /\ n <= MaxWords
        /\ words' = n
        /\ slot_hint' = HintAfterGrowth(words)
        /\ bits' = bits \union {s}
        /\ entries' = [entries EXCEPT ![s] = o]
        /\ links' = IF ~Weak THEN links
                    ELSE LinksMoved(n) \union {<<n, s>> : x \in {o} \ {NULL}}
        /\ result' = Handle(s)

\* New and NewWeakref (171, 176); the latter refuses to track resurrection only
\* after it has taken the slot.
New(o) ==
    /\ o \notin collected
    /\ TakeSlot(o) \/ Grow(o)
    /\ UNCHANGED <<kind, collected>>

\* For WEAK_TRACK the next two come past an IL2CPP_NOT_IMPLEMENTED (260, 274),
\* which fails an assertion in debug builds and does nothing in the others; the
\* model is of the others.

\* il2cpp_gchandle_set_target (228).
SetTarget(h, o) ==
    /\ Valid(h) /\ o \notin collected
    /\ entries' = [entries EXCEPT ![Slot(h)] = o]
    /\ links' = (IF Weak /\ o = NULL THEN links \ {<<words, Slot(h)>>}
                                     ELSE LinksWith(words, Slot(h), o))
    /\ result' = 0 /\ UNCHANGED <<kind, words, bits, slot_hint, collected>>

EntryCleared(s) == [entries EXCEPT ![s] = NULL]
\* Free (265): both RemoveWeakLink and the strong case clear the entry.
Free(h) ==
    /\ Valid(h)
    /\ entries' = EntryCleared(Slot(h))
    /\ links' = links \ {<<words, Slot(h)>>}
    /\ bits' = bits \ {Slot(h)}
    /\ result' = 0 /\ UNCHANGED <<kind, words, slot_hint, collected>>

(* The collector takes an object that only weak handles know: it clears the *)
(* links it was told of.  A strong table is a root of the collection.       *)
Collect(o) ==
    /\ o \notin collected
    /\ ~Weak => \A s \in Slots : entries[s] # o
    /\ collected' = collected \union {o}
    /\ LET cleared == {s \in Slots : entries[s] = o /\ <<words, s>> \in links}
       IN  /\ entries' = [s \in Slots |-> IF s \in cleared THEN NULL ELSE entries[s]]
           /\ links' = links \ {<<words, s>> : s \in cleared}
    /\ result' = 0 /\ UNCHANGED <<kind, words, bits, slot_hint>>

Next ==
    \/ \E o \in Objects \union {NULL} : New(o) \/ \E h \in Numbers : SetTarget(h, o)
    \/ \E h \in Numbers : Free(h)
    \/ \E o \in Objects : Collect(o)

Spec == Init /\ [][Next]_vars

-----------------------------------------------------------------------------
(* The second search never reads a word behind the bitmap's end, although   *)
(* only the hint bounds it and growth sets the hint to a number of slots    *)
(* (83, 151): whenever the hint lies behind the end, a word before it has   *)
(* room and ends the search.                                                *)
SearchStaysInside == slot_hint > words => \E w \in 0..(words - 1) : ~Full(w)

(* The table grows only when each of its slots is in use: no freed slot is  *)
(* lost to the search, whatever the hint (74-95).                           *)
GrowsOnlyWhenFull ==
    [][words # 0 /\ words' # words => \A w \in 0..(words - 1) : Full(w)]_vars

(* No handle gives out an object that the collector took (198-225).         *)
NoTargetIsCollected == \A h \in Numbers : GetTarget(h) \notin collected

(* The table implements a map from handles to objects.                      *)
Target == [h \in {Handle(s) : s \in bits} |-> GetTarget(h)]
Given == {s * 8 + k + 1 : s \in Slots, k \in Kinds}
Map == INSTANCE HandleMap WITH weak <- Weak, target <- Target, Numbers <- Given
ImplementsMap == Map!MapSpec
=============================================================================
